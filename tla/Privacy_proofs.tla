--------------------------- MODULE Privacy_proofs ---------------------------
(***************************************************************************)
(* Proofs about the personal data in the vault and its backups, for any    *)
(* number of processes, secrets, subjects, backup runs, crashes, erasures  *)
(* and restores: what was sealed can be read, what was erased is gone, and *)
(* there is a backup that opens.  The vault file is the only thing the     *)
(* processes share, so the invariant is about how far the copy of a        *)
(* process that has seen the file can be from it: by the one secret that   *)
(* the process is writing.                                                 *)
(***************************************************************************)
EXTENDS MCPersons, SequenceTheorems, FiniteSetTheorems, TLAPS

-----------------------------------------------------------------------------
\* The shape of the state.

VaultKey == Proc \cup {NoKey, Legacy}
SealedSecrets == UNION {[S -> VaultKey] : S \in SUBSET SecretName}
VaultContents == [kdf : Proc \cup {NoKey}, secrets : SealedSecrets]
VaultCopy == [at : {"down", "keyed", "migrating", "up"}, key : Proc \cup {NoKey}, kdf : Proc \cup {NoKey},
              secrets : SealedSecrets, fresh : BOOLEAN]
BackupDirectory == [name : Nat, content : [records : SUBSET SecretName, tombstones : SUBSET Subject],
                    vault : VaultContents, has : SUBSET {"content", "vault"}, done : BOOLEAN,
                    shredding : SUBSET Subject]
Holding(p) == vault[p].at \in {"migrating", "up"}

\* What a process is writing is its copy: it migrates, or seals what is submitted, or shreds.
WriteOf(p, n) == [vault |-> Contents(vault[p]), about |-> n]
Shredding(n) ==
    /\ vault[Studio].at = "up" /\ admin.at = "secrets"
    /\ tmp[Studio] = <<WriteOf(Studio, n)>>
    /\ Owner[n] = admin.subject /\ n \notin DOMAIN vault[Studio].secrets
Sealing ==
    /\ vault[Site].at = "up" /\ form.at = "sealing"
    /\ tmp[Site] = <<WriteOf(Site, form.n)>>
    /\ form.n \in DOMAIN vault[Site].secrets
WritesOwn(p) ==
    \/ tmp[p] = <<>> /\ vault[p].at # "migrating"
    \/ tmp[p] = <<WriteOf(p, "kdf")>> /\ vault[p].at = "migrating"
    \/ p = Site /\ Sealing
    \/ p = Studio /\ \E n \in SecretName : Shredding(n)

VaultShape ==
    /\ vaultFile \in VaultContents
    /\ vault \in [Proc -> VaultCopy]
    /\ tmp = [p \in Proc |-> tmp[p]]
    /\ seen \in [Proc -> BOOLEAN] /\ stale \in BOOLEAN /\ saltRaced \in BOOLEAN
    /\ acked \subseteq SecretName

FormOf == [at : {"idle", "sealing"}, n : SecretName \cup {""}]
Findings == [records : SUBSET SecretName, secrets : SUBSET SecretName, known : SUBSET SecretName]
AdminOf == [at : {"idle", "records", "secrets", "export"}, subject : Subject \cup {""},
            todo : SUBSET SecretName, found : Findings]
RunOf == [at : {"idle", "content", "vault", "prune"}, name : Nat]
OwnWrites == \A p \in Proc : WritesOwn(p)

StoresShape ==
    /\ records \subseteq SecretName /\ tombstones \subseteq Subject
    /\ form \in FormOf /\ admin \in AdminOf /\ copying \in [Backup -> RunOf]
    /\ backups \subseteq BackupDirectory
    /\ known \subseteq SecretName
    /\ made \in Nat

\* A call goes on only while its process is up.
CallsAreServed ==
    /\ form.at = "sealing" => form.n \in SecretName /\ vault[Site].at = "up"
    /\ admin.at # "idle" => admin.subject \in Subject /\ vault[Studio].at = "up"
    /\ \A b \in Backup : copying[b].at # "idle" => vault[Studio].at = "up" /\ copying[b].name \in 1..made

PrivacyShape == VaultShape /\ OwnWrites /\ StoresShape /\ CallsAreServed

-----------------------------------------------------------------------------
\* Keys: unless two processes drew a salt, every secret of the file, of a backup and of an
\* open copy is sealed under the salt that stands beside it, and one process migrates.
SealedUnder(f) == \A n \in DOMAIN f.secrets : f.secrets[n] = KeyOf(f)
KeysAgree == ~saltRaced =>
    /\ SealedUnder(vaultFile)
    /\ \A d \in backups : SealedUnder(d.vault)
    /\ \A p \in Proc : vault[p].at # "down" => vault[p].key \in Proc
    /\ \A p \in Proc : Holding(p) => vault[p].kdf = vault[p].key /\ SealedUnder(vault[p])
    /\ \A p \in Proc : vault[p].at = "up" \/ (vault[p].at = "keyed" /\ ~vault[p].fresh) =>
          vaultFile.kdf = vault[p].key
    /\ \A p \in Proc : vault[p].at = "migrating" => vaultFile.kdf = NoKey /\ vault[p].fresh
    /\ \A p, q \in Proc : vault[p].at = "migrating" /\ vault[q].at = "migrating" => p = q
\* What the Studio knew at boot is in its copy, and no export has failed over it.
KnownKept == vault[Studio].at \in {"migrating", "up"} => known \subseteq DOMAIN vault[Studio].secrets
FailedKnown == ~saltRaced => failed = {}

-----------------------------------------------------------------------------
\* The copy of a process that has seen the file.
Synced(p) ==
    \/ tmp[p] = <<>> /\ DOMAIN vault[p].secrets = DOMAIN vaultFile.secrets
    \/ vault[p].at = "migrating" /\ DOMAIN vault[p].secrets = DOMAIN vaultFile.secrets
    \/ p = Site /\ Sealing /\ DOMAIN vault[p].secrets = DOMAIN vaultFile.secrets \cup {form.n}
    \/ p = Studio /\ \E n \in SecretName :
          Shredding(n) /\ DOMAIN vault[p].secrets = DOMAIN vaultFile.secrets \ {n}
CopiesSynced == ~stale => \A p \in Proc : Holding(p) /\ seen[p] => Synced(p)

\* What is still to be shredded is the subject's.
OfTheSubject == admin.at = "secrets" => admin.todo \subseteq SubjectOf(SecretName, admin.subject)

Finds == erased \cup {admin.found}
\* What an erasure has found is not submitted again.
FormIsNew == form.at = "sealing" =>
    /\ form.n \notin records /\ \A e \in Finds : form.n \notin e.records
    /\ tmp[Site] # <<>> => form.n \notin acked /\ \A e \in Finds : form.n \notin e.secrets
\* The erasure at work: the records it has left, and the secrets it has left.
FoundRecords == admin.at \in {"records", "secrets"} =>
    /\ \A n \in admin.found.records \cap records : admin.at = "records" /\ n \in admin.todo
    /\ \A n \in SubjectOf(records, admin.subject) : n \in late \/ (admin.at = "records" /\ n \in admin.todo)
    /\ \A n \in admin.found.secrets : Owner[n] = admin.subject
\* What it found and the Studio knew is in the copy until its turn comes, and in the file at
\* most until its own write of the shredding.
FoundKnown == admin.at = "records" => admin.found.known \subseteq DOMAIN vault[Studio].secrets
ShredOwed == ~stale /\ admin.at = "secrets" =>
    \A n \in admin.found.secrets \cap admin.found.known \cap DOMAIN vaultFile.secrets :
        n \in admin.todo \/ Shredding(n)
\* The erasures that are answered.
ErasedGone == \A e \in erased :
    /\ e.records \cap records = {}
    /\ ~stale => e.secrets \cap e.known \cap DOMAIN vaultFile.secrets = {}
\* A stored submission has its secret in the file.
RecordsNamed ==
    /\ restores \in Nat
    /\ ~stale /\ restores = 0 => records \ late \subseteq DOMAIN vaultFile.secrets

-----------------------------------------------------------------------------
\* Backups.  A copy of the store has its secrets in its own copy of the vault, and until that
\* is made in the vault file; until then it also remembers every erasure that begins.
Excused(d) == late \cup {n \in SecretName : Owner[n] \in d.shredding}
CopiesNamed == ~stale /\ restores = 0 => \A d \in backups :
    IF d.done THEN d.content.records \ Excused(d) \subseteq DOMAIN d.vault.secrets
    ELSE d.content.records \ Excused(d) \subseteq DOMAIN vaultFile.secrets
CopiesWatch == \A d \in backups : ~d.done => d.content.records = {} \/ BusyWith \subseteq d.shredding
\* No two directories and no two runs share a name, and only a run fills a directory.
DirectoriesNamed ==
    /\ \A d \in backups : d.name <= made
    /\ \A d, e \in backups : d.name = e.name => d = e
    /\ \A b \in Backup : copying[b].at = "idle" \/ copying[b].name \in 1..made
    /\ \A b, c \in Backup : b # c /\ copying[b].at # "idle" /\ copying[c].at # "idle" => copying[b].name # copying[c].name
    /\ \A b \in Backup, d \in backups : copying[b].at \in {"content", "vault"} /\ d.done => d.name # copying[b].name
\* As long as runs do not overlap, the run at work has the newest name.
OneRun == ~overlapped => \A b \in Backup : copying[b].at # "idle" =>
    /\ copying[b].name = made
    /\ \A c \in Backup : copying[c].at # "idle" => c = b
    /\ copying[b].at = "prune" => \E d \in backups : d.name = made /\ d.done

-----------------------------------------------------------------------------
\* Lemmas about the secrets of a copy and about a sequence of at most one write.

LEMMA NoSecretsSealed == NoSecrets \in SealedSecrets
<1>1. NoSecrets \in [{} -> VaultKey]
  BY DEF NoSecrets
<1>2. {} \in SUBSET SecretName
  OBVIOUS
<1> QED
  BY <1>1, <1>2 DEF SealedSecrets

LEMMA SealedSecretsOn ==
    ASSUME NEW S \in SUBSET SecretName, NEW f \in [S -> VaultKey]
    PROVE  f \in SealedSecrets
BY DEF SealedSecrets

LEMMA SealedSecretsAre ==
    ASSUME NEW f \in SealedSecrets
    PROVE  DOMAIN f \subseteq SecretName /\ f \in [DOMAIN f -> VaultKey]
BY DEF SealedSecrets

\* Adding a name and leaving one out keep the shape of a copy.
LEMMA SecretAdded ==
    ASSUME NEW f \in SealedSecrets, NEW n \in SecretName, NEW k \in VaultKey
    PROVE  /\ WithSecret(f, n, k) \in SealedSecrets
           /\ DOMAIN WithSecret(f, n, k) = DOMAIN f \cup {n}
           /\ \A m \in DOMAIN f \cup {n} : WithSecret(f, n, k)[m] = IF m = n THEN k ELSE f[m]
<1>0. DOMAIN f \subseteq SecretName /\ f \in [DOMAIN f -> VaultKey]
  BY SealedSecretsAre
<1>2. WithSecret(f, n, k) \in [DOMAIN f \cup {n} -> VaultKey]
  BY <1>0 DEF WithSecret
<1>3. WithSecret(f, n, k) \in SealedSecrets
  BY <1>0, <1>2, SealedSecretsOn
<1> QED
  BY <1>3 DEF WithSecret

LEMMA SecretLeftOut ==
    ASSUME NEW f \in SealedSecrets, NEW n
    PROVE  /\ Restrict(f, DOMAIN f \ {n}) \in SealedSecrets
           /\ DOMAIN Restrict(f, DOMAIN f \ {n}) = DOMAIN f \ {n}
           /\ \A m \in DOMAIN f \ {n} : Restrict(f, DOMAIN f \ {n})[m] = f[m]
<1>0. DOMAIN f \subseteq SecretName /\ f \in [DOMAIN f -> VaultKey]
  BY SealedSecretsAre
<1>1. Restrict(f, DOMAIN f \ {n}) = [m \in DOMAIN f \ {n} |-> f[m]]
  BY DEF Restrict
<1>2. Restrict(f, DOMAIN f \ {n}) \in [DOMAIN f \ {n} -> VaultKey]
  BY <1>0, <1>1
<1>3. Restrict(f, DOMAIN f \ {n}) \in SealedSecrets
  BY <1>0, <1>2, SealedSecretsOn
<1> QED
  BY <1>1, <1>3

LEMMA SecretsResealed ==
    ASSUME NEW f \in SealedSecrets, NEW k \in VaultKey
    PROVE  /\ Reseal(f, k) \in SealedSecrets
           /\ DOMAIN Reseal(f, k) = DOMAIN f
           /\ \A m \in DOMAIN f : Reseal(f, k)[m] = k
<1>0. DOMAIN f \subseteq SecretName
  BY SealedSecretsAre
<1>1. Reseal(f, k) \in [DOMAIN f -> VaultKey]
  BY DEF Reseal
<1>3. Reseal(f, k) \in SealedSecrets
  BY <1>0, <1>1, SealedSecretsOn
<1> QED
  BY <1>3 DEF Reseal

LEMMA OneWritten ==
    ASSUME NEW w
    PROVE  /\ DOMAIN <<w>> = {1} /\ <<w>>[1] = w
           /\ RemoveAt(<<w>>, 1) = <<>>
           /\ <<w>> # <<>> /\ Append(<<>>, w) = <<w>>
<1>1. DOMAIN <<w>> = {1} /\ <<w>>[1] = w /\ <<w>> # <<>> /\ Append(<<>>, w) = <<w>>
  OBVIOUS
<1>2. SubSeq(<<w>>, 1, 1 - 1) = <<>>
  OBVIOUS
<1>3. SubSeq(<<w>>, 1 + 1, Len(<<w>>)) = <<>>
  OBVIOUS
<1>4. RemoveAt(<<w>>, 1) = <<>> \o <<>>
  BY <1>2, <1>3 DEF RemoveAt
<1> QED
  BY <1>1, <1>4

LEMMA NoneWritten == DOMAIN <<>> = {}
OBVIOUS

-----------------------------------------------------------------------------
\* What each step does to the copies.

LEMMA IdleWrites ==
    ASSUME OwnWrites, NEW p \in Proc
    PROVE  /\ vault[p].at \in {"down", "keyed"} => tmp[p] = <<>>
           /\ p = Site /\ form.at = "idle" /\ vault[p].at = "up" => tmp[p] = <<>>
           /\ tmp[p] # <<>> => \E n : tmp[p] = <<WriteOf(p, n)>>
BY PrivacyAssumption DEF OwnWrites, WritesOwn, Sealing, Shredding

\* All but one process keep their copy and what they are writing.
OnlyMoves(p) ==
    /\ vault' \in [Proc -> VaultCopy]
    /\ tmp' = [q \in Proc |-> tmp'[q]]
    /\ \A q \in Proc \ {p} : vault'[q] = vault[q] /\ tmp'[q] = tmp[q]

LEMMA ReadMove ==
    ASSUME VaultShape, OwnWrites, NEW p \in Proc, ReadVaultKdf(p)
    PROVE  /\ OnlyMoves(p) /\ vault[p].at = "down" /\ tmp'[p] = <<>>
           /\ vault'[p].at = "keyed"
           /\ vault'[p].fresh = (vaultFile.kdf = NoKey)
           /\ vault'[p].key = (IF vaultFile.kdf = NoKey THEN p ELSE vaultFile.kdf)
           /\ UNCHANGED <<vaultFile, vaultHistory, crashes>>
<1> DEFINE v == [at |-> "keyed", key |-> IF vaultFile.kdf = NoKey THEN p ELSE vaultFile.kdf,
                 kdf |-> NoKey, secrets |-> NoSecrets, fresh |-> (vaultFile.kdf = NoKey)]
<1>1. vault' = [vault EXCEPT ![p] = v] /\ UNCHANGED <<vaultFile, tmp, vaultHistory, crashes>>
  <2>1. [Down EXCEPT !.at = "keyed", !.fresh = vaultFile.kdf = NoKey,
                     !.key = IF vaultFile.kdf = NoKey THEN SaltOf(p) ELSE vaultFile.kdf] = v
    <3>1. ASSUME NEW r \in VaultCopy, NEW f \in BOOLEAN, NEW k \in Proc \cup {NoKey}
          PROVE  [r EXCEPT !.at = "keyed", !.fresh = f, !.key = k] =
                    [at |-> "keyed", key |-> k, kdf |-> r.kdf, secrets |-> r.secrets, fresh |-> f]
      <4> DEFINE r1 == [r EXCEPT !.at = "keyed"]
      <4>1. r1 \in VaultCopy /\ r1 = [at |-> "keyed", key |-> r.key, kdf |-> r.kdf, secrets |-> r.secrets, fresh |-> r.fresh]
        BY DEF VaultCopy
      <4> HIDE DEF r1
      <4> DEFINE r2 == [r1 EXCEPT !.fresh = f]
      <4>2. r2 \in VaultCopy /\ r2 = [at |-> "keyed", key |-> r.key, kdf |-> r.kdf, secrets |-> r.secrets, fresh |-> f]
        BY <4>1 DEF VaultCopy
      <4> HIDE DEF r2
      <4>3. [r2 EXCEPT !.key = k] = [at |-> "keyed", key |-> k, kdf |-> r.kdf, secrets |-> r.secrets, fresh |-> f]
        BY <4>2 DEF VaultCopy
      <4> QED
        BY <4>3, Zenon DEF r1, r2
    <3>2. Down \in VaultCopy /\ Down.kdf = NoKey /\ Down.secrets = NoSecrets
      BY NoSecretsSealed DEF Down, VaultCopy
    <3>3. (vaultFile.kdf = NoKey) \in BOOLEAN
          /\ (IF vaultFile.kdf = NoKey THEN p ELSE vaultFile.kdf) \in Proc \cup {NoKey}
      BY DEF VaultShape, VaultContents
    <3> QED
      BY <3>1, <3>2, <3>3 DEF SaltOf
  <2> QED
    BY <2>1 DEF ReadVaultKdf
<1>2. v \in VaultCopy
  BY NoSecretsSealed DEF VaultShape, VaultCopy, VaultContents
<1>3. tmp[p] = <<>> /\ vault[p].at = "down"
  BY IdleWrites DEF ReadVaultKdf
<1>4. vault'[p] = v
  BY <1>1 DEF VaultShape
<1>5. OnlyMoves(p)
  BY <1>1, <1>2 DEF OnlyMoves, VaultShape
<1> QED
  BY <1>1, <1>3, <1>4, <1>5

LEMMA OpenMove ==
    ASSUME VaultShape, OwnWrites, NEW p \in Proc, OpenVault(p)
    PROVE  /\ OnlyMoves(p) /\ vault[p].at = "keyed" /\ tmp[p] = <<>>
           /\ DOMAIN vault'[p].secrets = DOMAIN vaultFile.secrets
           /\ vault'[p].key = vault[p].key /\ vault'[p].fresh = vault[p].fresh
           /\ \/ /\ vault[p].fresh /\ vaultFile.kdf = NoKey
                 /\ vault'[p].at = "migrating" /\ vault'[p].kdf = vault[p].key
                 /\ \A n \in DOMAIN vault'[p].secrets : vault'[p].secrets[n] = vault[p].key
                 /\ tmp'[p] = <<[vault |-> Contents(vault'[p]), about |-> "kdf"]>>
              \/ /\ ~(vault[p].fresh /\ vaultFile.kdf = NoKey)
                 /\ vault'[p].at = "up" /\ vault'[p].kdf = vaultFile.kdf
                 /\ vault'[p].secrets = vaultFile.secrets
                 /\ tmp'[p] = <<>>
           /\ seen' = [seen EXCEPT ![p] = TRUE]
           /\ saltRaced' = (saltRaced \/ (vault[p].fresh /\ (vaultFile.kdf # NoKey \/ \E q \in Proc \ {p} : vault[q].fresh)))
           /\ UNCHANGED <<vaultFile, acked, stale, crashes>>
<1>1. vault[p].at = "keyed" /\ tmp[p] = <<>>
  BY IdleWrites DEF OpenVault
<1>2. vault[p] \in VaultCopy /\ vaultFile \in VaultContents
  BY DEF VaultShape
<1>3. CASE vault[p].fresh /\ vaultFile.kdf = NoKey
  <2> DEFINE v == [at |-> "migrating", key |-> vault[p].key, kdf |-> vault[p].key,
                   secrets |-> Reseal(vaultFile.secrets, vault[p].key), fresh |-> vault[p].fresh]
  <2>1. Migrated([vault[p] EXCEPT !.at = "migrating"], vaultFile) = v
    <3> DEFINE u == [at |-> "migrating", key |-> vault[p].key, kdf |-> vault[p].kdf,
                     secrets |-> vault[p].secrets, fresh |-> vault[p].fresh]
    <3>1. [vault[p] EXCEPT !.at = "migrating"] = u /\ u \in VaultCopy
      BY <1>2 DEF VaultCopy
    <3>2. ASSUME NEW r \in VaultCopy, NEW k \in Proc \cup {NoKey}, NEW s \in SealedSecrets
          PROVE  [r EXCEPT !.kdf = k, !.secrets = s] =
                    [at |-> r.at, key |-> r.key, kdf |-> k, secrets |-> s, fresh |-> r.fresh]
      <4> DEFINE r1 == [r EXCEPT !.kdf = k]
      <4>1. r1 \in VaultCopy /\ r1 = [at |-> r.at, key |-> r.key, kdf |-> k, secrets |-> r.secrets, fresh |-> r.fresh]
        BY DEF VaultCopy
      <4> HIDE DEF r1
      <4>2. [r1 EXCEPT !.secrets = s] = [at |-> r.at, key |-> r.key, kdf |-> k, secrets |-> s, fresh |-> r.fresh]
        BY <4>1 DEF VaultCopy
      <4> QED
        BY <4>2, Zenon DEF r1
    <3>4. Reseal(vaultFile.secrets, vault[p].key) \in SealedSecrets /\ vault[p].key \in Proc \cup {NoKey}
      BY <1>2, SecretsResealed DEF VaultCopy, VaultContents, VaultKey
    <3>3. u.at = "migrating" /\ u.key = vault[p].key /\ u.fresh = vault[p].fresh
      OBVIOUS
    <3> HIDE DEF u
    <3>5. Migrated(u, vaultFile) = [u EXCEPT !.kdf = u.key, !.secrets = Reseal(vaultFile.secrets, u.key)]
      BY Zenon DEF Migrated
    <3> HIDE DEF v
    <3>6. u.key \in Proc \cup {NoKey} /\ Reseal(vaultFile.secrets, u.key) \in SealedSecrets
      BY <3>3, <3>4
    <3>7. Migrated(u, vaultFile) = [at |-> u.at, key |-> u.key, kdf |-> u.key,
                                    secrets |-> Reseal(vaultFile.secrets, u.key), fresh |-> u.fresh]
      BY <3>1, <3>2, <3>5, <3>6, Zenon
    <3> QED
      BY <3>1, <3>3, <3>7, Zenon DEF v
  <2>2. vault' = [vault EXCEPT ![p] = v]
    BY <1>3, <2>1 DEF OpenVault, Persist
  <2>3. tmp' = [tmp EXCEPT ![p] = Append(@, [vault |-> Contents(v), about |-> "kdf"])]
    BY <1>3, <2>1 DEF OpenVault, Persist
  <2>4. vault[p].key \in VaultKey /\ vaultFile.secrets \in SealedSecrets
    BY <1>2 DEF VaultCopy, VaultKey, VaultContents
  <2>5. v \in VaultCopy /\ DOMAIN v.secrets = DOMAIN vaultFile.secrets
        /\ \A n \in DOMAIN v.secrets : v.secrets[n] = vault[p].key
    BY <1>2, <2>4, SecretsResealed DEF VaultCopy
  <2>6. vault'[p] = v
    BY <2>2 DEF VaultShape
  <2> HIDE DEF v
  <2>7. tmp'[p] = <<[vault |-> Contents(v), about |-> "kdf"]>>
    BY <1>1, <2>3, OneWritten DEF VaultShape
  <2>8. OnlyMoves(p)
    BY <2>2, <2>3, <2>5 DEF OnlyMoves, VaultShape
  <2> USE DEF v
  <2>9. v.key = vault[p].key /\ v.fresh = vault[p].fresh /\ v.at = "migrating" /\ v.kdf = vault[p].key
    OBVIOUS
  <2> HIDE DEF v
  <2> QED
    BY <1>1, <1>3, <2>5, <2>6, <2>7, <2>8, <2>9 DEF OpenVault
<1>4. CASE ~(vault[p].fresh /\ vaultFile.kdf = NoKey)
  <2> DEFINE v == [at |-> "up", key |-> vault[p].key, kdf |-> vaultFile.kdf,
                   secrets |-> vaultFile.secrets, fresh |-> vault[p].fresh]
  <2>1. vault' = [vault EXCEPT ![p] = v] /\ UNCHANGED tmp
    BY <1>2, <1>4 DEF OpenVault, VaultShape, VaultCopy
  <2>2. v \in VaultCopy
    BY <1>2 DEF VaultCopy, VaultContents
  <2>3. vault'[p] = v
    BY <2>1 DEF VaultShape
  <2>4. OnlyMoves(p)
    BY <2>1, <2>2 DEF OnlyMoves, VaultShape
  <2> QED
    BY <1>1, <1>4, <2>1, <2>3, <2>4 DEF OpenVault
<1> QED
  BY <1>3, <1>4

LEMMA SetMove ==
    ASSUME VaultShape, NEW p \in Proc, NEW n \in SecretName, SetSecret(p, n), tmp[p] = <<>>
    PROVE  /\ OnlyMoves(p) /\ vault[p].at = "up"
           /\ vault'[p].at = "up" /\ vault'[p].key = vault[p].key /\ vault'[p].kdf = vault[p].kdf
           /\ vault'[p].fresh = vault[p].fresh
           /\ DOMAIN vault'[p].secrets = DOMAIN vault[p].secrets \cup {n}
           /\ \A m \in DOMAIN vault'[p].secrets :
                 vault'[p].secrets[m] = IF m = n THEN vault[p].key ELSE vault[p].secrets[m]
           /\ tmp'[p] = <<[vault |-> Contents(vault'[p]), about |-> n]>>
           /\ UNCHANGED <<vaultFile, seen, acked, stale, saltRaced, crashes>>
<1> DEFINE v == [vault[p] EXCEPT !.secrets = WithSecret(vault[p].secrets, n, vault[p].key)]
<1>1. vault' = [vault EXCEPT ![p] = v] /\ tmp' = [tmp EXCEPT ![p] = Append(@, [vault |-> Contents(v), about |-> n])]
  BY DEF SetSecret, Persist
<1>2. vault[p] \in VaultCopy
  BY DEF VaultShape
<1>3. vault[p].secrets \in SealedSecrets /\ vault[p].key \in VaultKey
  BY <1>2 DEF VaultCopy, VaultKey
<1>4. /\ v \in VaultCopy /\ v.at = vault[p].at /\ v.key = vault[p].key /\ v.kdf = vault[p].kdf
      /\ v.fresh = vault[p].fresh /\ v.secrets = WithSecret(vault[p].secrets, n, vault[p].key)
  BY <1>2, <1>3, SecretAdded DEF VaultCopy
<1>5. vault'[p] = v
  BY <1>1 DEF VaultShape
<1> HIDE DEF v
<1>6. tmp'[p] = <<[vault |-> Contents(v), about |-> n]>>
  BY <1>1, OneWritten DEF VaultShape
<1>7. OnlyMoves(p)
  BY <1>1, <1>4 DEF OnlyMoves, VaultShape
<1>8. /\ DOMAIN v.secrets = DOMAIN vault[p].secrets \cup {n}
      /\ \A m \in DOMAIN v.secrets : v.secrets[m] = IF m = n THEN vault[p].key ELSE vault[p].secrets[m]
  <2>1. /\ DOMAIN WithSecret(vault[p].secrets, n, vault[p].key) = DOMAIN vault[p].secrets \cup {n}
        /\ \A m \in DOMAIN vault[p].secrets \cup {n} :
              WithSecret(vault[p].secrets, n, vault[p].key)[m] = IF m = n THEN vault[p].key ELSE vault[p].secrets[m]
    BY <1>3, SecretAdded
  <2> QED
    BY <1>4, <2>1
<1> QED
  BY <1>4, <1>5, <1>6, <1>7, <1>8 DEF SetSecret

LEMMA DeleteMove ==
    ASSUME VaultShape, NEW p \in Proc, NEW n \in SecretName, DeleteSecret(p, n), tmp[p] = <<>>
    PROVE  /\ OnlyMoves(p) /\ vault[p].at = "up"
           /\ vault'[p].at = "up" /\ vault'[p].key = vault[p].key /\ vault'[p].kdf = vault[p].kdf
           /\ vault'[p].fresh = vault[p].fresh
           /\ DOMAIN vault'[p].secrets = DOMAIN vault[p].secrets \ {n}
           /\ \A m \in DOMAIN vault'[p].secrets : vault'[p].secrets[m] = vault[p].secrets[m]
           /\ tmp'[p] = <<[vault |-> Contents(vault'[p]), about |-> n]>>
           /\ UNCHANGED <<vaultFile, seen, acked, stale, saltRaced, crashes>>
<1> DEFINE v == [vault[p] EXCEPT !.secrets = Restrict(vault[p].secrets, DOMAIN vault[p].secrets \ {n})]
<1>1. vault' = [vault EXCEPT ![p] = v] /\ tmp' = [tmp EXCEPT ![p] = Append(@, [vault |-> Contents(v), about |-> n])]
  BY DEF DeleteSecret, Persist
<1>2. vault[p] \in VaultCopy
  BY DEF VaultShape
<1>3. vault[p].secrets \in SealedSecrets
  BY <1>2 DEF VaultCopy
<1>4. /\ v \in VaultCopy /\ v.at = vault[p].at /\ v.key = vault[p].key /\ v.kdf = vault[p].kdf
      /\ v.fresh = vault[p].fresh /\ v.secrets = Restrict(vault[p].secrets, DOMAIN vault[p].secrets \ {n})
  BY <1>2, <1>3, SecretLeftOut DEF VaultCopy
<1>5. vault'[p] = v
  BY <1>1 DEF VaultShape
<1> HIDE DEF v
<1>6. tmp'[p] = <<[vault |-> Contents(v), about |-> n]>>
  BY <1>1, OneWritten DEF VaultShape
<1>7. OnlyMoves(p)
  BY <1>1, <1>4 DEF OnlyMoves, VaultShape
<1>8. /\ DOMAIN v.secrets = DOMAIN vault[p].secrets \ {n}
      /\ \A m \in DOMAIN v.secrets : v.secrets[m] = vault[p].secrets[m]
  <2> DEFINE old == vault[p].secrets
  <2>1. /\ DOMAIN Restrict(old, DOMAIN old \ {n}) = DOMAIN old \ {n}
        /\ \A m \in DOMAIN old \ {n} : Restrict(old, DOMAIN old \ {n})[m] = old[m]
    BY <1>3, SecretLeftOut
  <2> QED
    BY <1>4, <2>1
<1> QED
  BY <1>4, <1>5, <1>6, <1>7, <1>8 DEF DeleteSecret

LEMMA RenameMove ==
    ASSUME VaultShape, OwnWrites, NEW p \in Proc, Rename(p)
    PROVE  /\ OnlyMoves(p) /\ tmp'[p] = <<>>
           /\ Holding(p) /\ vault'[p].at = "up" /\ vault'[p].key = vault[p].key /\ vault'[p].kdf = vault[p].kdf
           /\ vault'[p].fresh = vault[p].fresh /\ vault'[p].secrets = vault[p].secrets
           /\ vaultFile' = Contents(vault[p]) /\ vaultFile' \in VaultContents
           /\ seen' = [q \in Proc |-> q = p]
           /\ stale' = (stale \/ ~seen[p])
           /\ \E n : /\ tmp[p] = <<WriteOf(p, n)>> /\ acked' \subseteq SecretName
                     /\ acked' \subseteq acked \cup {n}
                     /\ n \notin DOMAIN vault[p].secrets => acked' \subseteq acked
           /\ UNCHANGED <<saltRaced, crashes>>
<1>1. PICK i \in DOMAIN tmp[p] :
          /\ vaultFile' = tmp[p][i].vault
          /\ tmp' = [tmp EXCEPT ![p] = RemoveAt(@, i)]
          /\ seen' = [q \in Proc |-> q = p]
          /\ stale' = (stale \/ ~seen[p] \/ i # 1)
          /\ acked' = IF tmp[p][i].about \notin SecretName THEN acked
                      ELSE IF tmp[p][i].about \in DOMAIN tmp[p][i].vault.secrets THEN acked \cup {tmp[p][i].about}
                      ELSE acked \ {tmp[p][i].about}
          /\ vault' = [vault EXCEPT ![p].at = IF @ = "migrating" THEN "up" ELSE @]
          /\ UNCHANGED <<saltRaced, crashes>>
  BY DEF Rename, Renamed
<1>2. tmp[p] # <<>>
  BY <1>1, NoneWritten
<1>3. PICK n : tmp[p] = <<WriteOf(p, n)>>
  BY <1>2, IdleWrites
<1>4. i = 1 /\ tmp[p][i] = WriteOf(p, n) /\ RemoveAt(tmp[p], i) = <<>>
  BY <1>1, <1>3, OneWritten
<1>5. vaultFile' = Contents(vault[p]) /\ tmp[p][i].about = n /\ tmp[p][i].vault = Contents(vault[p])
  BY <1>1, <1>4 DEF WriteOf
<1>6. Contents(vault[p]) \in VaultContents /\ Contents(vault[p]).secrets = vault[p].secrets
  BY DEF VaultShape, VaultCopy, VaultContents, Contents
<1>7. vault[p].at = "migrating" \/ vault[p].at = "up"
  BY <1>2, IdleWrites DEF VaultShape, VaultCopy
<1>8. vault' = [vault EXCEPT ![p] = [vault[p] EXCEPT !.at = "up"]]
  BY <1>1, <1>7 DEF VaultShape, VaultCopy
<1>9. tmp' = [tmp EXCEPT ![p] = <<>>]
  BY <1>1, <1>4
<1>10. OnlyMoves(p)
  BY <1>8, <1>9 DEF OnlyMoves, VaultShape, VaultCopy
<1>11. /\ tmp'[p] = <<>> /\ vault'[p].at = "up" /\ vault'[p].key = vault[p].key /\ vault'[p].kdf = vault[p].kdf
       /\ vault'[p].fresh = vault[p].fresh /\ vault'[p].secrets = vault[p].secrets
  BY <1>8, <1>9 DEF VaultShape, VaultCopy
<1>12. /\ acked' \subseteq SecretName /\ acked' \subseteq acked \cup {n}
       /\ n \notin DOMAIN vault[p].secrets => acked' \subseteq acked
  BY <1>1, <1>5, <1>6 DEF VaultShape
<1> QED
  BY <1>1, <1>3, <1>4, <1>5, <1>6, <1>7, <1>10, <1>11, <1>12 DEF Holding

LEMMA CrashMove ==
    ASSUME VaultShape, NEW p \in Proc, CrashVault(p)
    PROVE  /\ OnlyMoves(p) /\ vault'[p] = Down /\ tmp'[p] = <<>>
           /\ UNCHANGED <<vaultFile, vaultHistory>>
<1>1. Down \in VaultCopy
  BY NoSecretsSealed DEF Down, VaultCopy
<1> QED
  BY <1>1 DEF CrashVault, OnlyMoves, VaultShape

-----------------------------------------------------------------------------
\* The shape of the state is kept.

LEMMA InitPrivacyShape == PrivacyInit => PrivacyShape
<1> SUFFICES ASSUME PrivacyInit PROVE PrivacyShape
  OBVIOUS
<1>1. Legacy \in VaultKey /\ NoSecrets \in SealedSecrets
  BY NoSecretsSealed DEF VaultKey
<1>2. \A n \in Old : WithSecret(NoSecrets, n, Legacy) \in SealedSecrets
  BY <1>1, SecretAdded, VaultAssumption
<1>3. vaultFile \in VaultContents
  BY <1>1, <1>2 DEF PrivacyInit, VaultInit, VaultContents
<1>4. Down \in VaultCopy
  BY <1>1 DEF Down, VaultCopy
<1>5. DOMAIN vaultFile.secrets \subseteq SecretName
  BY <1>3, SealedSecretsAre DEF VaultContents
<1>6. VaultShape
  BY <1>3, <1>4, <1>5 DEF PrivacyInit, VaultInit, VaultShape
<1>7. OwnWrites
  BY DEF PrivacyInit, VaultInit, OwnWrites, WritesOwn, Down
<1>8. StoresShape /\ CallsAreServed
  BY <1>5 DEF PrivacyInit, StoresShape, CallsAreServed, FormOf, AdminOf, Findings, RunOf, NoForm, NoAdmin, NothingFound
<1> QED
  BY <1>6, <1>7, <1>8 DEF PrivacyShape

LEMMA OthersWrite ==
    ASSUME OwnWrites, NEW p \in Proc, OnlyMoves(p),
           p # Site => form' = form, p # Studio => admin' = admin
    PROVE  \A q \in Proc \ {p} : WritesOwn(q)'
<1> SUFFICES ASSUME NEW q \in Proc \ {p} PROVE WritesOwn(q)'
  OBVIOUS
<1>1. vault'[q] = vault[q] /\ tmp'[q] = tmp[q] /\ WritesOwn(q)
  BY DEF OwnWrites, OnlyMoves
<1>2. \A n : WriteOf(q, n)' = WriteOf(q, n)
  BY <1>1 DEF WriteOf
<1>3. q = Site /\ Sealing => Sealing'
  BY <1>1, <1>2 DEF Sealing
<1>4. \A n : q = Studio /\ Shredding(n) => Shredding(n)'
  BY <1>1, <1>2 DEF Shredding
<1> QED
  BY <1>1, <1>2, <1>3, <1>4 DEF WritesOwn

LEMMA WritesStay ==
    ASSUME OwnWrites, UNCHANGED <<vault, tmp>>,
           form' = form \/ ~Sealing, admin' = admin \/ (\A n \in SecretName : ~Shredding(n))
    PROVE  OwnWrites'
<1> SUFFICES ASSUME NEW p \in Proc PROVE WritesOwn(p)'
  BY DEF OwnWrites
<1>1. \A n : WriteOf(p, n)' = WriteOf(p, n)
  BY DEF WriteOf
<1>2. Sealing /\ form' = form => Sealing'
  BY DEF Sealing, WriteOf
<1>3. \A n : Shredding(n) /\ admin' = admin => Shredding(n)'
  BY DEF Shredding, WriteOf
<1>4. WritesOwn(p)
  BY DEF OwnWrites
<1> QED
  BY <1>1, <1>2, <1>3, <1>4 DEF WritesOwn

\* A step that leaves the copies and the calls alone.
LEMMA CallsStay ==
    ASSUME PrivacyShape, UNCHANGED <<vaultVars, form, admin>>
    PROVE  VaultShape' /\ OwnWrites'
<1>1. OwnWrites'
  BY WritesStay DEF PrivacyShape, vaultVars
<1> QED
  BY <1>1 DEF PrivacyShape, VaultShape, vaultVars, vaultHistory

LEMMA VaultShapeMoves ==
    ASSUME VaultShape, NEW p \in Proc, OnlyMoves(p), vaultFile' \in VaultContents,
           seen' \in [Proc -> BOOLEAN], stale' \in BOOLEAN, saltRaced' \in BOOLEAN, acked' \subseteq SecretName
    PROVE  VaultShape'
BY DEF VaultShape, OnlyMoves

LEMMA ShapeOpen ==
    ASSUME PrivacyShape, NEW p \in Proc, Open(p)
    PROVE  PrivacyShape'
<1> USE DEF PrivacyShape
<1>1. CASE ReadVaultKdf(p)
  <2>1. OnlyMoves(p) /\ vault[p].at = "down" /\ tmp'[p] = <<>> /\ vault'[p].at = "keyed"
        /\ UNCHANGED <<vaultFile, vaultHistory, crashes>>
    BY <1>1, ReadMove
  <2>2. VaultShape'
    BY <2>1, VaultShapeMoves DEF VaultShape, vaultHistory
  <2>3. UNCHANGED <<content, form, admin, backups, copying, made>>
    BY DEF Open, counters
  <2>4. OwnWrites'
    BY <2>1, <2>3, OthersWrite DEF OwnWrites, WritesOwn
  <2>5. known' \in {known} \cup {DOMAIN vault'[Studio].secrets}
    BY DEF Open
  <2>6. DOMAIN vault'[Studio].secrets \subseteq SecretName
    BY <2>2, PrivacyAssumption, SealedSecretsAre DEF VaultShape, VaultCopy
  <2>7. StoresShape'
    BY <2>3, <2>5, <2>6 DEF StoresShape, content
  <2>8. p # Site \/ form.at # "sealing"
    BY <2>1 DEF CallsAreServed
  <2>9. CallsAreServed'
    BY <2>1, <2>3, PrivacyAssumption DEF CallsAreServed, OnlyMoves
  <2> QED
    BY <2>2, <2>4, <2>7, <2>9
<1>2. CASE OpenVault(p)
  <2>1. /\ OnlyMoves(p) /\ vault[p].at = "keyed" /\ seen' = [seen EXCEPT ![p] = TRUE]
        /\ UNCHANGED <<vaultFile, acked, stale, crashes>>
        /\ saltRaced' = (saltRaced \/ (vault[p].fresh /\ (vaultFile.kdf # NoKey \/ \E q \in Proc \ {p} : vault[q].fresh)))
        /\ \/ vault'[p].at = "migrating" /\ tmp'[p] = <<[vault |-> Contents(vault'[p]), about |-> "kdf"]>>
           \/ vault'[p].at = "up" /\ tmp'[p] = <<>>
    BY <1>2, OpenMove
  <2>2. VaultShape'
    BY <2>1, VaultShapeMoves DEF VaultShape
  <2>3. UNCHANGED <<content, form, admin, backups, copying, made>>
    BY DEF Open, counters
  <2>4. OwnWrites'
    BY <2>1, <2>3, OthersWrite DEF OwnWrites, WritesOwn, WriteOf
  <2>5. known' \in {known} \cup {DOMAIN vault'[Studio].secrets}
    BY DEF Open
  <2>6. DOMAIN vault'[Studio].secrets \subseteq SecretName
    BY <2>2, PrivacyAssumption, SealedSecretsAre DEF VaultShape, VaultCopy
  <2>7. StoresShape'
    BY <2>3, <2>5, <2>6 DEF StoresShape, content
  <2>9. CallsAreServed'
    BY <2>1, <2>3, PrivacyAssumption DEF CallsAreServed, OnlyMoves
  <2> QED
    BY <2>2, <2>4, <2>7, <2>9
<1> QED
  BY <1>1, <1>2 DEF Open

LEMMA ShapeWritten ==
    ASSUME PrivacyShape, NEW p \in Proc, Written(p)
    PROVE  PrivacyShape'
<1> USE DEF PrivacyShape
<1>1. /\ OnlyMoves(p) /\ tmp'[p] = <<>> /\ vault'[p].at = "up" /\ vaultFile' \in VaultContents
      /\ seen' = [q \in Proc |-> q = p] /\ stale' = (stale \/ ~seen[p]) /\ saltRaced' = saltRaced
      /\ acked' \subseteq SecretName
  BY RenameMove DEF Written
<1>2. VaultShape'
  BY <1>1, VaultShapeMoves DEF VaultShape
<1>3. UNCHANGED <<content, form, admin, backups, copying, known, made>>
  BY DEF Written, counters, privacyHistory
<1>4. OwnWrites'
  BY <1>1, <1>3, OthersWrite DEF OwnWrites, WritesOwn
<1>5. StoresShape'
  BY <1>3 DEF StoresShape, content
<1>6. CallsAreServed'
  BY <1>1, <1>3, PrivacyAssumption DEF CallsAreServed, OnlyMoves
<1> QED
  BY <1>2, <1>4, <1>5, <1>6

LEMMA ShapeCrash ==
    ASSUME PrivacyShape, NEW p \in Proc, CrashProcess(p)
    PROVE  PrivacyShape'
<1> USE DEF PrivacyShape
<1>1. OnlyMoves(p) /\ vault'[p] = Down /\ tmp'[p] = <<>> /\ UNCHANGED <<vaultFile, vaultHistory>>
  BY CrashMove DEF CrashProcess
<1>2. VaultShape'
  BY <1>1, VaultShapeMoves DEF VaultShape, vaultHistory
<1>3. /\ form' = IF p = Site THEN NoForm ELSE form
      /\ admin' = IF p = Studio THEN NoAdmin ELSE admin
      /\ copying' = IF p = Studio THEN [b \in Backup |-> [at |-> "idle", name |-> 0]] ELSE copying
      /\ UNCHANGED <<content, backups, known, made>>
  BY DEF CrashProcess, counters, privacyHistory
<1>4. OwnWrites'
  <2>1. \A q \in Proc \ {p} : WritesOwn(q)'
    BY <1>1, <1>3, OthersWrite
  <2>2. WritesOwn(p)'
    BY <1>1 DEF WritesOwn, Down
  <2> QED
    BY <2>1, <2>2 DEF OwnWrites
<1>5. StoresShape'
  <2>1. form' \in FormOf
    BY <1>3 DEF StoresShape, FormOf, NoForm
  <2>2. admin' \in AdminOf
    BY <1>3 DEF StoresShape, AdminOf, NoAdmin, Findings, NothingFound
  <2>3. copying' \in [Backup -> RunOf]
    BY <1>3 DEF StoresShape, RunOf
  <2> QED
    BY <1>3, <2>1, <2>2, <2>3 DEF StoresShape, content
<1>6. CallsAreServed'
  BY <1>1, <1>3, PrivacyAssumption DEF CallsAreServed, OnlyMoves, NoForm, NoAdmin
<1> QED
  BY <1>2, <1>4, <1>5, <1>6

LEMMA SubmitMove ==
    ASSUME PrivacyShape, NEW n \in SecretName, Submit(n)
    PROVE  /\ tmp[Site] = <<>> /\ SetSecret(Site, n) /\ Site \in Proc
           /\ form' = [at |-> "sealing", n |-> n]
<1>1. vault[Site].at = "up" /\ form.at = "idle" /\ SetSecret(Site, n)
  BY DEF Submit, SetSecret
<1> QED
  BY <1>1, IdleWrites, PrivacyAssumption DEF PrivacyShape, Submit

LEMMA ShapeSubmit ==
    ASSUME PrivacyShape, NEW n \in SecretName, Submit(n)
    PROVE  PrivacyShape'
<1> USE DEF PrivacyShape
<1>1. /\ OnlyMoves(Site) /\ vault'[Site].at = "up" /\ vault[Site].at = "up"
      /\ DOMAIN vault'[Site].secrets = DOMAIN vault[Site].secrets \cup {n}
      /\ tmp'[Site] = <<[vault |-> Contents(vault'[Site]), about |-> n]>>
      /\ UNCHANGED <<vaultFile, seen, acked, stale, saltRaced>>
  BY SubmitMove, SetMove
<1>2. VaultShape'
  BY <1>1, VaultShapeMoves, PrivacyAssumption DEF VaultShape
<1>3. form' = [at |-> "sealing", n |-> n] /\ UNCHANGED <<content, admin, backups, copying, known, made>>
  BY DEF Submit, counters, privacyHistory
<1>4. OwnWrites'
  <2>1. \A q \in Proc \ {Site} : WritesOwn(q)'
    BY <1>1, <1>3, OthersWrite, PrivacyAssumption
  <2>2. WritesOwn(Site)'
    BY <1>1, <1>3 DEF WritesOwn, Sealing, WriteOf
  <2> QED
    BY <2>1, <2>2 DEF OwnWrites
<1>5. StoresShape'
  BY <1>3 DEF StoresShape, content, FormOf
<1>6. CallsAreServed'
  BY <1>1, <1>3, PrivacyAssumption DEF CallsAreServed, OnlyMoves
<1> QED
  BY <1>2, <1>4, <1>5, <1>6

LEMMA StoreMove ==
    ASSUME PrivacyShape, StoreRecord
    PROVE  tmp[Site] = <<>> /\ ~Sealing /\ form.at = "sealing" /\ form.n \in SecretName
<1> USE DEF PrivacyShape
<1>1. form.at = "sealing" /\ form.n \in SecretName /\ vault[Site].at = "up" /\ ~Writing(Site, form.n)
  BY DEF StoreRecord, CallsAreServed, Sealed
<1>2. ~Sealing
  <2> SUFFICES ASSUME Sealing PROVE FALSE
    OBVIOUS
  <2>1. tmp[Site] = <<WriteOf(Site, form.n)>> /\ WriteOf(Site, form.n).about = form.n
    BY DEF Sealing, WriteOf
  <2>2. 1 \in DOMAIN tmp[Site] /\ tmp[Site][1] = WriteOf(Site, form.n)
    BY <2>1, OneWritten
  <2> QED
    BY <1>1, <2>1, <2>2 DEF Writing
<1>3. tmp[Site] = <<>>
  BY <1>1, <1>2, PrivacyAssumption DEF OwnWrites, WritesOwn
<1> QED
  BY <1>1, <1>2, <1>3

LEMMA ShapeStore ==
    ASSUME PrivacyShape, StoreRecord
    PROVE  PrivacyShape'
<1> USE DEF PrivacyShape
<1>1. ~Sealing /\ form.n \in SecretName
  BY StoreMove
<1>2. /\ records' = records \cup {form.n} /\ form' = NoForm
      /\ UNCHANGED <<vaultVars, tombstones, admin, backups, copying, known, made>>
  BY DEF StoreRecord, counters
<1>3. VaultShape'
  BY <1>2 DEF VaultShape, vaultVars, vaultHistory
<1>4. OwnWrites'
  BY <1>1, <1>2, WritesStay DEF vaultVars
<1>5. StoresShape'
  BY <1>1, <1>2 DEF StoresShape, NoForm, FormOf
<1>6. CallsAreServed'
  BY <1>2 DEF CallsAreServed, NoForm, vaultVars
<1> QED
  BY <1>3, <1>4, <1>5, <1>6

\* The administrator's steps outside the vault.
LEMMA AdminMove ==
    ASSUME PrivacyShape, admin' \in AdminOf, admin'.at # "idle" => admin'.subject \in Subject,
           admin'.at # "idle" => vault[Studio].at = "up",
           admin' = admin \/ admin.at # "secrets" \/ tmp[Studio] = <<>>,
           records' \subseteq SecretName, tombstones' \subseteq Subject, backups' \subseteq BackupDirectory,
           UNCHANGED <<vaultVars, form, copying, known, made>>
    PROVE  PrivacyShape'
<1> USE DEF PrivacyShape
<1>3. VaultShape'
  BY DEF VaultShape, vaultVars, vaultHistory
<1>0. \A n : tmp[Studio] = <<>> => ~Shredding(n)
  BY OneWritten DEF Shredding
<1>4. OwnWrites'
  BY <1>0, WritesStay DEF vaultVars, Shredding
<1>5. StoresShape'
  BY DEF StoresShape
<1>6. CallsAreServed'
  BY DEF CallsAreServed, vaultVars
<1> QED
  BY <1>3, <1>4, <1>5, <1>6

LEMMA AckedNames == ASSUME PrivacyShape, NEW s PROVE
    /\ SubjectOf(acked, s) \subseteq SecretName /\ RecordsForSubject(s) \subseteq SecretName
    /\ Shredded(s) \subseteq SecretName
<1>1. DOMAIN vault[Studio].secrets \subseteq SecretName
  BY SealedSecretsAre, PrivacyAssumption DEF PrivacyShape, VaultShape, VaultCopy
<1> QED
  BY <1>1 DEF SubjectOf, RecordsForSubject, Shredded, PrivacyShape, VaultShape, StoresShape

LEMMA ShapeErase ==
    ASSUME PrivacyShape, NEW s \in Subject, Erase(s)
    PROVE  PrivacyShape'
<1>1. admin' \in AdminOf /\ admin'.subject = s
  BY AckedNames DEF Erase, AdminOf, Findings, PrivacyShape, StoresShape
<1>2. ASSUME NEW d \in BackupDirectory
      PROVE  [d EXCEPT !.shredding = @ \cup {s}] \in BackupDirectory
  BY DEF BackupDirectory
<1>3. backups' \subseteq BackupDirectory
  BY <1>2 DEF Erase, PrivacyShape, StoresShape
<1>4. /\ vault[Studio].at = "up" /\ admin.at = "idle"
      /\ UNCHANGED <<vaultVars, content, form, copying, known, made>>
  BY DEF Erase, privacyHistory
<1>5. records \subseteq SecretName /\ tombstones \subseteq Subject
  BY DEF PrivacyShape, StoresShape
<1> QED
  BY <1>1, <1>3, <1>4, <1>5, AdminMove DEF content

LEMMA ShapeEraseRecord ==
    ASSUME PrivacyShape, NEW n \in SecretName, EraseRecord(n)
    PROVE  PrivacyShape'
<1>1. admin' = [admin EXCEPT !.todo = admin.todo \ {n}] /\ admin \in AdminOf
  BY DEF EraseRecord, PrivacyShape, StoresShape
<1>2. admin' \in AdminOf /\ admin'.subject = admin.subject /\ admin.at = "records"
  BY <1>1 DEF EraseRecord, AdminOf
<1>3. admin.subject \in Subject /\ vault[Studio].at = "up"
  BY <1>2 DEF PrivacyShape, CallsAreServed
<1>4. UNCHANGED <<vaultVars, tombstones, form, backups, copying, known, made>> /\ records' \subseteq records
  BY DEF EraseRecord, privacyHistory, counters
<1>5. records \subseteq SecretName /\ tombstones \subseteq Subject /\ backups \subseteq BackupDirectory
  BY DEF PrivacyShape, StoresShape
<1>6. records' \subseteq SecretName
  BY <1>4, <1>5
<1> QED
  BY <1>2, <1>3, <1>4, <1>5, <1>6, AdminMove

LEMMA ShapeEraseRest ==
    ASSUME PrivacyShape, EraseRest
    PROVE  PrivacyShape'
<1>0. admin \in AdminOf /\ Shredded(admin.subject) \in SUBSET SecretName
  BY AckedNames DEF PrivacyShape, StoresShape
<1>1. /\ admin' = [at |-> "secrets", subject |-> admin.subject, todo |-> Shredded(admin.subject), found |-> admin.found]
      /\ admin.at = "records"
  BY <1>0 DEF EraseRest, AdminOf
<1>2. admin' \in AdminOf /\ admin'.subject = admin.subject
  BY <1>0, <1>1 DEF AdminOf
<1>3. admin.subject \in Subject /\ vault[Studio].at = "up"
  BY <1>1 DEF PrivacyShape, CallsAreServed
<1>4. UNCHANGED <<vaultVars, content, form, backups, copying, known, made>>
  BY DEF EraseRest, privacyHistory, counters
<1>5. records \subseteq SecretName /\ tombstones \subseteq Subject /\ backups \subseteq BackupDirectory
  BY DEF PrivacyShape, StoresShape
<1> QED
  BY <1>1, <1>2, <1>3, <1>4, <1>5, AdminMove DEF content

LEMMA ShredMove ==
    ASSUME PrivacyShape, NEW n \in SecretName, ShredSecret(n)
    PROVE  /\ admin.at = "secrets" /\ n \in admin.todo
           /\ tmp[Studio] = <<>> /\ DeleteSecret(Studio, n)
           /\ admin' = [at |-> "secrets", subject |-> admin.subject, todo |-> admin.todo \ {n}, found |-> admin.found]
           /\ admin' \in AdminOf
<1>1. admin \in AdminOf /\ admin' = [admin EXCEPT !.todo = admin.todo \ {n}]
  BY DEF ShredSecret, PrivacyShape, StoresShape
<1> QED
  BY <1>1 DEF ShredSecret, AdminOf

LEMMA ShapeShred ==
    ASSUME PrivacyShape, OfTheSubject, NEW n \in SecretName, ShredSecret(n)
    PROVE  PrivacyShape'
<1> USE DEF PrivacyShape
<1>0. admin.at = "secrets" /\ n \in admin.todo
  BY ShredMove
<1>1. /\ OnlyMoves(Studio) /\ vault'[Studio].at = "up" /\ vault[Studio].at = "up"
      /\ DOMAIN vault'[Studio].secrets = DOMAIN vault[Studio].secrets \ {n}
      /\ tmp'[Studio] = <<[vault |-> Contents(vault'[Studio]), about |-> n]>>
      /\ UNCHANGED <<vaultFile, seen, acked, stale, saltRaced>>
  BY ShredMove, DeleteMove, PrivacyAssumption
<1>2. VaultShape'
  BY <1>1, VaultShapeMoves, PrivacyAssumption DEF VaultShape
<1>3. known' \subseteq known /\ UNCHANGED <<content, form, backups, copying, made>>
  BY DEF ShredSecret, counters
<1>4. /\ admin' \in AdminOf /\ admin'.subject = admin.subject /\ admin'.at = "secrets"
      /\ admin.subject \in Subject /\ Owner[n] = admin.subject
  BY <1>0, ShredMove DEF CallsAreServed, OfTheSubject, SubjectOf
<1>5. OwnWrites'
  <2>1. \A q \in Proc \ {Studio} : WritesOwn(q)'
    BY <1>1, <1>3, OthersWrite, PrivacyAssumption
  <2>2. Shredding(n)'
    BY <1>1, <1>4 DEF Shredding, WriteOf
  <2>3. WritesOwn(Studio)'
    BY <2>2 DEF WritesOwn
  <2> QED
    BY <2>1, <2>3 DEF OwnWrites
<1>6. StoresShape'
  BY <1>3, <1>4 DEF StoresShape, content
<1>7. CallsAreServed'
  BY <1>1, <1>3, <1>4, PrivacyAssumption DEF CallsAreServed, OnlyMoves
<1> QED
  BY <1>2, <1>5, <1>6, <1>7

LEMMA NoAdminOf == NoAdmin \in AdminOf /\ NoAdmin.at = "idle"
BY DEF NoAdmin, AdminOf, Findings, NothingFound

LEMMA ShapeTombstone ==
    ASSUME PrivacyShape, Tombstone
    PROVE  PrivacyShape'
<1>1. admin' = NoAdmin /\ tmp[Studio] = <<>> /\ admin.subject \in Subject
  BY DEF Tombstone, PrivacyShape, CallsAreServed
<1>4. UNCHANGED <<vaultVars, records, form, backups, copying, known, made>> /\ tombstones' = tombstones \cup {admin.subject}
  BY DEF Tombstone, counters
<1>5. records \subseteq SecretName /\ tombstones \subseteq Subject /\ backups \subseteq BackupDirectory
  BY DEF PrivacyShape, StoresShape
<1>6. tombstones' \subseteq Subject
  BY <1>1, <1>4, <1>5
<1> QED
  BY <1>1, <1>4, <1>5, <1>6, NoAdminOf, AdminMove

LEMMA ShapeExport ==
    ASSUME PrivacyShape, NEW s \in Subject, Export(s)
    PROVE  PrivacyShape'
<1>1. admin' = [at |-> "export", subject |-> s, todo |-> RecordsForSubject(s), found |-> NothingFound]
  BY DEF Export, NoAdmin
<1>2. admin' \in AdminOf /\ admin'.subject = s
  BY <1>1, AckedNames DEF AdminOf, Findings, NothingFound
<1>4. /\ UNCHANGED <<vaultVars, content, form, backups, copying, known, made>>
      /\ admin.at = "idle" /\ vault[Studio].at = "up"
  BY DEF Export, counters, privacyHistory
<1>5. records \subseteq SecretName /\ tombstones \subseteq Subject /\ backups \subseteq BackupDirectory
  BY DEF PrivacyShape, StoresShape
<1> QED
  BY <1>2, <1>4, <1>5, AdminMove DEF content

LEMMA ShapeReveal ==
    ASSUME PrivacyShape, RevealDeep
    PROVE  PrivacyShape'
<1>4. /\ UNCHANGED <<vaultVars, content, form, backups, copying, known, made>>
      /\ admin.at = "export" /\ admin' = NoAdmin
  BY DEF RevealDeep, counters
<1>5. records \subseteq SecretName /\ tombstones \subseteq Subject /\ backups \subseteq BackupDirectory
  BY DEF PrivacyShape, StoresShape
<1> QED
  BY <1>4, <1>5, NoAdminOf, AdminMove DEF content

\* A run of a backup, and the restore.
LEMMA RunStays ==
    ASSUME PrivacyShape, copying' \in [Backup -> RunOf], backups' \subseteq BackupDirectory,
           made' \in Nat, made' >= made,
           \A b \in Backup : copying'[b].at # "idle" => vault[Studio].at = "up" /\ copying'[b].name \in 1..made',
           UNCHANGED <<vaultVars, content, form, admin, known>>
    PROVE  PrivacyShape'
<1> USE DEF PrivacyShape
<1>1. VaultShape' /\ OwnWrites'
  BY CallsStay
<1>2. StoresShape'
  BY DEF StoresShape, content
<1>3. CallsAreServed'
  BY DEF CallsAreServed, vaultVars
<1> QED
  BY <1>1, <1>2, <1>3

LEMMA DirectoryShape ==
    ASSUME NEW name \in Nat
    PROVE  Directory(name) \in BackupDirectory /\ Directory(name).name = name
           /\ Directory(name).content.records = {} /\ ~Directory(name).done
           /\ Directory(name).vault = [kdf |-> NoKey, secrets |-> NoSecrets]
BY NoSecretsSealed DEF Directory, BackupDirectory, NotCopied, VaultContents

LEMMA RunOfBackup ==
    ASSUME PrivacyShape, NEW b \in Backup, copying[b].at # "idle"
    PROVE  /\ DirectoryOf(b) \in BackupDirectory /\ DirectoryOf(b).name = copying[b].name
           /\ DirectoryOf(b) \in backups \/ DirectoryOf(b) = Directory(copying[b].name)
           /\ copying[b].name \in Nat
<1>1. copying[b].name \in Nat
  BY DEF PrivacyShape, StoresShape, RunOf
<1>2. CASE \E d \in backups : d.name = copying[b].name
  BY <1>1, <1>2 DEF DirectoryOf, PrivacyShape, StoresShape
<1>3. CASE ~\E d \in backups : d.name = copying[b].name
  BY <1>1, <1>3, DirectoryShape DEF DirectoryOf
<1> QED
  BY <1>1, <1>2, <1>3

LEMMA RunMove ==
    ASSUME PrivacyShape, NEW b \in Backup, RunScheduledBackup(b)
    PROVE  /\ copying[b].at = "idle" /\ made' = made + 1
           /\ copying' = [copying EXCEPT ![b] = [at |-> "content", name |-> made']]
           /\ backups' = backups \cup {Directory(made')} /\ Directory(made') \in BackupDirectory
           /\ made' \in Nat
<1>1. made \in Nat /\ made + 1 \in Nat
  BY DEF PrivacyShape, StoresShape
<1> QED
  BY <1>1, DirectoryShape DEF RunScheduledBackup

LEMMA ShapeRun ==
    ASSUME PrivacyShape, NEW b \in Backup, RunScheduledBackup(b)
    PROVE  PrivacyShape'
<1>1. /\ made' = made + 1 /\ made \in Nat /\ made' \in Nat
      /\ copying' = [copying EXCEPT ![b] = [at |-> "content", name |-> made']]
      /\ copying \in [Backup -> RunOf] /\ backups' \subseteq BackupDirectory
  BY RunMove DEF PrivacyShape, StoresShape
<1>2. copying' \in [Backup -> RunOf] /\ made' >= made
  BY <1>1 DEF RunOf
<1>3. UNCHANGED <<vaultVars, content, form, admin, known>> /\ vault[Studio].at = "up"
  BY DEF RunScheduledBackup
<1>4. \A c \in Backup : copying'[c].at # "idle" => copying'[c].name \in 1..made'
  <2> SUFFICES ASSUME NEW c \in Backup, copying'[c].at # "idle" PROVE copying'[c].name \in 1..made'
    OBVIOUS
  <2>1. CASE c = b
    BY <1>1, <2>1
  <2>2. CASE c # b
    <3>1. copying'[c] = copying[c]
      BY <1>1, <2>2
    <3>2. copying[c].name \in 1..made
      BY <3>1 DEF PrivacyShape, CallsAreServed
    <3> QED
      BY <1>1, <3>1, <3>2
  <2> QED
    BY <2>1, <2>2
<1> QED
  BY <1>1, <1>2, <1>3, <1>4, RunStays

LEMMA RunGoes ==
    ASSUME copying \in [Backup -> RunOf], NEW b \in Backup, NEW at \in {"vault", "prune"}
    PROVE  [copying EXCEPT ![b].at = at] = [copying EXCEPT ![b] = [at |-> at, name |-> copying[b].name]]
<1>1. [copying[b] EXCEPT !.at = at] = [at |-> at, name |-> copying[b].name]
  BY DEF RunOf
<1> QED
  BY <1>1

\* What a copying step leaves: one directory, of the run's name.
LEMMA CopyMove ==
    ASSUME PrivacyShape, NEW b \in Backup, CopyContent(b)
    PROVE  \E d, e : /\ d \in BackupDirectory /\ d = DirectoryOf(b) /\ e \in BackupDirectory
                     /\ e.name = copying[b].name /\ e.done = d.done /\ e.vault = d.vault
                     /\ e.content.records = records /\ e.shredding = BusyWith
                     /\ backups' = {f \in backups : f.name # copying[b].name} \cup {e}
                     /\ copying[b].at = "content"
                     /\ copying' = [copying EXCEPT ![b] = [at |-> "vault", name |-> copying[b].name]]
<1>0. copying[b].at = "content" /\ copying \in [Backup -> RunOf]
  BY DEF CopyContent, PrivacyShape, StoresShape
<1> DEFINE d == DirectoryOf(b)
<1>1. d \in BackupDirectory /\ d.name = copying[b].name
  BY <1>0, RunOfBackup
<1> DEFINE c == [records |-> records, tombstones |-> tombstones]
<1> DEFINE e == [name |-> d.name, content |-> c, vault |-> d.vault, has |-> d.has \cup {"content"},
                 done |-> d.done, shredding |-> BusyWith]
<1>2. BusyWith \subseteq Subject
  BY DEF BusyWith, PrivacyShape, CallsAreServed
<1>3. c \in [records : SUBSET SecretName, tombstones : SUBSET Subject]
  BY DEF PrivacyShape, StoresShape
<1>4. e \in BackupDirectory
  BY <1>1, <1>2, <1>3 DEF BackupDirectory
<1>5. [d EXCEPT !.has = @ \cup {"content"}, !.shredding = BusyWith, !.content = c] = e
  <2> HIDE DEF d, c
  <2>0. d.has \cup {"content"} \in SUBSET {"content", "vault"}
    BY <1>1 DEF BackupDirectory
  <2> DEFINE d1 == [d EXCEPT !.has = d.has \cup {"content"}]
  <2>1. d1 \in BackupDirectory
        /\ d1 = [name |-> d.name, content |-> d.content, vault |-> d.vault, has |-> d.has \cup {"content"},
                 done |-> d.done, shredding |-> d.shredding]
    BY <1>1, <2>0 DEF BackupDirectory
  <2> HIDE DEF d1
  <2> DEFINE d2 == [d1 EXCEPT !.shredding = BusyWith]
  <2>2. d2 \in BackupDirectory
        /\ d2 = [name |-> d.name, content |-> d.content, vault |-> d.vault, has |-> d.has \cup {"content"},
                 done |-> d.done, shredding |-> BusyWith]
    BY <2>1, <1>2 DEF BackupDirectory
  <2> HIDE DEF d2
  <2>3. [d2 EXCEPT !.content = c] = e
    BY <2>2, <1>3 DEF BackupDirectory
  <2> HIDE DEF e
  <2> QED
    BY <2>3, Zenon DEF d2, d1
<1>6. backups' = {f \in backups : f.name # e.name} \cup {e} /\ copying' = [copying EXCEPT ![b].at = "vault"]
  <2> HIDE DEF e
  <2> QED
    BY <1>5, Zenon DEF CopyContent, Fill
<1>7. copying' = [copying EXCEPT ![b] = [at |-> "vault", name |-> copying[b].name]]
  <2> HIDE DEF e
  <2> QED
    BY <1>0, <1>6, RunGoes
<1>8. /\ e.name = copying[b].name /\ (e.done = d.done) /\ e.vault = d.vault
      /\ e.content.records = records /\ e.shredding = BusyWith
  BY <1>1
<1>9. backups' = {f \in backups : f.name # copying[b].name} \cup {e}
  BY <1>1, <1>6
<1> HIDE DEF e
<1> QED
  BY <1>0, <1>1, <1>4, <1>7, <1>8, <1>9

LEMMA CopyVaultMove ==
    ASSUME PrivacyShape, NEW b \in Backup, CopyVault(b)
    PROVE  \E d, e : /\ d \in BackupDirectory /\ d = DirectoryOf(b) /\ e \in BackupDirectory
                     /\ e.name = copying[b].name /\ e.done /\ e.vault = vaultFile
                     /\ e.content = d.content /\ e.shredding = d.shredding
                     /\ backups' = {f \in backups : f.name # copying[b].name} \cup {e}
                     /\ copying[b].at = "vault"
                     /\ copying' = [copying EXCEPT ![b] = [at |-> "prune", name |-> copying[b].name]]
<1>0. copying[b].at = "vault" /\ copying \in [Backup -> RunOf]
  BY DEF CopyVault, PrivacyShape, StoresShape
<1> DEFINE d == DirectoryOf(b)
<1>1. d \in BackupDirectory /\ d.name = copying[b].name
  BY <1>0, RunOfBackup
<1> DEFINE e == [name |-> d.name, content |-> d.content, vault |-> vaultFile, has |-> d.has \cup {"vault"},
                 done |-> TRUE, shredding |-> d.shredding]
<1>3. vaultFile \in VaultContents
  BY DEF PrivacyShape, VaultShape
<1>4. e \in BackupDirectory
  BY <1>1, <1>3 DEF BackupDirectory
<1>5. [d EXCEPT !.has = @ \cup {"vault"}, !.vault = vaultFile, !.done = TRUE] = e
  <2> HIDE DEF d
  <2>0. d.has \cup {"vault"} \in SUBSET {"content", "vault"}
    BY <1>1 DEF BackupDirectory
  <2> DEFINE d1 == [d EXCEPT !.has = d.has \cup {"vault"}]
  <2>1. d1 \in BackupDirectory
        /\ d1 = [name |-> d.name, content |-> d.content, vault |-> d.vault, has |-> d.has \cup {"vault"},
                 done |-> d.done, shredding |-> d.shredding]
    BY <1>1, <2>0 DEF BackupDirectory
  <2> HIDE DEF d1
  <2> DEFINE d2 == [d1 EXCEPT !.vault = vaultFile]
  <2>2. d2 \in BackupDirectory
        /\ d2 = [name |-> d.name, content |-> d.content, vault |-> vaultFile, has |-> d.has \cup {"vault"},
                 done |-> d.done, shredding |-> d.shredding]
    BY <2>1, <1>3 DEF BackupDirectory
  <2> HIDE DEF d2
  <2>3. ASSUME NEW f \in BOOLEAN
        PROVE  [d2 EXCEPT !.done = f] = [name |-> d.name, content |-> d.content, vault |-> vaultFile,
                  has |-> d.has \cup {"vault"}, done |-> f, shredding |-> d.shredding]
    BY <2>2 DEF BackupDirectory
  <2>4. [d2 EXCEPT !.done = TRUE] = e
    BY <2>3, Zenon
  <2> HIDE DEF e
  <2> QED
    BY <2>4, Zenon DEF d2, d1
<1>6. backups' = {f \in backups : f.name # e.name} \cup {e} /\ copying' = [copying EXCEPT ![b].at = "prune"]
  <2> HIDE DEF e
  <2> QED
    BY <1>5, Zenon DEF CopyVault, Fill
<1>7. copying' = [copying EXCEPT ![b] = [at |-> "prune", name |-> copying[b].name]]
  <2> HIDE DEF e
  <2> QED
    BY <1>0, <1>6, RunGoes
<1>8. e.name = copying[b].name /\ e.done /\ e.vault = vaultFile /\ e.content = d.content /\ e.shredding = d.shredding
  BY <1>1
<1>9. backups' = {f \in backups : f.name # copying[b].name} \cup {e}
  BY <1>1, <1>6
<1> HIDE DEF e
<1> QED
  BY <1>0, <1>1, <1>4, <1>7, <1>8, <1>9

LEMMA RunGoesOn ==
    ASSUME PrivacyShape, NEW b \in Backup, copying[b].at # "idle", NEW at \in {"vault", "prune"},
           copying' = [copying EXCEPT ![b] = [at |-> at, name |-> copying[b].name]]
    PROVE  /\ copying' \in [Backup -> RunOf]
           /\ \A c \in Backup : copying'[c].at # "idle" => vault[Studio].at = "up" /\ copying'[c].name \in 1..made
           /\ made \in Nat /\ made >= made /\ backups \subseteq BackupDirectory
<1>0. /\ copying \in [Backup -> RunOf] /\ made \in Nat /\ backups \subseteq BackupDirectory
      /\ \A c \in Backup : copying[c].at # "idle" => vault[Studio].at = "up" /\ copying[c].name \in 1..made
  BY DEF PrivacyShape, StoresShape, CallsAreServed
<1>1. copying' \in [Backup -> RunOf]
  BY <1>0 DEF RunOf
<1>2. \A c \in Backup : copying'[c].name = copying[c].name /\ (c # b => copying'[c] = copying[c])
  BY <1>0
<1> QED
  BY <1>0, <1>1, <1>2

LEMMA ShapeCopy ==
    ASSUME PrivacyShape, NEW b \in Backup, CopyContent(b) \/ CopyVault(b)
    PROVE  PrivacyShape'
<1>1. \E e, at : /\ e \in BackupDirectory /\ at \in {"vault", "prune"} /\ copying[b].at # "idle"
                 /\ backups' = {f \in backups : f.name # copying[b].name} \cup {e}
                 /\ copying' = [copying EXCEPT ![b] = [at |-> at, name |-> copying[b].name]]
  <2>1. CASE CopyContent(b)
    BY <2>1, CopyMove
  <2>2. CASE CopyVault(b)
    BY <2>2, CopyVaultMove
  <2> QED
    BY <2>1, <2>2
<1>2. /\ copying' \in [Backup -> RunOf] /\ backups' \subseteq BackupDirectory
      /\ \A c \in Backup : copying'[c].at # "idle" => vault[Studio].at = "up" /\ copying'[c].name \in 1..made
      /\ made \in Nat /\ made >= made
  BY <1>1, RunGoesOn
<1>3. UNCHANGED <<vaultVars, content, form, admin, known, made>>
  BY DEF CopyContent, CopyVault, privacyHistory, counters
<1> QED
  BY <1>2, <1>3, RunStays

LEMMA ShapePrune ==
    ASSUME PrivacyShape, NEW b \in Backup, PruneBackups(b)
    PROVE  PrivacyShape'
<1>1. /\ backups' \subseteq backups /\ copying' = [copying EXCEPT ![b] = [at |-> "idle", name |-> 0]]
      /\ UNCHANGED <<vaultVars, content, form, admin, known, made>>
  BY DEF PruneBackups, Newest, counters
<1>2. /\ copying \in [Backup -> RunOf] /\ made \in Nat /\ backups \subseteq BackupDirectory
      /\ \A c \in Backup : copying[c].at # "idle" => vault[Studio].at = "up" /\ copying[c].name \in 1..made
  BY DEF PrivacyShape, StoresShape, CallsAreServed
<1>3. copying' \in [Backup -> RunOf]
  BY <1>1, <1>2 DEF RunOf
<1>4. \A c \in Backup : copying'[c].at # "idle" => copying'[c] = copying[c]
  BY <1>1, <1>2
<1> QED
  BY <1>1, <1>2, <1>3, <1>4, RunStays

LEMMA RestoreMove ==
    ASSUME PrivacyShape, NEW d \in backups, RestoreBackup(d)
    PROVE  /\ \A p \in Proc : vault[p].at = "down" /\ tmp[p] = <<>>
           /\ form.at = "idle" /\ admin.at = "idle" /\ \A b \in Backup : copying[b].at = "idle"
           /\ vaultFile' \in {vaultFile, d.vault} /\ d \in BackupDirectory
           /\ UNCHANGED <<vault, tmp, seen, stale, saltRaced, form, admin, backups, copying, known, made>>
<1>1. \A p \in Proc : vault[p].at = "down"
  BY DEF RestoreBackup
<1>2. \A p \in Proc : tmp[p] = <<>>
  BY <1>1, IdleWrites DEF PrivacyShape
<1>3. /\ form.at = "idle" /\ admin.at = "idle" /\ \A b \in Backup : copying[b].at = "idle"
  BY <1>1, PrivacyAssumption DEF PrivacyShape, CallsAreServed, StoresShape, FormOf
<1> QED
  BY <1>1, <1>2, <1>3 DEF RestoreBackup, PrivacyShape, StoresShape

LEMMA ShapeRestore ==
    ASSUME PrivacyShape, NEW d \in backups, RestoreBackup(d)
    PROVE  PrivacyShape'
<1> USE DEF PrivacyShape
<1>1. /\ \A p \in Proc : vault[p].at = "down" /\ tmp[p] = <<>>
      /\ form.at = "idle" /\ admin.at = "idle" /\ \A b \in Backup : copying[b].at = "idle"
      /\ vaultFile' \in {vaultFile, d.vault} /\ d \in BackupDirectory
      /\ UNCHANGED <<vault, tmp, seen, stale, saltRaced, form, admin, backups, copying, known, made>>
  BY RestoreMove
<1>2. /\ d.vault \in VaultContents /\ d.vault.secrets \in SealedSecrets
      /\ d.content.records \subseteq SecretName /\ d.content.tombstones \subseteq Subject
  BY <1>1 DEF BackupDirectory, VaultContents
<1>3. DOMAIN d.vault.secrets \subseteq SecretName
  BY <1>2, SealedSecretsAre
<1>4. /\ records' \in {records, d.content.records} /\ tombstones' \in {tombstones, d.content.tombstones}
      /\ acked' \in {acked, DOMAIN d.vault.secrets}
  BY DEF RestoreBackup, content
<1>5. VaultShape'
  BY <1>1, <1>2, <1>3, <1>4 DEF VaultShape
<1>6. OwnWrites'
  BY <1>1 DEF OwnWrites, WritesOwn
<1>7. StoresShape'
  BY <1>1, <1>2, <1>4 DEF StoresShape
<1>8. CallsAreServed'
  BY <1>1 DEF CallsAreServed
<1> QED
  BY <1>5, <1>6, <1>7, <1>8

LEMMA ShapeIdle ==
    ASSUME PrivacyShape, UNCHANGED privacyVars
    PROVE  PrivacyShape'
<1>1. VaultShape' /\ OwnWrites'
  BY CallsStay DEF privacyVars
<1> QED
  BY <1>1 DEF PrivacyShape, privacyVars, content, privacyHistory, counters, StoresShape, CallsAreServed, vaultVars

-----------------------------------------------------------------------------
\* All copies are sealed under the key of the file.

LEMMA InitKeys == PrivacyInit => KeysAgree
<1> SUFFICES ASSUME PrivacyInit PROVE KeysAgree
  OBVIOUS
<1>1. \A n \in Old : WithSecret(NoSecrets, n, Legacy) = [m \in {n} |-> Legacy]
  BY DEF WithSecret, NoSecrets
<1>2. vaultFile.kdf = NoKey /\ \A n \in DOMAIN vaultFile.secrets : vaultFile.secrets[n] = Legacy
  <2>1. CASE vaultFile = [kdf |-> NoKey, secrets |-> NoSecrets]
    BY <2>1 DEF NoSecrets
  <2>2. CASE \E n \in Old : vaultFile = [kdf |-> NoKey, secrets |-> WithSecret(NoSecrets, n, Legacy)]
    <3>1. PICK n \in Old : vaultFile = [kdf |-> NoKey, secrets |-> [m \in {n} |-> Legacy]]
      BY <1>1, <2>2
    <3> QED
      BY <3>1
  <2> QED
    BY <2>1, <2>2 DEF PrivacyInit, VaultInit
<1>3. \A p \in Proc : vault[p].at = "down"
  BY DEF PrivacyInit, VaultInit, Down
<1> QED
  BY <1>2, <1>3 DEF KeysAgree, SealedUnder, KeyOf, Holding, PrivacyInit

LEMMA NoProcIsNoKey == NoKey \notin Proc /\ Legacy \notin Proc
BY VaultAssumption

LEMMA KeysOpen ==
    ASSUME PrivacyShape, KeysAgree, NEW p \in Proc, Open(p)
    PROVE  KeysAgree'
<1> SUFFICES ASSUME ~saltRaced' PROVE KeysAgree'
  BY DEF KeysAgree
<1>0. VaultShape /\ OwnWrites /\ backups' = backups
  BY DEF PrivacyShape, Open
<1>1. CASE ReadVaultKdf(p)
  <2>1. /\ OnlyMoves(p) /\ vault'[p].at = "keyed"
        /\ vault'[p].fresh = (vaultFile.kdf = NoKey)
        /\ vault'[p].key = (IF vaultFile.kdf = NoKey THEN p ELSE vaultFile.kdf)
        /\ vaultFile' = vaultFile /\ saltRaced' = saltRaced
    BY <1>0, <1>1, ReadMove DEF vaultHistory
  <2>2. ~vault'[p].fresh => vaultFile.kdf \in Proc /\ vault'[p].key = vaultFile.kdf
    BY <2>1, <1>0 DEF VaultShape, VaultContents
  <2>3. \A q \in Proc : q # p => vault'[q] = vault[q]
    BY <2>1 DEF OnlyMoves
  <2>4. vault'[p].at = "keyed" /\ vault'[p].key \in Proc
    BY <2>1, <2>2, <1>0 DEF VaultShape, VaultContents
  <2>5. /\ SealedUnder(vaultFile)'
        /\ \A d \in backups' : SealedUnder(d.vault)
    BY <1>0, <2>1 DEF KeysAgree, SealedUnder, KeyOf
  <2>6. \A q \in Proc : vault'[q].at # "down" => vault'[q].key \in Proc
    BY <2>1, <2>3, <2>4 DEF KeysAgree
  <2>7. \A q \in Proc : Holding(q)' => q # p
    BY <2>4 DEF Holding
  <2>8. \A q \in Proc : Holding(q)' => vault'[q].kdf = vault'[q].key /\ SealedUnder(vault'[q])
    BY <2>1, <2>3, <2>7 DEF KeysAgree, Holding
  <2>9. \A q \in Proc : vault'[q].at = "up" \/ (vault'[q].at = "keyed" /\ ~vault'[q].fresh) =>
          vaultFile'.kdf = vault'[q].key
    BY <2>1, <2>2, <2>3, <2>4 DEF KeysAgree
  <2>10. \A q \in Proc : vault'[q].at = "migrating" => vaultFile'.kdf = NoKey /\ vault'[q].fresh /\ q # p
    BY <2>1, <2>3, <2>4 DEF KeysAgree
  <2>11. \A q, r \in Proc : vault'[q].at = "migrating" /\ vault'[r].at = "migrating" => q = r
    BY <2>1, <2>3, <2>10 DEF KeysAgree
  <2> QED
    BY <2>1, <2>5, <2>6, <2>8, <2>9, <2>10, <2>11 DEF KeysAgree, SealedUnder
<1>2. CASE OpenVault(p)
  <2>1. /\ OnlyMoves(p) /\ vault[p].at = "keyed"
        /\ DOMAIN vault'[p].secrets = DOMAIN vaultFile.secrets
        /\ vault'[p].key = vault[p].key /\ vault'[p].fresh = vault[p].fresh
        /\ \/ /\ vault[p].fresh /\ vaultFile.kdf = NoKey
              /\ vault'[p].at = "migrating" /\ vault'[p].kdf = vault[p].key
              /\ \A n \in DOMAIN vault'[p].secrets : vault'[p].secrets[n] = vault[p].key
           \/ /\ ~(vault[p].fresh /\ vaultFile.kdf = NoKey)
              /\ vault'[p].at = "up" /\ vault'[p].kdf = vaultFile.kdf
              /\ vault'[p].secrets = vaultFile.secrets
        /\ saltRaced' = (saltRaced \/ (vault[p].fresh /\ (vaultFile.kdf # NoKey \/ \E q \in Proc \ {p} : vault[q].fresh)))
        /\ vaultFile' = vaultFile
    BY <1>0, <1>2, OpenMove
  <2>2. /\ ~saltRaced /\ ~(vault[p].fresh /\ vaultFile.kdf # NoKey)
        /\ vault[p].fresh => \A q \in Proc \ {p} : ~vault[q].fresh
    BY <2>1
  <2>3. \A q \in Proc : q # p => vault'[q] = vault[q]
    BY <2>1 DEF OnlyMoves
  <2>4. CASE vault[p].fresh
    <3>1. /\ vault'[p].at = "migrating" /\ vaultFile.kdf = NoKey
          /\ \A n \in DOMAIN vault'[p].secrets : vault'[p].secrets[n] = vault'[p].key
          /\ vault'[p].kdf = vault'[p].key
      BY <2>1, <2>2, <2>4
    <3>2. \A q \in Proc : q # p => vault[q].at # "migrating"
      BY <2>2, <2>4 DEF KeysAgree
    <3>3. vault'[p].key \in Proc
      BY <2>1, <2>2 DEF KeysAgree
    <3>4. SealedUnder(vault'[p])
      BY <3>1, <3>3, NoProcIsNoKey DEF SealedUnder, KeyOf
    <3>5. /\ SealedUnder(vaultFile)'
          /\ \A d \in backups' : SealedUnder(d.vault)
      BY <1>0, <2>1, <2>2 DEF KeysAgree, SealedUnder, KeyOf
    <3>6. \A q \in Proc : vault'[q].at # "down" => vault'[q].key \in Proc
      BY <2>2, <2>3, <3>3 DEF KeysAgree
    <3>8. \A q \in Proc : Holding(q)' => vault'[q].kdf = vault'[q].key /\ SealedUnder(vault'[q])
      BY <2>2, <2>3, <3>1, <3>4 DEF KeysAgree, Holding
    <3>9. \A q \in Proc : vault'[q].at = "up" \/ (vault'[q].at = "keyed" /\ ~vault'[q].fresh) =>
            vaultFile'.kdf = vault'[q].key
      BY <2>1, <2>2, <2>3, <3>1 DEF KeysAgree
    <3>10. \A q \in Proc : vault'[q].at = "migrating" => vaultFile'.kdf = NoKey /\ vault'[q].fresh /\ q = p
      BY <2>1, <2>3, <2>4, <3>1, <3>2 DEF KeysAgree
    <3>11. \A q, r \in Proc : vault'[q].at = "migrating" /\ vault'[r].at = "migrating" => q = r
      BY <3>10
    <3> QED
      BY <2>1, <3>5, <3>6, <3>8, <3>9, <3>10, <3>11 DEF KeysAgree, SealedUnder
  <2>5. CASE ~vault[p].fresh
    <3>1. /\ vault'[p].at = "up" /\ vault'[p].kdf = vaultFile.kdf /\ vault'[p].secrets = vaultFile.secrets
          /\ vault'[p].key = vaultFile.kdf /\ vaultFile.kdf \in Proc
      BY <2>1, <2>2, <2>5 DEF KeysAgree
    <3> QED
      BY <1>0, <2>1, <2>2, <2>3, <3>1, NoProcIsNoKey DEF KeysAgree, SealedUnder, KeyOf, Holding
  <2> QED
    BY <2>4, <2>5
<1> QED
  BY <1>1, <1>2 DEF Open

\* A step of one process that keeps its key, seals under it, and leaves the file.
LEMMA KeysSealing ==
    ASSUME KeysAgree, NEW p \in Proc, OnlyMoves(p), UNCHANGED <<vaultFile, backups, saltRaced>>,
           vault[p].at = "up", vault'[p].at = "up", vault'[p].key = vault[p].key, vault'[p].kdf = vault[p].kdf,
           \A n \in DOMAIN vault'[p].secrets :
              vault'[p].secrets[n] = vault[p].key
              \/ (n \in DOMAIN vault[p].secrets /\ vault'[p].secrets[n] = vault[p].secrets[n])
    PROVE  KeysAgree'
<1> SUFFICES ASSUME ~saltRaced' PROVE KeysAgree'
  BY DEF KeysAgree
<1>1. \A q \in Proc : q # p => vault'[q] = vault[q]
  BY DEF OnlyMoves
<1>2. vault[p].kdf = vault[p].key /\ vault[p].key \in Proc /\ SealedUnder(vault[p])
  BY DEF KeysAgree, Holding
<1>3. SealedUnder(vault'[p])
  BY <1>2, NoProcIsNoKey DEF SealedUnder, KeyOf
<1> QED
  BY <1>1, <1>2, <1>3 DEF KeysAgree, Holding, SealedUnder, KeyOf

LEMMA KeysSubmit ==
    ASSUME PrivacyShape, KeysAgree, NEW n \in SecretName, Submit(n)
    PROVE  KeysAgree'
<1>1. /\ OnlyMoves(Site) /\ vault[Site].at = "up" /\ vault'[Site].at = "up"
      /\ vault'[Site].key = vault[Site].key /\ vault'[Site].kdf = vault[Site].kdf
      /\ DOMAIN vault'[Site].secrets = DOMAIN vault[Site].secrets \cup {n}
      /\ \A m \in DOMAIN vault'[Site].secrets :
            vault'[Site].secrets[m] = IF m = n THEN vault[Site].key ELSE vault[Site].secrets[m]
      /\ UNCHANGED <<vaultFile, saltRaced>>
  BY SubmitMove, SetMove DEF PrivacyShape
<1>2. backups' = backups /\ Site \in Proc
  BY PrivacyAssumption DEF Submit
<1> QED
  BY <1>1, <1>2, KeysSealing

LEMMA KeysShred ==
    ASSUME PrivacyShape, KeysAgree, NEW n \in SecretName, ShredSecret(n)
    PROVE  KeysAgree'
<1>1. /\ OnlyMoves(Studio) /\ vault[Studio].at = "up" /\ vault'[Studio].at = "up"
      /\ vault'[Studio].key = vault[Studio].key /\ vault'[Studio].kdf = vault[Studio].kdf
      /\ DOMAIN vault'[Studio].secrets = DOMAIN vault[Studio].secrets \ {n}
      /\ \A m \in DOMAIN vault'[Studio].secrets : vault'[Studio].secrets[m] = vault[Studio].secrets[m]
      /\ UNCHANGED <<vaultFile, saltRaced>>
  BY ShredMove, DeleteMove, PrivacyAssumption DEF PrivacyShape
<1>2. backups' = backups /\ Studio \in Proc
  BY PrivacyAssumption DEF ShredSecret
<1> QED
  BY <1>1, <1>2, KeysSealing

LEMMA KeysWritten ==
    ASSUME PrivacyShape, KeysAgree, NEW p \in Proc, Written(p)
    PROVE  KeysAgree'
<1> SUFFICES ASSUME ~saltRaced' PROVE KeysAgree'
  BY DEF KeysAgree
<1>1. /\ OnlyMoves(p) /\ Holding(p) /\ vault'[p].at = "up"
      /\ vault'[p].key = vault[p].key /\ vault'[p].kdf = vault[p].kdf
      /\ vault'[p].secrets = vault[p].secrets
      /\ vaultFile' = Contents(vault[p]) /\ saltRaced' = saltRaced
  BY RenameMove DEF Written, PrivacyShape
<1>2. backups' = backups
  BY DEF Written
<1>3. \A q \in Proc : q # p => vault'[q] = vault[q]
  BY <1>1 DEF OnlyMoves
<1>4. vault[p].kdf = vault[p].key /\ vault[p].key \in Proc /\ SealedUnder(vault[p])
  BY <1>1 DEF KeysAgree, Holding
<1>5. vaultFile'.kdf = vault[p].key /\ vaultFile'.secrets = vault[p].secrets
  BY <1>1, <1>4 DEF Contents
<1>6. \A q \in Proc : q # p => vault[q].at # "migrating"
  BY <1>1, <1>4, NoProcIsNoKey DEF KeysAgree, Holding
<1>7. \A q \in Proc : vault[q].at = "up" \/ (vault[q].at = "keyed" /\ ~vault[q].fresh) => vault[q].key = vault[p].key
  BY <1>1, <1>4, NoProcIsNoKey DEF KeysAgree, Holding
<1> QED
  BY <1>1, <1>2, <1>3, <1>4, <1>5, <1>6, <1>7, NoProcIsNoKey DEF KeysAgree, Holding, SealedUnder, KeyOf

LEMMA KeysCrash ==
    ASSUME PrivacyShape, KeysAgree, NEW p \in Proc, CrashProcess(p)
    PROVE  KeysAgree'
<1>1. OnlyMoves(p) /\ vault'[p].at = "down" /\ UNCHANGED <<vaultFile, saltRaced, backups>>
  BY CrashMove DEF CrashProcess, PrivacyShape, Down, vaultHistory
<1>3. \A q \in Proc : q # p => vault'[q] = vault[q]
  BY <1>1 DEF OnlyMoves
<1> QED
  BY <1>1, <1>3 DEF KeysAgree, Holding, SealedUnder, KeyOf

LEMMA KeysRestore ==
    ASSUME PrivacyShape, KeysAgree, NEW d \in backups, RestoreBackup(d)
    PROVE  KeysAgree'
<1>1. /\ \A p \in Proc : vault[p].at = "down"
      /\ vaultFile' \in {vaultFile, d.vault}
      /\ UNCHANGED <<vault, saltRaced, backups>>
  BY RestoreMove
<1> QED
  BY <1>1 DEF KeysAgree, Holding, SealedUnder, KeyOf

\* A step that leaves the vault and copies no other.
LEMMA KeysStay ==
    ASSUME KeysAgree, UNCHANGED vaultVars,
           \A d \in backups' : d.vault = vaultFile \/ d.vault = [kdf |-> NoKey, secrets |-> NoSecrets]
                               \/ \E e \in backups : d.vault = e.vault
    PROVE  KeysAgree'
<1>1. SealedUnder([kdf |-> NoKey, secrets |-> NoSecrets])
  BY DEF SealedUnder, NoSecrets
<1> QED
  BY <1>1 DEF KeysAgree, Holding, SealedUnder, KeyOf, vaultVars, vaultHistory

\* The vaults that the directories hold after a step that leaves the vault.
QuietVault == UNCHANGED vaultVars /\
    \A d \in backups' : d.vault = vaultFile \/ d.vault = [kdf |-> NoKey, secrets |-> NoSecrets]
                        \/ \E e \in backups : d.vault = e.vault

LEMMA BackupStepsKeep ==
    ASSUME PrivacyShape, NEW b \in Backup,
           RunScheduledBackup(b) \/ CopyContent(b) \/ CopyVault(b) \/ PruneBackups(b)
    PROVE  QuietVault
<1>1. CASE RunScheduledBackup(b)
  <2>1. backups' = backups \cup {Directory(made')} /\ made' \in Nat
    BY <1>1, RunMove
  <2>2. UNCHANGED vaultVars
    BY <1>1 DEF RunScheduledBackup
  <2> QED
    BY <2>1, <2>2, DirectoryShape DEF QuietVault
<1>2. CASE CopyContent(b)
  <2>1. PICK d, e : /\ d = DirectoryOf(b) /\ e.vault = d.vault /\ copying[b].at = "content"
                    /\ backups' = {f \in backups : f.name # copying[b].name} \cup {e}
    BY <1>2, CopyMove
  <2>2. d \in backups \/ d.vault = [kdf |-> NoKey, secrets |-> NoSecrets]
    BY <2>1, RunOfBackup, DirectoryShape
  <2>3. UNCHANGED vaultVars
    BY <1>2 DEF CopyContent
  <2> QED
    BY <2>1, <2>2, <2>3 DEF QuietVault
<1>3. CASE CopyVault(b)
  <2>1. PICK d, e : /\ e.vault = vaultFile
                    /\ backups' = {f \in backups : f.name # copying[b].name} \cup {e}
    BY <1>3, CopyVaultMove
  <2>3. UNCHANGED vaultVars
    BY <1>3 DEF CopyVault
  <2> QED
    BY <2>1, <2>3 DEF QuietVault
<1>4. CASE PruneBackups(b)
  BY <1>4 DEF PruneBackups, Newest, QuietVault
<1> QED
  BY <1>1, <1>2, <1>3, <1>4

LEMMA EraseKeeps ==
    ASSUME PrivacyShape, NEW s \in Subject, Erase(s)
    PROVE  \A d \in backups' : \E e \in backups :
              /\ d.name = e.name /\ d.content = e.content /\ d.vault = e.vault /\ (d.done <=> e.done)
              /\ d.shredding = IF e.done THEN e.shredding ELSE e.shredding \cup {s}
<1>1. ASSUME NEW e \in BackupDirectory
      PROVE  LET d == [e EXCEPT !.shredding = @ \cup {s}]
             IN  /\ d.name = e.name /\ d.content = e.content /\ d.vault = e.vault /\ (d.done <=> e.done)
                 /\ d.shredding = e.shredding \cup {s}
  BY DEF BackupDirectory
<1>2. backups \subseteq BackupDirectory
  BY DEF PrivacyShape, StoresShape
<1>3. backups' = {IF d.done THEN d ELSE [d EXCEPT !.shredding = @ \cup {s}] : d \in backups}
  BY DEF Erase
<1> SUFFICES ASSUME NEW d \in backups'
             PROVE  \E e \in backups :
                       /\ d.name = e.name /\ d.content = e.content /\ d.vault = e.vault /\ (d.done <=> e.done)
                       /\ d.shredding = IF e.done THEN e.shredding ELSE e.shredding \cup {s}
  OBVIOUS
<1>4. PICK e \in backups : d = IF e.done THEN e ELSE [e EXCEPT !.shredding = @ \cup {s}]
  BY <1>3
<1>5. CASE e.done
  BY <1>4, <1>5
<1>6. CASE ~e.done
  BY <1>1, <1>2, <1>4, <1>6
<1> QED
  BY <1>5, <1>6

-----------------------------------------------------------------------------
\* The steps of the vault, as the secrets' names see them.

LEMMA OpenNames ==
    ASSUME PrivacyShape, NEW p \in Proc, Open(p)
    PROVE  /\ OnlyMoves(p) /\ ~Holding(p) /\ vault'[p].at # "down"
           /\ known' = IF p = Studio /\ Holding(Studio)' THEN DOMAIN vault'[Studio].secrets ELSE known
           /\ Holding(p)' => DOMAIN vault'[p].secrets = DOMAIN vaultFile.secrets
           /\ vault'[p].at = "up" => tmp'[p] = <<>>
           /\ \A q \in Proc : seen'[q] # seen[q] => q = p
           /\ saltRaced => saltRaced'
           /\ UNCHANGED <<vaultFile, acked, stale, content, form, admin, backups, copying, erased, failed, late,
                          overlapped, answered, counters>>
<1>0. /\ known' = IF p = Studio /\ Holding(Studio)' THEN DOMAIN vault'[Studio].secrets ELSE known
      /\ UNCHANGED <<content, form, admin, backups, copying, erased, failed, late, overlapped, answered, counters>>
  BY DEF Open, Holding
<1>1. CASE ReadVaultKdf(p)
  <2>1. OnlyMoves(p) /\ vault[p].at = "down" /\ vault'[p].at = "keyed" /\ UNCHANGED <<vaultFile, vaultHistory, crashes>>
    BY <1>1, ReadMove DEF PrivacyShape
  <2> QED
    BY <1>0, <2>1 DEF Holding, vaultHistory
<1>2. CASE OpenVault(p)
  <2>1. /\ OnlyMoves(p) /\ vault[p].at = "keyed"
        /\ DOMAIN vault'[p].secrets = DOMAIN vaultFile.secrets
        /\ \/ vault'[p].at = "migrating"
           \/ vault'[p].at = "up" /\ tmp'[p] = <<>>
        /\ seen' = [seen EXCEPT ![p] = TRUE]
        /\ saltRaced' = (saltRaced \/ (vault[p].fresh /\ (vaultFile.kdf # NoKey \/ \E q \in Proc \ {p} : vault[q].fresh)))
        /\ UNCHANGED <<vaultFile, acked, stale, crashes>>
    BY <1>2, OpenMove DEF PrivacyShape
  <2> QED
    BY <1>0, <2>1 DEF Holding, PrivacyShape, VaultShape
<1> QED
  BY <1>1, <1>2 DEF Open

LEMMA CrashNames ==
    ASSUME PrivacyShape, NEW p \in Proc, CrashProcess(p)
    PROVE  /\ OnlyMoves(p) /\ ~Holding(p)' /\ vault'[p].at = "down" /\ tmp'[p] = <<>>
           /\ form' = IF p = Site THEN NoForm ELSE form
           /\ admin' = IF p = Studio THEN NoAdmin ELSE admin
           /\ copying' = IF p = Studio THEN [b \in Backup |-> [at |-> "idle", name |-> 0]] ELSE copying
           /\ UNCHANGED <<vaultFile, vaultHistory, content, backups, privacyHistory, counters>>
BY CrashMove DEF CrashProcess, PrivacyShape, Down, Holding

\* The steps that change no copy and not the file.

KnownAndFailed == KnownKept /\ FailedKnown

LEMMA InitKnown == PrivacyInit => KnownAndFailed
BY DEF PrivacyInit, VaultInit, KnownAndFailed, KnownKept, FailedKnown, Down

LEMMA KnownOpen ==
    ASSUME PrivacyShape, KnownAndFailed, NEW p \in Proc, Open(p)
    PROVE  KnownAndFailed'
<1>1. /\ known' = IF p = Studio /\ Holding(Studio)' THEN DOMAIN vault'[Studio].secrets ELSE known
      /\ OnlyMoves(p) /\ failed' = failed /\ (saltRaced => saltRaced')
  BY OpenNames
<1>2. p # Studio => vault'[Studio] = vault[Studio]
  BY <1>1, PrivacyAssumption DEF OnlyMoves
<1> QED
  BY <1>1, <1>2 DEF KnownAndFailed, KnownKept, FailedKnown, Holding

LEMMA KnownWritten ==
    ASSUME PrivacyShape, KnownAndFailed, NEW p \in Proc, Written(p)
    PROVE  KnownAndFailed'
<1>1. /\ OnlyMoves(p) /\ Holding(p) /\ vault'[p].secrets = vault[p].secrets /\ saltRaced' = saltRaced
  BY RenameMove DEF Written, PrivacyShape
<1>2. known' = known /\ failed' = failed
  BY DEF Written, privacyHistory
<1>3. p # Studio => vault'[Studio] = vault[Studio]
  BY <1>1, PrivacyAssumption DEF OnlyMoves
<1> QED
  BY <1>1, <1>2, <1>3 DEF KnownAndFailed, KnownKept, FailedKnown, Holding

LEMMA KnownCrash ==
    ASSUME PrivacyShape, KnownAndFailed, NEW p \in Proc, CrashProcess(p)
    PROVE  KnownAndFailed'
<1>1. OnlyMoves(p) /\ vault'[p].at = "down" /\ UNCHANGED <<vaultHistory, privacyHistory>>
  BY CrashNames
<1>3. p # Studio => vault'[Studio] = vault[Studio]
  BY <1>1, PrivacyAssumption DEF OnlyMoves
<1> QED
  BY <1>1, <1>3 DEF KnownAndFailed, KnownKept, FailedKnown, privacyHistory, vaultHistory

LEMMA KnownSubmit ==
    ASSUME PrivacyShape, KnownAndFailed, NEW n \in SecretName, Submit(n)
    PROVE  KnownAndFailed'
<1>1. OnlyMoves(Site) /\ saltRaced' = saltRaced
  BY SubmitMove, SetMove DEF PrivacyShape
<1>2. vault'[Studio] = vault[Studio] /\ UNCHANGED privacyHistory
  BY <1>1, PrivacyAssumption DEF OnlyMoves, Submit
<1> QED
  BY <1>1, <1>2 DEF KnownAndFailed, KnownKept, FailedKnown, privacyHistory

LEMMA KnownShred ==
    ASSUME PrivacyShape, KnownAndFailed, NEW n \in SecretName, ShredSecret(n)
    PROVE  KnownAndFailed'
<1>1. /\ DOMAIN vault'[Studio].secrets = DOMAIN vault[Studio].secrets \ {n} /\ saltRaced' = saltRaced
      /\ vault[Studio].at = "up"
  BY ShredMove, DeleteMove, PrivacyAssumption DEF PrivacyShape
<1>2. known' = known \ {n} /\ failed' = failed
  BY DEF ShredSecret
<1> QED
  BY <1>1, <1>2 DEF KnownAndFailed, KnownKept, FailedKnown

LEMMA KnownReveal ==
    ASSUME PrivacyShape, KeysAgree, KnownAndFailed, RevealDeep
    PROVE  KnownAndFailed'
<1>1. /\ UNCHANGED <<vaultVars, known>> /\ admin.at = "export"
      /\ failed' = failed \cup {n \in admin.todo \cap known : ~Readable(vault[Studio], n)}
  BY DEF RevealDeep
<1>2. vault[Studio].at = "up" /\ Studio \in Proc
  BY <1>1, PrivacyAssumption DEF PrivacyShape, CallsAreServed
<1>3. ASSUME ~saltRaced, NEW n \in known PROVE Readable(vault[Studio], n)
  <2>1. n \in DOMAIN vault[Studio].secrets
    BY <1>2, <1>3 DEF KnownAndFailed, KnownKept
  <2>2. SealedUnder(vault[Studio]) /\ vault[Studio].kdf = vault[Studio].key /\ vault[Studio].key \in Proc
    BY <1>2, <1>3 DEF KeysAgree, Holding
  <2> QED
    BY <2>1, <2>2, NoProcIsNoKey DEF SealedUnder, KeyOf, Readable
<1> QED
  BY <1>1, <1>3 DEF KnownAndFailed, KnownKept, FailedKnown, vaultVars, vaultHistory

LEMMA KnownStays ==
    ASSUME KnownAndFailed, UNCHANGED <<vault, saltRaced, known, failed>>
    PROVE  KnownAndFailed'
BY DEF KnownAndFailed, KnownKept, FailedKnown

-----------------------------------------------------------------------------
\* The copy of a process that has seen the file differs by what it is writing.

LEMMA InitSynced == PrivacyInit => CopiesSynced
BY DEF PrivacyInit, VaultInit, CopiesSynced, Holding, Down

LEMMA SyncedStays ==
    ASSUME NEW q \in Proc, vault'[q] = vault[q], tmp'[q] = tmp[q], vaultFile' = vaultFile,
           q = Site => form' = form \/ ~Sealing,
           q = Studio => admin' = admin \/ (\A n \in SecretName : ~Shredding(n)),
           Synced(q)
    PROVE  Synced(q)'
<1>1. q = Site /\ Sealing /\ form' = form => Sealing'
  BY DEF Sealing, WriteOf
<1>2. \A n : q = Studio /\ Shredding(n) /\ admin' = admin => Shredding(n)'
  BY DEF Shredding, WriteOf
<1> QED
  BY <1>1, <1>2 DEF Synced

LEMMA SyncedOpen ==
    ASSUME PrivacyShape, CopiesSynced, NEW p \in Proc, Open(p)
    PROVE  CopiesSynced'
<1>1. /\ OnlyMoves(p)
      /\ Holding(p)' => DOMAIN vault'[p].secrets = DOMAIN vaultFile.secrets
      /\ vault'[p].at = "up" => tmp'[p] = <<>>
      /\ \A q \in Proc : seen'[q] # seen[q] => q = p
      /\ UNCHANGED <<vaultFile, stale, form, admin>>
  BY OpenNames
<1>2. Holding(p)' => Synced(p)'
  BY <1>1 DEF Synced, Holding
<1>3. ASSUME ~stale, NEW q \in Proc, q # p, Holding(q)', seen'[q] PROVE Synced(q)'
  <2>1. vault'[q] = vault[q] /\ tmp'[q] = tmp[q] /\ seen'[q] = seen[q]
    BY <1>1, <1>3 DEF OnlyMoves
  <2>2. Synced(q)
    BY <1>3, <2>1 DEF CopiesSynced, Holding
  <2> QED
    BY <1>1, <2>1, <2>2, SyncedStays
<1> QED
  BY <1>1, <1>2, <1>3 DEF CopiesSynced

LEMMA SyncedWritten ==
    ASSUME PrivacyShape, CopiesSynced, NEW p \in Proc, Written(p)
    PROVE  CopiesSynced'
<1>1. /\ tmp'[p] = <<>> /\ vault'[p].secrets = vault[p].secrets
      /\ vaultFile' = Contents(vault[p]) /\ seen' = [q \in Proc |-> q = p]
  BY RenameMove DEF Written, PrivacyShape
<1>2. Synced(p)'
  BY <1>1 DEF Synced, Contents
<1> QED
  BY <1>1, <1>2 DEF CopiesSynced

LEMMA SyncedCrash ==
    ASSUME PrivacyShape, CopiesSynced, NEW p \in Proc, CrashProcess(p)
    PROVE  CopiesSynced'
<1>1. /\ OnlyMoves(p) /\ ~Holding(p)' /\ UNCHANGED <<vaultFile, vaultHistory>>
      /\ form' = IF p = Site THEN NoForm ELSE form
      /\ admin' = IF p = Studio THEN NoAdmin ELSE admin
  BY CrashNames
<1>3. ASSUME ~stale, NEW q \in Proc, Holding(q)', seen[q] PROVE Synced(q)'
  <2>1. q # p /\ vault'[q] = vault[q] /\ tmp'[q] = tmp[q]
    BY <1>1, <1>3 DEF OnlyMoves
  <2>2. Synced(q)
    BY <1>3, <2>1 DEF CopiesSynced, Holding
  <2> QED
    BY <1>1, <2>1, <2>2, SyncedStays
<1> QED
  BY <1>1, <1>3 DEF CopiesSynced, vaultHistory

\* Only an idle copy is changed, and what is written next is the difference.
LEMMA SyncedSubmit ==
    ASSUME PrivacyShape, CopiesSynced, NEW n \in SecretName, Submit(n)
    PROVE  CopiesSynced' /\ Sealing'
<1>0. PrivacyShape'
  BY ShapeSubmit
<1>1. /\ OnlyMoves(Site) /\ vault[Site].at = "up" /\ vault'[Site].at = "up" /\ tmp[Site] = <<>>
      /\ DOMAIN vault'[Site].secrets = DOMAIN vault[Site].secrets \cup {n}
      /\ tmp'[Site] = <<[vault |-> Contents(vault'[Site]), about |-> n]>>
      /\ form' = [at |-> "sealing", n |-> n] /\ admin' = admin
      /\ UNCHANGED <<vaultFile, seen, stale>>
  BY SubmitMove, SetMove DEF PrivacyShape, Submit
<1>2. Sealing'
  BY <1>1 DEF Sealing, WriteOf
<1>3. ~stale /\ seen[Site] => Synced(Site)'
  <2>1. ~Sealing
    BY <1>1, OneWritten DEF Sealing
  <2>2. ~stale /\ seen[Site] => DOMAIN vault[Site].secrets = DOMAIN vaultFile.secrets
    BY <1>1, <2>1, PrivacyAssumption DEF CopiesSynced, Synced, Holding
  <2> QED
    BY <1>1, <1>2, <2>2 DEF Synced
<1>4. ASSUME ~stale, NEW q \in Proc, q # Site, Holding(q)', seen[q] PROVE Synced(q)'
  <2>1. vault'[q] = vault[q] /\ tmp'[q] = tmp[q]
    BY <1>1, <1>4 DEF OnlyMoves
  <2>2. Synced(q)
    BY <1>4, <2>1 DEF CopiesSynced, Holding
  <2> QED
    BY <1>1, <1>4, <2>1, <2>2, SyncedStays
<1> QED
  BY <1>1, <1>2, <1>3, <1>4 DEF CopiesSynced

LEMMA SyncedShred ==
    ASSUME PrivacyShape, OfTheSubject, CopiesSynced, NEW n \in SecretName, ShredSecret(n)
    PROVE  CopiesSynced' /\ Shredding(n)'
<1>1. /\ OnlyMoves(Studio) /\ vault[Studio].at = "up" /\ vault'[Studio].at = "up" /\ tmp[Studio] = <<>>
      /\ DOMAIN vault'[Studio].secrets = DOMAIN vault[Studio].secrets \ {n}
      /\ tmp'[Studio] = <<[vault |-> Contents(vault'[Studio]), about |-> n]>>
      /\ UNCHANGED <<vaultFile, seen, stale>>
  BY ShredMove, DeleteMove, PrivacyAssumption DEF PrivacyShape
<1>2. /\ admin' = [at |-> "secrets", subject |-> admin.subject, todo |-> admin.todo \ {n}, found |-> admin.found]
      /\ Owner[n] = admin.subject /\ form' = form
  BY ShredMove DEF OfTheSubject, SubjectOf, ShredSecret
<1>3. Shredding(n)'
  BY <1>1, <1>2 DEF Shredding, WriteOf
<1>4. ~stale /\ seen[Studio] => Synced(Studio)'
  <2>1. \A m : ~Shredding(m)
    BY <1>1, OneWritten DEF Shredding
  <2>2. ~stale /\ seen[Studio] => DOMAIN vault[Studio].secrets = DOMAIN vaultFile.secrets
    BY <1>1, <2>1, PrivacyAssumption DEF CopiesSynced, Synced, Holding
  <2> QED
    BY <1>1, <1>3, <2>2 DEF Synced
<1>5. ASSUME ~stale, NEW q \in Proc, q # Studio, Holding(q)', seen[q] PROVE Synced(q)'
  <2>1. vault'[q] = vault[q] /\ tmp'[q] = tmp[q]
    BY <1>1, <1>5 DEF OnlyMoves
  <2>2. Synced(q)
    BY <1>5, <2>1 DEF CopiesSynced, Holding
  <2> QED
    BY <1>1, <1>2, <1>5, <2>1, <2>2, SyncedStays
<1> QED
  BY <1>1, <1>3, <1>4, <1>5 DEF CopiesSynced

LEMMA SyncedQuiet ==
    ASSUME CopiesSynced, UNCHANGED <<vaultFile, vault, tmp, seen, stale>>,
           form' = form \/ ~Sealing, admin' = admin \/ (\A n \in SecretName : ~Shredding(n))
    PROVE  CopiesSynced'
<1> SUFFICES ASSUME ~stale, NEW q \in Proc, Holding(q)', seen[q] PROVE Synced(q)'
  BY DEF CopiesSynced
<1>1. Synced(q)
  BY DEF CopiesSynced, Holding
<1> QED
  BY <1>1, SyncedStays

LEMMA SyncedRestore ==
    ASSUME PrivacyShape, NEW d \in backups, RestoreBackup(d)
    PROVE  CopiesSynced'
BY RestoreMove DEF CopiesSynced, Holding

-----------------------------------------------------------------------------
\* What the erasures have found, and the names that the file holds.

SecretsInv == OfTheSubject /\ FormIsNew /\ FoundRecords /\ FoundKnown /\ ShredOwed /\ ErasedGone /\ RecordsNamed

LEMMA InitSecrets == PrivacyInit => SecretsInv
<1> SUFFICES ASSUME PrivacyInit PROVE SecretsInv
  OBVIOUS
<1>1. form.at = "idle" /\ admin.at = "idle" /\ erased = {} /\ restores = 0 /\ records = DOMAIN vaultFile.secrets
  BY DEF PrivacyInit, NoForm, NoAdmin
<1>2. RecordsNamed
  BY <1>1 DEF RecordsNamed
<1> QED
  BY <1>1, <1>2 DEF SecretsInv, OfTheSubject, FormIsNew, FoundRecords, FoundKnown, ShredOwed, ErasedGone

LEMMA WriteOnce ==
    ASSUME NEW p, NEW n, NEW m, <<WriteOf(p, n)>> = <<WriteOf(p, m)>>
    PROVE  n = m
<1>1. WriteOf(p, n) = WriteOf(p, m)
  BY OneWritten
<1>2. WriteOf(p, n).about = n /\ WriteOf(p, m).about = m
  BY DEF WriteOf
<1> QED
  BY <1>1, <1>2

LEMMA ShreddingOne == \A n, m : Shredding(n) /\ Shredding(m) => n = m
BY WriteOnce DEF Shredding

\* What the file's names may become: a migration keeps them, the Site adds, the Studio leaves out.
LEMMA FileChanges ==
    ASSUME PrivacyShape, CopiesSynced, NEW p \in Proc, Written(p)
    PROVE  /\ OnlyMoves(p) /\ tmp'[p] = <<>> /\ Holding(p) /\ (stale => stale')
           /\ vault'[p].secrets = vault[p].secrets
           /\ \/ /\ vault[p].at = "migrating" /\ acked' \subseteq acked
                 /\ ~stale' => DOMAIN vaultFile'.secrets = DOMAIN vaultFile.secrets
              \/ /\ p = Site /\ Sealing /\ acked' \subseteq acked \cup {form.n}
                 /\ ~stale' => DOMAIN vaultFile'.secrets = DOMAIN vaultFile.secrets \cup {form.n}
              \/ /\ p = Studio /\ acked' \subseteq acked
                 /\ \E n \in SecretName : Shredding(n)
                       /\ (~stale' => DOMAIN vaultFile'.secrets = DOMAIN vaultFile.secrets \ {n})
           /\ UNCHANGED <<content, form, admin, backups, copying, privacyHistory, counters, saltRaced>>
<1>1. /\ OnlyMoves(p) /\ tmp'[p] = <<>> /\ Holding(p) /\ vault'[p].secrets = vault[p].secrets
      /\ vaultFile' = Contents(vault[p]) /\ stale' = (stale \/ ~seen[p]) /\ saltRaced' = saltRaced
  BY RenameMove DEF PrivacyShape, Written
<1>2. PICK n : /\ tmp[p] = <<WriteOf(p, n)>> /\ acked' \subseteq SecretName
               /\ acked' \subseteq acked \cup {n}
               /\ n \notin DOMAIN vault[p].secrets => acked' \subseteq acked
  BY RenameMove DEF PrivacyShape, Written
<1>3. tmp[p] # <<>>
  BY <1>2, OneWritten
<1>4. DOMAIN vaultFile'.secrets = DOMAIN vault[p].secrets
  BY <1>1 DEF Contents
<1>5. ~stale' => Synced(p)
  BY <1>1 DEF CopiesSynced, PrivacyShape, VaultShape
<1>6. UNCHANGED <<content, form, admin, backups, copying, privacyHistory, counters>>
  BY DEF Written
<1>7. WritesOwn(p) /\ Studio # Site
  BY PrivacyAssumption DEF PrivacyShape, OwnWrites
<1>8. CASE vault[p].at = "migrating"
  <2>1. tmp[p] = <<WriteOf(p, "kdf")>>
    BY <1>3, <1>7, <1>8 DEF WritesOwn, Sealing, Shredding
  <2>2. n = "kdf"
    BY <1>2, <2>1, WriteOnce
  <2>3. acked' \subseteq acked
    BY <1>2, <2>2, VaultAssumption
  <2>4. ~stale' => DOMAIN vault[p].secrets = DOMAIN vaultFile.secrets
    BY <1>3, <1>5, <1>8 DEF Synced, Sealing, Shredding
  <2> QED
    BY <1>1, <1>4, <1>6, <1>8, <2>3, <2>4
<1>9. CASE p = Site /\ Sealing
  <2>1. n = form.n
    BY <1>2, <1>9, WriteOnce DEF Sealing
  <2>2. ~stale' => DOMAIN vault[p].secrets = DOMAIN vaultFile.secrets \cup {form.n}
    BY <1>3, <1>5, <1>7, <1>9 DEF Synced, Sealing
  <2> QED
    BY <1>1, <1>2, <1>4, <1>6, <1>9, <2>1, <2>2
<1>10. CASE p = Studio /\ \E m \in SecretName : Shredding(m)
  <2>1. PICK m \in SecretName : Shredding(m)
    BY <1>10
  <2>2. n = m /\ m \notin DOMAIN vault[p].secrets
    BY <1>2, <1>10, <2>1, WriteOnce DEF Shredding
  <2>3. ~stale' => DOMAIN vault[p].secrets = DOMAIN vaultFile.secrets \ {m}
    BY <1>3, <1>5, <1>7, <1>10, <2>1, ShreddingOne DEF Synced, Shredding
  <2> QED
    BY <1>1, <1>2, <1>4, <1>6, <1>10, <2>1, <2>2, <2>3
<1> QED
  BY <1>3, <1>7, <1>8, <1>9, <1>10 DEF WritesOwn

\* A step that changes neither what is stored nor the file.
LEMMA SecretsQuiet ==
    ASSUME SecretsInv, UNCHANGED <<vaultFile, stale, acked, records, erased, late, restores>>,
           form'.at # "sealing" \/ (form' = form /\ tmp'[Site] = tmp[Site]),
           \/ admin'.at \notin {"records", "secrets"} /\ admin'.found = NothingFound
           \/ admin' = admin /\ vault'[Studio] = vault[Studio] /\ tmp'[Studio] = tmp[Studio]
    PROVE  SecretsInv'
<1>1. \A n : admin' = admin /\ vault'[Studio] = vault[Studio] /\ tmp'[Studio] = tmp[Studio] /\ Shredding(n) => Shredding(n)'
  BY DEF Shredding, WriteOf
<1>2. NothingFound.records = {} /\ NothingFound.secrets = {}
  BY DEF NothingFound
<1>3. FormIsNew'
  BY <1>2 DEF SecretsInv, FormIsNew, Finds
<1>4. OfTheSubject' /\ FoundRecords' /\ FoundKnown'
  BY DEF SecretsInv, OfTheSubject, FoundRecords, FoundKnown, SubjectOf
<1>5. ShredOwed'
  BY <1>1 DEF SecretsInv, ShredOwed
<1>6. ErasedGone' /\ RecordsNamed'
  BY DEF SecretsInv, ErasedGone, RecordsNamed
<1> QED
  BY <1>3, <1>4, <1>5, <1>6 DEF SecretsInv

LEMMA SecretsOpen ==
    ASSUME PrivacyShape, SecretsInv, NEW p \in Proc, Open(p)
    PROVE  SecretsInv'
<1>1. /\ OnlyMoves(p) /\ ~Holding(p)
      /\ UNCHANGED <<vaultFile, acked, stale, records, form, admin, erased, late, restores>>
  BY OpenNames DEF content, counters
<1>2. p = Site => form.at # "sealing"
  BY <1>1 DEF PrivacyShape, CallsAreServed, Holding
<1>3. p = Studio => admin.at = "idle"
  BY <1>1 DEF PrivacyShape, CallsAreServed, Holding
<1>4. p # Site => tmp'[Site] = tmp[Site]
  BY <1>1, PrivacyAssumption DEF OnlyMoves
<1>5. p # Studio => vault'[Studio] = vault[Studio] /\ tmp'[Studio] = tmp[Studio]
  BY <1>1, PrivacyAssumption DEF OnlyMoves
<1>6. CASE p # Studio
  BY <1>1, <1>2, <1>4, <1>5, <1>6, SecretsQuiet
<1>7. CASE p = Studio
  BY <1>1, <1>3, <1>4, <1>7, PrivacyAssumption
     DEF SecretsInv, OfTheSubject, FormIsNew, Finds, FoundRecords, FoundKnown, ShredOwed, ErasedGone, RecordsNamed
<1> QED
  BY <1>6, <1>7

LEMMA SecretsCrash ==
    ASSUME PrivacyShape, SecretsInv, NEW p \in Proc, CrashProcess(p)
    PROVE  SecretsInv'
<1>1. /\ OnlyMoves(p)
      /\ form' = IF p = Site THEN NoForm ELSE form
      /\ admin' = IF p = Studio THEN NoAdmin ELSE admin
      /\ UNCHANGED <<vaultFile, acked, stale, records, erased, late, restores>>
  BY CrashNames DEF content, counters, vaultHistory, privacyHistory
<1>4. p # Site => tmp'[Site] = tmp[Site]
  BY <1>1, PrivacyAssumption DEF OnlyMoves
<1>5. p # Studio => vault'[Studio] = vault[Studio] /\ tmp'[Studio] = tmp[Studio]
  BY <1>1, PrivacyAssumption DEF OnlyMoves
<1>6. NoForm.at # "sealing" /\ NoAdmin.at = "idle" /\ NoAdmin.found = NothingFound
  BY DEF NoForm, NoAdmin
<1> QED
  BY <1>1, <1>4, <1>5, <1>6, SecretsQuiet

LEMMA SecretsWritten ==
    ASSUME PrivacyShape, CopiesSynced, SecretsInv, NEW p \in Proc, Written(p)
    PROVE  SecretsInv'
<1>1. /\ OnlyMoves(p) /\ tmp'[p] = <<>> /\ Holding(p) /\ (stale => stale')
      /\ vault'[p].secrets = vault[p].secrets
      /\ \/ /\ vault[p].at = "migrating" /\ acked' \subseteq acked
            /\ ~stale' => DOMAIN vaultFile'.secrets = DOMAIN vaultFile.secrets
         \/ /\ p = Site /\ Sealing /\ acked' \subseteq acked \cup {form.n}
            /\ ~stale' => DOMAIN vaultFile'.secrets = DOMAIN vaultFile.secrets \cup {form.n}
         \/ /\ p = Studio /\ acked' \subseteq acked
            /\ \E n \in SecretName : Shredding(n)
                  /\ (~stale' => DOMAIN vaultFile'.secrets = DOMAIN vaultFile.secrets \ {n})
      /\ UNCHANGED <<content, form, admin, backups, copying, privacyHistory, counters, saltRaced>>
  BY FileChanges
<1>2. UNCHANGED <<records, form, admin, erased, late, restores>>
  BY <1>1 DEF content, counters, privacyHistory
<1>3. \A q \in Proc : q # p => vault'[q] = vault[q] /\ tmp'[q] = tmp[q]
  BY <1>1 DEF OnlyMoves
<1>4. OfTheSubject' /\ FoundRecords' /\ FoundKnown'
  BY <1>1, <1>2, <1>3, PrivacyAssumption DEF SecretsInv, OfTheSubject, FoundRecords, FoundKnown, SubjectOf
<1>5. FormIsNew'
  <2>1. p = Site => tmp'[Site] = <<>>
    BY <1>1
  <2>2. p # Site => tmp'[Site] = tmp[Site] /\ acked' \subseteq acked
    BY <1>1, <1>3, PrivacyAssumption
  <2> QED
    BY <1>2, <2>1, <2>2 DEF SecretsInv, FormIsNew, Finds
<1>6. CASE vault[p].at = "migrating" /\ (~stale' => DOMAIN vaultFile'.secrets = DOMAIN vaultFile.secrets)
  <2>1. p = Studio => admin.at = "idle"
    BY <1>6 DEF PrivacyShape, CallsAreServed
  <2>2. \A n : p # Studio /\ Shredding(n) => Shredding(n)'
    BY <1>2, <1>3, PrivacyAssumption DEF Shredding, WriteOf
  <2>3. ShredOwed'
    BY <1>1, <1>2, <1>6, <2>1, <2>2 DEF SecretsInv, ShredOwed
  <2>4. ErasedGone' /\ RecordsNamed'
    BY <1>1, <1>2, <1>6 DEF SecretsInv, ErasedGone, RecordsNamed
  <2> QED
    BY <1>4, <1>5, <2>3, <2>4 DEF SecretsInv
<1>7. CASE p = Site /\ Sealing /\ (~stale' => DOMAIN vaultFile'.secrets = DOMAIN vaultFile.secrets \cup {form.n})
  <2>1. \A e \in Finds : form.n \notin e.secrets
    BY <1>7, OneWritten DEF SecretsInv, FormIsNew, Sealing
  <2>2. \A n : Shredding(n) => Shredding(n)'
    BY <1>2, <1>3, <1>7, PrivacyAssumption DEF Shredding, WriteOf
  <2>3. ShredOwed'
    BY <1>1, <1>2, <1>7, <2>1, <2>2 DEF SecretsInv, ShredOwed, Finds
  <2>4. ErasedGone' /\ RecordsNamed'
    BY <1>1, <1>2, <1>7, <2>1 DEF SecretsInv, ErasedGone, RecordsNamed, Finds
  <2> QED
    BY <1>4, <1>5, <2>3, <2>4 DEF SecretsInv
<1>8. CASE \E n \in SecretName : Shredding(n)
                  /\ (~stale' => DOMAIN vaultFile'.secrets = DOMAIN vaultFile.secrets \ {n})
  <2>1. PICK n \in SecretName : Shredding(n) /\ (~stale' => DOMAIN vaultFile'.secrets = DOMAIN vaultFile.secrets \ {n})
    BY <1>8
  <2>2. admin.at = "secrets" /\ Owner[n] = admin.subject
    BY <2>1 DEF Shredding
  <2>3. ShredOwed'
    BY <1>1, <1>2, <2>1, ShreddingOne DEF SecretsInv, ShredOwed
  <2>4. n \in records => n \in late
    BY <2>2 DEF SecretsInv, FoundRecords, SubjectOf
  <2>5. ErasedGone' /\ RecordsNamed'
    BY <1>1, <1>2, <2>1, <2>4 DEF SecretsInv, ErasedGone, RecordsNamed
  <2> QED
    BY <1>4, <1>5, <2>3, <2>5 DEF SecretsInv
<1> QED
  BY <1>1, <1>6, <1>7, <1>8

LEMMA SecretsSubmit ==
    ASSUME PrivacyShape, CopiesSynced, SecretsInv, NEW n \in SecretName, Submit(n)
    PROVE  SecretsInv'
<1>1. /\ OnlyMoves(Site) /\ UNCHANGED <<vaultFile, acked, stale>>
      /\ form' = [at |-> "sealing", n |-> n]
  BY SubmitMove, SetMove DEF PrivacyShape
<1>2. /\ n \notin acked /\ n \notin records
      /\ \A e \in Finds : n \notin e.records /\ n \notin e.secrets
      /\ UNCHANGED <<records, admin, erased, late, restores>>
  BY DEF Submit, Finds, content, counters, privacyHistory
<1>3. vault'[Studio] = vault[Studio] /\ tmp'[Studio] = tmp[Studio]
  BY <1>1, PrivacyAssumption DEF OnlyMoves
<1>4. FormIsNew'
  BY <1>1, <1>2 DEF FormIsNew, Finds
<1>5. \A m : Shredding(m) => Shredding(m)'
  BY <1>2, <1>3 DEF Shredding, WriteOf
<1>6. ShredOwed'
  BY <1>1, <1>2, <1>5 DEF SecretsInv, ShredOwed
<1>7. OfTheSubject' /\ FoundRecords' /\ FoundKnown' /\ ErasedGone' /\ RecordsNamed'
  BY <1>1, <1>2, <1>3 DEF SecretsInv, OfTheSubject, FoundRecords, FoundKnown, ErasedGone, RecordsNamed, SubjectOf
<1> QED
  BY <1>4, <1>6, <1>7 DEF SecretsInv

LEMMA SecretsStore ==
    ASSUME PrivacyShape, SecretsInv, StoreRecord
    PROVE  SecretsInv'
<1>1. tmp[Site] = <<>> /\ form.at = "sealing" /\ form.n \in SecretName
  BY StoreMove
<1>2. /\ records' = records \cup {form.n} /\ form' = NoForm
      /\ late' = IF Owner[form.n] \in BusyWith \/ (~Writing(Site, form.n) /\ form.n \notin DOMAIN vaultFile.secrets)
                 THEN late \cup {form.n} ELSE late
      /\ UNCHANGED <<vaultFile, vault, tmp, stale, acked, admin, erased, restores>>
  BY DEF StoreRecord, vaultVars, vaultHistory, counters
<1>3. ~Writing(Site, form.n)
  BY <1>1, NoneWritten DEF Writing
<1>4. late \subseteq late' /\ (form.n \notin DOMAIN vaultFile.secrets => form.n \in late')
  BY <1>2, <1>3
<1>5. admin.at \in {"records", "secrets"} /\ Owner[form.n] = admin.subject => form.n \in late'
  BY <1>2 DEF BusyWith
<1>6. \A e \in Finds : form.n \notin e.records
  BY <1>1 DEF SecretsInv, FormIsNew
<1>7. OfTheSubject' /\ FoundKnown' /\ ShredOwed'
  BY <1>2 DEF SecretsInv, OfTheSubject, FoundKnown, ShredOwed, Shredding, WriteOf
<1>8. FoundRecords'
  BY <1>2, <1>4, <1>5, <1>6 DEF SecretsInv, FoundRecords, SubjectOf, Finds
<1>9. ErasedGone'
  BY <1>2, <1>6 DEF SecretsInv, ErasedGone, Finds
<1>10. RecordsNamed'
  BY <1>2, <1>4 DEF SecretsInv, RecordsNamed
<1>11. FormIsNew'
  BY <1>2 DEF FormIsNew, NoForm
<1> QED
  BY <1>7, <1>8, <1>9, <1>10, <1>11 DEF SecretsInv

LEMMA SecretsErase ==
    ASSUME PrivacyShape, KnownAndFailed, SecretsInv, NEW s \in Subject, Erase(s)
    PROVE  SecretsInv'
<1>1. /\ admin' = [at |-> "records", subject |-> s, todo |-> RecordsForSubject(s),
                   found |-> [records |-> RecordsForSubject(s), secrets |-> SubjectOf(acked, s), known |-> known]]
      /\ vault[Studio].at = "up"
      /\ UNCHANGED <<vaultFile, vault, tmp, stale, acked, records, form, erased, late, restores>>
  BY DEF Erase, vaultVars, vaultHistory, content, privacyHistory
<1>2. admin'.found.records = SubjectOf(records, s) /\ admin'.found.secrets = SubjectOf(acked, s)
      /\ admin'.found.known = known /\ admin'.todo = SubjectOf(records, s) /\ admin'.subject = s /\ admin'.at = "records"
  BY <1>1 DEF RecordsForSubject
<1>3. FormIsNew'
  BY <1>1, <1>2 DEF SecretsInv, FormIsNew, Finds, SubjectOf
<1>4. FoundRecords'
  BY <1>1, <1>2 DEF FoundRecords, SubjectOf
<1>5. FoundKnown'
  BY <1>1, <1>2 DEF FoundKnown, KnownAndFailed, KnownKept
<1>6. OfTheSubject' /\ ShredOwed'
  BY <1>2 DEF OfTheSubject, ShredOwed
<1>7. ErasedGone' /\ RecordsNamed'
  BY <1>1 DEF SecretsInv, ErasedGone, RecordsNamed
<1> QED
  BY <1>3, <1>4, <1>5, <1>6, <1>7 DEF SecretsInv

LEMMA SecretsEraseRecord ==
    ASSUME PrivacyShape, SecretsInv, NEW n \in SecretName, EraseRecord(n)
    PROVE  SecretsInv'
<1>1. /\ records' = records \ {n} /\ admin.at = "records" /\ n \in admin.todo
      /\ admin \in AdminOf /\ admin' = [admin EXCEPT !.todo = admin.todo \ {n}]
      /\ UNCHANGED <<vaultFile, vault, tmp, stale, acked, form, erased, late, restores>>
  BY DEF EraseRecord, PrivacyShape, StoresShape, vaultVars, vaultHistory, counters, privacyHistory
<1>2. /\ admin'.at = "records" /\ admin'.todo = admin.todo \ {n} /\ admin'.found = admin.found
      /\ admin'.subject = admin.subject
  BY <1>1 DEF AdminOf
<1>3. FormIsNew'
  BY <1>1, <1>2 DEF SecretsInv, FormIsNew, Finds
<1>4. FoundRecords'
  BY <1>1, <1>2 DEF SecretsInv, FoundRecords, SubjectOf
<1>5. FoundKnown' /\ OfTheSubject' /\ ShredOwed'
  BY <1>1, <1>2 DEF SecretsInv, FoundKnown, OfTheSubject, ShredOwed
<1>7. ErasedGone' /\ RecordsNamed'
  BY <1>1 DEF SecretsInv, ErasedGone, RecordsNamed
<1> QED
  BY <1>3, <1>4, <1>5, <1>7 DEF SecretsInv

LEMMA SecretsEraseRest ==
    ASSUME PrivacyShape, SecretsInv, EraseRest
    PROVE  SecretsInv'
<1>1. /\ admin.at = "records" /\ admin.todo = {}
      /\ admin \in AdminOf /\ admin' = [admin EXCEPT !.at = "secrets", !.todo = Shredded(admin.subject)]
      /\ UNCHANGED <<vaultFile, vault, tmp, stale, acked, records, form, erased, late, restores>>
  BY DEF EraseRest, PrivacyShape, StoresShape, vaultVars, vaultHistory, counters, privacyHistory, content
<1>2. /\ admin'.at = "secrets" /\ admin'.todo = Shredded(admin.subject) /\ admin'.found = admin.found
      /\ admin'.subject = admin.subject
  BY <1>1 DEF AdminOf
<1>3. FormIsNew'
  BY <1>1, <1>2 DEF SecretsInv, FormIsNew, Finds
<1>4. FoundRecords'
  BY <1>1, <1>2 DEF SecretsInv, FoundRecords, SubjectOf
<1>5. FoundKnown'
  BY <1>2 DEF FoundKnown
<1>6. OfTheSubject'
  BY <1>2, AckedNames DEF OfTheSubject, Shredded, SubjectOf
<1>8. ShredOwed'
  BY <1>1, <1>2 DEF SecretsInv, ShredOwed, FoundKnown, FoundRecords, Shredded, SubjectOf
<1>7. ErasedGone' /\ RecordsNamed'
  BY <1>1 DEF SecretsInv, ErasedGone, RecordsNamed
<1> QED
  BY <1>3, <1>4, <1>5, <1>6, <1>7, <1>8 DEF SecretsInv

LEMMA SecretsShred ==
    ASSUME PrivacyShape, CopiesSynced, SecretsInv, NEW n \in SecretName, ShredSecret(n)
    PROVE  SecretsInv'
<1>1. /\ OnlyMoves(Studio) /\ tmp[Studio] = <<>>
      /\ UNCHANGED <<vaultFile, acked, stale>>
  BY ShredMove, DeleteMove, PrivacyAssumption DEF PrivacyShape
<1>2. /\ admin.at = "secrets"
      /\ admin' = [at |-> "secrets", subject |-> admin.subject, todo |-> admin.todo \ {n}, found |-> admin.found]
      /\ UNCHANGED <<records, form, erased, late, restores>>
  BY ShredMove DEF ShredSecret, content, counters
<1>3. tmp'[Site] = tmp[Site]
  BY <1>1, PrivacyAssumption DEF OnlyMoves
<1>4. Shredding(n)' /\ \A m : ~Shredding(m)
  BY <1>1, SyncedShred, OneWritten DEF SecretsInv, Shredding
<1>5. FormIsNew'
  BY <1>1, <1>2, <1>3 DEF SecretsInv, FormIsNew, Finds
<1>6. OfTheSubject' /\ FoundRecords' /\ FoundKnown'
  BY <1>2 DEF SecretsInv, OfTheSubject, FoundRecords, FoundKnown, SubjectOf
<1>7. ShredOwed'
  BY <1>1, <1>2, <1>4 DEF SecretsInv, ShredOwed
<1>8. ErasedGone' /\ RecordsNamed'
  BY <1>1, <1>2 DEF SecretsInv, ErasedGone, RecordsNamed
<1> QED
  BY <1>5, <1>6, <1>7, <1>8 DEF SecretsInv

LEMMA SecretsTombstone ==
    ASSUME PrivacyShape, SecretsInv, Tombstone
    PROVE  SecretsInv'
<1>1. /\ admin.at = "secrets" /\ admin.todo = {} /\ tmp[Studio] = <<>>
      /\ admin' = NoAdmin /\ erased' = erased \cup {admin.found}
      /\ UNCHANGED <<vaultFile, vault, tmp, stale, acked, records, form, late, restores>>
  BY DEF Tombstone, vaultVars, vaultHistory, counters
<1>2. \A m : ~Shredding(m)
  BY <1>1, OneWritten DEF Shredding
<1>3. NoAdmin.at = "idle" /\ NoAdmin.found = NothingFound /\ NothingFound.records = {} /\ NothingFound.secrets = {}
  BY DEF NoAdmin, NothingFound
<1>4. FormIsNew'
  BY <1>1, <1>3 DEF SecretsInv, FormIsNew, Finds
<1>5. ErasedGone'
  BY <1>1, <1>2 DEF SecretsInv, ErasedGone, FoundRecords, ShredOwed
<1>6. OfTheSubject' /\ FoundRecords' /\ FoundKnown' /\ ShredOwed'
  BY <1>1, <1>3 DEF OfTheSubject, FoundRecords, FoundKnown, ShredOwed
<1>7. RecordsNamed'
  BY <1>1 DEF SecretsInv, RecordsNamed
<1> QED
  BY <1>4, <1>5, <1>6, <1>7 DEF SecretsInv

LEMMA SecretsExport ==
    ASSUME SecretsInv, NEW s, Export(s) \/ RevealDeep
    PROVE  SecretsInv'
<1>1. admin'.at \notin {"records", "secrets"} /\ admin'.found = NothingFound
  <2>1. CASE Export(s)
    <3>1. admin' = [at |-> "export", subject |-> s, todo |-> RecordsForSubject(s), found |-> NothingFound]
      BY <2>1 DEF Export, NoAdmin
    <3> QED
      BY <3>1
  <2>2. CASE RevealDeep
    BY <2>2 DEF RevealDeep, NoAdmin
  <2> QED
    BY <2>1, <2>2
<1>2. UNCHANGED <<vaultFile, tmp, stale, acked, records, erased, late, restores, form>>
  BY DEF Export, RevealDeep, vaultVars, vaultHistory, counters, privacyHistory, content
<1> QED
  BY <1>1, <1>2, SecretsQuiet

LEMMA SecretsBackups ==
    ASSUME SecretsInv, NEW b \in Backup,
           RunScheduledBackup(b) \/ CopyContent(b) \/ CopyVault(b) \/ PruneBackups(b)
    PROVE  SecretsInv'
<1>2. UNCHANGED <<vaultFile, vault, tmp, stale, acked, records, erased, late, restores, form, admin>>
  BY DEF RunScheduledBackup, CopyContent, CopyVault, PruneBackups, vaultVars, vaultHistory, counters, privacyHistory, content
<1> QED
  BY <1>2, SecretsQuiet

LEMMA SecretsRestore ==
    ASSUME PrivacyShape, SecretsInv, NEW d \in backups, RestoreBackup(d)
    PROVE  SecretsInv'
<1>1. form.at = "idle" /\ admin.at = "idle" /\ form' = form /\ admin' = admin
  BY RestoreMove
<1>2. erased' = {} /\ restores' = restores + 1
  BY DEF RestoreBackup
<1>3. RecordsNamed'
  BY <1>2 DEF SecretsInv, RecordsNamed
<1> QED
  BY <1>1, <1>2, <1>3 DEF SecretsInv, OfTheSubject, FormIsNew, FoundRecords, FoundKnown, ShredOwed, ErasedGone

-----------------------------------------------------------------------------
\* The directories: their names, and which of them are finished.

NamesInv == DirectoriesNamed /\ OneRun /\ GoodBackupStays
BackupNames == <<backups, made, overlapped, answered>>

LEMMA InitNames == PrivacyInit => NamesInv
BY DEF PrivacyInit, NamesInv, DirectoriesNamed, OneRun, GoodBackupStays

LEMMA NamesStay ==
    ASSUME NamesInv, UNCHANGED BackupNames, copying' = copying \/ \A b \in Backup : copying'[b].at = "idle"
    PROVE  NamesInv'
<1>1. DirectoriesNamed'
  BY DEF NamesInv, DirectoriesNamed, BackupNames
<1>2. OneRun'
  BY DEF NamesInv, OneRun, BackupNames
<1>3. GoodBackupStays'
  BY DEF NamesInv, GoodBackupStays, BackupNames
<1> QED
  BY <1>1, <1>2, <1>3 DEF NamesInv

LEMMA NamesErase ==
    ASSUME PrivacyShape, NamesInv, NEW s \in Subject, Erase(s)
    PROVE  NamesInv'
<1>0. UNCHANGED <<copying, made, overlapped, answered>>
  BY DEF Erase, privacyHistory
<1> DEFINE F(e) == IF e.done THEN e ELSE [e EXCEPT !.shredding = @ \cup {s}]
<1>1. backups' = {F(e) : e \in backups}
  BY DEF Erase
<1>2. \A e \in backups : F(e).name = e.name /\ (F(e).done <=> e.done)
  <2> SUFFICES ASSUME NEW e \in backups PROVE F(e).name = e.name /\ (F(e).done <=> e.done)
    OBVIOUS
  <2>1. e \in BackupDirectory
    BY DEF PrivacyShape, StoresShape
  <2>2. ~e.done => F(e).name = e.name /\ (F(e).done <=> e.done)
    BY <2>1 DEF BackupDirectory
  <2> QED
    BY <2>2
<1> HIDE DEF F
<1>3. DirectoriesNamed'
  BY <1>0, <1>1, <1>2 DEF NamesInv, DirectoriesNamed
<1>4. OneRun'
  BY <1>0, <1>1, <1>2 DEF NamesInv, OneRun
<1>5. GoodBackupStays'
  BY <1>0, <1>1, <1>2 DEF NamesInv, GoodBackupStays
<1> QED
  BY <1>3, <1>4, <1>5 DEF NamesInv

LEMMA NamesRun ==
    ASSUME PrivacyShape, NamesInv, NEW b \in Backup, RunScheduledBackup(b)
    PROVE  NamesInv'
<1>1. /\ copying[b].at = "idle" /\ made' = made + 1 /\ made \in Nat /\ made' \in Nat
      /\ copying' = [copying EXCEPT ![b] = [at |-> "content", name |-> made']]
      /\ copying \in [Backup -> RunOf]
      /\ backups' = backups \cup {Directory(made')}
  BY RunMove DEF PrivacyShape, StoresShape
<1>2. answered' = answered /\ overlapped' = (overlapped \/ \E c \in Backup \ {b} : copying[c].at # "idle")
  BY DEF RunScheduledBackup
<1>3. /\ copying'[b] = [at |-> "content", name |-> made']
      /\ \A c \in Backup : c # b => copying'[c] = copying[c]
  BY <1>1
<1>4. Directory(made').name = made' /\ ~Directory(made').done
  BY <1>1, DirectoryShape
<1>5. /\ \A d \in backups : d.name \in Nat /\ d.name < made' /\ d.name <= made' /\ d.name # made'
      /\ \A c \in Backup : copying[c].at # "idle" => copying[c].name \in 1..made /\ copying[c].name # made'
  <2>1. \A d \in backups : d.name \in Nat
    BY DEF PrivacyShape, StoresShape, BackupDirectory
  <2> QED
    BY <1>1, <2>1 DEF NamesInv, DirectoriesNamed
<1>6. DirectoriesNamed'
  <2>1. \A d \in backups' : d.name <= made'
    BY <1>1, <1>4, <1>5 DEF NamesInv, DirectoriesNamed
  <2>2. \A d, e \in backups' : d.name = e.name => d = e
    BY <1>1, <1>4, <1>5 DEF NamesInv, DirectoriesNamed
  <2>3. \A c \in Backup : copying'[c].at = "idle" \/ copying'[c].name \in 1..made'
    BY <1>1, <1>3, <1>5
  <2>4. \A c, e \in Backup : c # e /\ copying'[c].at # "idle" /\ copying'[e].at # "idle"
                              => copying'[c].name # copying'[e].name
    BY <1>3, <1>5 DEF NamesInv, DirectoriesNamed
  <2>5. \A c \in Backup, d \in backups' : copying'[c].at \in {"content", "vault"} /\ d.done => d.name # copying'[c].name
    BY <1>1, <1>3, <1>4, <1>5 DEF NamesInv, DirectoriesNamed
  <2> QED
    BY <2>1, <2>2, <2>3, <2>4, <2>5 DEF DirectoriesNamed
<1>7. OneRun'
  <2>1. ~overlapped' => \A c \in Backup \ {b} : copying[c].at = "idle"
    BY <1>2
  <2> QED
    BY <1>3, <2>1 DEF OneRun
<1>8. GoodBackupStays'
  BY <1>1, <1>2 DEF NamesInv, GoodBackupStays
<1> QED
  BY <1>6, <1>7, <1>8 DEF NamesInv

LEMMA UnfinishedOfRun ==
    ASSUME PrivacyShape, NamesInv, NEW b \in Backup, copying[b].at \in {"content", "vault"}
    PROVE  ~DirectoryOf(b).done
<1>1. /\ DirectoryOf(b).name = copying[b].name /\ copying[b].name \in Nat
      /\ DirectoryOf(b) \in backups \/ DirectoryOf(b) = Directory(copying[b].name)
  BY RunOfBackup
<1> QED
  BY <1>1, DirectoryShape DEF NamesInv, DirectoriesNamed

LEMMA NamesCopy ==
    ASSUME PrivacyShape, NamesInv, NEW b \in Backup, CopyContent(b) \/ CopyVault(b)
    PROVE  NamesInv'
<1>1. \E e, at : /\ e \in BackupDirectory /\ e.name = copying[b].name /\ copying[b].at \in {"content", "vault"}
                 /\ (at = "vault" /\ ~e.done) \/ (at = "prune" /\ e.done)
                 /\ backups' = {f \in backups : f.name # copying[b].name} \cup {e}
                 /\ copying' = [copying EXCEPT ![b] = [at |-> at, name |-> copying[b].name]]
  <2>1. CASE CopyContent(b)
    <3>1. copying[b].at = "content" => ~DirectoryOf(b).done
      BY UnfinishedOfRun
    <3> QED
      BY <2>1, <3>1, CopyMove
  <2>2. CASE CopyVault(b)
    BY <2>2, CopyVaultMove
  <2> QED
    BY <2>1, <2>2
<1>2. PICK e, at : /\ e \in BackupDirectory /\ e.name = copying[b].name /\ copying[b].at \in {"content", "vault"}
                   /\ (at = "vault" /\ ~e.done) \/ (at = "prune" /\ e.done)
                   /\ backups' = {f \in backups : f.name # copying[b].name} \cup {e}
                   /\ copying' = [copying EXCEPT ![b] = [at |-> at, name |-> copying[b].name]]
  BY <1>1
<1>3. UNCHANGED <<made, overlapped, answered>>
  BY DEF CopyContent, CopyVault, counters, privacyHistory
<1>4. /\ copying'[b].at = at /\ copying'[b].name = copying[b].name
      /\ \A c \in Backup : c # b => copying'[c] = copying[c]
  BY <1>2 DEF PrivacyShape, StoresShape
<1>5. copying[b].name \in 1..made /\ copying[b].name <= made
  BY <1>2 DEF PrivacyShape, CallsAreServed, StoresShape
<1>6. \A d \in backups : d.done => d.name # copying[b].name
  BY <1>2 DEF NamesInv, DirectoriesNamed
<1>7. DirectoriesNamed'
  <2>1. \A d \in backups' : d.name <= made'
    BY <1>2, <1>3, <1>5 DEF NamesInv, DirectoriesNamed
  <2>2. \A d, f \in backups' : d.name = f.name => d = f
    BY <1>2 DEF NamesInv, DirectoriesNamed
  <2>3. \A c \in Backup : copying'[c].at = "idle" \/ copying'[c].name \in 1..made'
    BY <1>3, <1>4, <1>5 DEF NamesInv, DirectoriesNamed
  <2>4. \A c, f \in Backup : c # f /\ copying'[c].at # "idle" /\ copying'[f].at # "idle"
                              => copying'[c].name # copying'[f].name
    BY <1>2, <1>4 DEF NamesInv, DirectoriesNamed
  <2>5. \A c \in Backup, d \in backups' : copying'[c].at \in {"content", "vault"} /\ d.done => d.name # copying'[c].name
    BY <1>2, <1>4 DEF NamesInv, DirectoriesNamed
  <2> QED
    BY <2>1, <2>2, <2>3, <2>4, <2>5 DEF DirectoriesNamed
<1>8. OneRun'
  BY <1>2, <1>3, <1>4 DEF NamesInv, OneRun
<1>9. GoodBackupStays'
  BY <1>2, <1>3, <1>6 DEF NamesInv, GoodBackupStays
<1> QED
  BY <1>7, <1>8, <1>9 DEF NamesInv

LEMMA NamesPrune ==
    ASSUME PrivacyShape, NamesInv, NEW b \in Backup, PruneBackups(b)
    PROVE  NamesInv'
<1>1. /\ backups' = Newest(Keep) /\ copying[b].at = "prune"
      /\ copying' = [copying EXCEPT ![b] = [at |-> "idle", name |-> 0]]
      /\ UNCHANGED <<made, overlapped>>
  BY DEF PruneBackups, counters
<1>2. copying'[b].at = "idle" /\ \A c \in Backup : c # b => copying'[c] = copying[c]
  BY <1>1 DEF PrivacyShape, StoresShape
<1>3. backups' \subseteq backups
  BY <1>1 DEF Newest
<1>4. DirectoriesNamed'
  BY <1>1, <1>2, <1>3 DEF NamesInv, DirectoriesNamed
<1>5. OneRun'
  BY <1>1, <1>2 DEF NamesInv, OneRun
<1>6. ~overlapped => \E d \in backups' : d.done
  <2> SUFFICES ASSUME ~overlapped PROVE \E d \in backups' : d.done
    OBVIOUS
  <2>1. PICK d \in backups : d.name = made /\ d.done
    BY <1>1 DEF NamesInv, OneRun
  <2>2. \A e \in backups : e.name \in Nat /\ e.name <= made
    BY DEF NamesInv, DirectoriesNamed, PrivacyShape, StoresShape, BackupDirectory
  <2>3. {e \in backups : e.name > d.name} = {}
    BY <2>1, <2>2
  <2>4. Cardinality({e \in backups : e.name > d.name}) = 0
    BY <2>3, FS_EmptySet
  <2>5. Cardinality({e \in backups : e.name > d.name}) < Keep
    BY <2>4, PrivacyAssumption
  <2> QED
    BY <1>1, <2>1, <2>5 DEF Newest
<1>7. GoodBackupStays'
  BY <1>1, <1>6 DEF GoodBackupStays
<1> QED
  BY <1>4, <1>5, <1>7 DEF NamesInv

-----------------------------------------------------------------------------
\* What a directory holds can be opened with the vault it holds, or will hold.

CopiesInv == CopiesNamed /\ CopiesWatch

LEMMA InitCopies == PrivacyInit => CopiesInv
BY DEF PrivacyInit, CopiesInv, CopiesNamed, CopiesWatch

LEMMA CopiesStay ==
    ASSUME CopiesInv, UNCHANGED <<backups, restores>>, BusyWith' \subseteq BusyWith, stale => stale',
           late \subseteq late', ~stale' => DOMAIN vaultFile.secrets \subseteq DOMAIN vaultFile'.secrets
    PROVE  CopiesInv'
<1>1. CopiesWatch'
  BY DEF CopiesInv, CopiesWatch
<1>2. \A d \in backups : Excused(d) \subseteq Excused(d)'
  BY DEF Excused
<1>3. CopiesNamed'
  BY <1>2 DEF CopiesInv, CopiesNamed
<1> QED
  BY <1>1, <1>3 DEF CopiesInv

LEMMA CopiesWritten ==
    ASSUME PrivacyShape, CopiesSynced, CopiesInv, NEW p \in Proc, Written(p)
    PROVE  CopiesInv'
<1>1. /\ stale => stale'
      /\ \/ ~stale' => DOMAIN vaultFile'.secrets = DOMAIN vaultFile.secrets
         \/ ~stale' => DOMAIN vaultFile'.secrets = DOMAIN vaultFile.secrets \cup {form.n}
         \/ \E n \in SecretName : Shredding(n)
               /\ (~stale' => DOMAIN vaultFile'.secrets = DOMAIN vaultFile.secrets \ {n})
      /\ UNCHANGED <<admin, backups, late, restores>>
  BY FileChanges DEF privacyHistory, counters
<1>2. BusyWith' = BusyWith
  BY <1>1 DEF BusyWith
<1>3. CASE ~stale' => DOMAIN vaultFile.secrets \subseteq DOMAIN vaultFile'.secrets
  BY <1>1, <1>2, <1>3, CopiesStay
<1>4. CASE \E n \in SecretName : Shredding(n)
               /\ (~stale' => DOMAIN vaultFile'.secrets = DOMAIN vaultFile.secrets \ {n})
  <2>1. PICK n \in SecretName : Shredding(n)
               /\ (~stale' => DOMAIN vaultFile'.secrets = DOMAIN vaultFile.secrets \ {n})
    BY <1>4
  <2>2. Owner[n] \in BusyWith
    BY <2>1 DEF Shredding, BusyWith
  <2>3. \A d \in backups : ~d.done /\ d.content.records # {} => n \in Excused(d)
    BY <2>2 DEF CopiesInv, CopiesWatch, Excused
  <2>4. \A d \in backups : Excused(d)' = Excused(d)
    BY <1>1 DEF Excused
  <2>5. CopiesNamed'
    BY <1>1, <2>1, <2>3, <2>4 DEF CopiesInv, CopiesNamed
  <2>6. CopiesWatch'
    BY <1>1, <1>2 DEF CopiesInv, CopiesWatch
  <2> QED
    BY <2>5, <2>6 DEF CopiesInv
<1> QED
  BY <1>1, <1>3, <1>4

LEMMA CopiesErase ==
    ASSUME PrivacyShape, CopiesInv, NEW s \in Subject, Erase(s)
    PROVE  CopiesInv'
<1>1. /\ admin' = [at |-> "records", subject |-> s, todo |-> RecordsForSubject(s),
                   found |-> [records |-> RecordsForSubject(s), secrets |-> SubjectOf(acked, s), known |-> known]]
      /\ admin.at = "idle" /\ UNCHANGED <<vaultFile, stale, late, restores>>
  BY DEF Erase, vaultVars, vaultHistory, privacyHistory
<1>2. BusyWith' = {s}
  BY <1>1 DEF BusyWith
<1>3. \A d \in backups' : \E e \in backups :
              /\ d.name = e.name /\ d.content = e.content /\ d.vault = e.vault /\ (d.done <=> e.done)
              /\ d.shredding = IF e.done THEN e.shredding ELSE e.shredding \cup {s}
  BY EraseKeeps
<1>4. CopiesWatch'
  <2> SUFFICES ASSUME NEW d \in backups', ~d.done PROVE BusyWith' \subseteq d.shredding
    BY DEF CopiesWatch
  <2>1. PICK e \in backups : (d.done <=> e.done)
              /\ d.shredding = IF e.done THEN e.shredding ELSE e.shredding \cup {s}
    BY <1>3
  <2> QED
    BY <1>2, <2>1
<1>5. CopiesNamed'
  <2> SUFFICES ASSUME ~stale, restores = 0, NEW d \in backups'
               PROVE  IF d.done THEN d.content.records \ Excused(d)' \subseteq DOMAIN d.vault.secrets
                      ELSE d.content.records \ Excused(d)' \subseteq DOMAIN vaultFile.secrets
    BY <1>1 DEF CopiesNamed
  <2>1. PICK e \in backups :
              /\ d.content = e.content /\ d.vault = e.vault /\ (d.done <=> e.done)
              /\ d.shredding = IF e.done THEN e.shredding ELSE e.shredding \cup {s}
    BY <1>3
  <2>2. Excused(e) \subseteq Excused(d)'
    BY <1>1, <2>1 DEF Excused
  <2>3. IF e.done THEN e.content.records \ Excused(e) \subseteq DOMAIN e.vault.secrets
        ELSE e.content.records \ Excused(e) \subseteq DOMAIN vaultFile.secrets
    BY DEF CopiesInv, CopiesNamed
  <2> QED
    BY <2>1, <2>2, <2>3
<1> QED
  BY <1>4, <1>5 DEF CopiesInv

LEMMA CopiesRun ==
    ASSUME PrivacyShape, CopiesInv, NEW b \in Backup, RunScheduledBackup(b)
    PROVE  CopiesInv'
<1>1. backups' = backups \cup {Directory(made')} /\ made' \in Nat
  BY RunMove
<1>2. UNCHANGED <<vaultFile, stale, late, restores, admin>>
  BY DEF RunScheduledBackup, vaultVars, vaultHistory
<1>3. Directory(made').content.records = {} /\ ~Directory(made').done
  BY <1>1, DirectoryShape
<1>4. BusyWith' = BusyWith /\ \A d : Excused(d)' = Excused(d)
  BY <1>2 DEF BusyWith, Excused
<1>5. CopiesWatch'
  BY <1>1, <1>3, <1>4 DEF CopiesInv, CopiesWatch
<1>6. CopiesNamed'
  BY <1>1, <1>2, <1>3, <1>4 DEF CopiesInv, CopiesNamed
<1> QED
  BY <1>5, <1>6 DEF CopiesInv

LEMMA CopiesContent ==
    ASSUME PrivacyShape, NamesInv, RecordsNamed, CopiesInv, NEW b \in Backup, CopyContent(b)
    PROVE  CopiesInv'
<1>1. PICK d, e : /\ d = DirectoryOf(b) /\ (e.done = d.done) /\ copying[b].at = "content"
                  /\ e.content.records = records /\ e.shredding = BusyWith
                  /\ backups' = {f \in backups : f.name # copying[b].name} \cup {e}
  BY CopyMove
<1>2. UNCHANGED <<vaultFile, stale, late, restores, admin>>
  BY DEF CopyContent, vaultVars, vaultHistory, privacyHistory, counters
<1>3. ~e.done
  BY <1>1, UnfinishedOfRun
<1>4. BusyWith' = BusyWith /\ \A f : Excused(f)' = Excused(f)
  BY <1>2 DEF BusyWith, Excused
<1>5. CopiesWatch'
  BY <1>1, <1>4 DEF CopiesInv, CopiesWatch
<1>6. ~stale /\ restores = 0 => e.content.records \ Excused(e) \subseteq DOMAIN vaultFile.secrets
  BY <1>1 DEF RecordsNamed, Excused
<1>7. CopiesNamed'
  BY <1>1, <1>2, <1>3, <1>4, <1>6 DEF CopiesInv, CopiesNamed
<1> QED
  BY <1>5, <1>7 DEF CopiesInv

LEMMA CopiesVault ==
    ASSUME PrivacyShape, NamesInv, CopiesInv, NEW b \in Backup, CopyVault(b)
    PROVE  CopiesInv'
<1>1. PICK d, e : /\ d = DirectoryOf(b) /\ e.done /\ copying[b].at = "vault" /\ e.vault = vaultFile
                  /\ e.content = d.content /\ e.shredding = d.shredding
                  /\ backups' = {f \in backups : f.name # copying[b].name} \cup {e}
  BY CopyVaultMove
<1>2. UNCHANGED <<vaultFile, stale, late, restores, admin>>
  BY DEF CopyVault, vaultVars, vaultHistory, privacyHistory, counters
<1>3. ~d.done /\ (d \in backups \/ d.content.records = {})
  <2>1. copying[b].name \in Nat /\ (d \in backups \/ d = Directory(copying[b].name))
    BY <1>1, RunOfBackup
  <2> QED
    BY <1>1, <2>1, UnfinishedOfRun, DirectoryShape
<1>4. BusyWith' = BusyWith /\ \A f : Excused(f)' = Excused(f)
  BY <1>2 DEF BusyWith, Excused
<1>5. CopiesWatch'
  BY <1>1, <1>4 DEF CopiesInv, CopiesWatch
<1>6. Excused(e) = Excused(d)
  BY <1>1 DEF Excused
<1>7. ~stale /\ restores = 0 => e.content.records \ Excused(e) \subseteq DOMAIN e.vault.secrets
  BY <1>1, <1>3, <1>6 DEF CopiesInv, CopiesNamed
<1>8. CopiesNamed'
  BY <1>1, <1>2, <1>4, <1>7 DEF CopiesInv, CopiesNamed
<1> QED
  BY <1>5, <1>8 DEF CopiesInv

LEMMA CopiesPrune ==
    ASSUME CopiesInv, NEW b \in Backup, PruneBackups(b)
    PROVE  CopiesInv'
<1>1. backups' \subseteq backups /\ UNCHANGED <<vaultFile, stale, late, restores, admin>>
  BY DEF PruneBackups, Newest, vaultVars, vaultHistory, counters
<1>4. BusyWith' = BusyWith /\ \A f : Excused(f)' = Excused(f)
  BY <1>1 DEF BusyWith, Excused
<1>5. CopiesWatch' /\ CopiesNamed'
  BY <1>1, <1>4 DEF CopiesInv, CopiesWatch, CopiesNamed
<1> QED
  BY <1>5 DEF CopiesInv

LEMMA CopiesRestore ==
    ASSUME PrivacyShape, RecordsNamed, CopiesInv, NEW d \in backups, RestoreBackup(d)
    PROVE  CopiesInv'
<1>1. restores \in Nat /\ restores' = restores + 1 /\ UNCHANGED <<backups, admin>>
  BY DEF RestoreBackup, RecordsNamed
<1>2. CopiesNamed'
  BY <1>1 DEF CopiesNamed
<1>3. CopiesWatch'
  BY <1>1 DEF CopiesInv, CopiesWatch, BusyWith
<1> QED
  BY <1>2, <1>3 DEF CopiesInv

-----------------------------------------------------------------------------
\* The inductive invariant.

PrivacyInv ==
    PrivacyShape /\ KeysAgree /\ KnownAndFailed /\ CopiesSynced /\ SecretsInv /\ NamesInv /\ CopiesInv

LEMMA InitPrivacy == PrivacyInit => PrivacyInv
BY InitPrivacyShape, InitKeys, InitKnown, InitSynced, InitSecrets, InitNames, InitCopies DEF PrivacyInv

LEMMA BackupsAlone == UNCHANGED <<vaultVars, backups>> => QuietVault
BY DEF QuietVault

LEMMA VaultStepsKeep ==
    ASSUME PrivacyInv, NEW p \in Proc, Open(p) \/ Written(p) \/ CrashProcess(p)
    PROVE  PrivacyInv'
<1> USE DEF PrivacyInv
<1>1. CASE Open(p)
  <2>1. UNCHANGED <<vaultFile, stale, admin, backups, copying, late, overlapped, answered, counters>>
    BY <1>1, OpenNames
  <2>2. NamesInv'
    BY <2>1, NamesStay DEF BackupNames, counters
  <2>3. CopiesInv'
    BY <2>1, CopiesStay DEF BusyWith, counters
  <2> QED
    BY <1>1, <2>2, <2>3, ShapeOpen, KeysOpen, KnownOpen, SyncedOpen, SecretsOpen
<1>2. CASE Written(p)
  <2>1. UNCHANGED <<backups, copying, overlapped, answered, made>>
    BY <1>2 DEF Written, counters, privacyHistory
  <2>2. NamesInv'
    BY <2>1, NamesStay DEF BackupNames
  <2> QED
    BY <1>2, <2>2, ShapeWritten, KeysWritten, KnownWritten, SyncedWritten, SecretsWritten, CopiesWritten
<1>3. CASE CrashProcess(p)
  <2>1. /\ copying' = IF p = Studio THEN [b \in Backup |-> [at |-> "idle", name |-> 0]] ELSE copying
        /\ admin' = IF p = Studio THEN NoAdmin ELSE admin
        /\ UNCHANGED <<vaultFile, stale, backups, late, overlapped, answered, made, restores>>
    BY <1>3, CrashNames DEF vaultHistory, privacyHistory, counters
  <2>2. copying' = copying \/ \A b \in Backup : copying'[b].at = "idle"
    BY <2>1
  <2>3. NamesInv'
    BY <2>1, <2>2, NamesStay DEF BackupNames
  <2>4. BusyWith' \subseteq BusyWith
    BY <2>1 DEF BusyWith, NoAdmin
  <2>5. CopiesInv'
    BY <2>1, <2>4, CopiesStay
  <2> QED
    BY <1>3, <2>3, <2>5, ShapeCrash, KeysCrash, KnownCrash, SyncedCrash, SecretsCrash
<1> QED
  BY <1>1, <1>2, <1>3

LEMMA FormStepsKeep ==
    ASSUME PrivacyInv, NEW n \in SecretName, Submit(n) \/ StoreRecord
    PROVE  PrivacyInv'
<1> USE DEF PrivacyInv
<1>1. CASE Submit(n)
  <2>1. UNCHANGED <<vaultFile, stale>>
    BY <1>1, SubmitMove, SetMove DEF PrivacyShape
  <2>2. UNCHANGED <<admin, backups, copying, late, overlapped, answered, made, restores>>
    BY <1>1 DEF Submit, privacyHistory, counters
  <2>3. NamesInv'
    BY <2>2, NamesStay DEF BackupNames
  <2>4. CopiesInv'
    BY <2>1, <2>2, CopiesStay DEF BusyWith
  <2> QED
    BY <1>1, <2>3, <2>4, ShapeSubmit, KeysSubmit, KnownSubmit, SyncedSubmit, SecretsSubmit
<1>2. CASE StoreRecord
  <2>1. UNCHANGED <<vaultVars, admin, backups, copying, known, failed, overlapped, answered, made, restores>>
    BY <1>2 DEF StoreRecord, counters
  <2>2. late \subseteq late'
    BY <1>2 DEF StoreRecord
  <2>3. NamesInv'
    BY <2>1, NamesStay DEF BackupNames
  <2>4. CopiesInv'
    BY <2>1, <2>2, CopiesStay DEF BusyWith, vaultVars, vaultHistory
  <2>5. KeysAgree'
    BY <2>1, BackupsAlone, KeysStay DEF QuietVault
  <2>6. KnownAndFailed'
    BY <2>1, KnownStays DEF vaultVars, vaultHistory
  <2>7. CopiesSynced'
    BY <1>2, <2>1, StoreMove, SyncedQuiet DEF vaultVars, vaultHistory
  <2> QED
    BY <1>2, <2>3, <2>4, <2>5, <2>6, <2>7, ShapeStore, SecretsStore
<1> QED
  BY <1>1, <1>2

\* The administrator's steps that write no secret and no backup.
LEMMA AdminStaysQuiet ==
    ASSUME PrivacyInv, UNCHANGED <<vaultVars, form, copying, known, late, overlapped, answered, made, restores>>,
           admin.at # "secrets" \/ tmp[Studio] = <<>>, failed' = failed
    PROVE  /\ KnownAndFailed' /\ CopiesSynced'
           /\ backups' = backups => KeysAgree' /\ NamesInv'
           /\ backups' = backups /\ BusyWith' \subseteq BusyWith => CopiesInv'
<1> USE DEF PrivacyInv
<1>1. KnownAndFailed'
  BY KnownStays DEF vaultVars, vaultHistory
<1>2. \A n \in SecretName : ~Shredding(n)
  BY OneWritten DEF Shredding
<1>3. CopiesSynced'
  BY <1>2, SyncedQuiet DEF vaultVars, vaultHistory
<1>4. backups' = backups => KeysAgree'
  BY BackupsAlone, KeysStay DEF QuietVault
<1>5. backups' = backups => NamesInv'
  BY NamesStay DEF BackupNames
<1>6. backups' = backups /\ BusyWith' \subseteq BusyWith => CopiesInv'
  BY CopiesStay DEF vaultVars, vaultHistory
<1> QED
  BY <1>1, <1>3, <1>4, <1>5, <1>6

LEMMA EraseStepKeeps ==
    ASSUME PrivacyInv, NEW s \in Subject, Erase(s)
    PROVE  PrivacyInv'
<1> USE DEF PrivacyInv
<1>1. /\ UNCHANGED <<vaultVars, form, copying, known, late, overlapped, answered, made, restores, failed>>
      /\ admin.at # "secrets"
  BY DEF Erase, privacyHistory
<1>2. KnownAndFailed' /\ CopiesSynced'
  BY <1>1, AdminStaysQuiet
<1>3. \A d \in backups' : \E e \in backups : d.vault = e.vault
  BY EraseKeeps
<1>4. KeysAgree'
  BY <1>1, <1>3, KeysStay
<1> QED
  BY <1>2, <1>4, ShapeErase, SecretsErase, NamesErase, CopiesErase

LEMMA ErasingStepsKeep ==
    ASSUME PrivacyInv, NEW n, (n \in SecretName /\ EraseRecord(n)) \/ EraseRest \/ Tombstone
    PROVE  PrivacyInv'
<1> USE DEF PrivacyInv
<1>0. admin \in AdminOf
  BY DEF PrivacyShape, StoresShape
<1>1. /\ UNCHANGED <<vaultVars, form, copying, known, late, overlapped, answered, made, restores, failed, backups>>
      /\ admin.at # "secrets" \/ tmp[Studio] = <<>>
  BY DEF EraseRecord, EraseRest, Tombstone, privacyHistory, counters
<1>2. BusyWith' \subseteq BusyWith
  <2>1. CASE EraseRecord(n)
    <3>1. admin' = [admin EXCEPT !.todo = admin.todo \ {n}]
      BY <2>1 DEF EraseRecord
    <3>2. admin'.at = admin.at /\ admin'.subject = admin.subject
      BY <1>0, <3>1 DEF AdminOf
    <3> QED
      BY <3>2 DEF BusyWith
  <2>2. CASE EraseRest
    <3>0. Shredded(admin.subject) \in SUBSET SecretName
      BY AckedNames
    <3>1. admin' = [at |-> "secrets", subject |-> admin.subject, todo |-> Shredded(admin.subject), found |-> admin.found]
      BY <1>0, <2>2, <3>0 DEF EraseRest, AdminOf
    <3>2. admin'.subject = admin.subject /\ admin.at = "records"
      BY <2>2, <3>1 DEF EraseRest
    <3> QED
      BY <3>2 DEF BusyWith
  <2>3. CASE Tombstone
    BY <2>3 DEF Tombstone, NoAdmin, BusyWith
  <2> QED
    BY <2>1, <2>2, <2>3
<1>3. KnownAndFailed' /\ CopiesSynced' /\ KeysAgree' /\ NamesInv' /\ CopiesInv'
  BY <1>1, <1>2, AdminStaysQuiet
<1>4. PrivacyShape'
  BY ShapeEraseRecord, ShapeEraseRest, ShapeTombstone
<1>5. SecretsInv'
  BY SecretsEraseRecord, SecretsEraseRest, SecretsTombstone
<1> QED
  BY <1>3, <1>4, <1>5

LEMMA ShredStepKeeps ==
    ASSUME PrivacyInv, NEW n \in SecretName, ShredSecret(n)
    PROVE  PrivacyInv'
<1> USE DEF PrivacyInv
<1>1. UNCHANGED <<vaultFile, stale>>
  BY ShredMove, DeleteMove, PrivacyAssumption DEF PrivacyShape
<1>2. UNCHANGED <<backups, copying, late, overlapped, answered, made, restores>>
  BY DEF ShredSecret, counters
<1>3. NamesInv'
  BY <1>2, NamesStay DEF BackupNames
<1>4. BusyWith' = BusyWith
  <2>1. /\ admin.at = "secrets"
        /\ admin' = [at |-> "secrets", subject |-> admin.subject, todo |-> admin.todo \ {n}, found |-> admin.found]
    BY ShredMove
  <2>2. admin'.at = "secrets" /\ admin'.subject = admin.subject
    BY <2>1
  <2> QED
    BY <2>1, <2>2 DEF BusyWith
<1>5. CopiesInv'
  BY <1>1, <1>2, <1>4, CopiesStay
<1>6. OfTheSubject
  BY DEF SecretsInv
<1> QED
  BY <1>3, <1>5, <1>6, ShapeShred, KeysShred, KnownShred, SyncedShred, SecretsShred

LEMMA ExportStepsKeep ==
    ASSUME PrivacyInv, NEW s \in Subject, Export(s) \/ RevealDeep
    PROVE  PrivacyInv'
<1> USE DEF PrivacyInv
<1>1. /\ UNCHANGED <<vaultVars, form, copying, known, late, overlapped, answered, made, restores, backups>>
      /\ admin.at \notin {"secrets", "records"}
  BY DEF Export, RevealDeep, privacyHistory, counters
<1>2. admin'.at \in {"export", "idle"}
  <2>1. CASE Export(s)
    <3>1. admin' = [at |-> "export", subject |-> s, todo |-> RecordsForSubject(s), found |-> NothingFound]
      BY <2>1 DEF Export, NoAdmin
    <3> QED
      BY <3>1
  <2>2. CASE RevealDeep
    BY <2>2 DEF RevealDeep, NoAdmin
  <2> QED
    BY <2>1, <2>2
<1>3. BusyWith' \subseteq BusyWith
  BY <1>2 DEF BusyWith
<1>4. \A n \in SecretName : ~Shredding(n)
  BY <1>1 DEF Shredding
<1>5. CopiesSynced'
  BY <1>1, <1>4, SyncedQuiet DEF vaultVars, vaultHistory
<1>6. KeysAgree' /\ NamesInv' /\ CopiesInv'
  <2>1. KeysAgree'
    BY <1>1, BackupsAlone, KeysStay DEF QuietVault
  <2>2. NamesInv'
    BY <1>1, NamesStay DEF BackupNames
  <2>3. CopiesInv'
    BY <1>1, <1>3, CopiesStay DEF vaultVars, vaultHistory
  <2> QED
    BY <2>1, <2>2, <2>3
<1>7. KnownAndFailed'
  <2>1. CASE Export(s)
    <3>1. failed' = failed
      BY <2>1 DEF Export, privacyHistory
    <3> QED
      BY <1>1, <3>1, KnownStays DEF vaultVars, vaultHistory
  <2>2. CASE RevealDeep
    BY <2>2, KnownReveal
  <2> QED
    BY <2>1, <2>2
<1>8. PrivacyShape'
  BY ShapeExport, ShapeReveal
<1> QED
  BY <1>5, <1>6, <1>7, <1>8, SecretsExport

LEMMA BackupStepsHold ==
    ASSUME PrivacyInv, NEW b \in Backup,
           RunScheduledBackup(b) \/ CopyContent(b) \/ CopyVault(b) \/ PruneBackups(b)
    PROVE  PrivacyInv'
<1> USE DEF PrivacyInv
<1>1. UNCHANGED <<vaultVars, form, admin, known, failed>>
  BY DEF RunScheduledBackup, CopyContent, CopyVault, PruneBackups, privacyHistory
<1>2. KnownAndFailed'
  BY <1>1, KnownStays DEF vaultVars, vaultHistory
<1>3. CopiesSynced'
  BY <1>1, SyncedQuiet DEF vaultVars, vaultHistory
<1>4. KeysAgree'
  BY BackupStepsKeep, KeysStay DEF QuietVault
<1>5. SecretsInv'
  BY SecretsBackups
<1>6. PrivacyShape'
  BY ShapeRun, ShapeCopy, ShapePrune
<1>7. NamesInv'
  BY NamesRun, NamesCopy, NamesPrune
<1>8. RecordsNamed
  BY DEF SecretsInv
<1>9. CopiesInv'
  BY <1>8, CopiesRun, CopiesContent, CopiesVault, CopiesPrune
<1> QED
  BY <1>2, <1>3, <1>4, <1>5, <1>6, <1>7, <1>9

LEMMA RestoreStepKeeps ==
    ASSUME PrivacyInv, NEW d \in backups, RestoreBackup(d)
    PROVE  PrivacyInv'
<1> USE DEF PrivacyInv
<1>1. UNCHANGED <<vault, saltRaced, known, failed, copying>> /\ UNCHANGED BackupNames
  BY DEF RestoreBackup, BackupNames
<1>2. KnownAndFailed'
  BY <1>1, KnownStays
<1>3. NamesInv'
  BY <1>1, NamesStay
<1>4. RecordsNamed
  BY DEF SecretsInv
<1> QED
  BY <1>2, <1>3, <1>4, ShapeRestore, KeysRestore, SyncedRestore, SecretsRestore, CopiesRestore

LEMMA PrivacyIdle ==
    ASSUME PrivacyInv, UNCHANGED privacyVars
    PROVE  PrivacyInv'
<1> USE DEF PrivacyInv
<1>1. UNCHANGED <<vaultVars, form, admin, known, failed, backups, copying, content, privacyHistory, counters>>
  BY DEF privacyVars, privacyHistory
<1>2. KnownAndFailed'
  BY <1>1, KnownStays DEF vaultVars, vaultHistory
<1>3. CopiesSynced'
  BY <1>1, SyncedQuiet DEF vaultVars, vaultHistory
<1>4. KeysAgree'
  BY <1>1, BackupsAlone, KeysStay DEF QuietVault
<1>5. NamesInv'
  BY <1>1, NamesStay DEF BackupNames, privacyHistory, counters
<1>6. CopiesInv'
  BY <1>1, CopiesStay DEF vaultVars, vaultHistory, privacyHistory, counters, BusyWith
<1>7. SecretsInv'
  BY <1>1, SecretsQuiet DEF vaultVars, vaultHistory, privacyHistory, counters, content
<1> QED
  BY <1>2, <1>3, <1>4, <1>5, <1>6, <1>7, ShapeIdle

LEMMA PrivacyStep == PrivacyInv /\ [PrivacyNext]_privacyVars => PrivacyInv'
<1> SUFFICES ASSUME PrivacyInv, [PrivacyNext]_privacyVars PROVE PrivacyInv'
  OBVIOUS
<1>1. ASSUME NEW p \in Proc, Open(p) \/ Written(p) \/ CrashProcess(p) PROVE PrivacyInv'
  BY <1>1, VaultStepsKeep
<1>2. ASSUME NEW n \in SecretName, Submit(n) PROVE PrivacyInv'
  BY <1>2, FormStepsKeep
<1>3. CASE StoreRecord
  <2>1. form.n \in SecretName
    BY <1>3, StoreMove DEF PrivacyInv
  <2> QED
    BY <1>3, <2>1, FormStepsKeep
<1>4. ASSUME NEW n \in SecretName, EraseRecord(n) PROVE PrivacyInv'
  BY <1>4, ErasingStepsKeep
<1>5. ASSUME NEW n \in SecretName, ShredSecret(n) PROVE PrivacyInv'
  BY <1>5, ShredStepKeeps
<1>6. CASE EraseRest \/ Tombstone
  BY <1>6, ErasingStepsKeep
<1>7. ASSUME NEW s \in Subject, Erase(s) PROVE PrivacyInv'
  BY <1>7, EraseStepKeeps
<1>8. ASSUME NEW s \in Subject, Export(s) PROVE PrivacyInv'
  BY <1>8, ExportStepsKeep
<1>9. CASE RevealDeep
  <2>1. admin.subject \in Subject
    BY <1>9 DEF RevealDeep, PrivacyInv, PrivacyShape, CallsAreServed
  <2> QED
    BY <1>9, <2>1, ExportStepsKeep
<1>10. ASSUME NEW b \in Backup, RunScheduledBackup(b) \/ CopyContent(b) \/ CopyVault(b) \/ PruneBackups(b)
       PROVE  PrivacyInv'
  BY <1>10, BackupStepsHold
<1>11. ASSUME NEW d \in backups, RestoreBackup(d) PROVE PrivacyInv'
  BY <1>11, RestoreStepKeeps
<1>12. CASE UNCHANGED privacyVars
  BY <1>12, PrivacyIdle
<1> QED
  BY <1>1, <1>2, <1>3, <1>4, <1>5, <1>6, <1>7, <1>8, <1>9, <1>10, <1>11, <1>12 DEF PrivacyNext

LEMMA PrivacyInvHolds == PrivacyInv => SealedIsReadable /\ EraseHolds /\ BackupsServe
<1> SUFFICES ASSUME PrivacyInv PROVE SealedIsReadable /\ EraseHolds /\ BackupsServe
  OBVIOUS
<1> USE DEF PrivacyInv
<1>1. RecordsOpen
  BY DEF RecordsOpen, Undisturbed, SecretsInv, RecordsNamed, KeysAgree, SealedUnder, Opens
<1>2. ExportRevealsKnown
  BY DEF ExportRevealsKnown, KnownAndFailed, FailedKnown
<1>3. EraseHolds
  BY DEF EraseHolds, SecretsInv, ErasedGone, Undisturbed
<1>4. BackupsOpen
  <2> SUFFICES ASSUME Undisturbed, restores = 0, NEW d \in backups, d.done, NEW n \in d.content.records,
                      Owner[n] \notin d.shredding, n \notin late
               PROVE  Opens(d.vault, n)
    BY DEF BackupsOpen
  <2>1. n \in DOMAIN d.vault.secrets
    BY DEF CopiesInv, CopiesNamed, Excused, Undisturbed
  <2>2. SealedUnder(d.vault)
    BY DEF KeysAgree, Undisturbed
  <2> QED
    BY <2>1, <2>2 DEF SealedUnder, Opens
<1>5. GoodBackupStays
  BY DEF NamesInv
<1> QED
  BY <1>1, <1>2, <1>3, <1>4, <1>5 DEF SealedIsReadable, BackupsServe

-----------------------------------------------------------------------------
\* The specification of the accounts, the members and the submissions together.

LEMMA PrivacyInvariant == PersonsSpec => []PrivacyInv
<1>1. PersonsInit => PrivacyInv
  BY InitPrivacy DEF PersonsInit
<1>2. PrivacyInv /\ [PersonsNext]_<<about, authVars, memberVars, privacyVars>> => PrivacyInv'
  <2>1. [PersonsNext]_<<about, authVars, memberVars, privacyVars>> => [PrivacyNext]_privacyVars
    BY DEF PersonsNext
  <2> QED
    BY <2>1, PrivacyStep
<1> QED
  BY <1>1, <1>2, PTL DEF PersonsSpec

\* Whichever process stops at whatever moment, a stored submission can be opened with the vault
\* file (the forms plugin seals the field before it stores the record), and an export fails over
\* no secret the Studio had when it opened the vault (gdpr.ts:113), unless a process
\* wrote over a file it had not seen, or two drew a salt (secrets.ts:271).
THEOREM SealedStaysReadable == PersonsSpec => []SealedIsReadable
<1>1. PrivacyInv => SealedIsReadable
  BY PrivacyInvHolds
<1> QED
  BY <1>1, PrivacyInvariant, PTL

\* What an answered erasure found stays gone (gdpr.ts:123): each record, and each
\* secret that the Studio had in its copy, whatever submissions, backups, crashes and further
\* erasures come between.
THEOREM ErasedStaysErased == PersonsSpec => []EraseHolds
<1>1. PrivacyInv => EraseHolds
  BY PrivacyInvHolds
<1> QED
  BY <1>1, PrivacyInvariant, PTL

\* Once a backup run was answered there is a finished backup, since retention keeps the newest
\* (backup.ts pruneBackups), unless two runs were at work at once; and every finished backup
\* opens, since the store is copied before the vault (backup.ts createBackup).
THEOREM BackupsStayServing == PersonsSpec => []BackupsServe
<1>1. PrivacyInv => BackupsServe
  BY PrivacyInvHolds
<1> QED
  BY <1>1, PrivacyInvariant, PTL

=============================================================================
