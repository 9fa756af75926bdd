------------------------------- MODULE Vault -------------------------------
(***************************************************************************)
(* The sealed secrets vault of packages/core/src/secrets.ts: one file that *)
(* the Studio and the Site both open at boot and copy into memory.  Every  *)
(* change is made in the copy and then the whole copy is written, to a     *)
(* temporary file that is renamed over the vault.  Each process stretches  *)
(* the passphrase with the salt that the file names; the first one to open *)
(* a vault without a salt draws one and seals every secret again.  A       *)
(* sealed secret is modelled by the key that it is sealed under.           *)
(***************************************************************************)
EXTENDS Naturals, Sequences, FiniteSets, SequencesExt, TLC

CONSTANTS
    Proc,       \* processes that open the vault
    SecretName, \* names of secrets
    Old,        \* one of these may have been sealed before vaults had salts
    MaxCrashes  \* bound: process crashes

NoKey == "none"
Legacy == "legacy"     \* deriveMasterKey under LEGACY_MASTER_KEY_SALT

ASSUME VaultAssumption ==
    /\ Proc \cap {NoKey, Legacy} = {}
    /\ "kdf" \notin SecretName /\ Old \subseteq SecretName
    /\ MaxCrashes \in Nat

VARIABLES
    vaultFile,  \* the vault file: [kdf, secrets], the key of each secret by name
    vault,      \* each process: [at, key, kdf, secrets, fresh]
    tmp,        \* the copies that each process is writing: a sequence of [vault, about]
    seen,       \* history: does each process know the latest file?
    acked,      \* history: secrets whose setSecret was answered, and not deleted since
    stale,      \* history: a write replaced a file that its writer had not seen
    saltRaced,      \* history: a process drew a salt for a vault that had got one meanwhile
    crashes

vaultHistory == <<seen, acked, stale, saltRaced>>
vaultVars == <<vaultFile, vault, tmp, vaultHistory, crashes>>

SaltOf(p) == p        \* a salt, and the key stretched with it, goes by the process that drew it
NoSecrets == [n \in {} |-> NoKey]
Down == [at |-> "down", key |-> NoKey, kdf |-> NoKey, secrets |-> NoSecrets, fresh |-> FALSE]
Contents(v) == [kdf |-> v.kdf, secrets |-> v.secrets]
Reseal(secrets, key) == [n \in DOMAIN secrets |-> key]
WithSecret(secrets, n, key) == [m \in DOMAIN secrets \cup {n} |-> IF m = n THEN key ELSE secrets[m]]
Readable(v, n) == n \in DOMAIN v.secrets /\ v.secrets[n] = v.key

\* Mutant: the salt is stamped and the secrets stay as they were.
MigratedStamped(v, contents) == [v EXCEPT !.kdf = v.key, !.secrets = contents.secrets]

\* A legacy vault under the key of a new salt.
Migrated(v, contents) == [v EXCEPT !.kdf = v.key, !.secrets = Reseal(contents.secrets, v.key)]

(***************************************************************************)
(* Writing: the temporary file holds the copy as it is now; the rename     *)
(* comes later, and two of one process may be renamed in either order.     *)
(***************************************************************************)
Persist(p, v, about) ==
    /\ vault' = [vault EXCEPT ![p] = v]
    /\ tmp' = [tmp EXCEPT ![p] = Append(@, [vault |-> Contents(v), about |-> about])]

Writing(p, about) == \E i \in DOMAIN tmp[p] : tmp[p][i].about = about

\* Mutant: the answer to setSecret and the new file leave the old secrets out.
RenamedFresh(w) == [w.vault EXCEPT !.secrets = [n \in DOMAIN @ \cap {w.about} |-> @[n]]]
Renamed(w) == w.vault

Rename(p) == \E i \in DOMAIN tmp[p] : LET w == tmp[p][i] IN
    /\ vaultFile' = Renamed(w)
    /\ tmp' = [tmp EXCEPT ![p] = RemoveAt(@, i)]
    /\ seen' = [q \in Proc |-> q = p]
    /\ stale' = (stale \/ ~seen[p] \/ i # 1)
    /\ acked' = IF w.about \notin SecretName THEN acked
                ELSE IF w.about \in DOMAIN w.vault.secrets THEN acked \cup {w.about} ELSE acked \ {w.about}
    /\ vault' = [vault EXCEPT ![p].at = IF @ = "migrating" THEN "up" ELSE @]
    /\ UNCHANGED <<saltRaced, crashes>>

(***************************************************************************)
(* Opening: openSecretsVault looks for the salt, then                      *)
(* createFileSecretsBackend reads the file once more.                      *)
(***************************************************************************)
ReadVaultKdf(p) ==
    /\ vault[p].at = "down"
    /\ vault' = [vault EXCEPT ![p] =
           [Down EXCEPT !.at = "keyed", !.fresh = vaultFile.kdf = NoKey,
                        !.key = IF vaultFile.kdf = NoKey THEN SaltOf(p) ELSE vaultFile.kdf]]
    /\ UNCHANGED <<vaultFile, tmp, vaultHistory, crashes>>

OpenVault(p) ==
    /\ vault[p].at = "keyed"
    /\ seen' = [seen EXCEPT ![p] = TRUE]
    /\ saltRaced' = (saltRaced \/ (vault[p].fresh /\ (vaultFile.kdf # NoKey \/ \E q \in Proc \ {p} : vault[q].fresh)))
    /\ IF vault[p].fresh /\ vaultFile.kdf = NoKey
       THEN Persist(p, Migrated([vault[p] EXCEPT !.at = "migrating"], vaultFile), "kdf")
       ELSE /\ vault' = [vault EXCEPT ![p].at = "up", ![p].kdf = vaultFile.kdf, ![p].secrets = vaultFile.secrets]
            /\ UNCHANGED tmp
    /\ UNCHANGED <<vaultFile, acked, stale, crashes>>

(***************************************************************************)
(* Changing the copy.                                                      *)
(***************************************************************************)
SetSecret(p, n) ==
    /\ vault[p].at = "up"
    /\ Persist(p, [vault[p] EXCEPT !.secrets = WithSecret(@, n, vault[p].key)], n)
    /\ UNCHANGED <<vaultFile, seen, acked, stale, saltRaced, crashes>>

DeleteSecret(p, n) ==
    /\ vault[p].at = "up"
    /\ Persist(p, [vault[p] EXCEPT !.secrets = Restrict(@, DOMAIN @ \ {n})], n)
    /\ UNCHANGED <<vaultFile, seen, acked, stale, saltRaced, crashes>>

CrashVault(p) ==
    /\ vault[p].at # "down"
    /\ crashes < MaxCrashes
    /\ crashes' = crashes + 1
    /\ vault' = [vault EXCEPT ![p] = Down]
    /\ tmp' = [tmp EXCEPT ![p] = <<>>]
    /\ UNCHANGED <<vaultFile, vaultHistory>>

VaultInit ==
    /\ vaultFile \in {[kdf |-> NoKey, secrets |-> NoSecrets]} \cup
                {[kdf |-> NoKey, secrets |-> WithSecret(NoSecrets, n, Legacy)] : n \in Old}
    /\ vault = [p \in Proc |-> Down]
    /\ tmp = [p \in Proc |-> <<>>]
    /\ seen = [p \in Proc |-> FALSE]
    /\ crashes = 0
    /\ acked = DOMAIN vaultFile.secrets
    /\ stale = FALSE /\ saltRaced = FALSE
=============================================================================
