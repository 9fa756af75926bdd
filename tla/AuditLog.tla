------------------------------ MODULE AuditLog ------------------------------
(***************************************************************************)
(* The hash-chained audit log of packages/core/src/audit.ts: one file of   *)
(* entries shared by the processes that open it, an HMAC-sealed anchor     *)
(* (<path>.seal) holding the entry count and the head hash, and in every   *)
(* process a private copy of the head that append extends.                 *)
(*                                                                         *)
(* A hash is a natural number, never used twice: every entry contains a    *)
(* random UUID, so SHA-256 values of distinct entries are distinct.  The   *)
(* promise queue of a process (audit.ts:171) runs one append at a time, so *)
(* a process has at most one append in flight; nothing orders the appends  *)
(* of two processes, nor a verifyChain and an append of the same process.  *)
(***************************************************************************)
EXTENDS Integers, Sequences

CONSTANTS
    Proc,            \* the processes that open the log (the Studio, the Site)
    SealKey,         \* TRUE iff a seal secret is configured
    MaxEntries,      \* bound: entries ever written
    MaxAuditCrashes,      \* bound: process crashes
    MaxSealFaults,   \* bound: failed writes of the seal file
    MaxTruncations   \* bound: truncations of the file by something else

ASSUME AuditConstants ==
    /\ SealKey \in BOOLEAN
    /\ MaxEntries \in Nat
    /\ MaxAuditCrashes \in Nat
    /\ MaxSealFaults \in Nat
    /\ MaxTruncations \in Nat

VARIABLES
    file,        \* the lines of the log, oldest first
    seal,        \* the sealed anchor, or NoSeal
    auditPc,          \* where each process stands
    lastHash,    \* each process's private #lastHash
    count,       \* each process's private #count
    view,        \* what a verifyChain in progress read of the file, or NoView
    verdict,     \* what the last verifyChain of each process returned
    written,     \* entries ever written: the source of fresh hashes
    auditCrashes, sealFaults, truncations,
    acked,       \* history: hashes of the entries whose append resolved
    lost         \* history: a sealed entry was cut off, nothing appended since

disk == <<file, seal>>
memory == <<auditPc, lastHash, count>>
verifying == <<view, verdict>>
auditBudget == <<auditCrashes, sealFaults, truncations>>
auditVars == <<disk, memory, verifying, auditBudget, written, acked, lost>>

GENESIS == 0
NoSeal == [count |-> -1, headHash |-> GENESIS]
NoView == [len |-> -1, head |-> GENESIS, linked |-> TRUE]

Entry == [prevHash : Nat, hash : Nat]

\* The hash of the n-th entry, GENESIS before the first one.
HashAt(f, n) == IF n = 0 THEN GENESIS ELSE f[n].hash

HeadHash(f) == HashAt(f, Len(f))

\* The loop of verifyChain: every entry names the hash of the one before it.
Linked(f) == \A i \in 1..Len(f) : f[i].prevHash = HashAt(f, i - 1)

AuditTypeOK ==
    /\ file \in Seq(Entry)
    /\ seal \in [count : Nat \cup {-1}, headHash : Nat]
    /\ auditPc \in [Proc -> {"down", "opened", "unsealed", "idle", "appended"}]
    /\ lastHash \in [Proc -> Nat]
    /\ count \in [Proc -> Nat]
    /\ view \in [Proc -> [len : Nat \cup {-1}, head : Nat, linked : BOOLEAN]]
    /\ verdict \in [Proc -> {"none", "true", "false"}]
    /\ written \in Nat
    /\ auditCrashes \in Nat /\ sealFaults \in Nat /\ truncations \in Nat
    /\ acked \subseteq Nat
    /\ lost \in BOOLEAN

AuditInit ==
    /\ file = <<>>
    /\ seal = NoSeal
    /\ auditPc = [p \in Proc |-> "down"]
    /\ lastHash = [p \in Proc |-> GENESIS]
    /\ count = [p \in Proc |-> 0]
    /\ view = [p \in Proc |-> NoView]
    /\ verdict = [p \in Proc |-> "none"]
    /\ written = 0
    /\ auditCrashes = 0 /\ sealFaults = 0 /\ truncations = 0
    /\ acked = {}
    /\ lost = FALSE

-----------------------------------------------------------------------------
\* Boot: createFileAuditLog reads the file for its head and count, then
\* ensureSeal writes a seal only when there is none.

\* Mutant: the head is not re-read from the file.
CreateFileAuditLogNoHead(p) ==
    /\ auditPc[p] = "down"
    /\ count' = [count EXCEPT ![p] = Len(file)]
    /\ auditPc' = [auditPc EXCEPT ![p] = IF SealKey THEN "opened" ELSE "idle"]
    /\ UNCHANGED <<disk, lastHash, verifying, auditBudget, written, acked, lost>>

CreateFileAuditLog(p) ==
    /\ auditPc[p] = "down"
    /\ lastHash' = [lastHash EXCEPT ![p] = HeadHash(file)]
    /\ count' = [count EXCEPT ![p] = Len(file)]
    /\ auditPc' = [auditPc EXCEPT ![p] = IF SealKey THEN "opened" ELSE "idle"]
    /\ UNCHANGED <<disk, verifying, auditBudget, written, acked, lost>>

\* Mutant: ensureSeal without the "only if none exists" test.
EnsureSealReadAlways(p) ==
    /\ auditPc[p] = "opened"
    /\ auditPc' = [auditPc EXCEPT ![p] = "unsealed"]
    /\ UNCHANGED <<disk, lastHash, count, verifying, auditBudget, written, acked, lost>>

EnsureSealRead(p) ==
    /\ auditPc[p] = "opened"
    /\ auditPc' = [auditPc EXCEPT ![p] = IF seal = NoSeal THEN "unsealed" ELSE "idle"]
    /\ UNCHANGED <<disk, lastHash, count, verifying, auditBudget, written, acked, lost>>

\* Mutants: the seal is built from the count before, or one past, the append.
SealOfLagging(p) == [count |-> count[p] - 1, headHash |-> lastHash[p]]
SealOfAhead(p) == [count |-> count[p] + 1, headHash |-> lastHash[p]]

SealOf(p) == [count |-> count[p], headHash |-> lastHash[p]]

EnsureSealWrite(p) ==
    /\ auditPc[p] = "unsealed"
    /\ seal' = SealOf(p)
    /\ auditPc' = [auditPc EXCEPT ![p] = "idle"]
    /\ UNCHANGED <<file, lastHash, count, verifying, auditBudget, written, acked, lost>>

-----------------------------------------------------------------------------
\* append: one line is added under the head the process remembers, the head is
\* advanced, the seal is replaced (tmp file and rename, so never torn) and only
\* then does the caller's promise resolve.

AppendLocked(p) ==
    /\ auditPc[p] = "idle"
    /\ written < MaxEntries
    /\ LET entry == [prevHash |-> lastHash[p], hash |-> written + 1] IN
         /\ file' = Append(file, entry)
         /\ lastHash' = [lastHash EXCEPT ![p] = entry.hash]
         /\ acked' = IF SealKey THEN acked ELSE acked \cup {entry.hash}
    /\ count' = [count EXCEPT ![p] = @ + 1]
    /\ written' = written + 1
    /\ auditPc' = [auditPc EXCEPT ![p] = IF SealKey THEN "appended" ELSE "idle"]
    /\ lost' = FALSE
    /\ UNCHANGED <<seal, verifying, auditBudget>>

WriteSeal(p) ==
    /\ auditPc[p] = "appended"
    /\ seal' = SealOf(p)
    /\ acked' = acked \cup {lastHash[p]}
    /\ auditPc' = [auditPc EXCEPT ![p] = "idle"]
    /\ UNCHANGED <<file, lastHash, count, verifying, auditBudget, written, lost>>

\* writeFile or rename of the seal fails: append rejects although its entry is
\* in the file and the private head has moved on to it.
WriteSealFails(p) ==
    /\ auditPc[p] = "appended"
    /\ sealFaults < MaxSealFaults
    /\ sealFaults' = sealFaults + 1
    /\ auditPc' = [auditPc EXCEPT ![p] = "idle"]
    /\ UNCHANGED <<disk, lastHash, count, verifying, auditCrashes, truncations,
                   written, acked, lost>>

-----------------------------------------------------------------------------
\* verifyChain does not go through the append queue: it reads the file, and
\* after another await the seal.

Matches(v, s) ==
    IF s = NoSeal THEN v.len = 0 ELSE s.count = v.len /\ s.headHash = v.head

Verdict(v, s) == v.linked /\ (SealKey => Matches(v, s))

Snapshot(f) == [len |-> Len(f), head |-> HeadHash(f), linked |-> Linked(f)]

VerifyChainRead(p) ==
    /\ auditPc[p] \in {"idle", "appended"}
    /\ view[p] = NoView
    /\ view' = [view EXCEPT ![p] = Snapshot(file)]
    /\ UNCHANGED <<disk, memory, verdict, auditBudget, written, acked, lost>>

VerifyChainDecide(p) ==
    /\ view[p] # NoView
    /\ verdict' = [verdict EXCEPT ![p] = IF Verdict(view[p], seal) THEN "true" ELSE "false"]
    /\ view' = [view EXCEPT ![p] = NoView]
    /\ UNCHANGED <<disk, memory, auditBudget, written, acked, lost>>

-----------------------------------------------------------------------------
\* The environment: a process dies and loses its memory; something outside
\* the program cuts the file down to a prefix shorter than what is sealed.

AuditCrash(p) ==
    /\ auditPc[p] # "down"
    /\ auditCrashes < MaxAuditCrashes
    /\ auditCrashes' = auditCrashes + 1
    /\ auditPc' = [auditPc EXCEPT ![p] = "down"]
    /\ lastHash' = [lastHash EXCEPT ![p] = GENESIS]
    /\ count' = [count EXCEPT ![p] = 0]
    /\ view' = [view EXCEPT ![p] = NoView]
    /\ verdict' = [verdict EXCEPT ![p] = "none"]
    /\ UNCHANGED <<disk, sealFaults, truncations, written, acked, lost>>

Truncate(n) ==
    /\ truncations < MaxTruncations
    /\ n < Len(file) /\ n < seal.count
    /\ file' = SubSeq(file, 1, n)
    /\ truncations' = truncations + 1
    /\ lost' = TRUE
    /\ UNCHANGED <<seal, memory, verifying, auditCrashes, sealFaults, written, acked>>

AuditStep(p) ==
    \/ CreateFileAuditLog(p) \/ EnsureSealRead(p) \/ EnsureSealWrite(p)
    \/ AppendLocked(p) \/ WriteSeal(p) \/ WriteSealFails(p)
    \/ VerifyChainRead(p) \/ VerifyChainDecide(p)
    \/ AuditCrash(p)

AuditNext ==
    \/ \E p \in Proc : AuditStep(p)
    \/ \E n \in 0..MaxEntries : Truncate(n)

AuditSpec == AuditInit /\ [][AuditNext]_auditVars

-----------------------------------------------------------------------------
\* Properties.

\* Nothing outside the program has cut the file.
Untouched == truncations = 0

\* Every entry of the log chains the hash of the entry before it
\* (#appendLocked, audit.ts:154-169): with one process this survives crashes at
\* any point and failed seal writes, because the head is re-read at boot.
ChainLinked == Untouched => Linked(file)

\* The seal never covers anything that is not in the file: it names the hash of
\* the entry at its own count, so every crash between appendFile and the rename
\* of the seal leaves a seal of a true prefix of the log (#writeSeal).
SealDescribesPrefix ==
    Untouched /\ seal # NoSeal =>
        /\ seal.count <= Len(file)
        /\ seal.headHash = HashAt(file, seal.count)

\* An append whose promise resolved is in the log and covered by the seal, so a
\* later loss of it is detectable ("Audit write failure fails the operation
\* closed", ADR-010): the caller never proceeds on an entry that is not anchored.
AckedAreSealed ==
    Untouched => \A h \in acked :
        \E i \in 1..Len(file) : file[i].hash = h /\ (SealKey => i <= seal.count)

\* Until something outside the program cuts the file, the chain, the seal and the caller's
\* knowledge agree, wherever the process dies between the steps of an append (audit.ts:154-171).
LogIsSound == ChainLinked /\ SealDescribesPrefix /\ AckedAreSealed

\* Once sealed entries are cut off the file, verifyChain answers false, and
\* neither a restart nor ensureSeal changes that ("a mismatched/deleted seal
\* stays detectable rather than being silently healed", audit.ts:144-148); only
\* a later append replaces the seal.
LossStaysDetected == lost => ~Verdict(Snapshot(file), seal)
=============================================================================
