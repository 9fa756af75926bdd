---------------------------- MODULE Services_proofs ----------------------------
(***************************************************************************)
(* Proofs about the services underneath the rest.  The audit log: type     *)
(* correctness for any number of writers; with a single writing process,   *)
(* that the chain and its seal are sound and that a loss of sealed entries *)
(* stays detected, for any number of entries, crashes and failed seals.    *)
(* The scheduler: type correctness, that a job with a handler is given up  *)
(* only after maxAttempts runs, that without overlapping ticks its handler *)
(* is called at most that often and a settled record is never touched      *)
(* again, for any number of jobs, ticks, failures and crashes.             *)
(* The inventory plugin in one worker: type correctness, that the ledger   *)
(* explains the stock, that orders are placed as a whole under a number of *)
(* their own and show the money that was collected, for any number of      *)
(* calls, products, orders and carts.                                      *)
(***************************************************************************)
EXTENDS AuditLog, Scheduler, Inventory, FiniteSetTheorems, SequenceTheorems, TLAPS

-----------------------------------------------------------------------------
\* The audit log.

\* The writer's private head is the head of the file whenever it is running.
HeadIsCurrent ==
    \A p \in Proc : auditPc[p] # "down" =>
        /\ count[p] = Len(file)
        /\ lastHash[p] = Len(file)
        /\ auditPc[p] = "appended" => Len(file) > 0

\* With one writer and no truncation hashes are handed out in file order.
HashesInOrder ==
    /\ truncations = 0
    /\ written = Len(file)
    /\ \A i \in 1..Len(file) : file[i].hash = i /\ file[i].prevHash = i - 1

SealIsOfPrefix ==
    seal # NoSeal => seal.count \in 0..Len(file) /\ seal.headHash = seal.count

AckedBelowSeal ==
    \A h \in acked : h \in 1..Len(file) /\ (SealKey => h <= seal.count)

\* The inductive invariant, as long as nothing has cut the file.
IInv ==
    /\ HeadIsCurrent
    /\ HashesInOrder
    /\ SealIsOfPrefix
    /\ AckedBelowSeal

\* Type correctness holds for any number of writers and with truncations.
THEOREM AuditTypeCorrect == AuditSpec => []AuditTypeOK
<1> USE DEF AuditTypeOK, GENESIS, NoSeal, NoView, Entry
<1>1. AuditInit => AuditTypeOK
  <2> SUFFICES ASSUME AuditInit PROVE AuditTypeOK
    OBVIOUS
  <2>1. file \in Seq(Entry)
    BY DEF AuditInit
  <2>2. view \in [Proc -> [len : Nat \cup {-1}, head : Nat, linked : BOOLEAN]]
    <3>1. NoView \in [len : Nat \cup {-1}, head : Nat, linked : BOOLEAN]
      OBVIOUS
    <3>2. QED
      BY <3>1, Zenon DEF AuditInit
  <2>3. QED
    BY <2>1, <2>2 DEF AuditInit
<1>2. AuditTypeOK /\ [AuditNext]_auditVars => AuditTypeOK'
  <2> SUFFICES ASSUME AuditTypeOK, [AuditNext]_auditVars PROVE AuditTypeOK'
    OBVIOUS
  <2> USE AuditConstants
  <2>0. HeadHash(file) \in Nat
    <3>1. CASE Len(file) = 0
      BY <3>1 DEF HeadHash, HashAt
    <3>2. CASE Len(file) # 0
      <4>1. file[Len(file)] \in Entry
        BY <3>2, ElementOfSeq, Len(file) \in 1..Len(file)
      <4>2. QED
        BY <3>2, <4>1 DEF HeadHash, HashAt
    <3>3. QED
      BY <3>1, <3>2
  <2>1. ASSUME NEW p \in Proc, CreateFileAuditLog(p) PROVE AuditTypeOK'
    BY <2>0, <2>1 DEF CreateFileAuditLog, disk, verifying, auditBudget
  <2>2. ASSUME NEW p \in Proc, EnsureSealRead(p) PROVE AuditTypeOK'
    BY <2>2 DEF EnsureSealRead, disk, verifying, auditBudget
  <2>3. ASSUME NEW p \in Proc, EnsureSealWrite(p) PROVE AuditTypeOK'
    BY <2>3 DEF EnsureSealWrite, SealOf, verifying, auditBudget
  <2>4. ASSUME NEW p \in Proc, AppendLocked(p) PROVE AuditTypeOK'
    <3> DEFINE entry == [prevHash |-> lastHash[p], hash |-> written + 1]
    <3>1. entry \in Entry /\ written + 1 \in Nat
      OBVIOUS
    <3>2. file' = Append(file, entry) /\ file' \in Seq(Entry)
      BY <2>4, <3>1 DEF AppendLocked
    <3>3. /\ lastHash' \in [Proc -> Nat]
          /\ count' \in [Proc -> Nat]
          /\ acked' \subseteq Nat
          /\ written' \in Nat
      BY <2>4, <3>1 DEF AppendLocked
    <3>4. QED
      BY <2>4, <3>2, <3>3 DEF AppendLocked, verifying, auditBudget
  <2>5. ASSUME NEW p \in Proc, WriteSeal(p) PROVE AuditTypeOK'
    <3>0. lastHash[p] \in Nat
      OBVIOUS
    <3>1. acked' \subseteq Nat
      BY <2>5, <3>0, Zenon DEF WriteSeal
    <3>2. seal' \in [count : Nat \cup {-1}, headHash : Nat]
      BY <2>5 DEF WriteSeal, SealOf
    <3>3. QED
      BY <2>5, <3>1, <3>2 DEF WriteSeal, verifying, auditBudget
  <2>6. ASSUME NEW p \in Proc, WriteSealFails(p) PROVE AuditTypeOK'
    BY <2>6 DEF WriteSealFails, disk, verifying
  <2>7. ASSUME NEW p \in Proc, VerifyChainRead(p) PROVE AuditTypeOK'
    <3>1. Snapshot(file) \in [len : Nat \cup {-1}, head : Nat, linked : BOOLEAN]
      BY <2>0 DEF Snapshot, Linked
    <3>2. QED
      BY <2>7, <3>1 DEF VerifyChainRead, disk, memory, auditBudget
  <2>8. ASSUME NEW p \in Proc, VerifyChainDecide(p) PROVE AuditTypeOK'
    BY <2>8 DEF VerifyChainDecide, disk, memory, auditBudget
  <2>9. ASSUME NEW p \in Proc, AuditCrash(p) PROVE AuditTypeOK'
    BY <2>9 DEF AuditCrash, disk
  <2>10. ASSUME NEW n \in 0..MaxEntries, Truncate(n) PROVE AuditTypeOK'
    <3>1. SubSeq(file, 1, n) \in Seq(Entry)
      <4>1. \A i \in 1..n : i \in 1..Len(file)
        BY <2>10 DEF Truncate
      <4>2. \A i \in 1..n : file[i] \in Entry
        BY <4>1, ElementOfSeq
      <4>3. QED
        BY <4>2, SubSeqProperties
    <3>2. QED
      BY <2>10, <3>1 DEF Truncate, memory, verifying
  <2>11. CASE UNCHANGED auditVars
    BY <2>11 DEF auditVars, disk, memory, verifying, auditBudget
  <2>12. QED
    BY <2>1, <2>2, <2>3, <2>4, <2>5, <2>6, <2>7, <2>8, <2>9, <2>10, <2>11
    DEF AuditNext, AuditStep
<1>3. QED
  BY <1>1, <1>2, PTL DEF AuditSpec

\* One process opens the log.
OneWriter == \E w : Proc = {w}

\* A file that is untouched after a step was untouched before it.
LEMMA TruncationsStay ==
  ASSUME AuditTypeOK, [AuditNext]_auditVars, Untouched' PROVE Untouched
<1>1. CASE UNCHANGED auditVars
  BY <1>1 DEF Untouched, auditVars, auditBudget
<1>2. ASSUME NEW p \in Proc, AuditStep(p) PROVE UNCHANGED truncations
  BY <1>2 DEF AuditStep, auditBudget, CreateFileAuditLog, EnsureSealRead, EnsureSealWrite, AppendLocked,
              WriteSeal, WriteSealFails, VerifyChainRead, VerifyChainDecide, AuditCrash
<1>3. ASSUME NEW n \in 0..MaxEntries, Truncate(n) PROVE FALSE
  BY <1>3 DEF Truncate, AuditTypeOK, Untouched
<1> QED
  BY <1>1, <1>2, <1>3 DEF Untouched, AuditNext

\* The new log satisfies the invariant.
LEMMA IInvInit == AuditTypeOK /\ AuditInit => IInv
  BY DEF AuditInit, IInv, HeadIsCurrent, HashesInOrder, SealIsOfPrefix, AckedBelowSeal, AuditTypeOK

\* Every step of the single writer preserves the invariant, a crash after any
\* of its writes included.
LEMMA IInvStep ==
  ASSUME OneWriter, AuditTypeOK, AuditTypeOK', IInv, [AuditNext]_auditVars, Untouched'
  PROVE  IInv'
<1> USE DEF IInv
<1>w. PICK w : Proc = {w}
  BY DEF OneWriter
<1>t. Len(file) \in Nat /\ \A p \in Proc : count[p] \in Nat /\ lastHash[p] \in Nat
  BY DEF AuditTypeOK
<1>f. ASSUME UNCHANGED file PROVE Len(file') = Len(file)
  BY <1>f
<1>1. ASSUME NEW p \in Proc, CreateFileAuditLog(p) PROVE IInv'
  <2>0. HeadHash(file) = Len(file)
    BY <1>t DEF HeadHash, HashAt, GENESIS, HashesInOrder
  <2>1. HeadIsCurrent'
    BY <1>w, <1>1, <2>0 DEF CreateFileAuditLog, HeadIsCurrent, AuditTypeOK, disk
  <2>2. HashesInOrder' /\ SealIsOfPrefix' /\ AckedBelowSeal'
    BY <1>1 DEF CreateFileAuditLog, HashesInOrder, SealIsOfPrefix, AckedBelowSeal,
                NoSeal, GENESIS, disk, auditBudget
  <2>3. QED BY <2>1, <2>2
<1>2. ASSUME NEW p \in Proc, EnsureSealRead(p) PROVE IInv'
  BY <1>w, <1>2 DEF EnsureSealRead, HeadIsCurrent, HashesInOrder, SealIsOfPrefix,
                    AckedBelowSeal, NoSeal, GENESIS, disk, auditBudget, AuditTypeOK
<1>seal. ASSUME NEW p \in Proc, auditPc[p] # "down", seal' = SealOf(p), UNCHANGED file
         PROVE  /\ SealIsOfPrefix'
                /\ seal.count <= Len(file) /\ seal'.count = Len(file)
  <2>1. seal' = [count |-> Len(file), headHash |-> Len(file)]
    BY <1>seal DEF HeadIsCurrent, SealOf
  <2>2. seal.count <= Len(file)
    BY <1>t DEF SealIsOfPrefix, NoSeal, GENESIS
  <2>3. QED
    BY <1>t, <1>seal, <2>1, <2>2 DEF SealIsOfPrefix
<1>3. ASSUME NEW p \in Proc, EnsureSealWrite(p) PROVE IInv'
  <2>1. SealIsOfPrefix' /\ seal.count <= Len(file) /\ seal'.count = Len(file)
    BY <1>3, <1>seal DEF EnsureSealWrite
  <2>2. HeadIsCurrent' /\ HashesInOrder'
    BY <1>w, <1>3 DEF EnsureSealWrite, HeadIsCurrent, HashesInOrder, auditBudget, AuditTypeOK
  <2>3. AckedBelowSeal'
    BY <1>t, <1>3, <2>1 DEF EnsureSealWrite, AckedBelowSeal
  <2>4. QED BY <2>1, <2>2, <2>3
<1>4. ASSUME NEW p \in Proc, AppendLocked(p) PROVE IInv'
  <2> DEFINE entry == [prevHash |-> lastHash[p], hash |-> written + 1]
             n == Len(file)
  <2>0. p = w /\ n \in Nat /\ written = n /\ lastHash[p] = n /\ count[p] = n
    BY <1>w, <1>t, <1>4 DEF AppendLocked, HeadIsCurrent, HashesInOrder
  <2>1. /\ file' = Append(file, entry)
        /\ entry.hash = n + 1 /\ entry.prevHash = n
        /\ written' = n + 1 /\ lastHash'[p] = n + 1 /\ count'[p] = n + 1
    BY <2>0, <1>4 DEF AppendLocked, AuditTypeOK
  <2>2. /\ Len(file') = n + 1
        /\ \A i \in 1..n : file'[i] = file[i]
        /\ file'[n + 1] = entry
    <3>1. file \in Seq(Entry) /\ entry \in Entry
      BY <1>t, <2>0 DEF AuditTypeOK, Entry
    <3>2. QED
      BY <2>1, <3>1, AppendProperties
  <2>3. HeadIsCurrent'
    BY <1>w, <2>0, <2>1, <2>2 DEF HeadIsCurrent
  <2>4. HashesInOrder'
    <3>1. truncations' = 0 /\ written' = Len(file')
      BY <1>4, <2>1, <2>2 DEF AppendLocked, HashesInOrder, auditBudget
    <3>2. ASSUME NEW i \in 1..(n + 1) PROVE file'[i].hash = i /\ file'[i].prevHash = i - 1
      <4>1. CASE i = n + 1
        BY <2>0, <2>1, <2>2, <4>1
      <4>2. CASE i # n + 1
        <5>1. i \in 1..n
          BY <2>0, <4>2
        <5>2. QED
          BY <2>2, <5>1 DEF HashesInOrder
      <4>3. QED BY <4>1, <4>2
    <3>3. QED
      BY <3>1, <3>2, <2>2 DEF HashesInOrder
  <2>5. SealIsOfPrefix'
    BY <1>4, <2>0, <2>2 DEF AppendLocked, SealIsOfPrefix, NoSeal, GENESIS
  <2>6. AckedBelowSeal'
    <3>1. ASSUME NEW h \in acked' PROVE h \in 1..(n + 1) /\ (SealKey => h <= seal.count)
      <4>1. CASE h \in acked
        BY <2>0, <4>1 DEF AckedBelowSeal
      <4>2. CASE h \notin acked
        BY <1>4, <2>0, <4>2 DEF AppendLocked
      <4>3. QED BY <4>1, <4>2
    <3>2. QED
      BY <1>4, <3>1, <2>2 DEF AppendLocked, AckedBelowSeal
  <2>7. QED BY <2>3, <2>4, <2>5, <2>6
<1>5. ASSUME NEW p \in Proc, WriteSeal(p) PROVE IInv'
  <2>1. SealIsOfPrefix' /\ seal.count <= Len(file) /\ seal'.count = Len(file)
    BY <1>5, <1>seal DEF WriteSeal
  <2>2. HeadIsCurrent' /\ HashesInOrder'
    BY <1>w, <1>5 DEF WriteSeal, HeadIsCurrent, HashesInOrder, auditBudget, AuditTypeOK
  <2>3. AckedBelowSeal'
    BY <1>t, <1>5, <2>1 DEF WriteSeal, AckedBelowSeal, HeadIsCurrent
  <2>4. QED BY <2>1, <2>2, <2>3
<1>6. ASSUME NEW p \in Proc, WriteSealFails(p) PROVE IInv'
  BY <1>w, <1>6 DEF WriteSealFails, HeadIsCurrent, HashesInOrder, SealIsOfPrefix,
                    AckedBelowSeal, NoSeal, GENESIS, disk, AuditTypeOK
<1>7. ASSUME NEW p \in Proc, VerifyChainRead(p) \/ VerifyChainDecide(p) PROVE IInv'
  BY <1>7 DEF VerifyChainRead, VerifyChainDecide, HeadIsCurrent, HashesInOrder,
              SealIsOfPrefix, AckedBelowSeal, NoSeal, GENESIS, disk, memory, auditBudget
<1>8. ASSUME NEW p \in Proc, AuditCrash(p) PROVE IInv'
  BY <1>w, <1>8 DEF AuditCrash, HeadIsCurrent, HashesInOrder, SealIsOfPrefix,
                    AckedBelowSeal, NoSeal, GENESIS, disk, AuditTypeOK
<1>9. ASSUME NEW n \in 0..MaxEntries, Truncate(n) PROVE IInv'
  BY <1>9 DEF Truncate, HashesInOrder, Untouched
<1>10. CASE UNCHANGED auditVars
  BY <1>10 DEF auditVars, disk, memory, auditBudget, HeadIsCurrent, HashesInOrder,
               SealIsOfPrefix, AckedBelowSeal, NoSeal, GENESIS
<1>11. QED
  BY <1>1, <1>2, <1>3, <1>4, <1>5, <1>6, <1>7, <1>8, <1>9, <1>10 DEF AuditNext, AuditStep

\* The invariant implies the three properties.
LEMMA IInvImplies ==
  ASSUME AuditTypeOK, IInv
  PROVE  ChainLinked /\ SealDescribesPrefix /\ AckedAreSealed
<1>t. Len(file) \in Nat
  BY DEF AuditTypeOK
<1>1. ChainLinked
  BY <1>t DEF IInv, HashesInOrder, ChainLinked, Linked, HashAt, GENESIS
<1>2. SealDescribesPrefix
  BY <1>t DEF IInv, HashesInOrder, SealIsOfPrefix, SealDescribesPrefix, HashAt, GENESIS
<1>3. AckedAreSealed
  BY <1>t DEF IInv, HashesInOrder, AckedBelowSeal, AckedAreSealed
<1>4. QED BY <1>1, <1>2, <1>3

\* With one writing process the chain is linked, the seal describes a prefix of
\* the file and every acknowledged append is sealed, for any number of entries,
\* crashes between any two steps and failed seal writes, as long as nothing but
\* the program touches the file (audit.ts:122-177, 228-264).
THEOREM SingleWriterLog ==
  ASSUME OneWriter
  PROVE  AuditSpec => []LogIsSound
<1>1. AuditSpec => []AuditTypeOK
  BY AuditTypeCorrect
<1>2. AuditTypeOK /\ AuditInit => IInv
  BY IInvInit
<1>3. AuditTypeOK /\ AuditTypeOK' /\ (Untouched => IInv) /\ [AuditNext]_auditVars => (Untouched => IInv)'
  BY IInvStep, TruncationsStay
<1>4. AuditTypeOK /\ (Untouched => IInv) => LogIsSound
  BY IInvImplies DEF LogIsSound, ChainLinked, SealDescribesPrefix, AckedAreSealed
<1>5. QED
  BY <1>1, <1>2, <1>3, <1>4, PTL DEF AuditSpec

-----------------------------------------------------------------------------
\* A running writer remembers at least as many entries as the file still has, a
\* process about to write the first seal has seen none, and once sealed entries
\* are gone every seal there is, or about to be written, counts too many.
LossInv ==
    /\ \A p \in Proc :
         /\ auditPc[p] # "down" => count[p] >= Len(file)
         /\ auditPc[p] = "unsealed" => seal = NoSeal
         /\ lost = TRUE /\ auditPc[p] = "appended" => count[p] > Len(file)
         /\ SealKey = FALSE => auditPc[p] \in {"down", "idle"}
    /\ lost = TRUE => seal.count > Len(file)
    /\ SealKey = FALSE => seal = NoSeal

\* Every step of the single writer, a truncation included, preserves it.
LEMMA LossInvStep ==
  ASSUME OneWriter, AuditTypeOK, LossInv, [AuditNext]_auditVars
  PROVE  LossInv'
<1> USE DEF LossInv, NoSeal, GENESIS
<1> USE AuditConstants
<1>w. PICK w : Proc = {w}
  BY DEF OneWriter
<1>t. /\ Len(file) \in Nat /\ seal.count \in Nat \cup {-1}
      /\ \A p \in Proc : count[p] \in Nat /\ lastHash[p] \in Nat
  BY DEF AuditTypeOK
<1>1. ASSUME NEW p \in Proc, CreateFileAuditLog(p) PROVE LossInv'
  BY <1>w, <1>t, <1>1 DEF CreateFileAuditLog, AuditTypeOK, disk
<1>2. ASSUME NEW p \in Proc, EnsureSealRead(p) PROVE LossInv'
  BY <1>w, <1>t, <1>2 DEF EnsureSealRead, AuditTypeOK, disk
<1>3. ASSUME NEW p \in Proc, EnsureSealWrite(p) PROVE LossInv'
  <2>1. auditPc[p] = "unsealed" /\ seal.count = -1
    BY <1>3 DEF EnsureSealWrite
  <2>2. ~(seal.count > Len(file))
    BY <1>t, <2>1
  <2>3. lost # TRUE /\ SealKey # FALSE
    BY <2>1, <2>2, Zenon
  <2> QED
    BY <1>w, <1>t, <1>3, <2>3 DEF EnsureSealWrite, AuditTypeOK
<1>4. ASSUME NEW p \in Proc, AppendLocked(p) PROVE LossInv'
  <2> DEFINE entry == [prevHash |-> lastHash[p], hash |-> written + 1]
  <2>1. entry \in Entry
    BY <1>t DEF AuditTypeOK, Entry
  <2>2. Len(file') = Len(file) + 1
    BY <1>4, <2>1, AppendProperties DEF AppendLocked, AuditTypeOK
  <2>3. /\ count' = [count EXCEPT ![p] = @ + 1] /\ lost' = FALSE /\ seal' = seal
        /\ auditPc' = [auditPc EXCEPT ![p] = IF SealKey THEN "appended" ELSE "idle"]
        /\ auditPc[p] = "idle"
    BY <1>4 DEF AppendLocked
  <2> QED
    BY <1>w, <1>t, <2>2, <2>3 DEF AuditTypeOK
<1>5. ASSUME NEW p \in Proc, WriteSeal(p) PROVE LossInv'
  <2>1. SealKey = TRUE
    BY <1>5 DEF WriteSeal
  <2>2. seal'.count = count[p] /\ auditPc[p] = "appended"
    BY <1>5 DEF WriteSeal, SealOf
  <2> QED
    BY <1>w, <1>t, <1>5, <2>1, <2>2 DEF WriteSeal, AuditTypeOK
<1>6. ASSUME NEW p \in Proc, WriteSealFails(p) PROVE LossInv'
  BY <1>w, <1>t, <1>6 DEF WriteSealFails, AuditTypeOK, disk
<1>7. ASSUME NEW p \in Proc, VerifyChainRead(p) \/ VerifyChainDecide(p) PROVE LossInv'
  BY <1>7 DEF VerifyChainRead, VerifyChainDecide, disk, memory
<1>8. ASSUME NEW p \in Proc, AuditCrash(p) PROVE LossInv'
  BY <1>w, <1>t, <1>8 DEF AuditCrash, AuditTypeOK, disk
<1>9. ASSUME NEW n \in 0..MaxEntries, Truncate(n) PROVE LossInv'
  <2>1. Len(file') = n /\ n < Len(file) /\ n < seal.count /\ seal' = seal /\ UNCHANGED memory
    BY <1>t, <1>9, SubSeqProperties DEF Truncate, AuditTypeOK
  <2> QED
    BY <1>t, <2>1 DEF memory
<1>10. CASE UNCHANGED auditVars
  BY <1>10 DEF auditVars, disk, memory
<1> QED
  BY <1>1, <1>2, <1>3, <1>4, <1>5, <1>6, <1>7, <1>8, <1>9, <1>10 DEF AuditNext, AuditStep

\* With one writing process verifyChain answers false from the loss of sealed
\* entries to the next append, for any number of entries, crashes, restarts,
\* failed seal writes and truncations (audit.ts:144-148, 228-264).
THEOREM LossIsDetected ==
  ASSUME OneWriter
  PROVE  AuditSpec => []LossStaysDetected
<1>1. AuditTypeOK /\ AuditInit => LossInv
  BY AuditConstants DEF AuditInit, LossInv, NoSeal, GENESIS, AuditTypeOK
<1>2. AuditTypeOK /\ LossInv /\ [AuditNext]_auditVars => LossInv'
  BY LossInvStep
<1>3. AuditTypeOK /\ LossInv => LossStaysDetected
  <2> SUFFICES ASSUME AuditTypeOK, LossInv, lost PROVE ~Verdict(Snapshot(file), seal)
    BY DEF LossStaysDetected
  <2>1. Len(file) \in Nat /\ seal.count > Len(file)
    BY DEF AuditTypeOK, LossInv
  <2>2. seal # NoSeal /\ SealKey
    BY <2>1, AuditConstants DEF LossInv, NoSeal
  <2> QED
    BY <2>1, <2>2 DEF Verdict, Matches, Snapshot
<1> QED
  BY <1>1, <1>2, <1>3, AuditTypeCorrect, PTL DEF AuditSpec

-----------------------------------------------------------------------------
\* The scheduler.

\* A record rewritten by Put is a job record again.
LEMMA PutType ==
    ASSUME SchedulerTypeOK, NEW t \in Tick, NEW s \in Status, NEW n \in Nat, Put(t, s, n)
    PROVE  /\ copy' \in [Tick -> JobRecord]
           /\ job' \in [Job -> JobRecord]
           /\ copy'[t] = [status |-> s, attempts |-> n, runAt |-> copy[t].runAt]
           /\ copy' = [copy EXCEPT ![t] = copy'[t]]
           /\ job' = [job EXCEPT ![cur[t]] = copy'[t]]
<1>1. [status |-> s, attempts |-> n, runAt |-> copy[t].runAt] \in JobRecord
  BY DEF SchedulerTypeOK, JobRecord
<1> QED
  BY <1>1 DEF Put, SchedulerTypeOK

\* Type correctness of the scheduler: every record a tick writes back is a
\* well formed job record.
THEOREM SchedulerTypeCorrect == SchedulerSpec => []SchedulerTypeOK
<1>1. SchedulerInit => SchedulerTypeOK
  <2> SUFFICES ASSUME SchedulerInit PROVE SchedulerTypeOK
    OBVIOUS
  <2>1. Absent \in JobRecord
    BY DEF Absent, JobRecord, Status
  <2> QED
    BY <2>1 DEF SchedulerInit, SchedulerTypeOK
<1>2. SchedulerTypeOK /\ [SchedulerNext]_schedulerVars => SchedulerTypeOK'
  <2> SUFFICES ASSUME SchedulerTypeOK, [SchedulerNext]_schedulerVars PROVE SchedulerTypeOK'
    OBVIOUS
  <2> USE SchedulerConstants
  <2>1. CASE UNCHANGED schedulerVars
    BY <2>1 DEF SchedulerTypeOK, schedulerVars, ticks, budget, history
  <2>2. ASSUME NEW j \in Job, NEW at \in 0..Horizon, Schedule(j, at) PROVE SchedulerTypeOK'
    <3>1. [status |-> "pending", attempts |-> 0, runAt |-> at] \in JobRecord
      BY DEF JobRecord, Status
    <3> QED
      BY <2>2, <3>1 DEF SchedulerTypeOK, Schedule, ticks, budget, history
  <2>3. CASE TimePasses
    BY <2>3 DEF SchedulerTypeOK, TimePasses, ticks, budget, history
  <2>4. ASSUME NEW t \in Tick, TickStep(t) PROVE SchedulerTypeOK'
    <3> copy[t].attempts \in Nat /\ copy[t].attempts + 1 \in Nat
      BY DEF SchedulerTypeOK, JobRecord
    <3> {"running", "done", "failed", "pending"} \subseteq Status
      BY DEF Status
    <3>1. CASE LoadPending(t)
      BY <3>1 DEF SchedulerTypeOK, LoadPending, budget, history
    <3>2. CASE EndTick(t)
      BY <3>2 DEF SchedulerTypeOK, EndTick, budget, history
    <3>3. ASSUME NEW j \in Job, Reread(t, j) PROVE SchedulerTypeOK'
      BY <3>3 DEF SchedulerTypeOK, Reread, budget, history
    <3>4. CASE Claim(t)
      BY <3>4, PutType DEF SchedulerTypeOK, Claim, budget, history
    <3>5. CASE NoHandler(t)
      BY <3>5, PutType DEF SchedulerTypeOK, NoHandler, budget, history
    <3>6. CASE HandlerReturns(t)
      BY <3>6 DEF SchedulerTypeOK, HandlerReturns, budget, history
    <3>7. CASE HandlerThrows(t)
      BY <3>7 DEF SchedulerTypeOK, HandlerThrows, budget, history
    <3>8. CASE RecordDone(t)
      BY <3>8, PutType DEF SchedulerTypeOK, RecordDone, budget, history
    <3>9. CASE AuditDone(t)
      BY <3>9 DEF SchedulerTypeOK, AuditDone, budget, history
    <3>10. CASE AuditDoneFails(t)
      BY <3>10 DEF SchedulerTypeOK, AuditDoneFails, budget, history
    <3>11. CASE RecordFailure(t)
      BY <3>11, PutType DEF SchedulerTypeOK, RecordFailure, budget, history
    <3>12. CASE AuditFailure(t)
      BY <3>12 DEF SchedulerTypeOK, AuditFailure, budget, history
    <3> QED
      BY <2>4, <3>1, <3>2, <3>3, <3>4, <3>5, <3>6, <3>7, <3>8, <3>9, <3>10, <3>11, <3>12 DEF TickStep
  <2>5. CASE SchedulerCrash
    BY <2>5 DEF SchedulerTypeOK, SchedulerCrash, history
  <2> QED
    BY <2>1, <2>2, <2>3, <2>4, <2>5 DEF SchedulerNext
<1> QED
  BY <1>1, <1>2, PTL DEF SchedulerSpec

-----------------------------------------------------------------------------
\* A record never counts more attempts than its handler was called, neither
\* in storage nor in the copy of a tick that has claimed it; a tick that is
\* past the handler has not yet counted the call it made.
AttemptsWereRuns ==
    /\ \A j \in Job : job[j].attempts <= runs[j]
    /\ \A t \in Tick :
         /\ pc[t] \in {"claim", "run"} => copy[t].attempts <= runs[cur[t]]
         /\ pc[t] \in {"succeeded", "recorded", "threw"} => copy[t].attempts < runs[cur[t]]

\* A handled job that is given up has used its attempts.
FailedCounts ==
    \A j \in Handled : job[j].status = "failed" => job[j].attempts >= MaxAttempts

GivenUp == AttemptsWereRuns /\ FailedCounts

\* A job that has a handler is given up only after maxAttempts calls of it,
\* with any number of ticks at work on it at once, whatever fails and however
\* often the process crashes (scheduler.ts:126-131).
THEOREM GivenUpOnlyWhenExhausted == SchedulerSpec => []FailedIsExhausted
<1> USE SchedulerConstants
<1>1. SchedulerInit => GivenUp
  BY DEF SchedulerInit, GivenUp, AttemptsWereRuns, FailedCounts, Absent
<1>2. SchedulerTypeOK /\ GivenUp /\ [SchedulerNext]_schedulerVars => GivenUp'
  <2> SUFFICES ASSUME SchedulerTypeOK, GivenUp, [SchedulerNext]_schedulerVars PROVE GivenUp'
    OBVIOUS
  <2> USE DEF GivenUp, AttemptsWereRuns, FailedCounts
  <2>t. /\ \A j \in Job : job[j].attempts \in Nat /\ runs[j] \in Nat
        /\ \A t \in Tick : copy[t].attempts \in Nat /\ cur[t] \in Job
    BY DEF SchedulerTypeOK, JobRecord
  <2>1. CASE UNCHANGED schedulerVars
    BY <2>1 DEF schedulerVars, ticks, history
  <2>2. ASSUME NEW j \in Job, NEW at \in 0..Horizon, Schedule(j, at) PROVE GivenUp'
    BY <2>2, <2>t DEF SchedulerTypeOK, Schedule, ticks, Absent, history
  <2>3. CASE TimePasses
    BY <2>3 DEF TimePasses, ticks, history
  <2>4. ASSUME NEW t \in Tick, TickStep(t) PROVE GivenUp'
    <3>s. {"running", "done", "failed", "pending"} \subseteq Status
      BY DEF Status
    <3>n. copy[t].attempts + 1 \in Nat
      BY <2>t
    <3>1. CASE LoadPending(t)
      BY <3>1, <2>t DEF SchedulerTypeOK, LoadPending, budget, history
    <3>2. CASE EndTick(t)
      BY <3>2, <2>t DEF SchedulerTypeOK, EndTick, budget, history
    <3>3. ASSUME NEW j \in Job, Reread(t, j) PROVE GivenUp'
      BY <3>3, <2>t DEF SchedulerTypeOK, Reread, budget, history
    <3>4. CASE Claim(t)
      <4>1. Put(t, "running", copy[t].attempts)
        BY <3>4 DEF Claim
      <4>2. /\ copy'[t] = [status |-> "running", attempts |-> copy[t].attempts, runAt |-> copy[t].runAt]
            /\ copy' = [copy EXCEPT ![t] = copy'[t]]
            /\ job' = [job EXCEPT ![cur[t]] = copy'[t]]
        BY <4>1, <2>t, <3>s, PutType
      <4> QED
        BY <3>4, <4>2, <2>t DEF SchedulerTypeOK, Claim, budget, history
    <3>5. CASE NoHandler(t)
      <4>1. Put(t, "failed", copy[t].attempts)
        BY <3>5 DEF NoHandler
      <4>2. /\ copy'[t] = [status |-> "failed", attempts |-> copy[t].attempts, runAt |-> copy[t].runAt]
            /\ copy' = [copy EXCEPT ![t] = copy'[t]]
            /\ job' = [job EXCEPT ![cur[t]] = copy'[t]]
        BY <4>1, <2>t, <3>s, PutType
      <4> QED
        BY <3>5, <4>2, <2>t DEF SchedulerTypeOK, NoHandler, budget, history
    <3>6. CASE HandlerReturns(t)
      BY <3>6, <2>t DEF SchedulerTypeOK, HandlerReturns, budget, history
    <3>7. CASE HandlerThrows(t)
      BY <3>7, <2>t DEF SchedulerTypeOK, HandlerThrows, budget, history
    <3>8. CASE RecordDone(t)
      <4>1. Put(t, "done", copy[t].attempts)
        BY <3>8 DEF RecordDone
      <4>2. /\ copy'[t] = [status |-> "done", attempts |-> copy[t].attempts, runAt |-> copy[t].runAt]
            /\ copy' = [copy EXCEPT ![t] = copy'[t]]
            /\ job' = [job EXCEPT ![cur[t]] = copy'[t]]
        BY <4>1, <2>t, <3>s, PutType
      <4> QED
        BY <3>8, <4>2, <2>t DEF SchedulerTypeOK, RecordDone, budget, history
    <3>9. CASE AuditDone(t)
      BY <3>9, <2>t DEF SchedulerTypeOK, AuditDone, budget, history
    <3>10. CASE AuditDoneFails(t)
      BY <3>10, <2>t DEF SchedulerTypeOK, AuditDoneFails, budget, history
    <3>11. CASE RecordFailure(t)
      <4> DEFINE s == IF copy[t].attempts + 1 >= MaxAttempts THEN "failed" ELSE "pending"
      <4>1. Put(t, s, copy[t].attempts + 1) /\ s \in Status
        BY <3>11, <3>s DEF RecordFailure
      <4>2. /\ copy'[t] = [status |-> s, attempts |-> copy[t].attempts + 1, runAt |-> copy[t].runAt]
            /\ copy' = [copy EXCEPT ![t] = copy'[t]]
            /\ job' = [job EXCEPT ![cur[t]] = copy'[t]]
        BY <4>1, <3>n, PutType
      <4>3. s = "failed" => copy[t].attempts + 1 >= MaxAttempts
        OBVIOUS
      <4> HIDE DEF s
      <4> QED
        BY <3>11, <4>2, <4>3, <2>t DEF SchedulerTypeOK, RecordFailure, budget, history
    <3>12. CASE AuditFailure(t)
      BY <3>12, <2>t DEF SchedulerTypeOK, AuditFailure, budget, history
    <3> QED
      BY <2>4, <3>1, <3>2, <3>3, <3>4, <3>5, <3>6, <3>7, <3>8, <3>9, <3>10, <3>11, <3>12 DEF TickStep
  <2>5. CASE SchedulerCrash
    BY <2>5, <2>t DEF SchedulerTypeOK, SchedulerCrash, history
  <2> QED
    BY <2>1, <2>2, <2>3, <2>4, <2>5 DEF SchedulerNext
<1>3. SchedulerTypeOK /\ GivenUp => FailedIsExhausted
  <2> SUFFICES ASSUME SchedulerTypeOK, GivenUp, NEW j \in Handled, job[j].status = "failed"
               PROVE  runs[j] >= MaxAttempts
    BY DEF FailedIsExhausted
  <2>1. j \in Job /\ job[j].attempts \in Nat /\ runs[j] \in Nat
    BY DEF SchedulerTypeOK, JobRecord
  <2> QED
    BY <2>1 DEF GivenUp, AttemptsWereRuns, FailedCounts
<1> QED
  BY <1>1, <1>2, <1>3, SchedulerTypeCorrect, PTL DEF SchedulerSpec

-----------------------------------------------------------------------------
\* Ticks that have not overlapped are at work one at a time.
OneAtWork == \A t, u \in Tick : pc[t] # "idle" /\ pc[u] # "idle" => t = u

\* A job that waits has attempts left and has been run once for each counted
\* attempt; one that was claimed, finished or left behind by a crash has been
\* run at most once more.
RunsAreCounted ==
    \A j \in Job :
        /\ job[j].status = "none" => runs[j] = 0
        /\ job[j].status = "pending" => job[j].attempts < MaxAttempts /\ runs[j] <= job[j].attempts
        /\ job[j].status \in {"running", "done"} => runs[j] <= MaxAttempts
        /\ job[j].status = "failed" => runs[j] <= MaxAttempts

\* What the tick knows of the job it is at.
TickIsCurrent ==
    \A t \in Tick :
        /\ pc[t] \in {"claim", "run"} =>
             /\ copy[t].attempts < MaxAttempts
             /\ runs[cur[t]] <= copy[t].attempts
        /\ pc[t] \in {"succeeded", "recorded", "threw"} =>
             /\ copy[t].attempts < MaxAttempts
             /\ runs[cur[t]] <= copy[t].attempts + 1
        /\ pc[t] # "idle" /\ pc[t] # "scan" => job[cur[t]].status # "none"
        /\ pc[t] \in {"run", "succeeded", "recorded", "threw"} => job[cur[t]].status \in {"running", "done"}
        /\ pc[t] = "claim" => job[cur[t]].status = "pending"

Counted == ~overlapped => OneAtWork /\ RunsAreCounted /\ TickIsCurrent

\* The counts are exact in every state in which no ticks have overlapped.
LEMMA CountedInvariant == SchedulerSpec => []Counted
<1> USE SchedulerConstants
<1>1. SchedulerInit => Counted
  BY DEF SchedulerInit, Counted, OneAtWork, RunsAreCounted, TickIsCurrent, Absent
<1>2. SchedulerTypeOK /\ Counted /\ [SchedulerNext]_schedulerVars => Counted'
  <2> SUFFICES ASSUME SchedulerTypeOK, Counted, [SchedulerNext]_schedulerVars PROVE Counted'
    OBVIOUS
  <2> USE DEF Counted, OneAtWork, RunsAreCounted, TickIsCurrent
  <2>t. /\ \A j \in Job : job[j].attempts \in Nat /\ runs[j] \in Nat
        /\ \A t \in Tick : copy[t].attempts \in Nat /\ cur[t] \in Job
    BY DEF SchedulerTypeOK, JobRecord
  <2>1. CASE UNCHANGED schedulerVars
    BY <2>1 DEF schedulerVars, ticks, history
  <2>2. ASSUME NEW j \in Job, NEW at \in 0..Horizon, Schedule(j, at) PROVE Counted'
    BY <2>2, <2>t DEF SchedulerTypeOK, Schedule, ticks, Absent, history
  <2>3. CASE TimePasses
    BY <2>3 DEF TimePasses, ticks, history
  <2>4. ASSUME NEW t \in Tick, TickStep(t) PROVE Counted'
    <3>o. ~overlapped /\ pc[t] # "idle" => \A u \in Tick : u # t => pc[u] = "idle"
      OBVIOUS
    <3>s. {"running", "done", "failed", "pending"} \subseteq Status
      BY DEF Status
    <3>n. copy[t].attempts + 1 \in Nat
      BY <2>t
    <3>1. CASE LoadPending(t)
      BY <3>1, <3>o, <2>t DEF SchedulerTypeOK, LoadPending, budget, history
    <3>2. CASE EndTick(t)
      BY <3>2, <3>o, <2>t DEF SchedulerTypeOK, EndTick, budget, history
    <3>3. ASSUME NEW j \in Job, Reread(t, j) PROVE Counted'
      BY <3>3, <3>o, <2>t DEF SchedulerTypeOK, Reread, budget, history
    <3>4. CASE Claim(t)
      <4>1. Put(t, "running", copy[t].attempts)
        BY <3>4 DEF Claim
      <4>2. /\ copy'[t] = [status |-> "running", attempts |-> copy[t].attempts, runAt |-> copy[t].runAt]
            /\ copy' = [copy EXCEPT ![t] = copy'[t]]
            /\ job' = [job EXCEPT ![cur[t]] = copy'[t]]
        BY <4>1, <2>t, <3>s, PutType
      <4> QED
        BY <3>4, <3>o, <4>2, <2>t DEF SchedulerTypeOK, Claim, budget, history
    <3>5. CASE NoHandler(t)
      <4>1. Put(t, "failed", copy[t].attempts)
        BY <3>5 DEF NoHandler
      <4>2. /\ copy'[t] = [status |-> "failed", attempts |-> copy[t].attempts, runAt |-> copy[t].runAt]
            /\ copy' = [copy EXCEPT ![t] = copy'[t]]
            /\ job' = [job EXCEPT ![cur[t]] = copy'[t]]
        BY <4>1, <2>t, <3>s, PutType
      <4> QED
        BY <3>5, <3>o, <4>2, <2>t DEF SchedulerTypeOK, NoHandler, budget, history
    <3>6. CASE HandlerReturns(t)
      BY <3>6, <3>o, <2>t DEF SchedulerTypeOK, HandlerReturns, budget, history
    <3>7. CASE HandlerThrows(t)
      BY <3>7, <3>o, <2>t DEF SchedulerTypeOK, HandlerThrows, budget, history
    <3>8. CASE RecordDone(t)
      <4>1. Put(t, "done", copy[t].attempts)
        BY <3>8 DEF RecordDone
      <4>2. /\ copy'[t] = [status |-> "done", attempts |-> copy[t].attempts, runAt |-> copy[t].runAt]
            /\ copy' = [copy EXCEPT ![t] = copy'[t]]
            /\ job' = [job EXCEPT ![cur[t]] = copy'[t]]
        BY <4>1, <2>t, <3>s, PutType
      <4> QED
        BY <3>8, <3>o, <4>2, <2>t DEF SchedulerTypeOK, RecordDone, budget, history
    <3>9. CASE AuditDone(t)
      BY <3>9, <3>o, <2>t DEF SchedulerTypeOK, AuditDone, budget, history
    <3>10. CASE AuditDoneFails(t)
      BY <3>10, <3>o, <2>t DEF SchedulerTypeOK, AuditDoneFails, budget, history
    <3>11. CASE RecordFailure(t)
      <4> DEFINE s == IF copy[t].attempts + 1 >= MaxAttempts THEN "failed" ELSE "pending"
      <4>1. Put(t, s, copy[t].attempts + 1) /\ s \in Status
        BY <3>11, <3>s DEF RecordFailure
      <4>2. /\ copy'[t] = [status |-> s, attempts |-> copy[t].attempts + 1, runAt |-> copy[t].runAt]
            /\ copy' = [copy EXCEPT ![t] = copy'[t]]
            /\ job' = [job EXCEPT ![cur[t]] = copy'[t]]
        BY <4>1, <3>n, PutType
      <4>3. \/ s = "failed"
            \/ s = "pending" /\ copy[t].attempts + 1 < MaxAttempts
        BY <2>t
      <4> HIDE DEF s
      <4> QED
        BY <3>11, <3>o, <4>2, <4>3, <2>t DEF SchedulerTypeOK, RecordFailure, budget, history
    <3>12. CASE AuditFailure(t)
      BY <3>12, <3>o, <2>t DEF SchedulerTypeOK, AuditFailure, budget, history
    <3> QED
      BY <2>4, <3>1, <3>2, <3>3, <3>4, <3>5, <3>6, <3>7, <3>8, <3>9, <3>10, <3>11, <3>12 DEF TickStep
  <2>5. CASE SchedulerCrash
    BY <2>5, <2>t DEF SchedulerTypeOK, SchedulerCrash, history
  <2> QED
    BY <2>1, <2>2, <2>3, <2>4, <2>5 DEF SchedulerNext
<1> QED
  BY <1>1, <1>2, SchedulerTypeCorrect, PTL DEF SchedulerSpec

\* When ticks do not overlap, a job's handler is called at most maxAttempts
\* times, however its runs fail, the audit log rejects the entry of a run that
\* succeeded, and the process crashes in between (scheduler.ts:100-137).
THEOREM RunsAreBounded == SchedulerSpec => []RunsBounded
<1> USE SchedulerConstants
<1>1. SchedulerTypeOK /\ Counted => RunsBounded
  <2> SUFFICES ASSUME SchedulerTypeOK, Counted, ~overlapped, NEW j \in Job PROVE runs[j] <= MaxAttempts
    BY DEF RunsBounded
  <2>1. /\ job[j].status \in Status
        /\ job[j].attempts \in Nat /\ runs[j] \in Nat
    BY DEF SchedulerTypeOK, JobRecord
  <2> QED
    BY <2>1 DEF Counted, RunsAreCounted, Status
<1> QED
  BY <1>1, CountedInvariant, SchedulerTypeCorrect, PTL

-----------------------------------------------------------------------------
\* The two bounds on the calls of a handler together (scheduler.ts:100-137): with any number of jobs,
\* ticks, failures and crashes no attempt is lost and none is added.
THEOREM AttemptsAreSound == SchedulerSpec => []AttemptsAreSpent
<1>1. FailedIsExhausted /\ RunsBounded => AttemptsAreSpent
  BY DEF AttemptsAreSpent
<1> QED
  BY <1>1, GivenUpOnlyWhenExhausted, RunsAreBounded, PTL

-----------------------------------------------------------------------------
\* While no tick has overlapped another and no entry of a finished job was
\* refused, the record of the job a tick is at says how far the tick is.
AtWorkIsRunning ==
    ~overlapped /\ auditFaults = 0 =>
        \A t \in Tick :
            /\ pc[t] = "claim" => job[cur[t]].status = "pending"
            /\ pc[t] \in {"run", "succeeded", "threw"} => job[cur[t]].status = "running"

\* A record written back by a tick at work is that of a job not yet settled.
LEMMA AtWorkIsRunningStep ==
    ASSUME SchedulerTypeOK, Counted, AtWorkIsRunning, [SchedulerNext]_schedulerVars
    PROVE  /\ AtWorkIsRunning'
           /\ \A j \in Job : job[j].status \in {"done", "failed"} /\ ~overlapped /\ auditFaults = 0
                  => job'[j] = job[j]
<1> USE SchedulerConstants
<1> USE DEF AtWorkIsRunning, Status
<1> DEFINE Settled == \A j \in Job : job[j].status \in {"done", "failed"} /\ ~overlapped /\ auditFaults = 0
                           => job'[j] = job[j]
<1>t. /\ \A j \in Job : job[j].attempts \in Nat
      /\ \A t \in Tick : copy[t].attempts \in Nat /\ cur[t] \in Job
  BY DEF SchedulerTypeOK, JobRecord
<1>1. CASE UNCHANGED schedulerVars
  BY <1>1 DEF schedulerVars, ticks, budget, history
<1>2. ASSUME NEW j \in Job, NEW at \in 0..Horizon, Schedule(j, at) PROVE AtWorkIsRunning' /\ Settled
  BY <1>2, <1>t DEF SchedulerTypeOK, Schedule, ticks, budget, Absent, history
<1>3. CASE TimePasses
  BY <1>3 DEF TimePasses, ticks, budget, history
<1>4. ASSUME NEW t \in Tick, TickStep(t) PROVE AtWorkIsRunning' /\ Settled
  <2>o. ~overlapped /\ pc[t] # "idle" => \A u \in Tick : u # t => pc[u] = "idle"
    BY DEF Counted, OneAtWork
  <2>r. copy[t].attempts + 1 \in Nat
    BY <1>t
  <2>1. CASE LoadPending(t)
    BY <2>1, <2>o, <1>t DEF SchedulerTypeOK, LoadPending, budget, history
  <2>2. CASE EndTick(t)
    BY <2>2, <2>o, <1>t DEF SchedulerTypeOK, EndTick, budget, history
  <2>3. ASSUME NEW j \in Job, Reread(t, j) PROVE AtWorkIsRunning' /\ Settled
    BY <2>3, <2>o, <1>t DEF SchedulerTypeOK, Reread, budget, history
  <2>4. CASE Claim(t)
    <3>p. Put(t, "running", copy[t].attempts) /\ "running" \in Status
      BY <2>4 DEF Claim
    <3>1. /\ copy' = [copy EXCEPT ![t] = copy'[t]]
          /\ copy'[t] = [status |-> "running", attempts |-> copy[t].attempts, runAt |-> copy[t].runAt]
          /\ job' = [job EXCEPT ![cur[t]] = copy'[t]]
      BY <3>p, <1>t, PutType
    <3> QED
      BY <2>4, <2>o, <3>1, <1>t DEF SchedulerTypeOK, Claim, budget, history
  <2>5. CASE NoHandler(t)
    <3>1. job' = [job EXCEPT ![cur[t]] = copy'[t]]
      BY <2>5, <1>t, PutType DEF NoHandler
    <3> QED
      BY <2>5, <2>o, <3>1, <1>t DEF SchedulerTypeOK, NoHandler, budget, history
  <2>6. CASE HandlerReturns(t)
    BY <2>6, <2>o, <1>t DEF SchedulerTypeOK, HandlerReturns, budget, history
  <2>7. CASE HandlerThrows(t)
    BY <2>7, <2>o, <1>t DEF SchedulerTypeOK, HandlerThrows, budget, history
  <2>8. CASE RecordDone(t)
    <3>1. job' = [job EXCEPT ![cur[t]] = copy'[t]]
      BY <2>8, <1>t, PutType DEF RecordDone
    <3> QED
      BY <2>8, <2>o, <3>1, <1>t DEF SchedulerTypeOK, RecordDone, budget, history
  <2>9. CASE AuditDone(t)
    BY <2>9, <2>o, <1>t DEF SchedulerTypeOK, AuditDone, budget, history
  <2>10. CASE AuditDoneFails(t)
    BY <2>10, <2>o, <1>t DEF SchedulerTypeOK, AuditDoneFails, budget, history
  <2>11. CASE RecordFailure(t)
    <3> DEFINE s == IF copy[t].attempts + 1 >= MaxAttempts THEN "failed" ELSE "pending"
    <3>1. Put(t, s, copy[t].attempts + 1) /\ s \in Status
      BY <2>11 DEF RecordFailure
    <3> HIDE DEF s
    <3>2. job' = [job EXCEPT ![cur[t]] = copy'[t]]
      BY <3>1, <2>r, PutType
    <3>3. /\ pc[t] = "threw" /\ pc' = [pc EXCEPT ![t] = "noted"]
          /\ UNCHANGED <<cur, auditFaults, overlapped>>
      BY <2>11 DEF RecordFailure, budget, history
    <3> QED
      BY <2>o, <3>2, <3>3, <1>t DEF SchedulerTypeOK
  <2>12. CASE AuditFailure(t)
    BY <2>12, <2>o, <1>t DEF SchedulerTypeOK, AuditFailure, budget, history
  <2> QED
    BY <1>4, <2>1, <2>2, <2>3, <2>4, <2>5, <2>6, <2>7, <2>8, <2>9, <2>10, <2>11, <2>12 DEF TickStep
<1>5. CASE SchedulerCrash
  BY <1>5, <1>t DEF SchedulerTypeOK, SchedulerCrash, budget, history
<1> QED
  BY <1>1, <1>2, <1>3, <1>4, <1>5 DEF SchedulerNext

\* A settled job is never taken up again, for any number of jobs, failing runs
\* and crashes, as long as ticks do not overlap and the audit log accepts the
\* entry of a finished job (scheduler.ts:9, 100-137).
THEOREM SettledStaysFinal == SchedulerSpec => SettledIsFinal
<1>1. SchedulerInit => AtWorkIsRunning
  BY DEF SchedulerInit, AtWorkIsRunning
<1>2. SchedulerTypeOK /\ Counted /\ AtWorkIsRunning /\ [SchedulerNext]_schedulerVars => AtWorkIsRunning'
  BY AtWorkIsRunningStep
<1>3. SchedulerTypeOK /\ Counted /\ AtWorkIsRunning /\ [SchedulerNext]_schedulerVars =>
        [\A j \in Job : job[j].status \in {"done", "failed"} /\ ~overlapped /\ auditFaults = 0
                        => job'[j] = job[j]]_schedulerVars
  BY AtWorkIsRunningStep
<1> QED
  BY <1>1, <1>2, <1>3, CountedInvariant, SchedulerTypeCorrect, PTL DEF SchedulerSpec, SettledIsFinal

-----------------------------------------------------------------------------
\* The inventory: sums.

\* The pairs that a sum counts.
Pairs(f, S) == UNION {{x} \X (1 .. f[x]) : x \in S}

\* A finite sum of natural numbers is one.
LEMMA SumIsNat ==
  ASSUME NEW S, IsFiniteSet(S), NEW f, \A x \in S : f[x] \in Nat
  PROVE  IsFiniteSet(Pairs(f, S)) /\ SumOver(f, S) \in Nat
<1>1. \A T \in {{x} \X (1 .. f[x]) : x \in S} : IsFiniteSet(T)
  <2> SUFFICES ASSUME NEW x \in S PROVE IsFiniteSet({x} \X (1 .. f[x]))
    OBVIOUS
  <2>0. f[x] \in Int /\ 1 \in Int
    OBVIOUS
  <2>1. IsFiniteSet({x}) /\ IsFiniteSet(1 .. f[x])
    BY <2>0, FS_Singleton, FS_Interval, Zenon
  <2> QED
    BY <2>1, FS_Product
<1>2. IsFiniteSet({{x} \X (1 .. f[x]) : x \in S})
  <2> DEFINE g == [x \in S |-> {x} \X (1 .. f[x])]
  <2>1. g \in Surjection(S, {{x} \X (1 .. f[x]) : x \in S})
    BY DEF Surjection
  <2> QED
    BY <2>1, FS_Surjection
<1>3. IsFiniteSet(Pairs(f, S))
  BY <1>1, <1>2, FS_UNION DEF Pairs
<1> QED
  BY <1>3, FS_CardinalityType DEF SumOver, Pairs

\* A sum over two parts.
LEMMA SumSplits ==
  ASSUME NEW S, IsFiniteSet(S), NEW T, IsFiniteSet(T), S \cap T = {}, NEW f,
         \A x \in S \cup T : f[x] \in Nat
  PROVE  SumOver(f, S \cup T) = SumOver(f, S) + SumOver(f, T)
<1>1. /\ IsFiniteSet(Pairs(f, S)) /\ SumOver(f, S) \in Nat
      /\ IsFiniteSet(Pairs(f, T)) /\ SumOver(f, T) \in Nat
  BY SumIsNat
<1>2. Pairs(f, S \cup T) = Pairs(f, S) \cup Pairs(f, T)
  BY DEF Pairs
<1>3. Pairs(f, S) \cap Pairs(f, T) = {}
  <2> SUFFICES ASSUME NEW p \in Pairs(f, S), p \in Pairs(f, T) PROVE FALSE
    OBVIOUS
  <2>1. \A R : \A q \in Pairs(f, R) : q[1] \in R
    BY DEF Pairs
  <2> QED
    BY <2>1
<1>4. Cardinality(Pairs(f, S \cup T)) = Cardinality(Pairs(f, S)) + Cardinality(Pairs(f, T)) - Cardinality({})
  <2> DEFINE A == Pairs(f, S) B == Pairs(f, T)
  <2> HIDE DEF A, B
  <2>1. IsFiniteSet(A) /\ IsFiniteSet(B) /\ A \cap B = {}
    BY <1>1, <1>3 DEF A, B
  <2>2. Cardinality(A \cup B) = Cardinality(A) + Cardinality(B) - Cardinality(A \cap B)
    BY <2>1, FS_Union
  <2> QED
    BY <1>2, <2>1, <2>2 DEF A, B
<1> QED
  BY <1>1, <1>4, FS_EmptySet DEF SumOver, Pairs

\* A sum of one, and a sum of none.
LEMMA SumOfOne ==
  ASSUME NEW f, NEW x, f[x] \in Nat
  PROVE  SumOver(f, {x}) = f[x] /\ SumOver(f, {}) = 0
<1> DEFINE n == f[x]
<1> HIDE DEF n
<1>1. n \in Nat
  BY DEF n
<1>2. Pairs(f, {x}) = {x} \X (1 .. n)
  BY DEF Pairs, n
<1>3. IsFiniteSet({x}) /\ Cardinality({x}) = 1
  BY FS_Singleton
<1>4. IsFiniteSet(1 .. n) /\ Cardinality(1 .. n) = n
  BY <1>1, FS_Interval
<1>5. Cardinality({x} \X (1 .. n)) = 1 * n
  BY <1>3, <1>4, FS_Product
<1>6. SumOver(f, {x}) = n
  <2>1. SumOver(f, {x}) = Cardinality({x} \X (1 .. n))
    BY <1>2 DEF SumOver, Pairs
  <2> QED
    BY <1>1, <1>5, <2>1
<1>7. SumOver(f, {}) = 0
  <2>1. Pairs(f, {}) = {}
    BY DEF Pairs
  <2> QED
    BY <2>1, FS_EmptySet DEF SumOver, Pairs
<1> QED
  BY <1>6, <1>7 DEF n

\* A sum is told by its summands.
LEMMA SumSame ==
  ASSUME NEW S, NEW f, NEW g, \A x \in S : f[x] = g[x]
  PROVE  SumOver(f, S) = SumOver(g, S)
<1>1. Pairs(f, S) = Pairs(g, S)
  BY DEF Pairs
<1> QED
  BY <1>1 DEF SumOver, Pairs

\* When one summand changes, the sum changes as much.
LEMMA SumChanges ==
  ASSUME NEW S, IsFiniteSet(S), NEW y \in S, NEW f, NEW g,
         \A x \in S : f[x] \in Nat /\ g[x] \in Nat, \A x \in S \ {y} : g[x] = f[x]
  PROVE  SumOver(f, S) \in Nat /\ SumOver(g, S) = SumOver(f, S) - f[y] + g[y]
<1> DEFINE R == S \ {y}
<1>1. IsFiniteSet(R) /\ IsFiniteSet({y}) /\ R \cap {y} = {} /\ S = R \cup {y}
  BY FS_Subset, FS_Singleton, R \in SUBSET S
<1>2. SumOver(f, S) = SumOver(f, R) + SumOver(f, {y})
  BY <1>1, SumSplits
<1>3. SumOver(g, S) = SumOver(g, R) + SumOver(g, {y})
  BY <1>1, SumSplits
<1>4. SumOver(f, R) = SumOver(g, R)
  BY SumSame
<1>5. SumOver(f, {y}) = f[y] /\ SumOver(g, {y}) = g[y]
  BY SumOfOne
<1>6. SumOver(f, R) \in Nat /\ SumOver(f, S) \in Nat
  BY <1>1, SumIsNat
<1> QED
  BY <1>2, <1>3, <1>4, <1>5, <1>6

\* Elements that add nothing can be left out.
LEMMA SumOfSome ==
  ASSUME NEW S, NEW T \in SUBSET S, NEW f, NEW g, \A x \in T : f[x] = g[x], \A x \in S \ T : f[x] = 0
  PROVE  SumOver(f, S) = SumOver(g, T)
<1>1. Pairs(f, S) = Pairs(g, T)
  BY DEF Pairs
<1> QED
  BY <1>1 DEF SumOver, Pairs

\* The units on the first lines of a cart.
CartType == Seq([item : Item, qty : Nat \ {0}])

LEMMA UnitsOfLines ==
  ASSUME NEW cart \in CartType, NEW n \in 0 .. Len(cart), NEW i
  PROVE  /\ UnitsUpTo(cart, n, i) \in Nat
         /\ UnitsUpTo(cart, 0, i) = 0
         /\ n > 0 => UnitsUpTo(cart, n, i) = UnitsUpTo(cart, n - 1, i)
                                             + (IF cart[n].item = i THEN cart[n].qty ELSE 0)
<1> DEFINE f == [k \in DOMAIN cart |-> IF cart[k].item = i THEN cart[k].qty ELSE 0]
<1>1. DOMAIN cart = 1 .. Len(cart) /\ Len(cart) \in Nat
  BY DEF CartType
<1>2. \A k \in 1 .. Len(cart) : cart[k].qty \in Nat
  <2>1. \A k \in 1 .. Len(cart) : cart[k] \in [item : Item, qty : Nat \ {0}]
    BY <1>1, ElementOfSeq DEF CartType
  <2> QED
    BY <2>1
<1>3. \A k \in 1 .. Len(cart) : f[k] = (IF cart[k].item = i THEN cart[k].qty ELSE 0) /\ f[k] \in Nat
  BY <1>1, <1>2
<1>4. \A m : UnitsUpTo(cart, m, i) = SumOver(f, 1 .. m)
  BY DEF UnitsUpTo
<1> HIDE DEF f
<1>5. \A m \in 0 .. Len(cart) : IsFiniteSet(1 .. m) /\ \A k \in 1 .. m : f[k] \in Nat
  BY <1>1, <1>3, FS_Interval
<1>6. UnitsUpTo(cart, n, i) \in Nat
  BY <1>4, <1>5, SumIsNat
<1>7. UnitsUpTo(cart, 0, i) = 0
  <2>1. 1 .. 0 = {}
    OBVIOUS
  <2>2. SumOver(f, {}) = 0
    <3>1. Pairs(f, {}) = {}
      BY DEF Pairs
    <3> QED
      BY <3>1, FS_EmptySet DEF SumOver, Pairs
  <2> QED
    BY <1>4, <2>1, <2>2
<1>8. ASSUME n > 0
      PROVE  UnitsUpTo(cart, n, i) = UnitsUpTo(cart, n - 1, i) + f[n]
  <2>1. 1 .. n = (1 .. n - 1) \cup {n} /\ (1 .. n - 1) \cap {n} = {} /\ n - 1 \in 0 .. Len(cart) /\ n \in 1 .. n
    BY <1>1, <1>8
  <2>2. IsFiniteSet(1 .. n - 1) /\ IsFiniteSet({n}) /\ \A k \in (1 .. n - 1) \cup {n} : f[k] \in Nat
    BY <1>5, <2>1, FS_Singleton
  <2>3. SumOver(f, (1 .. n - 1) \cup {n}) = SumOver(f, 1 .. n - 1) + SumOver(f, {n})
    BY <2>1, <2>2, SumSplits
  <2>4. SumOver(f, {n}) = f[n]
    BY <2>2, SumOfOne
  <2> QED
    BY <1>4, <2>1, <2>3, <2>4
<1> QED
  BY <1>1, <1>3, <1>6, <1>7, <1>8


-----------------------------------------------------------------------------
\* The inventory: its invariant.

\* All calls run in one worker; a cart names a product once.
OneWorker == \E w \in Worker : \A a \in Actor : On[a] = w
OneLineEach == \A c \in Carts : \A k, l \in DOMAIN c : c[k].item = c[l].item => k = l

\* Where the calls of each handler wait, and where they hold the stock lock.
Stocking == {"lock", "read", "write", "record"}
Awaits(c) ==
    \/ c.op = "none" /\ c.at = "none"
    \/ c.op = "open" /\ c.at = "record"
    \/ c.op = "save" /\ c.at = "put"
    \/ c.op = "adjust" /\ c.at \in Stocking
    \/ c.op = "order" /\ c.at \in Stocking \cup {"price", "number", "count", "settle"}
    \/ c.op = "cancel" /\ c.at \in Stocking \cup {"settle"}
    \/ c.op = "status" /\ c.at = "settle"
    \/ c.op \in {"pay", "refund"} /\ c.at \in {"ledger", "settle"}
    \/ c.op = "newreturn" /\ c.at \in {"number", "count", "settle"}
    \/ c.op = "retstatus" /\ c.at = "final"
    \/ c.op = "return" /\ c.at \in Stocking \cup {"settle", "refund", "ledger", "refunded", "final"}
Locked(c) ==
    \/ c.at \in {"price", "read", "write"}
    \/ c.op = "order" /\ c.at \in {"number", "count"}
    \/ c.op # "open" /\ c.at = "record"

\* What a call holds at each await.
Movements == Seq([item : Item, delta : Int])
Shape(c) ==
    /\ DOMAIN c = DOMAIN Idle
    /\ Awaits(c)
    /\ c.todo \in Movements /\ c.base \in Nat /\ c.n \in Nat /\ c.amount \in Nat
    /\ c.at \in Stocking \cup {"put"} => c.todo # <<>>
    /\ c.op \in {"open", "save", "adjust"} => Len(c.todo) = 1
    /\ c.op = "open" => c.todo[1].delta = Opening
    /\ c.at = "write" => c.base + c.todo[1].delta >= 0

\* The lines of an order that are done; the rest of them is still to do.
Done(c) == Len(c.cart) - Len(c.todo)
OrderShape(c) ==
    c.op = "order" =>
        /\ c.cart \in Carts
        /\ Len(c.todo) <= Len(c.cart)
        /\ \A k \in 1 .. Len(c.todo) : /\ c.todo[k].item = c.cart[Done(c) + k].item
                                       /\ c.todo[k].delta = -(c.cart[Done(c) + k].qty)
        /\ c.at = "settle" => c.todo = <<>>
        /\ c.at \in {"lock", "price", "number", "count"} => Len(c.todo) = Len(c.cart)

ItemTypes ==
    /\ item \in [Item -> [state : {"new", "listed", "removed"}, stock : Nat]]
    /\ moved \in [Item -> Int] /\ sold \in [Item -> Int] /\ meddled \subseteq Item
    /\ counter \in [{"order", "newreturn"} -> Nat]
    /\ lock \in [Worker -> Actor \cup {None}]
CallTypes == DOMAIN call = Actor /\ \A a \in Actor : Shape(call[a]) /\ OrderShape(call[a])

\* The lock is held by the call that is at a locked await, and by no other.
LockHolds ==
    /\ \A a \in Actor : Locked(call[a]) => lock[On[a]] = a
    /\ \A w \in Worker : lock[w] # None => On[lock[w]] = w /\ Locked(call[lock[w]])

\* What the ledger does not yet say of an item: its opening stock, and the change that the
\* holder of the lock has just stored.
Opens(c, i) == c.op = "open" /\ c.todo[1].item = i
Records(c, i) == c.op # "open" /\ c.at = "record" /\ c.todo[1].item = i
Unopened(i) == IF \E a \in Actor : Opens(call[a], i) THEN Opening ELSE 0
StockCall(c, it, med) ==
    /\ c.op \in {"save", "open"} \/ c.at \in {"write", "record"} => it[c.todo[1].item].state # "new"
    /\ c.at = "write" => c.todo[1].item \in med \/ it[c.todo[1].item] = [state |-> "listed", stock |-> c.base]
Explained(i) ==
    item[i].state = "listed" /\ i \notin meddled =>
        /\ (\A a \in Actor : ~Records(call[a], i)) => item[i].stock = moved[i] + Unopened(i)
        /\ \A a \in Actor : Records(call[a], i) => item[i].stock = moved[i] + Unopened(i) + call[a].todo[1].delta
StockHolds ==
    /\ \A i \in Item : Explained(i)
    /\ \A i \in Item : item[i].state = "new" => moved[i] = 0
    /\ \A a, b \in Actor, i \in Item : Opens(call[a], i) /\ Opens(call[b], i) => a = b
    /\ \A a \in Actor : StockCall(call[a], item, meddled)

\* As long as nobody meddled, an order that passed priceLines has the stock for its remaining
\* lines, and the units that left stock are those of the orders, stored or under way.
Enough(c, it) ==
    c.op = "order" =>
        \A k \in 1 .. Len(c.todo) :
            c.at \in {"number", "count", "read"} \/ (c.at \in {"write", "record"} /\ k > 1) =>
                it[c.todo[k].item].state = "listed" /\ it[c.todo[k].item].stock + c.todo[k].delta >= 0
Taken(c, i) == IF c.op = "order" THEN UnitsUpTo(c.cart, Done(c), i) ELSE 0
Ordered(i) == SumOver([o \in OrderId |-> Units(order[o].cart, i)], OrderId)
Ordering(i) == SumOver([a \in Actor |-> Taken(call[a], i)], Actor)
UnitsHold ==
    meddled = {} =>
        /\ \A a \in Actor : Enough(call[a], item)
        /\ \A i \in Item : sold[i] = Ordered(i) + Ordering(i)

\* Numbers: those of the stored documents and those that calls have drawn.
Filed(k) == IF k = "order" THEN [o \in Orders |-> order[o].number] ELSE [r \in Returns |-> ret[r].number]
Numbered(c, k) == c.op = k /\ c.at \in {"read", "write", "record", "settle"}
NumbersHold ==
    /\ \A k \in {"order", "newreturn"} :
         /\ \A x \in DOMAIN Filed(k) : Filed(k)[x] \in Nat /\ Filed(k)[x] <= counter[k]
         /\ \A x, y \in DOMAIN Filed(k) : x # y => Filed(k)[x] # Filed(k)[y]
         /\ \A a \in Actor : Numbered(call[a], k) =>
               call[a].n <= counter[k] /\ \A x \in DOMAIN Filed(k) : Filed(k)[x] # call[a].n
         /\ \A a, b \in Actor : Numbered(call[a], k) /\ Numbered(call[b], k) /\ a # b => call[a].n # call[b].n
    /\ \A a \in Actor : call[a].at = "count" => call[a].n = counter[call[a].op] + 1
    /\ \A a, b \in Actor : call[a].at = "count" /\ call[b].at = "count" => a = b

\* Money: the stored orders, and the copies that calls will write over them.
OrderHolds(d) ==
    /\ DOMAIN d = DOMAIN NoOrder
    /\ d.cart \in CartType /\ d.number \in Nat
    /\ d.paid \in Nat /\ d.refunded \in Nat /\ d.refunded <= d.paid
Rewrites(c) == c.op \in {"cancel", "status", "pay", "refund"} \/ (c.op = "return" /\ c.at \in {"ledger", "refunded"})
Unfiled(c) == IF c.op = "pay" /\ c.at = "ledger" THEN c.amount ELSE 0
MoneyCall(c, orders, paid) ==
    /\ c.op = "return" \/ Rewrites(c) => c.o \in OrderId /\ orders[c.o].status # "none"
    /\ Rewrites(c) =>
          /\ OrderHolds(c.doc) /\ c.doc.status # "none"
          /\ c.doc.cart = orders[c.o].cart /\ c.doc.number = orders[c.o].number
          /\ c.doc.paid <= paid[c.o] + Unfiled(c)
MoneyHolds ==
    /\ DOMAIN order = OrderId /\ payments \in [OrderId -> Nat] /\ refunds \in [OrderId -> Nat]
    /\ \A o \in OrderId : /\ OrderHolds(order[o]) /\ order[o].paid <= payments[o]
                          /\ order[o].status = "none" => order[o].cart = <<>>
                          /\ order[o].status # "none" => order[o].cart # <<>>
    /\ \A a \in Actor : MoneyCall(call[a], order, payments)

\* Returns, and the copies of them.
ReturnHolds(d, orders) ==
    /\ DOMAIN d = DOMAIN NoReturn
    /\ d.qty \in Nat /\ d.number \in Nat /\ d.item \in Item /\ d.status # "none"
    /\ d.of \in OrderId /\ orders[d.of].status # "none"
ReturnCall(c, rets, orders) ==
    /\ c.op \in {"newreturn", "retstatus", "return"} => ReturnHolds(c.rdoc, orders)
    /\ c.op \in {"retstatus", "return"} =>
          c.r \in ReturnId /\ rets[c.r].status # "none" /\ c.rdoc.number = rets[c.r].number
ReturnsHold ==
    /\ DOMAIN ret = ReturnId
    /\ \A r \in Returns : ReturnHolds(ret[r], order)
    /\ \A a \in Actor : ReturnCall(call[a], ret, order)

InventoryInv ==
    /\ ItemTypes /\ CallTypes /\ LockHolds /\ StockHolds /\ NumbersHold /\ MoneyHolds /\ ReturnsHold


-----------------------------------------------------------------------------
\* The inventory: what a step does to the call that takes it.

\* The fields of a call at rest, and of no document.
LEMMA IdleFields ==
  /\ DOMAIN Idle = {"op", "at", "cart", "todo", "base", "n", "o", "doc", "r", "rdoc", "amount", "refund"}
  /\ Idle.op = "none" /\ Idle.at = "none" /\ Idle.cart = <<>> /\ Idle.todo = <<>>
  /\ Idle.base = 0 /\ Idle.n = 0 /\ Idle.amount = 0
BY DEF Idle

LEMMA NoOrderFields ==
  /\ DOMAIN NoOrder = {"status", "cart", "number", "paid", "refunded", "restocked"}
  /\ NoOrder.status = "none" /\ NoOrder.cart = <<>> /\ NoOrder.number = 0
  /\ NoOrder.paid = 0 /\ NoOrder.refunded = 0
BY DEF NoOrder

LEMMA NoReturnFields ==
  /\ DOMAIN NoReturn = {"of", "item", "qty", "number", "status", "restocked", "refunded"}
  /\ NoReturn.status = "none" /\ NoReturn.number = 0
BY DEF NoReturn

\* A document with another status, restocked or not, or refunded.
Restated(d, s) == [d EXCEPT !.status = s]
Restocked(d, x) == [d EXCEPT !.restocked = x]
Marked(d, s, x) == [d EXCEPT !.status = s, !.restocked = x]
Repaid(d) == [d EXCEPT !.refunded = TRUE, !.status = "refunded"]

\* The other calls stay as they are; the call ends, starts, or goes on to another await with what it has.
Others(a) == DOMAIN call' = Actor /\ \A b \in Actor \ {a} : call'[b] = call[b]
Ends(a) == Others(a) /\ call'[a] = Idle
Starts(a, op, at) ==
    /\ Others(a) /\ call[a].op = "none" /\ call[a].at = "none"
    /\ DOMAIN call'[a] = DOMAIN Idle
    /\ call'[a].op = op /\ call'[a].at = at
    /\ call'[a].n = 0
SameDocs(a) ==
    /\ call'[a].o = call[a].o /\ call'[a].doc = call[a].doc
    /\ call'[a].r = call[a].r /\ call'[a].rdoc = call[a].rdoc
SameOrder(a) ==
    /\ call'[a].op = call[a].op /\ call'[a].cart = call[a].cart /\ call'[a].todo = call[a].todo
    /\ call'[a].refund = call[a].refund
Goes(a, at) ==
    /\ Others(a) /\ DOMAIN call'[a] = DOMAIN Idle /\ call'[a].at = at
    /\ SameOrder(a) /\ SameDocs(a)
    /\ call'[a].base = call[a].base /\ call'[a].n = call[a].n /\ call'[a].amount = call[a].amount
\* It goes on with its next line, or with what comes after its lines.
Proceeds(a, at) ==
    /\ Others(a) /\ DOMAIN call'[a] = DOMAIN Idle /\ call'[a].at = at
    /\ call'[a].op = call[a].op /\ call'[a].cart = call[a].cart /\ call'[a].todo = Tail(call[a].todo)
    /\ SameDocs(a)
    /\ call'[a].base = call[a].base /\ call'[a].n = call[a].n /\ call'[a].amount = call[a].amount

LEMMA GotoFacts ==
  ASSUME CallTypes, NEW a \in Actor, NEW at, Goto(a, at)
  PROVE  Goes(a, at)
BY IdleFields DEF CallTypes, Shape, Goto, Goes, Others, SameOrder, SameDocs

LEMMA ReturnFacts ==
  ASSUME CallTypes, NEW a \in Actor, Return(a)
  PROVE  Ends(a)
BY DEF CallTypes, Return, Ends, Others

LEMMA BeginFacts ==
  ASSUME CallTypes, NEW a \in Actor, NEW c, Begin(a, c)
  PROVE  Others(a) /\ call[a] = Idle /\ call[a].op = "none" /\ call[a].at = "none" /\ call'[a] = c
BY IdleFields DEF CallTypes, Begin, Others

LEMMA NextLineFacts ==
  ASSUME CallTypes, NEW a \in Actor, NextLine(a)
  PROVE  \/ /\ Tail(call[a].todo) # <<>> /\ call[a].op = "order"
            /\ Proceeds(a, "read") /\ UNCHANGED lock
         \/ /\ Tail(call[a].todo) # <<>> /\ call[a].op # "order"
            /\ Proceeds(a, "lock") /\ Release(a)
         \/ /\ Tail(call[a].todo) = <<>> /\ call[a].op \in {"adjust", "open"}
            /\ Ends(a) /\ Release(a)
         \/ /\ Tail(call[a].todo) = <<>> /\ call[a].op \notin {"adjust", "open"}
            /\ Proceeds(a, "settle") /\ Release(a)
<1> DEFINE rest == Tail(call[a].todo)
<1>1. ASSUME NEW at, NEW r, call' = [call EXCEPT ![a].todo = r, ![a].at = at]
      PROVE  /\ Others(a) /\ DOMAIN call'[a] = DOMAIN Idle /\ call'[a].at = at
             /\ call'[a].op = call[a].op /\ call'[a].cart = call[a].cart /\ call'[a].todo = r
             /\ SameDocs(a)
             /\ call'[a].base = call[a].base /\ call'[a].n = call[a].n /\ call'[a].amount = call[a].amount
  BY <1>1, IdleFields DEF CallTypes, Shape, Others, SameDocs
<1>2. Return(a) => Ends(a)
  BY ReturnFacts
<1>3. \A at : call' = [call EXCEPT ![a].todo = rest, ![a].at = at] => Proceeds(a, at)
  BY <1>1 DEF Proceeds
<1> HIDE DEF rest
<1>4. \/ /\ rest # <<>> /\ call[a].op = "order"
         /\ call' = [call EXCEPT ![a].todo = rest, ![a].at = "read"] /\ UNCHANGED lock
      \/ /\ rest # <<>> /\ call[a].op # "order"
         /\ call' = [call EXCEPT ![a].todo = rest, ![a].at = "lock"] /\ Release(a)
      \/ rest = <<>> /\ call[a].op \in {"adjust", "open"} /\ Return(a) /\ Release(a)
      \/ /\ rest = <<>> /\ call[a].op \notin {"adjust", "open"}
         /\ call' = [call EXCEPT ![a].todo = rest, ![a].at = "settle"] /\ Release(a)
  BY DEF NextLine, rest
<1>5. \/ rest # <<>> /\ call[a].op = "order" /\ Proceeds(a, "read") /\ UNCHANGED lock
      \/ rest # <<>> /\ call[a].op # "order" /\ Proceeds(a, "lock") /\ Release(a)
      \/ rest = <<>> /\ call[a].op \in {"adjust", "open"} /\ Ends(a) /\ Release(a)
      \/ rest = <<>> /\ call[a].op \notin {"adjust", "open"} /\ Proceeds(a, "settle") /\ Release(a)
  BY <1>2, <1>3, <1>4
<1> QED
  BY <1>5 DEF rest

LEMMA SaveNewItemFacts ==
  ASSUME CallTypes, NEW a \in Actor, NEW i \in Item, SaveNewItem(a, i)
  PROVE  /\ Starts(a, "open", "record")
         /\ call'[a].todo = <<[item |-> i, delta |-> Opening]>>
         /\ call'[a].base = 0 /\ call'[a].amount = 0
<1>1. Others(a) /\ call[a].op = "none" /\ call[a].at = "none"
      /\ call'[a] = [Idle EXCEPT !.op = "open", !.at = "record", !.todo = <<[item |-> i, delta |-> Opening]>>]
  BY BeginFacts DEF SaveNewItem
<1> QED
  BY <1>1, IdleFields DEF Starts

LEMMA SaveItemReadFacts ==
  ASSUME CallTypes, NEW a \in Actor, NEW i \in Item, SaveItemRead(a, i)
  PROVE  /\ Starts(a, "save", "put")
         /\ call'[a].todo = <<[item |-> i, delta |-> 0]>>
         /\ call'[a].base = item[i].stock /\ call'[a].amount = 0
<1>1. Others(a) /\ call[a].op = "none" /\ call[a].at = "none"
      /\ call'[a] = [Idle EXCEPT !.op = "save", !.at = "put", !.base = item[i].stock,
                            !.todo = <<[item |-> i, delta |-> 0]>>]
  BY BeginFacts DEF SaveItemRead
<1> QED
  BY <1>1, IdleFields DEF Starts

LEMMA AdjustStockFacts ==
  ASSUME CallTypes, NEW a \in Actor, NEW i \in Item, NEW d \in Int, AdjustStock(a, i, d)
  PROVE  /\ Starts(a, "adjust", "lock")
         /\ call'[a].todo = <<[item |-> i, delta |-> d]>>
         /\ call'[a].base = 0 /\ call'[a].amount = 0
<1>1. Others(a) /\ call[a].op = "none" /\ call[a].at = "none"
      /\ call'[a] = [Idle EXCEPT !.op = "adjust", !.at = "lock", !.todo = <<[item |-> i, delta |-> d]>>]
  BY BeginFacts DEF AdjustStock
<1> QED
  BY <1>1, IdleFields DEF Starts

LEMMA CreateOrderFacts ==
  ASSUME CallTypes, NEW a \in Actor, NEW cart \in Carts, CreateOrder(a, cart)
  PROVE  /\ Starts(a, "order", "lock")
         /\ call'[a].cart = cart /\ call'[a].todo = Moves(cart, -1)
         /\ call'[a].base = 0 /\ call'[a].amount = 0
<1>1. Others(a) /\ call[a].op = "none" /\ call[a].at = "none"
      /\ call'[a] = [Idle EXCEPT !.op = "order", !.at = "lock", !.cart = cart, !.todo = Moves(cart, -1)]
  BY BeginFacts DEF CreateOrder
<1> HIDE DEF Moves
<1> QED
  BY <1>1, IdleFields DEF Starts

LEMMA NextNumberReadFacts ==
  ASSUME CallTypes, NEW a \in Actor, NextNumberRead(a)
  PROVE  /\ Others(a) /\ DOMAIN call'[a] = DOMAIN Idle /\ call'[a].at = "count"
         /\ SameOrder(a) /\ SameDocs(a)
         /\ call'[a].base = call[a].base /\ call'[a].n = counter[call[a].op] + 1
         /\ call'[a].amount = call[a].amount
BY IdleFields DEF CallTypes, Shape, NextNumberRead, Others, SameOrder, SameDocs

LEMMA AdjustReadFacts ==
  ASSUME CallTypes, NEW a \in Actor, AdjustRead(a)
  PROVE  /\ Others(a) /\ DOMAIN call'[a] = DOMAIN Idle /\ call'[a].at = "write"
         /\ SameOrder(a) /\ SameDocs(a)
         /\ call'[a].base = item[Head(call[a].todo).item].stock /\ call'[a].n = call[a].n
         /\ call'[a].amount = call[a].amount
BY IdleFields DEF CallTypes, Shape, AdjustRead, Others, SameOrder, SameDocs, Line

LEMMA CancelOrderFacts ==
  ASSUME CallTypes, NEW a \in Actor, NEW o \in OrderId, NEW restock \in BOOLEAN, CancelOrder(a, o, restock)
  PROVE  /\ \/ Starts(a, "cancel", "lock") /\ call'[a].todo = Moves(order[o].cart, 1)
            \/ Starts(a, "cancel", "settle") /\ call'[a].todo = <<>>
         /\ call'[a].base = 0 /\ call'[a].amount = 0
         /\ call'[a].o = o /\ \E x : call'[a].doc = Marked(order[o], "cancelled", x)
<1>1. PICK again \in BOOLEAN : again = (restock /\ ~order[o].restocked)
  OBVIOUS
<1> DEFINE doc == [order[o] EXCEPT !.status = "cancelled", !.restocked = @ \/ again]
           todo == IF again THEN Moves(order[o].cart, 1) ELSE <<>>
           at == IF again THEN "lock" ELSE "settle"
<1>2. Others(a) /\ call[a].op = "none" /\ call[a].at = "none"
      /\ call'[a] = [Idle EXCEPT !.op = "cancel", !.o = o, !.doc = doc, !.todo = todo, !.at = at]
  BY <1>1, BeginFacts DEF CancelOrder
<1>3. (at = "lock" /\ todo = Moves(order[o].cart, 1)) \/ (at = "settle" /\ todo = <<>>)
  OBVIOUS
<1>4. \E x : doc = Marked(order[o], "cancelled", x)
  <2>1. PICK x : x = (order[o].restocked \/ again)
    OBVIOUS
  <2>2. doc = [order[o] EXCEPT !.status = "cancelled", !.restocked = x]
    BY <2>1, Zenon
  <2> QED
    BY <2>2 DEF Marked
<1> HIDE DEF doc, todo, at
<1>5. Starts(a, "cancel", at) /\ call'[a].todo = todo /\ call'[a].base = 0 /\ call'[a].amount = 0
      /\ call'[a].o = o /\ call'[a].doc = doc
  BY <1>2, IdleFields DEF Starts
<1> QED
  BY <1>3, <1>4, <1>5, Zenon

LEMMA UpdateOrderStatusFacts ==
  ASSUME CallTypes, NEW a \in Actor, NEW o \in OrderId, NEW to, UpdateOrderStatus(a, o, to)
  PROVE  /\ Starts(a, "status", "settle") /\ call'[a].todo = <<>>
         /\ call'[a].base = 0 /\ call'[a].amount = 0
         /\ call'[a].o = o /\ call'[a].doc = Restated(order[o], to)
<1> DEFINE doc == [order[o] EXCEPT !.status = to]
<1>1. Others(a) /\ call[a].op = "none" /\ call[a].at = "none"
      /\ call'[a] = [Idle EXCEPT !.op = "status", !.at = "settle", !.o = o, !.doc = doc]
  BY BeginFacts DEF UpdateOrderStatus
<1> HIDE DEF doc
<1>2. /\ Starts(a, "status", "settle") /\ call'[a].todo = <<>>
      /\ call'[a].base = 0 /\ call'[a].amount = 0 /\ call'[a].o = o /\ call'[a].doc = doc
  BY <1>1, IdleFields DEF Starts
<1> QED
  BY <1>2 DEF doc, Restated

LEMMA RecordPaymentFacts ==
  ASSUME CallTypes, NEW a \in Actor, NEW o \in OrderId, NEW m, RecordPayment(a, o, m)
  PROVE  /\ Starts(a, "pay", "ledger") /\ call'[a].todo = <<>>
         /\ call'[a].base = 0 /\ call'[a].amount = m
         /\ call'[a].o = o /\ call'[a].doc = Paid(order[o], m)
<1>1. Others(a) /\ call[a].op = "none" /\ call[a].at = "none"
      /\ call'[a] = [Idle EXCEPT !.op = "pay", !.at = "ledger", !.o = o, !.amount = m, !.doc = Paid(order[o], m)]
  BY BeginFacts DEF RecordPayment
<1> QED
  BY <1>1, IdleFields DEF Starts

LEMMA RefundPaymentFacts ==
  ASSUME CallTypes, NEW a \in Actor, NEW o \in OrderId, NEW m, RefundPayment(a, o, m)
  PROVE  /\ Starts(a, "refund", "ledger") /\ call'[a].todo = <<>>
         /\ call'[a].base = 0 /\ call'[a].amount = m
         /\ call'[a].o = o /\ call'[a].doc = Refunded(order[o], m)
<1>1. Others(a) /\ call[a].op = "none" /\ call[a].at = "none"
      /\ call'[a] = [Idle EXCEPT !.op = "refund", !.at = "ledger", !.o = o, !.amount = m,
                            !.doc = Refunded(order[o], m)]
  BY BeginFacts DEF RefundPayment
<1> QED
  BY <1>1, IdleFields DEF Starts

LEMMA CreateReturnFacts ==
  ASSUME CallTypes, NEW a \in Actor, NEW o \in OrderId, NEW i \in Item, NEW q \in Amounts, CreateReturn(a, o, i, q)
  PROVE  /\ Starts(a, "newreturn", "number") /\ call'[a].todo = <<>>
         /\ call'[a].base = 0 /\ call'[a].amount = 0
         /\ DOMAIN call'[a].rdoc = DOMAIN NoReturn /\ call'[a].rdoc.of = o /\ call'[a].rdoc.item = i
         /\ call'[a].rdoc.qty = q /\ call'[a].rdoc.status = "requested" /\ call'[a].rdoc.number = 0
<1> DEFINE doc == [NoReturn EXCEPT !.of = o, !.item = i, !.qty = q, !.status = "requested"]
<1>1. Others(a) /\ call[a].op = "none" /\ call[a].at = "none"
      /\ call'[a] = [Idle EXCEPT !.op = "newreturn", !.at = "number", !.rdoc = doc]
  BY BeginFacts DEF CreateReturn
<1> HIDE DEF doc
<1>2. /\ Starts(a, "newreturn", "number") /\ call'[a].todo = <<>>
      /\ call'[a].base = 0 /\ call'[a].amount = 0 /\ call'[a].rdoc = doc
  BY <1>1, IdleFields DEF Starts
<1>3. /\ DOMAIN doc = DOMAIN NoReturn /\ doc.of = o /\ doc.item = i
      /\ doc.qty = q /\ doc.status = "requested" /\ doc.number = 0
  BY NoReturnFields DEF doc
<1> QED
  BY <1>2, <1>3

LEMMA UpdateReturnStatusFacts ==
  ASSUME CallTypes, NEW a \in Actor, NEW r \in ReturnId, NEW to, UpdateReturnStatus(a, r, to)
  PROVE  /\ Starts(a, "retstatus", "final") /\ call'[a].todo = <<>>
         /\ call'[a].base = 0 /\ call'[a].amount = 0
         /\ call'[a].r = r /\ call'[a].rdoc = Restated(ret[r], to)
<1> DEFINE doc == [ret[r] EXCEPT !.status = to]
<1>1. Others(a) /\ call[a].op = "none" /\ call[a].at = "none"
      /\ call'[a] = [Idle EXCEPT !.op = "retstatus", !.at = "final", !.r = r, !.rdoc = doc]
  BY BeginFacts DEF UpdateReturnStatus
<1> HIDE DEF doc
<1>2. /\ Starts(a, "retstatus", "final") /\ call'[a].todo = <<>>
      /\ call'[a].base = 0 /\ call'[a].amount = 0 /\ call'[a].r = r /\ call'[a].rdoc = doc
  BY <1>1, IdleFields DEF Starts
<1> QED
  BY <1>2 DEF doc, Restated

LEMMA ProcessReturnFacts ==
  ASSUME CallTypes, NEW a \in Actor, NEW r \in ReturnId, NEW restock \in BOOLEAN, NEW refund \in BOOLEAN,
         ProcessReturn(a, r, restock, refund)
  PROVE  /\ \/ /\ Starts(a, "return", "lock")
               /\ call'[a].todo = <<[item |-> ret[r].item, delta |-> ret[r].qty]>>
            \/ Starts(a, "return", "settle") /\ call'[a].todo = <<>>
         /\ call'[a].base = 0 /\ call'[a].amount = 0
         /\ call'[a].r = r /\ call'[a].o = ret[r].of
         /\ \E x : call'[a].rdoc = Restocked(ret[r], x)
<1>1. PICK again \in BOOLEAN : again = (restock /\ ~ret[r].restocked)
  OBVIOUS
<1> DEFINE doc == [ret[r] EXCEPT !.restocked = @ \/ again]
           todo == IF again THEN <<[item |-> ret[r].item, delta |-> ret[r].qty]>> ELSE <<>>
           at == IF again THEN "lock" ELSE "settle"
<1>2. Others(a) /\ call[a].op = "none" /\ call[a].at = "none"
      /\ call'[a] = [Idle EXCEPT !.op = "return", !.r = r, !.o = ret[r].of, !.refund = refund, !.rdoc = doc,
                                 !.todo = todo, !.at = at]
  BY <1>1, BeginFacts DEF ProcessReturn
<1>3. (at = "lock" /\ todo = <<[item |-> ret[r].item, delta |-> ret[r].qty]>>) \/ (at = "settle" /\ todo = <<>>)
  OBVIOUS
<1>4. \E x : doc = Restocked(ret[r], x)
  <2>1. PICK x : x = (ret[r].restocked \/ again)
    OBVIOUS
  <2>2. doc = [ret[r] EXCEPT !.restocked = x]
    BY <2>1, Zenon
  <2> QED
    BY <2>2 DEF Restocked
<1> HIDE DEF doc, todo, at
<1>5. /\ Starts(a, "return", at) /\ call'[a].todo = todo /\ call'[a].base = 0 /\ call'[a].amount = 0
      /\ call'[a].r = r /\ call'[a].o = ret[r].of /\ call'[a].rdoc = doc
  BY <1>2, IdleFields DEF Starts
<1> QED
  BY <1>3, <1>4, <1>5, Zenon

LEMMA ProcessReturnAmountFacts ==
  ASSUME CallTypes, NEW a \in Actor, ProcessReturnAmount(a)
  PROVE  /\ Others(a) /\ DOMAIN call'[a] = DOMAIN Idle
         /\ call'[a].at = IF ReturnAmount(a) > 0 THEN "refund" ELSE "final"
         /\ SameOrder(a)
         /\ call'[a].base = call[a].base /\ call'[a].n = call[a].n /\ call'[a].amount = ReturnAmount(a)
         /\ call'[a].o = call[a].o /\ call'[a].doc = call[a].doc /\ call'[a].r = call[a].r
         /\ \E status \in {"received", "refunded"} : call'[a].rdoc = Restated(call[a].rdoc, status)
<1> DEFINE m == ReturnAmount(a)
           at == IF m > 0 THEN "refund" ELSE "final"
           status == IF call[a].rdoc.refunded THEN "refunded" ELSE "received"
           doc == [call[a].rdoc EXCEPT !.status = status]
<1>1. call' = [call EXCEPT ![a].amount = m, ![a].at = at, ![a].rdoc.status = status]
  BY DEF ProcessReturnAmount
<1>2. \E s \in {"received", "refunded"} : doc = Restated(call[a].rdoc, s)
  BY DEF Restated
<1> HIDE DEF m, at, status
<1>3. /\ Others(a) /\ DOMAIN call'[a] = DOMAIN Idle /\ call'[a].at = at
      /\ SameOrder(a)
      /\ call'[a].base = call[a].base /\ call'[a].n = call[a].n /\ call'[a].amount = m
      /\ call'[a].o = call[a].o /\ call'[a].doc = call[a].doc /\ call'[a].r = call[a].r
      /\ call'[a].rdoc = doc
  BY <1>1, IdleFields DEF CallTypes, Shape, Others, SameOrder
<1> HIDE DEF doc
<1> QED
  BY <1>2, <1>3 DEF m, at

LEMMA ProcessReturnRefundFacts ==
  ASSUME CallTypes, NEW a \in Actor, ProcessReturnRefund(a)
  PROVE  \/ /\ Others(a) /\ DOMAIN call'[a] = DOMAIN Idle /\ call'[a].at = "ledger"
            /\ call[a].amount <= MaxRefund(call[a].o)
            /\ SameOrder(a)
            /\ call'[a].base = call[a].base /\ call'[a].n = call[a].n /\ call'[a].amount = call[a].amount
            /\ call'[a].o = call[a].o /\ call'[a].r = call[a].r /\ call'[a].rdoc = call[a].rdoc
            /\ call'[a].doc = Refunded(order[call[a].o], call[a].amount)
         \/ Ends(a)
<1>1. CASE call[a].amount <= MaxRefund(call[a].o)
  BY <1>1, IdleFields DEF ProcessReturnRefund, CallTypes, Shape, Others, SameOrder
<1>2. CASE ~ (call[a].amount <= MaxRefund(call[a].o))
  BY <1>2, ReturnFacts DEF ProcessReturnRefund
<1> QED
  BY <1>1, <1>2

LEMMA ProcessReturnOrderFacts ==
  ASSUME CallTypes, NEW a \in Actor, ProcessReturnOrder(a)
  PROVE  /\ Others(a) /\ DOMAIN call'[a] = DOMAIN Idle /\ call'[a].at = "final"
         /\ SameOrder(a)
         /\ call'[a].base = call[a].base /\ call'[a].n = call[a].n /\ call'[a].amount = call[a].amount
         /\ call'[a].o = call[a].o /\ call'[a].doc = call[a].doc /\ call'[a].r = call[a].r
         /\ call'[a].rdoc = Repaid(call[a].rdoc)
BY IdleFields DEF ProcessReturnOrder, CallTypes, Shape, Others, SameOrder, Repaid


-----------------------------------------------------------------------------
\* The inventory: what a step that touches only its own call must keep.

\* Sequences of movements.
LEMMA LineFacts ==
  ASSUME NEW t \in Movements, t # <<>>
  PROVE  /\ Len(t) \in Nat \ {0} /\ Head(t) = t[1]
         /\ t[1].item \in Item /\ t[1].delta \in Int
         /\ Tail(t) \in Movements /\ Len(Tail(t)) = Len(t) - 1
         /\ \A k \in 1 .. Len(t) - 1 : Tail(t)[k] = t[k + 1]
         /\ Tail(t) = <<>> <=> Len(t) = 1
<1>1. Len(t) \in Nat \ {0} /\ Head(t) = t[1]
  BY EmptySeq DEF Movements
<1>2. t[1] \in [item : Item, delta : Int]
  <2>1. 1 \in 1 .. Len(t)
    BY <1>1
  <2> QED
    BY <2>1, ElementOfSeq DEF Movements
<1>3. /\ Tail(t) \in Seq([item : Item, delta : Int]) /\ Len(Tail(t)) = Len(t) - 1
      /\ \A k \in 1 .. Len(t) - 1 : Tail(t)[k] = t[k + 1]
  BY HeadTailProperties DEF Movements
<1>4. Tail(t) = <<>> <=> Len(t) = 1
  <2> DEFINE u == Tail(t)
  <2>1. u # <<>> => Len(u) \in Nat \ {0}
    BY <1>3, EmptySeq
  <2>2. u = <<>> => Len(u) = 0
    BY EmptySeq
  <2>3. Len(u) = Len(t) - 1
    BY <1>3
  <2> HIDE DEF u
  <2>4. u = <<>> <=> Len(t) = 1
    BY <1>1, <2>1, <2>2, <2>3
  <2> QED
    BY <2>4 DEF u
<1> QED
  BY <1>1, <1>2, <1>3, <1>4 DEF Movements

LEMMA OneMovement ==
  ASSUME NEW i \in Item, NEW d \in Int
  PROVE  LET t == <<[item |-> i, delta |-> d]>> IN
           t \in Movements /\ t # <<>> /\ Len(t) = 1 /\ t[1].item = i /\ t[1].delta = d
BY DEF Movements

LEMMA MovesFacts ==
  ASSUME NEW cart \in CartType, NEW sign \in {1, -1}
  PROVE  /\ Moves(cart, sign) \in Movements /\ Len(Moves(cart, sign)) = Len(cart)
         /\ cart # <<>> => Moves(cart, sign) # <<>>
         /\ \A k \in 1 .. Len(cart) :
               Moves(cart, sign)[k].item = cart[k].item /\ Moves(cart, sign)[k].delta = sign * cart[k].qty
<1>1. DOMAIN cart = 1 .. Len(cart) /\ Len(cart) \in Nat
  BY DEF CartType
<1>2. \A k \in 1 .. Len(cart) : cart[k] \in [item : Item, qty : Nat \ {0}]
  BY ElementOfSeq DEF CartType
<1>3. \A k \in 1 .. Len(cart) : sign * cart[k].qty \in Int
  <2> SUFFICES ASSUME NEW k \in 1 .. Len(cart) PROVE sign * cart[k].qty \in Int
    OBVIOUS
  <2>1. cart[k].qty \in Int
    BY <1>2
  <2> QED
    BY <2>1
<1> DEFINE m == Moves(cart, sign)
<1>4. m = [k \in 1 .. Len(cart) |-> [item |-> cart[k].item, delta |-> sign * cart[k].qty]]
  BY <1>1 DEF Moves
<1>5. \A k \in 1 .. Len(cart) : m[k] = [item |-> cart[k].item, delta |-> sign * cart[k].qty]
                                 /\ m[k] \in [item : Item, delta : Int]
  BY <1>2, <1>3, <1>4
<1>6. m \in [1 .. Len(cart) -> [item : Item, delta : Int]]
  BY <1>4, <1>5
<1> HIDE DEF m
<1>7. m \in Seq([item : Item, delta : Int]) /\ Len(m) = Len(cart)
  <2> DEFINE S == [item : Item, delta : Int]
             n == Len(cart)
  <2>1. n \in Nat /\ m \in [1 .. n -> S]
    BY <1>1, <1>6
  <2> HIDE DEF n, S
  <2>2. m \in Seq(S)
    BY <2>1
  <2>3. Len(m) = n
    BY <2>1, <2>2
  <2> QED
    BY <2>2, <2>3 DEF n, S
<1>8. cart # <<>> => m # <<>>
  BY <1>7, EmptySeq DEF CartType
<1>9. \A k \in 1 .. Len(cart) : m[k].item = cart[k].item /\ m[k].delta = sign * cart[k].qty
  <2> SUFFICES ASSUME NEW k \in 1 .. Len(cart)
               PROVE  m[k].item = cart[k].item /\ m[k].delta = sign * cart[k].qty
    OBVIOUS
  <2> DEFINE d == sign * cart[k].qty
  <2>1. m[k] = [item |-> cart[k].item, delta |-> d]
    BY <1>5
  <2> HIDE DEF d
  <2>2. m[k].item = cart[k].item /\ m[k].delta = d
    BY <2>1
  <2> QED
    BY <2>2 DEF d
<1> QED
  BY <1>7, <1>8, <1>9 DEF m, Movements

\* What a call at rest is.
LEMMA AtRest ==
  /\ Shape(Idle) /\ OrderShape(Idle) /\ ~Locked(Idle)
  /\ Idle.op = "none" /\ Idle.at = "none"
<1>1. <<>> \in Movements
  BY DEF Movements
<1>2. Shape(Idle)
  BY <1>1, IdleFields DEF Shape, Awaits, Stocking
<1> QED
  BY <1>2, IdleFields DEF OrderShape, Locked

LEMMA AtRestClaims ==
  ASSUME NEW c, c.op = "none", c.at = "none", NEW x, NEW y
  PROVE  StockCall(c, x, y) /\ MoneyCall(c, x, y) /\ ReturnCall(c, x, y) /\ Enough(c, x) /\ Taken(c, x) = 0
BY DEF StockCall, MoneyCall, ReturnCall, Enough, Taken, Rewrites

LEMMA CallTypesStay ==
  ASSUME CallTypes, NEW a \in Actor, Others(a), Shape(call'[a]), OrderShape(call'[a])
  PROVE  CallTypes'
BY DEF CallTypes, Others

\* The lock stays, is given back, or is taken.
LEMMA LockStays ==
  ASSUME CallTypes, LockHolds, NEW a \in Actor, Others(a), UNCHANGED lock, ItemTypes,
         Locked(call'[a]) => Locked(call[a]), Locked(call[a]) => Locked(call'[a])
  PROVE  LockHolds'
<1>1. \A b \in Actor : Locked(call'[b]) <=> Locked(call[b])
  BY DEF Others
<1>2. \A w \in Worker : lock[w] # None => lock[w] \in Actor
  BY DEF ItemTypes
<1> HIDE DEF Locked
<1> QED
  BY <1>1, <1>2 DEF LockHolds

LEMMA LockReleased ==
  ASSUME ItemTypes, CallTypes, LockHolds, NEW a \in Actor, Others(a), Release(a), ~Locked(call'[a])
  PROVE  LockHolds' /\ lock' \in [Worker -> Actor \cup {None}]
<1>1. lock \in [Worker -> Actor \cup {None}] /\ On[a] \in Worker /\ None \notin Actor
  BY InventoryConstants DEF ItemTypes
<1>2. CASE lock[On[a]] = a
  <2>1. lock' = [lock EXCEPT ![On[a]] = None]
    BY <1>2 DEF Release, Holds
  <2> HIDE DEF Locked
  <2> QED
    BY <1>1, <1>2, <2>1 DEF LockHolds, Others
<1>3. CASE lock[On[a]] # a
  <2>1. lock' = lock
    BY <1>1, <1>3 DEF Release, Holds
  <2> HIDE DEF Locked
  <2> QED
    BY <1>1, <1>3, <2>1 DEF LockHolds, Others
<1> QED
  BY <1>2, <1>3

LEMMA LockTaken ==
  ASSUME ItemTypes, CallTypes, LockHolds, NEW a \in Actor, Others(a), lock[On[a]] = None,
         lock' = [lock EXCEPT ![On[a]] = a], Locked(call'[a])
  PROVE  LockHolds' /\ lock' \in [Worker -> Actor \cup {None}]
<1>1. lock \in [Worker -> Actor \cup {None}] /\ On[a] \in Worker /\ None \notin Actor
  BY InventoryConstants DEF ItemTypes
<1> HIDE DEF Locked
<1> QED
  BY <1>1 DEF LockHolds, Others

\* Two calls in one worker are not both at a locked await.
LEMMA OneHolder ==
  ASSUME OneWorker, ItemTypes, LockHolds, NEW a \in Actor, NEW b \in Actor, Locked(call[a]), Locked(call[b])
  PROVE  a = b
<1>1. On[a] = On[b]
  BY DEF OneWorker
<1> HIDE DEF Locked
<1> QED
  BY <1>1 DEF LockHolds

\* A call that neither opens an item nor records a movement, before or after.
Still(a) ==
    /\ call[a].op # "open" /\ call'[a].op # "open"
    /\ call[a].at # "record" /\ call'[a].at # "record"
LEMMA StockStays ==
  ASSUME CallTypes, StockHolds, NEW a \in Actor, Others(a), UNCHANGED <<item, moved, meddled>>,
         Still(a), StockCall(call'[a], item, meddled)
  PROVE  StockHolds'
<1>1. \A b \in Actor, i \in Item : /\ Opens(call'[b], i) <=> Opens(call[b], i)
                                   /\ Records(call'[b], i) <=> Records(call[b], i)
  BY DEF Others, Still, Opens, Records
<1>2. \A b \in Actor, i \in Item : Records(call[b], i) => call'[b] = call[b]
  BY DEF Others, Still, Records
<1>3. \A b \in Actor : StockCall(call'[b], item, meddled)
  BY DEF StockHolds, Others
<1> HIDE DEF Opens, Records, StockCall
<1>4. \A i \in Item : Unopened(i)' = Unopened(i)
  BY <1>1 DEF Unopened
<1>5. \A i \in Item : Explained(i)'
  <2> SUFFICES ASSUME NEW i \in Item PROVE Explained(i)'
    OBVIOUS
  <2>1. Explained(i)
    BY DEF StockHolds
  <2> QED
    BY <1>1, <1>2, <1>4, <2>1 DEF Explained
<1>6. \A b, c \in Actor, i \in Item : Opens(call'[b], i) /\ Opens(call'[c], i) => b = c
  BY <1>1 DEF StockHolds
<1> QED
  BY <1>3, <1>5, <1>6 DEF StockHolds

\* A call that draws no number and loses none but to a document.
LEMMA FiledStays ==
  ASSUME UNCHANGED <<order, ret>>
  PROVE  \A k : Filed(k)' = Filed(k)
BY DEF Filed, Orders, Returns

LEMMA NumbersStay ==
  ASSUME CallTypes, NumbersHold, NEW a \in Actor, Others(a), UNCHANGED counter,
         \A k \in {"order", "newreturn"} : Filed(k)' = Filed(k),
         call'[a].at # "count",
         \A k \in {"order", "newreturn"} : Numbered(call'[a], k) => Numbered(call[a], k) /\ call'[a].n = call[a].n
  PROVE  NumbersHold'
<1>1. \A b \in Actor : call'[b].at = "count" => call'[b] = call[b]
  BY DEF Others
<1>2. \A b \in Actor, k \in {"order", "newreturn"} :
         Numbered(call'[b], k) => Numbered(call[b], k) /\ call'[b].n = call[b].n
  BY DEF Others
<1> HIDE DEF Numbered, Filed
<1> QED
  BY <1>1, <1>2 DEF NumbersHold

LEMMA MoneyStays ==
  ASSUME CallTypes, MoneyHolds, NEW a \in Actor, Others(a), UNCHANGED <<order, payments, refunds>>,
         MoneyCall(call'[a], order, payments)
  PROVE  MoneyHolds'
<1> HIDE DEF MoneyCall, OrderHolds
<1> QED
  BY DEF MoneyHolds, Others

LEMMA ReturnsStay ==
  ASSUME CallTypes, ReturnsHold, NEW a \in Actor, Others(a), UNCHANGED <<order, ret>>,
         ReturnCall(call'[a], ret, order)
  PROVE  ReturnsHold'
<1> HIDE DEF ReturnCall, ReturnHolds
<1> QED
  BY DEF ReturnsHold, Returns, Others

\* What a step shows of the call that takes it, if it changes nothing else but the lock.
LEMMA OwnCallStep ==
  ASSUME InventoryInv, NEW a \in Actor, Others(a), UNCHANGED <<stockVars, docs, counter>>,
         LockHolds', lock' \in [Worker -> Actor \cup {None}],
         Shape(call'[a]), OrderShape(call'[a]), StockCall(call'[a], item, meddled),
         MoneyCall(call'[a], order, payments), ReturnCall(call'[a], ret, order),
         Still(a), call'[a].at # "count",
         \A k \in {"order", "newreturn"} : Numbered(call'[a], k) => Numbered(call[a], k) /\ call'[a].n = call[a].n
  PROVE  InventoryInv'
<1>1. UNCHANGED <<item, moved, sold, meddled, order, ret, payments, refunds, counter>>
  BY DEF stockVars, docs
<1>2. ItemTypes'
  BY <1>1 DEF InventoryInv, ItemTypes
<1>3. CallTypes'
  BY CallTypesStay DEF InventoryInv
<1>4. StockHolds'
  BY <1>1, StockStays DEF InventoryInv
<1>5. NumbersHold'
  BY <1>1, FiledStays, NumbersStay DEF InventoryInv
<1>6. MoneyHolds'
  BY <1>1, MoneyStays DEF InventoryInv
<1>7. ReturnsHold'
  BY <1>1, ReturnsStay DEF InventoryInv
<1> QED
  BY <1>2, <1>3, <1>4, <1>5, <1>6, <1>7 DEF InventoryInv


-----------------------------------------------------------------------------
\* The inventory: the handlers begin.

LEMMA StartStep ==
  ASSUME InventoryInv, NEW a \in Actor, NEW op, NEW at, Starts(a, op, at),
         UNCHANGED <<stockVars, docs, counter, lock>>,
         op # "open", at \notin {"record", "count", "price", "read", "write"}, at = "number" => op = "newreturn",
         \A k \in {"order", "newreturn"} : ~Numbered(call'[a], k),
         Shape(call'[a]), OrderShape(call'[a]), StockCall(call'[a], item, meddled),
         MoneyCall(call'[a], order, payments), ReturnCall(call'[a], ret, order)
  PROVE  InventoryInv'
<1>1. Others(a) /\ call'[a].op = op /\ call'[a].at = at /\ call[a].op = "none" /\ call[a].at = "none"
  BY DEF Starts
<1>2. ~Locked(call'[a]) /\ ~Locked(call[a]) /\ Still(a) /\ call'[a].at # "count"
  BY <1>1 DEF Locked, Still
<1>3. LockHolds'
  BY <1>1, <1>2, LockStays DEF InventoryInv
<1>4. lock' \in [Worker -> Actor \cup {None}]
  BY DEF InventoryInv, ItemTypes
<1> HIDE DEF Numbered, Shape, OrderShape, StockCall, MoneyCall, ReturnCall, Still, InventoryInv
<1> QED
  BY <1>1, <1>2, <1>3, <1>4, OwnCallStep

LEMMA SaveItemReadInv ==
  ASSUME InventoryInv, NEW a \in Actor, NEW i \in Item, SaveItemRead(a, i)
  PROVE  InventoryInv'
<1>1. /\ Starts(a, "save", "put") /\ call'[a].todo = <<[item |-> i, delta |-> 0]>>
      /\ call'[a].base = item[i].stock /\ call'[a].amount = 0
  BY SaveItemReadFacts DEF InventoryInv
<1>2. /\ call'[a].todo \in Movements /\ call'[a].todo # <<>> /\ Len(call'[a].todo) = 1
      /\ call'[a].todo[1].item = i
  BY <1>1, OneMovement
<1>3. item[i].stock \in Nat /\ item[i].state = "listed"
  BY DEF InventoryInv, ItemTypes, SaveItemRead
<1>4. Shape(call'[a])
  BY <1>1, <1>2, <1>3 DEF Starts, Shape, Awaits, Stocking
<1>5. OrderShape(call'[a]) /\ StockCall(call'[a], item, meddled)
  BY <1>1, <1>2, <1>3 DEF Starts, OrderShape, StockCall
<1>6. MoneyCall(call'[a], order, payments) /\ ReturnCall(call'[a], ret, order)
  BY <1>1 DEF Starts, MoneyCall, Rewrites, ReturnCall
<1>7. \A k \in {"order", "newreturn"} : ~Numbered(call'[a], k)
  BY <1>1 DEF Starts, Numbered
<1> QED
  BY <1>1, <1>4, <1>5, <1>6, <1>7, StartStep DEF SaveItemRead

LEMMA AdjustStockInv ==
  ASSUME InventoryInv, NEW a \in Actor, NEW i \in Item, NEW d \in Adjustments, AdjustStock(a, i, d)
  PROVE  InventoryInv'
<1>1. d \in Int
  BY InventoryConstants
<1>2. /\ Starts(a, "adjust", "lock") /\ call'[a].todo = <<[item |-> i, delta |-> d]>>
      /\ call'[a].base = 0 /\ call'[a].amount = 0
  BY <1>1, AdjustStockFacts DEF InventoryInv
<1>3. call'[a].todo \in Movements /\ call'[a].todo # <<>> /\ Len(call'[a].todo) = 1
  BY <1>1, <1>2, OneMovement
<1>4. Shape(call'[a])
  BY <1>2, <1>3 DEF Starts, Shape, Awaits, Stocking
<1>5. OrderShape(call'[a]) /\ StockCall(call'[a], item, meddled)
  BY <1>2 DEF Starts, OrderShape, StockCall
<1>6. MoneyCall(call'[a], order, payments) /\ ReturnCall(call'[a], ret, order)
  BY <1>2 DEF Starts, MoneyCall, Rewrites, ReturnCall
<1>7. \A k \in {"order", "newreturn"} : ~Numbered(call'[a], k)
  BY <1>2 DEF Starts, Numbered
<1> QED
  BY <1>2, <1>4, <1>5, <1>6, <1>7, StartStep DEF AdjustStock

LEMMA CartFacts ==
  ASSUME NEW cart \in Carts
  PROVE  cart \in CartType /\ cart # <<>> /\ Len(cart) \in Nat \ {0}
<1>1. cart \in CartType /\ cart # <<>>
  BY InventoryConstants DEF CartType
<1> QED
  BY <1>1, EmptySeq DEF CartType

LEMMA CreateOrderInv ==
  ASSUME InventoryInv, NEW a \in Actor, NEW cart \in Carts, CreateOrder(a, cart)
  PROVE  InventoryInv'
<1>1. /\ Starts(a, "order", "lock") /\ call'[a].cart = cart /\ call'[a].todo = Moves(cart, -1)
      /\ call'[a].base = 0 /\ call'[a].amount = 0
  BY CreateOrderFacts DEF InventoryInv
<1>2. cart \in CartType /\ cart # <<>> /\ Len(cart) \in Nat \ {0}
  BY CartFacts
<1> DEFINE t == Moves(cart, -1)
<1>3. /\ t \in Movements /\ Len(t) = Len(cart) /\ t # <<>>
      /\ \A k \in 1 .. Len(cart) : t[k].item = cart[k].item /\ t[k].delta = (-1) * cart[k].qty
  BY <1>2, MovesFacts
<1>4. \A k \in 1 .. Len(cart) : cart[k].qty \in Nat
  <2>1. \A k \in 1 .. Len(cart) : cart[k] \in [item : Item, qty : Nat \ {0}]
    BY <1>2, ElementOfSeq DEF CartType
  <2> QED
    BY <2>1
<1> HIDE DEF t
<1>5. call'[a].todo = t
  BY <1>1 DEF t
<1>6. Shape(call'[a])
  BY <1>1, <1>3, <1>5 DEF Starts, Shape, Awaits, Stocking
<1>7. OrderShape(call'[a])
  BY <1>1, <1>2, <1>3, <1>4, <1>5 DEF Starts, OrderShape, Done
<1>8. /\ StockCall(call'[a], item, meddled)
      /\ MoneyCall(call'[a], order, payments) /\ ReturnCall(call'[a], ret, order)
  BY <1>1 DEF Starts, StockCall, MoneyCall, Rewrites, ReturnCall
<1>9. \A k \in {"order", "newreturn"} : ~Numbered(call'[a], k)
  BY <1>1 DEF Starts, Numbered
<1> QED
  BY <1>1, <1>6, <1>7, <1>8, <1>9, StartStep DEF CreateOrder

\* A copy of an order with another status, or with more money.
LEMMA CopyHolds ==
  ASSUME NEW d, OrderHolds(d), NEW s
  PROVE  /\ OrderHolds(Restated(d, s)) /\ Restated(d, s).status = s /\ Restated(d, s).cart = d.cart
         /\ Restated(d, s).number = d.number /\ Restated(d, s).paid = d.paid
BY NoOrderFields DEF OrderHolds, Restated

LEMMA MarkedHolds ==
  ASSUME NEW d, OrderHolds(d), NEW s, NEW x
  PROVE  /\ OrderHolds(Marked(d, s, x)) /\ Marked(d, s, x).status = s /\ Marked(d, s, x).cart = d.cart
         /\ Marked(d, s, x).number = d.number /\ Marked(d, s, x).paid = d.paid
BY NoOrderFields DEF OrderHolds, Marked

LEMMA PaidHolds ==
  ASSUME NEW d, OrderHolds(d), d.status # "none", NEW m \in Nat
  PROVE  /\ OrderHolds(Paid(d, m)) /\ Paid(d, m).status # "none"
         /\ Paid(d, m).cart = d.cart /\ Paid(d, m).number = d.number /\ Paid(d, m).paid = d.paid + m
<1> DEFINE e == [d EXCEPT !.paid = @ + m]
           f == [e EXCEPT !.status = "paid"]
<1>1. /\ OrderHolds(e) /\ e.status # "none" /\ e.cart = d.cart /\ e.number = d.number /\ e.paid = d.paid + m
  BY NoOrderFields DEF OrderHolds
<1>2. Paid(d, m) = e \/ Paid(d, m) = f
  BY DEF Paid
<1> HIDE DEF e
<1>3. OrderHolds(f) /\ f.status = "paid" /\ f.cart = e.cart /\ f.number = e.number /\ f.paid = e.paid
  BY <1>1, NoOrderFields DEF OrderHolds
<1> QED
  BY <1>1, <1>2, <1>3

LEMMA RefundedHolds ==
  ASSUME NEW d, OrderHolds(d), d.status # "none", NEW m \in Nat, m <= d.paid - d.refunded
  PROVE  /\ OrderHolds(Refunded(d, m)) /\ Refunded(d, m).status # "none"
         /\ Refunded(d, m).cart = d.cart /\ Refunded(d, m).number = d.number /\ Refunded(d, m).paid = d.paid
<1> DEFINE e == [d EXCEPT !.refunded = @ + m]
           f == [e EXCEPT !.status = "refunded"]
<1>1. /\ OrderHolds(e) /\ e.status # "none" /\ e.cart = d.cart /\ e.number = d.number /\ e.paid = d.paid
  BY NoOrderFields DEF OrderHolds
<1>2. Refunded(d, m) = e \/ Refunded(d, m) = f
  BY DEF Refunded
<1> HIDE DEF e
<1>3. OrderHolds(f) /\ f.status = "refunded" /\ f.cart = e.cart /\ f.number = e.number /\ f.paid = e.paid
  BY <1>1, NoOrderFields DEF OrderHolds
<1> QED
  BY <1>1, <1>2, <1>3

\* A call that begins to rewrite an order.
LEMMA RewriteStarts ==
  ASSUME InventoryInv, NEW a \in Actor, NEW o \in Orders, NEW op, NEW at, Starts(a, op, at),
         UNCHANGED <<stockVars, docs, counter, lock>>,
         \/ op = "cancel" /\ at \in {"lock", "settle"}
         \/ op = "status" /\ at = "settle"
         \/ op \in {"pay", "refund"} /\ at = "ledger",
         call'[a].todo \in Movements, at = "lock" => call'[a].todo # <<>>,
         call'[a].base = 0, call'[a].amount \in Nat,
         call'[a].o = o, OrderHolds(call'[a].doc), call'[a].doc.status # "none",
         call'[a].doc.cart = order[o].cart, call'[a].doc.number = order[o].number,
         call'[a].doc.paid <= order[o].paid + (IF op = "pay" THEN call'[a].amount ELSE 0)
  PROVE  InventoryInv'
<1>1. Shape(call'[a]) /\ OrderShape(call'[a]) /\ StockCall(call'[a], item, meddled)
  BY DEF Starts, Shape, Awaits, Stocking, OrderShape, StockCall
<1>2. /\ o \in OrderId /\ order[o].status # "none" /\ order[o].paid <= payments[o]
      /\ order[o].paid \in Nat /\ payments[o] \in Nat
  BY DEF Orders, InventoryInv, MoneyHolds, OrderHolds
<1>3. MoneyCall(call'[a], order, payments) /\ ReturnCall(call'[a], ret, order)
  <2>1. call'[a].doc.paid <= payments[o] + Unfiled(call'[a])
    BY <1>2 DEF Starts, Unfiled, OrderHolds
  <2> QED
    BY <1>2, <2>1 DEF Starts, MoneyCall, Rewrites, ReturnCall
<1>4. \A k \in {"order", "newreturn"} : ~Numbered(call'[a], k)
  BY DEF Starts, Numbered
<1> QED
  BY <1>1, <1>3, <1>4, StartStep

LEMMA CancelOrderInv ==
  ASSUME InventoryInv, NEW a \in Actor, NEW o \in OrderId, NEW restock \in BOOLEAN, CancelOrder(a, o, restock)
  PROVE  InventoryInv'
<1>1. o \in Orders /\ OrderHolds(order[o]) /\ order[o].cart # <<>>
  BY DEF CancelOrder, InventoryInv, MoneyHolds, Orders
<1>0. CallTypes
  BY DEF InventoryInv
<1>2. /\ \/ Starts(a, "cancel", "lock") /\ call'[a].todo = Moves(order[o].cart, 1)
         \/ Starts(a, "cancel", "settle") /\ call'[a].todo = <<>>
      /\ call'[a].base = 0 /\ call'[a].amount = 0 /\ call'[a].o = o
      /\ \E x : call'[a].doc = Marked(order[o], "cancelled", x)
  BY <1>0, CancelOrderFacts, Zenon
<1>3. Moves(order[o].cart, 1) \in Movements /\ Moves(order[o].cart, 1) # <<>> /\ <<>> \in Movements
  <2>1. order[o].cart \in CartType /\ 1 \in {1, -1}
    BY <1>1 DEF OrderHolds
  <2>2. Moves(order[o].cart, 1) \in Movements /\ Moves(order[o].cart, 1) # <<>>
    BY <1>1, <2>1, MovesFacts
  <2> QED
    BY <2>2 DEF Movements
<1>4. /\ OrderHolds(call'[a].doc) /\ call'[a].doc.status = "cancelled" /\ call'[a].doc.cart = order[o].cart
      /\ call'[a].doc.number = order[o].number /\ call'[a].doc.paid = order[o].paid
  BY <1>1, <1>2, MarkedHolds
<1>5. call'[a].doc.paid <= order[o].paid + 0
  BY <1>1, <1>4 DEF OrderHolds
<1>6. UNCHANGED <<stockVars, docs, counter, lock>>
  BY DEF CancelOrder
<1> QED
  BY <1>1, <1>2, <1>3, <1>4, <1>5, <1>6, RewriteStarts

LEMMA UpdateOrderStatusInv ==
  ASSUME InventoryInv, NEW a \in Actor, NEW o \in OrderId,
         NEW to \in {"pending", "paid", "fulfilled", "refunded"}, UpdateOrderStatus(a, o, to)
  PROVE  InventoryInv'
<1>1. o \in Orders /\ OrderHolds(order[o])
  BY DEF UpdateOrderStatus, InventoryInv, MoneyHolds, Orders
<1>2. /\ Starts(a, "status", "settle") /\ call'[a].todo = <<>>
      /\ call'[a].base = 0 /\ call'[a].amount = 0
      /\ call'[a].o = o /\ call'[a].doc = Restated(order[o], to)
  BY UpdateOrderStatusFacts DEF InventoryInv
<1>3. /\ OrderHolds(call'[a].doc) /\ call'[a].doc.status = to /\ call'[a].doc.cart = order[o].cart
      /\ call'[a].doc.number = order[o].number /\ call'[a].doc.paid = order[o].paid
  BY <1>1, <1>2, CopyHolds
<1>4. call'[a].doc.paid <= order[o].paid + 0 /\ <<>> \in Movements
  BY <1>1, <1>3 DEF OrderHolds, Movements
<1>5. UNCHANGED <<stockVars, docs, counter, lock>>
  BY DEF UpdateOrderStatus
<1> QED
  BY <1>1, <1>2, <1>3, <1>4, <1>5, RewriteStarts

LEMMA RecordPaymentInv ==
  ASSUME InventoryInv, NEW a \in Actor, NEW o \in OrderId, NEW m \in Amounts, RecordPayment(a, o, m)
  PROVE  InventoryInv'
<1>1. o \in Orders /\ OrderHolds(order[o]) /\ order[o].status # "none" /\ m \in Nat
  BY InventoryConstants DEF RecordPayment, InventoryInv, MoneyHolds, Orders
<1>2. /\ Starts(a, "pay", "ledger") /\ call'[a].todo = <<>>
      /\ call'[a].base = 0 /\ call'[a].amount = m
      /\ call'[a].o = o /\ call'[a].doc = Paid(order[o], m)
  BY RecordPaymentFacts DEF InventoryInv
<1>3. /\ OrderHolds(call'[a].doc) /\ call'[a].doc.status # "none" /\ call'[a].doc.cart = order[o].cart
      /\ call'[a].doc.number = order[o].number /\ call'[a].doc.paid = order[o].paid + m
  BY <1>1, <1>2, PaidHolds
<1>4. call'[a].doc.paid <= order[o].paid + m /\ <<>> \in Movements
  BY <1>1, <1>3 DEF OrderHolds, Movements
<1>5. UNCHANGED <<stockVars, docs, counter, lock>>
  BY DEF RecordPayment
<1> QED
  BY <1>1, <1>2, <1>3, <1>4, <1>5, RewriteStarts

LEMMA RefundPaymentInv ==
  ASSUME InventoryInv, NEW a \in Actor, NEW o \in OrderId, NEW m \in Amounts, RefundPayment(a, o, m)
  PROVE  InventoryInv'
<1>1. o \in Orders /\ OrderHolds(order[o]) /\ order[o].status # "none" /\ m \in Nat
      /\ m <= order[o].paid - order[o].refunded
  BY InventoryConstants DEF RefundPayment, MaxRefund, InventoryInv, MoneyHolds, Orders
<1>2. /\ Starts(a, "refund", "ledger") /\ call'[a].todo = <<>>
      /\ call'[a].base = 0 /\ call'[a].amount = m
      /\ call'[a].o = o /\ call'[a].doc = Refunded(order[o], m)
  BY RefundPaymentFacts DEF InventoryInv
<1>3. /\ OrderHolds(call'[a].doc) /\ call'[a].doc.status # "none" /\ call'[a].doc.cart = order[o].cart
      /\ call'[a].doc.number = order[o].number /\ call'[a].doc.paid = order[o].paid
  BY <1>1, <1>2, RefundedHolds
<1>4. call'[a].doc.paid <= order[o].paid + 0 /\ <<>> \in Movements
  BY <1>1, <1>3 DEF OrderHolds, Movements
<1>5. UNCHANGED <<stockVars, docs, counter, lock>>
  BY DEF RefundPayment
<1> QED
  BY <1>1, <1>2, <1>3, <1>4, <1>5, RewriteStarts

\* A call that begins with a return.
LEMMA ReturnStarts ==
  ASSUME InventoryInv, NEW a \in Actor, NEW op, NEW at, Starts(a, op, at),
         UNCHANGED <<stockVars, docs, counter, lock>>,
         \/ op = "newreturn" /\ at = "number"
         \/ op = "retstatus" /\ at = "final"
         \/ op = "return" /\ at \in {"lock", "settle"},
         call'[a].todo \in Movements, at = "lock" => call'[a].todo # <<>>,
         call'[a].base = 0, call'[a].amount = 0,
         ReturnCall(call'[a], ret, order),
         op = "return" => call'[a].o \in Orders
  PROVE  InventoryInv'
<1>1. Shape(call'[a]) /\ OrderShape(call'[a]) /\ StockCall(call'[a], item, meddled)
  BY DEF Starts, Shape, Awaits, Stocking, OrderShape, StockCall
<1>2. MoneyCall(call'[a], order, payments)
  BY DEF Starts, MoneyCall, Rewrites, Orders
<1>3. \A k \in {"order", "newreturn"} : ~Numbered(call'[a], k)
  BY DEF Starts, Numbered
<1> QED
  BY <1>1, <1>2, <1>3, StartStep

LEMMA CreateReturnInv ==
  ASSUME InventoryInv, NEW a \in Actor, NEW o \in OrderId, NEW i \in Item, NEW q \in Amounts, CreateReturn(a, o, i, q)
  PROVE  InventoryInv'
<1>0. CallTypes
  BY DEF InventoryInv
<1>1. o \in OrderId /\ order[o].status # "none" /\ q \in Nat
  BY InventoryConstants DEF CreateReturn, Orders
<1>2. /\ Starts(a, "newreturn", "number") /\ call'[a].todo = <<>>
      /\ call'[a].base = 0 /\ call'[a].amount = 0
      /\ DOMAIN call'[a].rdoc = DOMAIN NoReturn /\ call'[a].rdoc.of = o /\ call'[a].rdoc.item = i
      /\ call'[a].rdoc.qty = q /\ call'[a].rdoc.status = "requested" /\ call'[a].rdoc.number = 0
  BY <1>0, CreateReturnFacts, Zenon
<1>3. ReturnHolds(call'[a].rdoc, order)
  BY <1>1, <1>2, NoReturnFields DEF ReturnHolds
<1>4. ReturnCall(call'[a], ret, order) /\ <<>> \in Movements
  BY <1>2, <1>3 DEF Starts, ReturnCall, Movements
<1>5. UNCHANGED <<stockVars, docs, counter, lock>>
  BY DEF CreateReturn
<1> QED
  BY <1>2, <1>4, <1>5, ReturnStarts

LEMMA ReturnCopyHolds ==
  ASSUME NEW d, NEW orders, ReturnHolds(d, orders), NEW s, s # "none"
  PROVE  ReturnHolds(Restated(d, s), orders) /\ Restated(d, s).number = d.number
BY NoReturnFields DEF ReturnHolds, Restated

LEMMA RestockedHolds ==
  ASSUME NEW d, NEW orders, ReturnHolds(d, orders), NEW x
  PROVE  ReturnHolds(Restocked(d, x), orders) /\ Restocked(d, x).number = d.number
BY NoReturnFields DEF ReturnHolds, Restocked

LEMMA RepaidHolds ==
  ASSUME NEW d, NEW orders, ReturnHolds(d, orders)
  PROVE  ReturnHolds(Repaid(d), orders) /\ Repaid(d).number = d.number
BY NoReturnFields DEF ReturnHolds, Repaid

LEMMA UpdateReturnStatusInv ==
  ASSUME InventoryInv, NEW a \in Actor, NEW r \in ReturnId,
         NEW to \in {"requested", "approved", "received", "refunded", "rejected"}, UpdateReturnStatus(a, r, to)
  PROVE  InventoryInv'
<1>1. r \in ReturnId /\ ret[r].status # "none" /\ ReturnHolds(ret[r], order)
  BY DEF UpdateReturnStatus, Returns, InventoryInv, ReturnsHold
<1>2. /\ Starts(a, "retstatus", "final") /\ call'[a].todo = <<>>
      /\ call'[a].base = 0 /\ call'[a].amount = 0
      /\ call'[a].r = r /\ call'[a].rdoc = Restated(ret[r], to)
  BY UpdateReturnStatusFacts DEF InventoryInv
<1>3. ReturnHolds(call'[a].rdoc, order) /\ call'[a].rdoc.number = ret[r].number
  BY <1>1, <1>2, ReturnCopyHolds
<1>4. ReturnCall(call'[a], ret, order) /\ <<>> \in Movements
  BY <1>1, <1>2, <1>3 DEF Starts, ReturnCall, Movements
<1>5. UNCHANGED <<stockVars, docs, counter, lock>>
  BY DEF UpdateReturnStatus
<1> QED
  BY <1>2, <1>4, <1>5, ReturnStarts

LEMMA ProcessReturnInv ==
  ASSUME InventoryInv, NEW a \in Actor, NEW r \in ReturnId, NEW restock \in BOOLEAN, NEW refund \in BOOLEAN,
         ProcessReturn(a, r, restock, refund)
  PROVE  InventoryInv'
<1>1. r \in ReturnId /\ ret[r].status # "none" /\ ReturnHolds(ret[r], order)
  BY DEF ProcessReturn, Returns, InventoryInv, ReturnsHold
<1>0. CallTypes
  BY DEF InventoryInv
<1>2. /\ \/ /\ Starts(a, "return", "lock")
            /\ call'[a].todo = <<[item |-> ret[r].item, delta |-> ret[r].qty]>>
         \/ Starts(a, "return", "settle") /\ call'[a].todo = <<>>
      /\ call'[a].base = 0 /\ call'[a].amount = 0
      /\ call'[a].r = r /\ call'[a].o = ret[r].of
      /\ \E x : call'[a].rdoc = Restocked(ret[r], x)
  BY <1>0, ProcessReturnFacts
<1>3. ReturnHolds(call'[a].rdoc, order) /\ call'[a].rdoc.number = ret[r].number
  BY <1>1, <1>2, RestockedHolds
<1>4. ReturnCall(call'[a], ret, order) /\ <<>> \in Movements
  BY <1>1, <1>2, <1>3 DEF Starts, ReturnCall, Movements
<1>5. ret[r].item \in Item /\ ret[r].qty \in Int /\ call'[a].o \in Orders
  BY <1>1, <1>2 DEF ReturnHolds, Orders
<1>6. \/ Starts(a, "return", "lock") /\ call'[a].todo \in Movements /\ call'[a].todo # <<>>
      \/ Starts(a, "return", "settle") /\ call'[a].todo \in Movements
  <2>1. <<[item |-> ret[r].item, delta |-> ret[r].qty]>> \in Movements
        /\ <<[item |-> ret[r].item, delta |-> ret[r].qty]>> # <<>>
    BY <1>5, OneMovement
  <2> QED
    BY <1>2, <1>4, <2>1
<1>7. UNCHANGED <<stockVars, docs, counter, lock>>
  BY DEF ProcessReturn
<1> QED
  BY <1>2, <1>4, <1>5, <1>6, <1>7, ReturnStarts


-----------------------------------------------------------------------------
\* The inventory: the handlers go on, with nothing stored but the lock or a counter.

\* A call has its type and its claims.
LEMMA CallOf ==
  ASSUME InventoryInv, NEW a \in Actor
  PROVE  /\ Shape(call[a]) /\ OrderShape(call[a]) /\ StockCall(call[a], item, meddled)
         /\ MoneyCall(call[a], order, payments) /\ ReturnCall(call[a], ret, order)
         /\ CallTypes /\ ItemTypes /\ LockHolds /\ StockHolds /\ NumbersHold /\ MoneyHolds /\ ReturnsHold
BY DEF InventoryInv, CallTypes, StockHolds, MoneyHolds, ReturnsHold

LEMMA DocsCarried ==
  ASSUME InventoryInv, NEW a \in Actor, SameDocs(a), call'[a].op = call[a].op, call[a].op # "pay",
         Rewrites(call'[a]) => Rewrites(call[a])
  PROVE  MoneyCall(call'[a], order, payments) /\ ReturnCall(call'[a], ret, order)
<1>1. MoneyCall(call[a], order, payments) /\ ReturnCall(call[a], ret, order)
  BY CallOf
<1>2. Unfiled(call'[a]) = Unfiled(call[a])
  BY DEF Unfiled
<1>3. MoneyCall(call'[a], order, payments)
  BY <1>1, <1>2 DEF SameDocs, MoneyCall
<1>4. ReturnCall(call'[a], ret, order)
  BY <1>1 DEF SameDocs, ReturnCall
<1> QED
  BY <1>3, <1>4

\* A call ends without a trace.
LEMMA EndStep ==
  ASSUME InventoryInv, NEW a \in Actor, Ends(a), UNCHANGED <<stockVars, docs, counter>>,
         Release(a) \/ (UNCHANGED lock /\ ~Locked(call[a])),
         call[a].op # "open", call[a].at # "record"
  PROVE  InventoryInv'
<1>1. Others(a) /\ call'[a] = Idle
  BY DEF Ends
<1>2. /\ Shape(call'[a]) /\ OrderShape(call'[a]) /\ ~Locked(call'[a])
      /\ call'[a].op = "none" /\ call'[a].at = "none"
  BY <1>1, AtRest
<1>3. /\ StockCall(call'[a], item, meddled) /\ MoneyCall(call'[a], order, payments)
      /\ ReturnCall(call'[a], ret, order)
  BY <1>2, AtRestClaims
<1>4. LockHolds' /\ lock' \in [Worker -> Actor \cup {None}]
  <2>1. ItemTypes /\ CallTypes /\ LockHolds
    BY CallOf
  <2>2. CASE Release(a)
    BY <1>1, <1>2, <2>1, <2>2, LockReleased
  <2>3. CASE UNCHANGED lock /\ ~Locked(call[a])
    <3>1. LockHolds'
      BY <1>1, <1>2, <2>1, <2>3, LockStays
    <3> QED
      BY <2>1, <2>3, <3>1 DEF ItemTypes
  <2> QED
    BY <2>2, <2>3
<1>5. Still(a) /\ call'[a].at # "count" /\ \A k \in {"order", "newreturn"} : ~Numbered(call'[a], k)
  BY <1>2 DEF Still, Numbered
<1> QED
  BY <1>1, <1>2, <1>3, <1>4, <1>5, OwnCallStep

LEMMA WithStockLockInv ==
  ASSUME InventoryInv, NEW a \in Actor, WithStockLock(a)
  PROVE  InventoryInv'
<1>0. CallTypes
  BY CallOf
<1>1. PICK at : at = (IF call[a].op = "order" THEN "price" ELSE "read")
  OBVIOUS
<1>2. Goes(a, at)
  BY <1>0, <1>1, GotoFacts DEF WithStockLock
<1>3. Others(a) /\ call'[a].at = at /\ call[a].at = "lock" /\ call'[a].op = call[a].op
  BY <1>2 DEF Goes, SameOrder, WithStockLock, At
<1>4. call[a].op \in {"adjust", "order", "cancel", "return"}
  BY <1>3, CallOf DEF Shape, Awaits
<1>5. Shape(call'[a]) /\ OrderShape(call'[a]) /\ StockCall(call'[a], item, meddled)
  <2>1. Shape(call[a]) /\ OrderShape(call[a])
    BY CallOf
  <2>2. Shape(call'[a])
    BY <1>1, <1>2, <1>3, <1>4, <2>1 DEF Goes, SameOrder, Shape, Awaits, Stocking
  <2>3. OrderShape(call'[a])
    BY <1>1, <1>2, <1>3, <1>4, <2>1 DEF Goes, SameOrder, OrderShape, Done
  <2>4. StockCall(call'[a], item, meddled)
    BY <1>1, <1>3, <1>4 DEF StockCall
  <2> QED
    BY <2>2, <2>3, <2>4
<1>6. MoneyCall(call'[a], order, payments) /\ ReturnCall(call'[a], ret, order)
  <2>1. Rewrites(call'[a]) => Rewrites(call[a])
    BY <1>1, <1>3, <1>4 DEF Rewrites
  <2> QED
    BY <1>2, <1>3, <1>4, <2>1, DocsCarried DEF Goes
<1>7. Locked(call'[a])
  BY <1>1, <1>3 DEF Locked
<1>8. LockHolds' /\ lock' \in [Worker -> Actor \cup {None}]
  BY <1>3, <1>7, CallOf, LockTaken DEF WithStockLock
<1>9. Still(a) /\ call'[a].at # "count"
  BY <1>1, <1>3, <1>4 DEF Still
<1>10. \A k \in {"order", "newreturn"} : ~Numbered(call'[a], k)
  BY <1>1, <1>3, <1>4 DEF Numbered
<1> QED
  BY <1>3, <1>5, <1>6, <1>8, <1>9, <1>10, OwnCallStep DEF WithStockLock

LEMMA PriceLinesInv ==
  ASSUME InventoryInv, NEW a \in Actor, PriceLines(a)
  PROVE  InventoryInv'
<1>0. CallTypes
  BY CallOf
<1>1. call[a].at = "price" /\ UNCHANGED <<stockVars, docs, counter>>
  BY DEF PriceLines, At
<1>2. call[a].op = "order"
  BY <1>1, CallOf DEF Shape, Awaits, Stocking
<1>3. CASE Available(call[a].cart)
  <2>1. Goes(a, "number") /\ UNCHANGED lock
    BY <1>0, <1>3, GotoFacts DEF PriceLines
  <2>2. Others(a) /\ call'[a].at = "number" /\ call'[a].op = "order"
    BY <1>2, <2>1 DEF Goes, SameOrder
  <2>3. Shape(call[a]) /\ OrderShape(call[a])
    BY CallOf
  <2>4. Shape(call'[a])
    BY <1>1, <1>2, <2>1, <2>3 DEF Goes, SameOrder, Shape, Awaits, Stocking
  <2>5. OrderShape(call'[a])
    BY <1>1, <1>2, <2>1, <2>3 DEF Goes, SameOrder, OrderShape, Done
  <2>6. StockCall(call'[a], item, meddled)
    BY <2>2 DEF StockCall
  <2>7. MoneyCall(call'[a], order, payments) /\ ReturnCall(call'[a], ret, order)
    <3>1. Rewrites(call'[a]) => Rewrites(call[a])
      BY <2>2 DEF Rewrites
    <3> QED
      BY <1>2, <2>1, <2>2, <3>1, DocsCarried DEF Goes
  <2>8. LockHolds' /\ lock' \in [Worker -> Actor \cup {None}]
    <3>1. Locked(call'[a]) /\ Locked(call[a])
      BY <1>1, <2>2 DEF Locked
    <3>2. LockHolds'
      BY <2>1, <2>2, <3>1, CallOf, LockStays
    <3> QED
      BY <2>1, <3>2, CallOf DEF ItemTypes
  <2>9. Still(a) /\ call'[a].at # "count" /\ \A k \in {"order", "newreturn"} : ~Numbered(call'[a], k)
    BY <1>1, <1>2, <2>2 DEF Still, Numbered
  <2> QED
    BY <1>1, <2>2, <2>4, <2>5, <2>6, <2>7, <2>8, <2>9, OwnCallStep
<1>4. CASE ~Available(call[a].cart)
  <2>1. Ends(a) /\ Release(a)
    BY <1>0, <1>4, ReturnFacts DEF PriceLines
  <2> QED
    BY <1>1, <1>2, <2>1, EndStep
<1> QED
  BY <1>3, <1>4

LEMMA NextNumberReadInv ==
  ASSUME OneWorker, InventoryInv, NEW a \in Actor, NextNumberRead(a)
  PROVE  InventoryInv'
<1>0. CallTypes /\ ItemTypes /\ NumbersHold
  BY CallOf
<1>1. /\ call[a].at = "number" /\ UNCHANGED <<stockVars, docs, counter, lock>>
      /\ \A b \in Actor : call[b].at # "count"
  BY DEF NextNumberRead, At, OneWorker
<1>2. /\ Others(a) /\ DOMAIN call'[a] = DOMAIN Idle /\ call'[a].at = "count"
      /\ SameOrder(a) /\ SameDocs(a)
      /\ call'[a].base = call[a].base /\ call'[a].n = counter[call[a].op] + 1
      /\ call'[a].amount = call[a].amount
  BY <1>0, NextNumberReadFacts
<1>3. call[a].op \in {"order", "newreturn"} /\ call'[a].op = call[a].op
  BY <1>1, <1>2, CallOf DEF Shape, Awaits, Stocking, SameOrder
<1>4. counter[call[a].op] \in Nat
  BY <1>0, <1>3 DEF ItemTypes
<1>5. Shape(call'[a])
  BY <1>1, <1>2, <1>3, <1>4, CallOf DEF SameOrder, Shape, Awaits, Stocking
<1>6. OrderShape(call'[a])
  BY <1>1, <1>2, <1>3, CallOf DEF SameOrder, OrderShape, Done
<1>7. CallTypes'
  BY <1>0, <1>2, <1>5, <1>6, CallTypesStay
<1>8. ItemTypes'
  BY <1>0, <1>1 DEF ItemTypes, stockVars
<1>9. LockHolds'
  <2>1. Locked(call'[a]) <=> Locked(call[a])
    BY <1>1, <1>2, <1>3 DEF Locked
  <2> QED
    BY <1>1, <1>2, <2>1, CallOf, LockStays
<1>10. StockHolds'
  <2>1. Still(a) /\ StockCall(call'[a], item, meddled)
    BY <1>1, <1>2, <1>3 DEF Still, StockCall
  <2> QED
    BY <1>1, <1>2, <2>1, CallOf, StockStays DEF stockVars
<1>11. MoneyCall(call'[a], order, payments) /\ ReturnCall(call'[a], ret, order)
  <2>1. Rewrites(call'[a]) => Rewrites(call[a])
    BY <1>2, <1>3 DEF Rewrites
  <2> QED
    BY <1>2, <1>3, <2>1, DocsCarried
<1>12. MoneyHolds' /\ ReturnsHold'
  BY <1>1, <1>2, <1>11, CallOf, MoneyStays, ReturnsStay DEF docs
<1>13. NumbersHold'
  <2>1. \A k \in {"order", "newreturn"} : Filed(k)' = Filed(k)
    BY <1>1, FiledStays DEF docs
  <2>2. \A b \in Actor, k \in {"order", "newreturn"} :
           Numbered(call'[b], k) => Numbered(call[b], k) /\ call'[b].n = call[b].n
    BY <1>2 DEF Others, Numbered
  <2>3. \A b \in Actor : call'[b].at = "count" => b = a
    BY <1>1, <1>2 DEF Others
  <2>4. call'[a].n = counter[call'[a].op] + 1
    BY <1>2, <1>3
  <2> HIDE DEF Numbered, Filed
  <2> QED
    BY <1>0, <1>1, <2>1, <2>2, <2>3, <2>4 DEF NumbersHold
<1> QED
  BY <1>7, <1>8, <1>9, <1>10, <1>12, <1>13 DEF InventoryInv

LEMMA NextNumberWriteInv ==
  ASSUME OneWorker, InventoryInv, NEW a \in Actor, NextNumberWrite(a)
  PROVE  InventoryInv'
<1>0. CallTypes /\ ItemTypes /\ NumbersHold
  BY CallOf
<1>1. /\ call[a].at = "count" /\ UNCHANGED <<stockVars, docs, lock>>
      /\ counter' = [counter EXCEPT ![call[a].op] = call[a].n]
  BY DEF NextNumberWrite, At
<1>2. PICK at : at = (IF call[a].op = "order" THEN "read" ELSE "settle")
  OBVIOUS
<1>3. Goes(a, at)
  BY <1>0, <1>2, GotoFacts DEF NextNumberWrite
<1>4. Others(a) /\ call'[a].at = at /\ call'[a].op = call[a].op /\ call'[a].n = call[a].n
  BY <1>3 DEF Goes, SameOrder
<1>5. call[a].op \in {"order", "newreturn"}
  BY <1>1, CallOf DEF Shape, Awaits, Stocking
<1>6. call[a].op = "order" => call[a].todo # <<>>
  <2> SUFFICES ASSUME call[a].op = "order" PROVE call[a].todo # <<>>
    OBVIOUS
  <2>1. call[a].cart \in Carts /\ Len(call[a].todo) = Len(call[a].cart)
    BY <1>1, CallOf DEF OrderShape
  <2>2. Len(call[a].todo) # 0
    BY <2>1, CartFacts
  <2> QED
    BY <2>2
<1>7. Shape(call'[a])
  BY <1>1, <1>2, <1>3, <1>5, <1>6, CallOf DEF Goes, SameOrder, Shape, Awaits, Stocking
<1>8. OrderShape(call'[a])
  BY <1>1, <1>2, <1>3, <1>5, CallOf DEF Goes, SameOrder, OrderShape, Done
<1>9. CallTypes'
  BY <1>0, <1>4, <1>7, <1>8, CallTypesStay
<1>10. call[a].n \in Nat
  BY CallOf DEF Shape
<1>11. ItemTypes'
  BY <1>0, <1>1, <1>10 DEF ItemTypes, stockVars
<1>12. LockHolds'
  <2>1. Locked(call'[a]) <=> Locked(call[a])
    BY <1>1, <1>2, <1>4, <1>5 DEF Locked
  <2> QED
    BY <1>1, <1>4, <2>1, CallOf, LockStays
<1>13. StockHolds'
  <2>1. Still(a) /\ StockCall(call'[a], item, meddled)
    BY <1>1, <1>2, <1>4, <1>5 DEF Still, StockCall
  <2> QED
    BY <1>1, <1>4, <2>1, CallOf, StockStays DEF stockVars
<1>14. MoneyCall(call'[a], order, payments) /\ ReturnCall(call'[a], ret, order)
  <2>1. Rewrites(call'[a]) => Rewrites(call[a])
    BY <1>4, <1>5 DEF Rewrites
  <2> QED
    BY <1>3, <1>4, <1>5, <2>1, DocsCarried DEF Goes
<1>15. MoneyHolds' /\ ReturnsHold'
  BY <1>1, <1>4, <1>14, CallOf, MoneyStays, ReturnsStay DEF docs
<1>16. NumbersHold'
  <2> DEFINE K == {"order", "newreturn"}
             j == call[a].op
  <2>1. \A k \in K : Filed(k)' = Filed(k)
    BY <1>1, FiledStays DEF docs
  <2>2. \A b \in Actor, k \in K :
           Numbered(call'[b], k) => (Numbered(call[b], k) /\ b # a) \/ (b = a /\ k = j)
    BY <1>1, <1>4 DEF Others, Numbered
  <2>3. \A b \in Actor : call'[b].n = call[b].n
    BY <1>4 DEF Others
  <2>4. \A b \in Actor : call'[b].at # "count"
    BY <1>0, <1>1, <1>2, <1>4 DEF Others, NumbersHold
  <2>5. call[a].n = counter[j] + 1 /\ j \in K /\ counter \in [K -> Nat]
    BY <1>0, <1>1, <1>5 DEF NumbersHold, ItemTypes
  <2>6. \A k \in K : counter'[k] \in Nat /\ counter[k] \in Nat /\ counter[k] <= counter'[k]
                     /\ (k = j => counter'[k] = counter[k] + 1)
    BY <1>1, <2>5
  <2>7. \A k \in K : \A x \in DOMAIN Filed(k) : Filed(k)[x] \in Nat /\ Filed(k)[x] <= counter[k]
    BY <1>0 DEF NumbersHold
  <2>8. \A b \in Actor, k \in K : Numbered(call[b], k) => call[b].n <= counter[k] /\ call[b].n \in Nat
    BY <1>0 DEF NumbersHold, CallTypes, Shape
  <2>9. \A k \in K : \A x, y \in DOMAIN Filed(k) : x # y => Filed(k)[x] # Filed(k)[y]
    BY <1>0 DEF NumbersHold
  <2>10. \A k \in K : \A b \in Actor : Numbered(call[b], k) => \A x \in DOMAIN Filed(k) : Filed(k)[x] # call[b].n
    BY <1>0 DEF NumbersHold
  <2>11. \A k \in K : \A b, c \in Actor : Numbered(call[b], k) /\ Numbered(call[c], k) /\ b # c => call[b].n # call[c].n
    BY <1>0 DEF NumbersHold
  <2> HIDE DEF Numbered, Filed, K, j
  <2>12. ASSUME NEW k \in K
         PROVE  /\ \A x \in DOMAIN Filed(k) : Filed(k)[x] \in Nat /\ Filed(k)[x] <= counter'[k]
                /\ \A b \in Actor : Numbered(call'[b], k) =>
                      call'[b].n <= counter'[k] /\ \A x \in DOMAIN Filed(k) : Filed(k)[x] # call'[b].n
                /\ \A b, c \in Actor : Numbered(call'[b], k) /\ Numbered(call'[c], k) /\ b # c => call'[b].n # call'[c].n
    <3>1. \A x \in DOMAIN Filed(k) : Filed(k)[x] \in Nat /\ Filed(k)[x] <= counter'[k]
      BY <2>6, <2>7
    <3>2. ASSUME NEW b \in Actor, Numbered(call'[b], k)
          PROVE  call'[b].n <= counter'[k] /\ \A x \in DOMAIN Filed(k) : Filed(k)[x] # call'[b].n
      <4>1. CASE Numbered(call[b], k) /\ b # a
        BY <2>3, <2>6, <2>8, <2>10, <4>1
      <4>2. CASE b = a /\ k = j
        BY <2>3, <2>5, <2>6, <2>7, <4>2
      <4> QED
        BY <2>2, <3>2, <4>1, <4>2
    <3>3. ASSUME NEW b \in Actor, NEW c \in Actor, Numbered(call'[b], k), Numbered(call'[c], k), b # c
          PROVE  call'[b].n # call'[c].n
      <4>1. CASE Numbered(call[b], k) /\ Numbered(call[c], k)
        BY <2>3, <2>11, <3>3, <4>1
      <4>2. CASE b = a /\ k = j /\ Numbered(call[c], k)
        BY <2>3, <2>5, <2>6, <2>8, <4>2
      <4>3. CASE c = a /\ k = j /\ Numbered(call[b], k)
        BY <2>3, <2>5, <2>6, <2>8, <4>3
      <4> QED
        BY <2>2, <3>3, <4>1, <4>2, <4>3
    <3> QED
      BY <3>1, <3>2, <3>3
  <2> QED
    BY <2>1, <2>4, <2>9, <2>12 DEF NumbersHold, K
<1> QED
  BY <1>9, <1>11, <1>12, <1>13, <1>15, <1>16 DEF InventoryInv

LEMMA AdjustReadInv ==
  ASSUME InventoryInv, NEW a \in Actor, AdjustRead(a)
  PROVE  InventoryInv'
<1>0. CallTypes /\ ItemTypes
  BY CallOf
<1>1. /\ call[a].at = "read" /\ UNCHANGED <<stockVars, docs, counter, lock>>
      /\ item[Head(call[a].todo).item].state = "listed"
      /\ item[Head(call[a].todo).item].stock + Head(call[a].todo).delta >= 0
  BY DEF AdjustRead, At, Line
<1>2. /\ Others(a) /\ DOMAIN call'[a] = DOMAIN Idle /\ call'[a].at = "write"
      /\ SameOrder(a) /\ SameDocs(a)
      /\ call'[a].base = item[Head(call[a].todo).item].stock /\ call'[a].n = call[a].n
      /\ call'[a].amount = call[a].amount
  BY <1>0, AdjustReadFacts
<1>3. call[a].op \in {"adjust", "order", "cancel", "return"} /\ call'[a].op = call[a].op
  BY <1>1, <1>2, CallOf DEF Shape, Awaits, Stocking, SameOrder
<1>4. call[a].todo \in Movements /\ call[a].todo # <<>>
  BY <1>1, CallOf DEF Shape, Stocking
<1>5. Head(call[a].todo) = call[a].todo[1] /\ call[a].todo[1].item \in Item
  BY <1>4, LineFacts
<1> DEFINE i == call[a].todo[1].item
<1>6. item[i] = [state |-> "listed", stock |-> call'[a].base] /\ item[i].stock \in Nat
  BY <1>0, <1>1, <1>2, <1>5 DEF ItemTypes
<1>7. Shape(call'[a])
  BY <1>1, <1>2, <1>3, <1>5, <1>6, CallOf DEF SameOrder, Shape, Awaits, Stocking
<1>8. OrderShape(call'[a])
  BY <1>1, <1>2, <1>3, CallOf DEF SameOrder, OrderShape, Done
<1>9. StockCall(call'[a], item, meddled)
  BY <1>1, <1>2, <1>5, <1>6 DEF SameOrder, StockCall
<1>10. MoneyCall(call'[a], order, payments) /\ ReturnCall(call'[a], ret, order)
  <2>1. Rewrites(call'[a]) => Rewrites(call[a])
    BY <1>2, <1>3 DEF Rewrites
  <2> QED
    BY <1>2, <1>3, <2>1, DocsCarried
<1>11. LockHolds' /\ lock' \in [Worker -> Actor \cup {None}]
  <2>1. Locked(call'[a]) /\ Locked(call[a])
    BY <1>1, <1>2 DEF Locked
  <2>2. LockHolds'
    BY <1>1, <1>2, <2>1, CallOf, LockStays
  <2> QED
    BY <1>0, <1>1, <2>2 DEF ItemTypes
<1>12. Still(a)
  BY <1>1, <1>2, <1>3 DEF Still
<1>13. \A k \in {"order", "newreturn"} : Numbered(call'[a], k) => Numbered(call[a], k) /\ call'[a].n = call[a].n
  BY <1>1, <1>2, <1>3 DEF Numbered
<1> QED
  BY <1>1, <1>2, <1>7, <1>8, <1>9, <1>10, <1>11, <1>12, <1>13, OwnCallStep


-----------------------------------------------------------------------------
\* The inventory: the handlers go on and change the stock.

\* A call goes on after a line.
LEMMA LineDone ==
  ASSUME InventoryInv, NEW a \in Actor, NEW at, Proceeds(a, at), call[a].todo # <<>>,
         \/ call[a].at = "read" /\ call[a].op \in {"cancel", "return"}
         \/ call[a].at = "record",
         \/ Tail(call[a].todo) # <<>> /\ call[a].op = "order" /\ at = "read"
         \/ Tail(call[a].todo) # <<>> /\ call[a].op # "order" /\ at = "lock"
         \/ Tail(call[a].todo) = <<>> /\ call[a].op \notin {"adjust", "open"} /\ at = "settle"
  PROVE  /\ Others(a) /\ call'[a].at = at /\ call'[a].op \in {"order", "cancel", "return"}
         /\ call'[a].op = call[a].op /\ call'[a].n = call[a].n
         /\ Shape(call'[a]) /\ OrderShape(call'[a])
         /\ \A it, med : StockCall(call'[a], it, med)
         /\ MoneyCall(call'[a], order, payments) /\ ReturnCall(call'[a], ret, order)
         /\ \A k \in {"order", "newreturn"} : Numbered(call'[a], k) => Numbered(call[a], k)
<1>1. Shape(call[a]) /\ OrderShape(call[a])
  BY CallOf
<1>2. /\ Others(a) /\ DOMAIN call'[a] = DOMAIN Idle /\ call'[a].at = at
      /\ call'[a].op = call[a].op /\ call'[a].cart = call[a].cart /\ call'[a].todo = Tail(call[a].todo)
      /\ SameDocs(a)
      /\ call'[a].base = call[a].base /\ call'[a].n = call[a].n /\ call'[a].amount = call[a].amount
  BY DEF Proceeds
<1>3. call[a].todo \in Movements
  BY <1>1 DEF Shape
<1> DEFINE t == call[a].todo
           u == call'[a].todo
<1>4. /\ Len(t) \in Nat \ {0} /\ u \in Movements /\ Len(u) = Len(t) - 1
      /\ \A k \in 1 .. Len(t) - 1 : u[k] = t[k + 1]
      /\ u = <<>> <=> Len(t) = 1
      /\ u = Tail(t)
  BY <1>2, <1>3, LineFacts
<1>5. call[a].op \in {"order", "cancel", "return"} /\ (call[a].op = "order" => call[a].at = "record")
  BY <1>1, <1>4 DEF Shape, Awaits
<1>6. Shape(call'[a])
  BY <1>1, <1>2, <1>4, <1>5 DEF Shape, Awaits, Stocking
<1>7. OrderShape(call'[a])
  <2> SUFFICES ASSUME call[a].op = "order" PROVE OrderShape(call'[a])
    BY <1>2 DEF OrderShape
  <2> DEFINE cart == call[a].cart
  <2>1. cart \in Carts /\ Len(t) <= Len(cart) /\ Len(cart) \in Nat
    BY <1>1, CartFacts DEF OrderShape
  <2>2. \A k \in 1 .. Len(t) : /\ t[k].item = cart[Len(cart) - Len(t) + k].item
                               /\ t[k].delta = -(cart[Len(cart) - Len(t) + k].qty)
    BY <1>1 DEF OrderShape, Done
  <2>3. \A k \in 1 .. Len(u) : /\ u[k].item = cart[Len(cart) - Len(u) + k].item
                               /\ u[k].delta = -(cart[Len(cart) - Len(u) + k].qty)
    <3> SUFFICES ASSUME NEW k \in 1 .. Len(u)
                 PROVE  /\ u[k].item = cart[Len(cart) - Len(u) + k].item
                        /\ u[k].delta = -(cart[Len(cart) - Len(u) + k].qty)
      OBVIOUS
    <3>1. PICK m \in Nat, n \in Nat : m = Len(cart) /\ n = Len(t)
      BY <1>4, <2>1
    <3>2. Len(u) = n - 1
      BY <1>4, <3>1
    <3> HIDE DEF t, u
    <3>21. k \in 1 .. n - 1
      BY <3>2
    <3>3. k \in 1 .. n - 1 /\ k + 1 \in 1 .. n /\ m - (n - 1) + k = m - n + (k + 1)
      BY <3>21
    <3>4. k + 1 \in 1 .. Len(t) /\ k \in 1 .. Len(t) - 1
          /\ Len(cart) - Len(u) + k = Len(cart) - Len(t) + (k + 1)
      BY <3>1, <3>2, <3>3
    <3> QED
      BY <1>4, <2>2, <3>4 DEF t, u
  <2>4. call'[a].cart = cart /\ Len(u) <= Len(cart)
    BY <1>2, <1>4, <2>1
  <2>5. at \in {"read", "settle"} /\ (at = "settle" => u = <<>>)
    BY <1>4
  <2> HIDE DEF t, u
  <2> QED
    BY <1>2, <2>1, <2>3, <2>4, <2>5 DEF OrderShape, Done, u
<1>8. at \in {"read", "lock", "settle"}
  OBVIOUS
<1>9. \A it, med : StockCall(call'[a], it, med)
  BY <1>2, <1>5, <1>8 DEF StockCall
<1>10. MoneyCall(call'[a], order, payments) /\ ReturnCall(call'[a], ret, order)
  <2>1. Rewrites(call'[a]) => Rewrites(call[a])
    BY <1>2, <1>5, <1>8 DEF Rewrites
  <2>2. call'[a].op = call[a].op /\ call[a].op # "pay" /\ SameDocs(a)
    BY <1>2, <1>5
  <2> QED
    BY <2>1, <2>2, DocsCarried
<1>11. \A k \in {"order", "newreturn"} : Numbered(call'[a], k) => Numbered(call[a], k)
  BY <1>2, <1>5, <1>8 DEF Numbered
<1> QED
  BY <1>2, <1>5, <1>6, <1>7, <1>9, <1>10, <1>11

LEMMA AdjustFailsInv ==
  ASSUME InventoryInv, NEW a \in Actor, AdjustFails(a)
  PROVE  InventoryInv'
<1>0. CallTypes
  BY CallOf
<1>1. call[a].at = "read" /\ UNCHANGED <<stockVars, docs, counter>>
  BY DEF AdjustFails, At
<1>2. call[a].op \in {"adjust", "order", "cancel", "return"} /\ call[a].todo # <<>>
  BY <1>1, CallOf DEF Shape, Awaits, Stocking
<1>3. CASE call[a].op \in {"order", "adjust"}
  <2>1. Ends(a) /\ Release(a)
    BY <1>0, <1>3, ReturnFacts DEF AdjustFails
  <2> QED
    BY <1>1, <1>3, <2>1, EndStep
<1>4. CASE call[a].op \in {"cancel", "return"}
  <2>1. NextLine(a)
    BY <1>4 DEF AdjustFails
  <2>2. PICK at : /\ Proceeds(a, at) /\ Release(a)
                  /\ \/ Tail(call[a].todo) # <<>> /\ at = "lock"
                     \/ Tail(call[a].todo) = <<>> /\ at = "settle"
    <3>1. \/ Tail(call[a].todo) # <<>> /\ Proceeds(a, "lock") /\ Release(a)
          \/ Tail(call[a].todo) = <<>> /\ Proceeds(a, "settle") /\ Release(a)
      BY <1>0, <1>4, <2>1, NextLineFacts
    <3> QED
      BY <3>1
  <2>3. /\ Others(a) /\ call'[a].at = at /\ call'[a].op \in {"order", "cancel", "return"}
        /\ call'[a].op = call[a].op /\ call'[a].n = call[a].n
        /\ Shape(call'[a]) /\ OrderShape(call'[a])
        /\ \A it, med : StockCall(call'[a], it, med)
        /\ MoneyCall(call'[a], order, payments) /\ ReturnCall(call'[a], ret, order)
        /\ \A k \in {"order", "newreturn"} : Numbered(call'[a], k) => Numbered(call[a], k)
    BY <1>1, <1>2, <1>4, <2>2, LineDone
  <2>4. ~Locked(call'[a]) /\ Still(a) /\ at # "count"
    BY <1>1, <1>4, <2>2, <2>3 DEF Locked, Still
  <2>5. LockHolds' /\ lock' \in [Worker -> Actor \cup {None}]
    BY <2>2, <2>3, <2>4, CallOf, LockReleased
  <2> QED
    BY <1>1, <2>3, <2>4, <2>5, OwnCallStep
<1> QED
  BY <1>2, <1>3, <1>4

\* What a step shows that changes stock, its call and the lock.
LEMMA StockStep ==
  ASSUME InventoryInv, NEW a \in Actor, Others(a), UNCHANGED <<docs, counter>>,
         ItemTypes', LockHolds', StockHolds',
         Shape(call'[a]), OrderShape(call'[a]),
         MoneyCall(call'[a], order, payments), ReturnCall(call'[a], ret, order),
         call'[a].at # "count",
         \A k \in {"order", "newreturn"} : Numbered(call'[a], k) => Numbered(call[a], k) /\ call'[a].n = call[a].n
  PROVE  InventoryInv'
<1>1. UNCHANGED <<order, ret, payments, refunds, counter>>
  BY DEF docs
<1>3. CallTypes'
  BY CallTypesStay DEF InventoryInv
<1>5. NumbersHold'
  BY <1>1, FiledStays, NumbersStay DEF InventoryInv
<1>6. MoneyHolds'
  BY <1>1, MoneyStays DEF InventoryInv
<1>7. ReturnsHold'
  BY <1>1, ReturnsStay DEF InventoryInv
<1> QED
  BY <1>3, <1>5, <1>6, <1>7 DEF InventoryInv

LEMMA AdjustWriteInv ==
  ASSUME OneWorker, InventoryInv, NEW a \in Actor, AdjustWrite(a)
  PROVE  InventoryInv'
<1>0. CallTypes /\ ItemTypes /\ LockHolds /\ StockHolds
  BY CallOf
<1>1. call[a].at = "write" /\ UNCHANGED <<moved, sold, meddled, docs, counter, lock>>
  BY DEF AdjustWrite, At
<1>2. Goes(a, "record")
  BY <1>0, GotoFacts DEF AdjustWrite
<1>3. call[a].todo \in Movements /\ call[a].todo # <<>> /\ call[a].base \in Nat
      /\ call[a].base + call[a].todo[1].delta >= 0
  BY <1>1, CallOf DEF Shape, Stocking
<1>31. /\ Head(call[a].todo) = call[a].todo[1]
       /\ call[a].todo[1].item \in Item /\ call[a].todo[1].delta \in Int
  BY <1>3, LineFacts
<1>32. PICK i \in Item : i = call[a].todo[1].item
  BY <1>31
<1>33. PICK d \in Int : d = call[a].todo[1].delta
  BY <1>31
<1>34. PICK new \in Nat : new = call[a].base + d
  BY <1>3, <1>33
<1>4. Head(call[a].todo) = call[a].todo[1] /\ i = call[a].todo[1].item /\ d = call[a].todo[1].delta
      /\ new = call[a].base + d
  BY <1>31, <1>32, <1>33, <1>34
<1>5. item' = [item EXCEPT ![i] = [state |-> "listed", stock |-> new]]
  BY <1>4 DEF AdjustWrite, Line
<1>6. call[a].op \in {"adjust", "order", "cancel", "return"}
  BY <1>1, CallOf DEF Shape, Awaits, Stocking
<1>7. /\ Others(a) /\ call'[a].at = "record" /\ call'[a].op = call[a].op /\ call'[a].todo = call[a].todo
      /\ call'[a].n = call[a].n
  BY <1>2 DEF Goes, SameOrder
<1>8. Shape(call'[a])
  BY <1>1, <1>2, <1>6, CallOf DEF Goes, SameOrder, Shape, Awaits, Stocking
<1>9. OrderShape(call'[a])
  BY <1>1, <1>2, <1>6, CallOf DEF Goes, SameOrder, OrderShape, Done
<1>10. MoneyCall(call'[a], order, payments) /\ ReturnCall(call'[a], ret, order)
  <2>1. Rewrites(call'[a]) => Rewrites(call[a])
    BY <1>6, <1>7 DEF Rewrites
  <2> QED
    BY <1>2, <1>6, <1>7, <2>1, DocsCarried DEF Goes
<1>11. ItemTypes'
  BY <1>0, <1>1, <1>4, <1>5 DEF ItemTypes
<1>12. LockHolds'
  <2>1. Locked(call'[a]) /\ Locked(call[a])
    BY <1>1, <1>6, <1>7 DEF Locked
  <2> QED
    BY <1>0, <1>1, <1>7, <2>1, LockStays
<1>13. \A b \in Actor : call[b].at = "write" \/ (call[b].op # "open" /\ call[b].at = "record") => b = a
  <2>1. Locked(call[a]) /\ \A b \in Actor : call[b].at = "write" \/ (call[b].op # "open" /\ call[b].at = "record")
                                               => Locked(call[b])
    BY <1>1 DEF Locked
  <2> QED
    BY <1>0, <2>1, OneHolder
<1>14. StockHolds'
  <2>1. \A b \in Actor, j \in Item : Opens(call'[b], j) <=> Opens(call[b], j)
    BY <1>6, <1>7 DEF Others, Opens
  <2>2. \A b \in Actor, j \in Item : Records(call'[b], j) <=> b = a /\ j = i
    BY <1>4, <1>6, <1>7, <1>13 DEF Others, Records
  <2>3. \A b \in Actor, j \in Item : ~Records(call[b], j)
    BY <1>1, <1>13 DEF Records
  <2>4. \A j \in Item : Unopened(j)' = Unopened(j)
    BY <2>1 DEF Unopened
  <2>5. item'[i] = [state |-> "listed", stock |-> new] /\ \A j \in Item \ {i} : item'[j] = item[j]
    BY <1>0, <1>4, <1>5 DEF ItemTypes
  <2>6. i \in meddled \/ item[i] = [state |-> "listed", stock |-> call[a].base]
    BY <1>1, <1>4, CallOf DEF StockCall
  <2>7. \A j \in Item : Explained(j)'
    <3>1. CASE i \in meddled
      <4>1. ASSUME NEW j \in Item \ {i} PROVE Explained(j)'
        <5>1. Explained(j)
          BY <1>0 DEF StockHolds
        <5> QED
          BY <1>1, <2>2, <2>3, <2>4, <2>5, <5>1 DEF Explained
      <4>2. Explained(i)'
        BY <1>1, <3>1 DEF Explained
      <4> QED
        BY <4>1, <4>2
    <3>2. CASE i \notin meddled
      <4>1. ASSUME NEW j \in Item \ {i} PROVE Explained(j)'
        <5>1. Explained(j)
          BY <1>0 DEF StockHolds
        <5> QED
          BY <1>1, <2>2, <2>3, <2>4, <2>5, <5>1 DEF Explained
      <4>2. Explained(i)'
        <5>1. Explained(i)
          BY <1>0, <1>4 DEF StockHolds
        <5>2. item[i].state = "listed" /\ item[i].stock = call[a].base
          BY <2>6, <3>2
        <5>3. call[a].base = moved[i] + Unopened(i)
          BY <2>3, <3>2, <5>1, <5>2 DEF Explained
        <5>4. new = moved'[i] + Unopened(i)' + call'[a].todo[1].delta
          BY <1>0, <1>1, <1>4, <1>7, <2>4, <5>3
        <5> QED
          BY <1>4, <2>2, <2>5, <5>4 DEF Explained
      <4> QED
        BY <4>1, <4>2
    <3> QED
      BY <3>1, <3>2
  <2>8. \A j \in Item : item'[j].state = "new" => moved'[j] = 0
    BY <1>0, <1>1, <2>5 DEF StockHolds
  <2>9. \A b, c \in Actor, j \in Item : Opens(call'[b], j) /\ Opens(call'[c], j) => b = c
    BY <1>0, <2>1 DEF StockHolds
  <2>10. ASSUME NEW b \in Actor PROVE StockCall(call'[b], item', meddled')
    <3>1. CASE b = a
      BY <1>4, <1>7, <2>5, <3>1 DEF StockCall
    <3>2. CASE b # a
      <4>1. call'[b] = call[b] /\ call[b].at # "write" /\ StockCall(call[b], item, meddled)
        BY <1>7, <1>13, <3>2, CallOf DEF Others
      <4>2. \A j : item[j].state # "new" => item'[j].state # "new"
        <5>1. DOMAIN item' = Item /\ DOMAIN item = Item
          BY <1>0, <1>5 DEF ItemTypes
        <5> QED
          BY <1>5, <2>5, <5>1
      <4> QED
        BY <4>1, <4>2 DEF StockCall
    <3> QED
      BY <3>1, <3>2
  <2> QED
    BY <2>7, <2>8, <2>9, <2>10 DEF StockHolds
<1>15. \A k \in {"order", "newreturn"} : Numbered(call'[a], k) => Numbered(call[a], k)
  BY <1>1, <1>7 DEF Numbered
<1> QED
  BY <1>1, <1>7, <1>8, <1>9, <1>10, <1>11, <1>12, <1>14, <1>15, StockStep


\* The call of a recorded movement goes on or ends.
LEMMA RecordedCall ==
  ASSUME InventoryInv, NEW a \in Actor, call[a].at = "record", NextLine(a)
  PROVE  /\ Others(a) /\ call'[a].at \notin {"record", "count"} /\ call'[a].op # "open"
         /\ Shape(call'[a]) /\ OrderShape(call'[a]) /\ StockCall(call'[a], item, meddled)
         /\ MoneyCall(call'[a], order, payments) /\ ReturnCall(call'[a], ret, order)
         /\ \A k \in {"order", "newreturn"} : Numbered(call'[a], k) => Numbered(call[a], k) /\ call'[a].n = call[a].n
         /\ LockHolds' /\ lock' \in [Worker -> Actor \cup {None}]
<1>0. CallTypes /\ ItemTypes /\ LockHolds
  BY CallOf
<1>1. call[a].todo # <<>>
  BY CallOf DEF Shape, Stocking
<1>2. \/ /\ Tail(call[a].todo) # <<>> /\ call[a].op = "order"
         /\ Proceeds(a, "read") /\ UNCHANGED lock
      \/ /\ Tail(call[a].todo) # <<>> /\ call[a].op # "order"
         /\ Proceeds(a, "lock") /\ Release(a)
      \/ /\ Tail(call[a].todo) = <<>> /\ call[a].op \in {"adjust", "open"}
         /\ Ends(a) /\ Release(a)
      \/ /\ Tail(call[a].todo) = <<>> /\ call[a].op \notin {"adjust", "open"}
         /\ Proceeds(a, "settle") /\ Release(a)
  BY <1>0, NextLineFacts
<1>3. CASE Ends(a) /\ Release(a)
  <2>1. Others(a) /\ call'[a] = Idle
    BY <1>3 DEF Ends
  <2>2. /\ Shape(call'[a]) /\ OrderShape(call'[a]) /\ ~Locked(call'[a])
        /\ call'[a].op = "none" /\ call'[a].at = "none"
    BY <2>1, AtRest
  <2>3. /\ StockCall(call'[a], item, meddled) /\ MoneyCall(call'[a], order, payments)
        /\ ReturnCall(call'[a], ret, order)
    BY <2>2, AtRestClaims
  <2>4. LockHolds' /\ lock' \in [Worker -> Actor \cup {None}]
    BY <1>0, <1>3, <2>1, <2>2, LockReleased
  <2>5. \A k \in {"order", "newreturn"} : ~Numbered(call'[a], k)
    BY <2>2 DEF Numbered
  <2> QED
    BY <2>1, <2>2, <2>3, <2>4, <2>5
<1>4. ASSUME NEW at, Proceeds(a, at),
             \/ Tail(call[a].todo) # <<>> /\ call[a].op = "order" /\ at = "read" /\ UNCHANGED lock
             \/ Tail(call[a].todo) # <<>> /\ call[a].op # "order" /\ at = "lock" /\ Release(a)
             \/ Tail(call[a].todo) = <<>> /\ call[a].op \notin {"adjust", "open"} /\ at = "settle" /\ Release(a)
      PROVE  /\ Others(a) /\ call'[a].at \notin {"record", "count"} /\ call'[a].op # "open"
             /\ Shape(call'[a]) /\ OrderShape(call'[a]) /\ StockCall(call'[a], item, meddled)
             /\ MoneyCall(call'[a], order, payments) /\ ReturnCall(call'[a], ret, order)
             /\ \A k \in {"order", "newreturn"} : Numbered(call'[a], k) => Numbered(call[a], k) /\ call'[a].n = call[a].n
             /\ LockHolds' /\ lock' \in [Worker -> Actor \cup {None}]
  <2>1. \/ Tail(call[a].todo) # <<>> /\ call[a].op = "order" /\ at = "read"
        \/ Tail(call[a].todo) # <<>> /\ call[a].op # "order" /\ at = "lock"
        \/ Tail(call[a].todo) = <<>> /\ call[a].op \notin {"adjust", "open"} /\ at = "settle"
    BY <1>4
  <2>2. /\ Others(a) /\ call'[a].at = at /\ call'[a].op \in {"order", "cancel", "return"}
        /\ call'[a].op = call[a].op /\ call'[a].n = call[a].n
        /\ Shape(call'[a]) /\ OrderShape(call'[a])
        /\ \A it, med : StockCall(call'[a], it, med)
        /\ MoneyCall(call'[a], order, payments) /\ ReturnCall(call'[a], ret, order)
        /\ \A k \in {"order", "newreturn"} : Numbered(call'[a], k) => Numbered(call[a], k)
    BY <1>1, <1>4, <2>1, LineDone
  <2>3. LockHolds' /\ lock' \in [Worker -> Actor \cup {None}]
    <3>1. CASE at = "read" /\ UNCHANGED lock
      <4>1. Locked(call[a]) /\ Locked(call'[a])
        BY <2>2, <3>1 DEF Locked
      <4>2. LockHolds'
        BY <1>0, <2>2, <3>1, <4>1, LockStays
      <4> QED
        BY <1>0, <3>1, <4>2 DEF ItemTypes
    <3>2. CASE at \in {"lock", "settle"} /\ Release(a)
      <4>1. ~Locked(call'[a])
        BY <2>2, <3>2 DEF Locked
      <4> QED
        BY <1>0, <2>2, <3>2, <4>1, LockReleased
    <3> QED
      BY <1>4, <3>1, <3>2
  <2> QED
    BY <2>1, <2>2, <2>3
<1> QED
  BY <1>2, <1>3, <1>4

LEMMA AdjustRecordInv ==
  ASSUME OneWorker, InventoryInv, NEW a \in Actor, AdjustRecord(a)
  PROVE  InventoryInv'
<1>0. CallTypes /\ ItemTypes /\ LockHolds /\ StockHolds
  BY CallOf
<1>1. call[a].at = "record" /\ UNCHANGED <<item, meddled, docs, counter>> /\ NextLine(a)
  BY DEF AdjustRecord, At
<1>2. /\ Others(a) /\ call'[a].at \notin {"record", "count"} /\ call'[a].op # "open"
      /\ Shape(call'[a]) /\ OrderShape(call'[a]) /\ StockCall(call'[a], item, meddled)
      /\ MoneyCall(call'[a], order, payments) /\ ReturnCall(call'[a], ret, order)
      /\ \A k \in {"order", "newreturn"} : Numbered(call'[a], k) => Numbered(call[a], k) /\ call'[a].n = call[a].n
      /\ LockHolds' /\ lock' \in [Worker -> Actor \cup {None}]
  BY <1>1, RecordedCall
<1>3. call[a].todo \in Movements /\ call[a].todo # <<>>
  BY <1>1, CallOf DEF Shape, Stocking
<1>31. /\ Head(call[a].todo) = call[a].todo[1]
       /\ call[a].todo[1].item \in Item /\ call[a].todo[1].delta \in Int
  BY <1>3, LineFacts
<1>32. PICK i \in Item : i = call[a].todo[1].item
  BY <1>31
<1>33. PICK d \in Int : d = call[a].todo[1].delta
  BY <1>31
<1>4. /\ moved' = [moved EXCEPT ![i] = @ + d]
      /\ sold' = IF call[a].op = "order" THEN [sold EXCEPT ![i] = @ - d] ELSE sold
  BY <1>31, <1>32, <1>33 DEF AdjustRecord, Line
<1>5. ItemTypes'
  BY <1>0, <1>1, <1>2, <1>4 DEF ItemTypes
<1>6. StockHolds'
  <2>1. moved'[i] = moved[i] + d /\ moved[i] \in Int /\ \A j \in Item \ {i} : moved'[j] = moved[j]
    BY <1>0, <1>4 DEF ItemTypes
  <2>2. \A b \in Actor, j \in Item : Records(call'[b], j) <=> b # a /\ Records(call[b], j)
    BY <1>2 DEF Others, Records
  <2>3. \A b \in Actor : b # a => call'[b] = call[b]
    BY <1>2 DEF Others
  <2>4. \A b \in Actor, j \in Item : Opens(call'[b], j) <=> b # a /\ Opens(call[b], j)
    BY <1>2 DEF Others, Opens
  <2>5. \A b, c \in Actor, j \in Item : Opens(call[b], j) /\ Opens(call[c], j) => b = c
    BY <1>0 DEF StockHolds
  <2>6. \A j \in Item : Unopened(j) \in Int
    BY InventoryConstants DEF Unopened
  <2>7. \A j \in Item : item[j].stock \in Int
    BY <1>0 DEF ItemTypes
  <2>71. item[i].state # "new"
    BY <1>1, <1>32, CallOf DEF StockCall
  <2>72. \A j \in Item : item'[j].state = "new" => moved'[j] = 0
    BY <1>0, <1>1, <2>1, <2>71 DEF StockHolds
  <2>73. \A b, c \in Actor, j \in Item : Opens(call'[b], j) /\ Opens(call'[c], j) => b = c
    BY <2>4, <2>5
  <2>74. ASSUME NEW b \in Actor PROVE StockCall(call'[b], item', meddled')
    <3>1. StockCall(call[b], item, meddled)
      BY CallOf
    <3>2. call'[b] = call[b] \/ b = a
      BY <2>3
    <3> HIDE DEF StockCall
    <3> QED
      BY <1>1, <1>2, <3>1, <3>2
  <2>8. CASE call[a].op = "open"
    <3>1. d = Opening
      BY <1>33, <2>8, CallOf DEF Shape
    <3>2. \A j \in Item : Opens(call[a], j) <=> j = i
      BY <1>32, <2>8 DEF Opens
    <3>3. Unopened(i) = d /\ Unopened(i)' = 0
      BY <2>4, <2>5, <3>1, <3>2 DEF Unopened
    <3>4. \A j \in Item \ {i} : Unopened(j)' = Unopened(j)
      BY <2>4, <3>2 DEF Unopened
    <3>5. \A b \in Actor, j \in Item : Records(call'[b], j) <=> Records(call[b], j)
      BY <2>2, <2>8 DEF Records
    <3>6. \A j \in Item : moved'[j] + Unopened(j)' = moved[j] + Unopened(j)
      BY <2>1, <2>6, <3>3, <3>4
    <3>7. \A b \in Actor, j \in Item : Records(call[b], j) => call'[b] = call[b]
      BY <2>2, <2>3, <3>5
    <3> HIDE DEF Records, Unopened
    <3>8. ASSUME NEW j \in Item PROVE Explained(j)'
      <4>1. Explained(j)
        BY <1>0 DEF StockHolds
      <4> QED
        BY <1>1, <3>5, <3>6, <3>7, <4>1 DEF Explained
    <3> QED
      BY <2>72, <2>73, <2>74, <3>8 DEF StockHolds
  <2>9. CASE call[a].op # "open"
    <3>1. \A j \in Item : Unopened(j)' = Unopened(j)
      BY <2>4, <2>9 DEF Unopened, Opens
    <3>2. \A b \in Actor, j \in Item : Records(call[b], j) <=> b = a /\ j = i
      <4>1. \A b \in Actor, j \in Item : Records(call[b], j) => Locked(call[b])
        BY DEF Records, Locked
      <4>2. Locked(call[a])
        BY <1>1, <2>9 DEF Locked
      <4>3. \A b \in Actor, j \in Item : Records(call[b], j) => b = a
        BY <1>0, <4>1, <4>2, OneHolder
      <4>4. \A j \in Item : Records(call[a], j) <=> j = i
        BY <1>1, <1>32, <2>9 DEF Records
      <4> QED
        BY <4>3, <4>4
    <3>3. \A b \in Actor, j \in Item : ~Records(call'[b], j)
      BY <2>2, <3>2
    <3> HIDE DEF Records, Unopened
    <3>4. ASSUME NEW j \in Item PROVE Explained(j)'
      <4>1. Explained(j)
        BY <1>0 DEF StockHolds
      <4>2. CASE j # i
        BY <1>1, <2>1, <3>1, <3>2, <3>3, <4>1, <4>2 DEF Explained
      <4>3. CASE j = i
        <5> SUFFICES ASSUME item[i].state = "listed", i \notin meddled
                     PROVE  item[i].stock = moved'[i] + Unopened(i)
          BY <1>1, <3>1, <3>3, <4>3 DEF Explained
        <5>1. item[i].stock = moved[i] + Unopened(i) + d
          BY <1>33, <3>2, <4>1, <4>3 DEF Explained
        <5> QED
          BY <2>1, <2>6, <5>1
      <4> QED
        BY <4>2, <4>3
    <3> QED
      BY <2>72, <2>73, <2>74, <3>4 DEF StockHolds
  <2> QED
    BY <2>8, <2>9
<1> QED
  BY <1>1, <1>2, <1>5, <1>6, StockStep


LEMMA SaveNewItemInv ==
  ASSUME InventoryInv, NEW a \in Actor, NEW i \in Item, SaveNewItem(a, i)
  PROVE  InventoryInv'
<1>0. CallTypes /\ ItemTypes /\ LockHolds /\ StockHolds
  BY CallOf
<1>1. /\ item[i].state = "new" /\ UNCHANGED <<moved, sold, meddled, docs, counter, lock>>
      /\ item' = [item EXCEPT ![i] = [state |-> "listed", stock |-> Opening]]
  BY DEF SaveNewItem
<1>2. /\ Starts(a, "open", "record") /\ call'[a].todo = <<[item |-> i, delta |-> Opening]>>
      /\ call'[a].base = 0 /\ call'[a].amount = 0
  BY <1>0, SaveNewItemFacts
<1>3. Opening \in Nat /\ Opening \in Int
  BY InventoryConstants
<1>4. /\ call'[a].todo \in Movements /\ call'[a].todo # <<>> /\ Len(call'[a].todo) = 1
      /\ call'[a].todo[1].item = i /\ call'[a].todo[1].delta = Opening
  BY <1>2, <1>3, OneMovement
<1>5. Shape(call'[a])
  BY <1>2, <1>4 DEF Starts, Shape, Awaits, Stocking
<1>6. OrderShape(call'[a])
  BY <1>2 DEF Starts, OrderShape
<1>7. MoneyCall(call'[a], order, payments) /\ ReturnCall(call'[a], ret, order)
  BY <1>2 DEF Starts, MoneyCall, Rewrites, ReturnCall
<1>8. call'[a].at # "count" /\ \A k \in {"order", "newreturn"} : ~Numbered(call'[a], k)
  BY <1>2 DEF Starts, Numbered
<1>9. ItemTypes'
  BY <1>0, <1>1, <1>3 DEF ItemTypes
<1>10. Others(a) /\ call'[a].op = "open" /\ call[a].op = "none" /\ call[a].at = "none"
  BY <1>2 DEF Starts
<1>11. LockHolds'
  <2>1. ~Locked(call'[a]) /\ ~Locked(call[a])
    BY <1>2 DEF Starts, Locked
  <2> QED
    BY <1>0, <1>1, <1>10, <2>1, LockStays
<1>12. StockHolds'
  <2>1. item'[i] = [state |-> "listed", stock |-> Opening] /\ \A j \in Item \ {i} : item'[j] = item[j]
    BY <1>0, <1>1 DEF ItemTypes
  <2>2. \A b \in Actor : StockCall(call[b], item, meddled)
    BY CallOf
  <2>3. \A b \in Actor : ~Opens(call[b], i) /\ ~Records(call[b], i)
                         /\ (call[b].op = "save" \/ call[b].at = "write" => call[b].todo[1].item # i)
    BY <1>1, <2>2 DEF Opens, Records, StockCall
  <2>4. \A b \in Actor, j \in Item : /\ Opens(call'[b], j) <=> Opens(call[b], j) \/ (b = a /\ j = i)
                                     /\ Records(call'[b], j) <=> Records(call[b], j)
    BY <1>4, <1>10 DEF Others, Opens, Records
  <2>5. \A b \in Actor, j \in Item : Records(call[b], j) => call'[b] = call[b]
    BY <1>10 DEF Others, Records
  <2>6. Unopened(i)' = Opening /\ \A j \in Item \ {i} : Unopened(j)' = Unopened(j)
    BY <2>4 DEF Unopened
  <2>7. ~Opens(call[a], i) /\ moved[i] = 0
    BY <1>0, <1>1, <2>3 DEF StockHolds
  <2>8. ASSUME NEW j \in Item PROVE Explained(j)'
    <3>1. Explained(j)
      BY <1>0 DEF StockHolds
    <3> HIDE DEF Records, Unopened
    <3>2. CASE j # i
      BY <1>1, <2>1, <2>4, <2>5, <2>6, <3>1, <3>2 DEF Explained
    <3>3. CASE j = i
      <4>1. item'[i].stock = moved'[i] + Unopened(i)'
        BY <1>1, <1>3, <2>1, <2>6, <2>7
      <4> QED
        BY <2>3, <2>4, <3>3, <4>1 DEF Explained
    <3> QED
      BY <3>2, <3>3
  <2>9. \A j \in Item : item'[j].state = "new" => moved'[j] = 0
    BY <1>0, <1>1, <2>1 DEF StockHolds
  <2>10. \A b, c \in Actor, j \in Item : Opens(call'[b], j) /\ Opens(call'[c], j) => b = c
    BY <1>0, <2>3, <2>4 DEF StockHolds
  <2>11. ASSUME NEW b \in Actor PROVE StockCall(call'[b], item', meddled')
    <3>1. CASE b = a
      BY <1>2, <1>4, <2>1, <3>1 DEF Starts, StockCall
    <3>2. CASE b # a
      <4>1. call'[b] = call[b] /\ StockCall(call[b], item, meddled)
        BY <1>10, <2>2, <3>2 DEF Others
      <4>2. \A j : item[j].state # "new" => item'[j].state # "new"
        <5>1. DOMAIN item' = Item /\ DOMAIN item = Item
          BY <1>0, <1>1 DEF ItemTypes
        <5> QED
          BY <1>1, <2>1, <5>1
      <4>3. call[b].at = "write" => item'[call[b].todo[1].item] = item[call[b].todo[1].item]
        <5>1. DOMAIN item' = Item /\ DOMAIN item = Item
          BY <1>0, <1>1 DEF ItemTypes
        <5> QED
          BY <1>1, <2>1, <2>3, <5>1
      <4> QED
        BY <1>1, <4>1, <4>2, <4>3 DEF StockCall
    <3> QED
      BY <3>1, <3>2
  <2> QED
    BY <2>8, <2>9, <2>10, <2>11 DEF StockHolds
<1> QED
  BY <1>1, <1>5, <1>6, <1>7, <1>8, <1>9, <1>10, <1>11, <1>12, StockStep

\* An edit or a removal of a product that marks it as meddled with leaves the rest explained.
LEMMA StockMeddled ==
  ASSUME ItemTypes, StockHolds, CallTypes, NEW a \in Actor, NEW i \in Item, NEW product, product.state # "new",
         item' = [item EXCEPT ![i] = product], UNCHANGED moved,
         meddled' = meddled \/ meddled' = meddled \cup {i},
         item[i].state # "new",
         \/ item[i] = product
         \/ i \in meddled'
         \/ product.state = "removed" /\ \A b \in Actor : call[b].at # "write",
         UNCHANGED call \/ (Ends(a) /\ call[a].op = "save" /\ call[a].at = "put")
  PROVE  StockHolds'
<1>1. item'[i] = product /\ (\A j \in Item \ {i} : item'[j] = item[j]) /\ DOMAIN item' = Item /\ DOMAIN item = Item
  BY DEF ItemTypes
<1>2. \A b \in Actor, j \in Item : /\ Opens(call'[b], j) <=> Opens(call[b], j)
                                   /\ Records(call'[b], j) <=> Records(call[b], j)
  BY AtRest DEF Ends, Others, Opens, Records
<1>3. \A b \in Actor, j \in Item : Records(call[b], j) => call'[b] = call[b]
  BY DEF Ends, Others, Records
<1>4. \A j \in Item : Unopened(j)' = Unopened(j)
  BY <1>2 DEF Unopened
<1>5. ASSUME NEW j \in Item PROVE Explained(j)'
  <2>1. Explained(j)
    BY DEF StockHolds
  <2> HIDE DEF Records, Unopened
  <2>2. CASE item'[j] = item[j]
    BY <1>2, <1>3, <1>4, <2>1, <2>2 DEF Explained
  <2>3. CASE item'[j] # item[j]
    <3>1. j = i /\ (i \in meddled' \/ product.state = "removed")
      BY <1>1, <2>3
    <3> QED
      BY <1>1, <3>1 DEF Explained
  <2> QED
    BY <2>2, <2>3
<1>6. \A j \in Item : item'[j].state = "new" => moved'[j] = 0
  BY <1>1 DEF StockHolds
<1>7. \A b, c \in Actor, j \in Item : Opens(call'[b], j) /\ Opens(call'[c], j) => b = c
  BY <1>2 DEF StockHolds
<1>8. ASSUME NEW b \in Actor PROVE StockCall(call'[b], item', meddled')
  <2>1. StockCall(call[b], item, meddled)
    BY DEF StockHolds
  <2>2. \A j : item[j].state # "new" => item'[j].state # "new"
    BY <1>1
  <2>3. CASE call'[b] = call[b]
    <3>1. call[b].at = "write" => \/ call[b].todo[1].item \in meddled'
                                  \/ item'[call[b].todo[1].item] = [state |-> "listed", stock |-> call[b].base]
      BY <1>1, <2>1 DEF StockCall
    <3> QED
      BY <2>1, <2>2, <2>3, <3>1 DEF StockCall
  <2>4. CASE call'[b] = Idle
    BY <2>4, AtRest, AtRestClaims
  <2> QED
    BY <2>3, <2>4 DEF Ends, Others
<1> QED
  BY <1>5, <1>6, <1>7, <1>8 DEF StockHolds

LEMMA SaveItemPutInv ==
  ASSUME InventoryInv, NEW a \in Actor, SaveItemPut(a)
  PROVE  InventoryInv'
<1>0. CallTypes /\ ItemTypes /\ LockHolds /\ StockHolds
  BY CallOf
<1>1. call[a].op = "save" /\ call[a].at = "put" /\ UNCHANGED <<moved, sold, docs, counter, lock>> /\ Return(a)
  BY CallOf DEF SaveItemPut, Shape, Awaits
<1>2. Ends(a)
  BY <1>0, <1>1, ReturnFacts
<1>3. call[a].todo \in Movements /\ call[a].todo # <<>> /\ call[a].base \in Nat
  BY <1>1, CallOf DEF Shape, Stocking
<1>4. PICK i \in Item : i = call[a].todo[1].item /\ i = Head(call[a].todo).item
  BY <1>3, LineFacts
<1>5. PICK product : product = [state |-> "listed", stock |-> call[a].base]
  OBVIOUS
<1>6. /\ item' = [item EXCEPT ![i] = product]
      /\ meddled' = IF item[i] = product THEN meddled ELSE meddled \cup {i}
  BY <1>4, <1>5 DEF SaveItemPut, Line
<1>7. item[i].state # "new"
  BY <1>1, <1>4, CallOf DEF StockCall
<1>8. product.state # "new" /\ product \in [state : {"new", "listed", "removed"}, stock : Nat]
  BY <1>3, <1>5
<1>9. ItemTypes'
  BY <1>0, <1>1, <1>6, <1>8 DEF ItemTypes
<1>10. StockHolds'
  BY <1>0, <1>1, <1>2, <1>6, <1>7, <1>8, StockMeddled
<1>11. Others(a) /\ call'[a] = Idle
  BY <1>2 DEF Ends
<1>12. /\ Shape(call'[a]) /\ OrderShape(call'[a]) /\ ~Locked(call'[a])
       /\ call'[a].op = "none" /\ call'[a].at = "none"
  BY <1>11, AtRest
<1>13. MoneyCall(call'[a], order, payments) /\ ReturnCall(call'[a], ret, order)
  BY <1>12, AtRestClaims
<1>14. LockHolds'
  <2>1. ~Locked(call[a])
    BY <1>1 DEF Locked
  <2> QED
    BY <1>0, <1>1, <1>11, <1>12, <2>1, LockStays
<1>15. \A k \in {"order", "newreturn"} : ~Numbered(call'[a], k)
  BY <1>12 DEF Numbered
<1> QED
  BY <1>1, <1>9, <1>10, <1>11, <1>12, <1>13, <1>14, <1>15, StockStep

LEMMA RemoveItemInv ==
  ASSUME InventoryInv, NEW a \in Actor, NEW i \in Item, RemoveItem(a, i)
  PROVE  InventoryInv'
<1>0. CallTypes /\ ItemTypes /\ LockHolds /\ StockHolds
  BY CallOf
<1>1. /\ item[i].state = "listed" /\ UNCHANGED <<moved, sold, docs, counter, lock, call>>
      /\ meddled' = IF \A w \in Worker : lock[w] = None THEN meddled ELSE meddled \cup {i}
  BY DEF RemoveItem
<1>2. PICK product : product = [state |-> "removed", stock |-> 0]
  OBVIOUS
<1>3. item' = [item EXCEPT ![i] = product]
  BY <1>2 DEF RemoveItem
<1>4. product.state = "removed" /\ product \in [state : {"new", "listed", "removed"}, stock : Nat]
  BY <1>2
<1>5. ItemTypes'
  BY <1>0, <1>1, <1>3, <1>4 DEF ItemTypes
<1>6. i \in meddled' \/ \A b \in Actor : call[b].at # "write"
  <2>1. \A b \in Actor : call[b].at = "write" => lock[On[b]] = b /\ On[b] \in Worker /\ b # None
    BY <1>0, InventoryConstants DEF LockHolds, Locked
  <2> QED
    BY <1>1, <2>1
<1>7. StockHolds'
  BY <1>0, <1>1, <1>3, <1>4, <1>6, StockMeddled
<1>8. CallTypes' /\ LockHolds'
  BY <1>0, <1>1 DEF CallTypes, LockHolds
<1>9. \A k : Filed(k)' = Filed(k)
  BY <1>1, FiledStays DEF docs
<1>10. NumbersHold'
  <2>1. NumbersHold
    BY CallOf
  <2> HIDE DEF Filed
  <2> QED
    BY <1>1, <1>9, <2>1 DEF NumbersHold
<1>11. MoneyHolds' /\ ReturnsHold'
  BY <1>1, CallOf DEF MoneyHolds, ReturnsHold, Returns, docs
<1> QED
  BY <1>5, <1>7, <1>8, <1>10, <1>11 DEF InventoryInv


-----------------------------------------------------------------------------
\* The inventory: the handlers go on and store documents.

\* What a step shows that changes documents and its call.
LEMMA DocStep ==
  ASSUME InventoryInv, NEW a \in Actor, Others(a), UNCHANGED <<stockVars, counter, lock>>,
         ~Locked(call[a]), ~Locked(call'[a]), Still(a), StockCall(call'[a], item, meddled),
         Shape(call'[a]), OrderShape(call'[a]), NumbersHold', MoneyHolds', ReturnsHold'
  PROVE  InventoryInv'
<1>0. CallTypes /\ ItemTypes /\ LockHolds /\ StockHolds
  BY CallOf
<1>1. UNCHANGED <<item, moved, sold, meddled, counter, lock>>
  BY DEF stockVars
<1>2. CallTypes'
  BY <1>0, CallTypesStay
<1>3. ItemTypes'
  BY <1>0, <1>1 DEF ItemTypes
<1>4. LockHolds'
  BY <1>0, <1>1, LockStays
<1>5. StockHolds'
  BY <1>0, <1>1, StockStays
<1> QED
  BY <1>2, <1>3, <1>4, <1>5 DEF InventoryInv

\* Its call at rest.
LEMMA EndedDocStep ==
  ASSUME InventoryInv, NEW a \in Actor, Ends(a), UNCHANGED <<stockVars, counter, lock>>,
         ~Locked(call[a]), call[a].op # "open", call[a].at # "record", NumbersHold', MoneyHolds', ReturnsHold'
  PROVE  InventoryInv'
<1>1. Others(a) /\ call'[a] = Idle
  BY DEF Ends
<1>2. /\ Shape(call'[a]) /\ OrderShape(call'[a]) /\ ~Locked(call'[a])
      /\ call'[a].op = "none" /\ call'[a].at = "none"
  BY <1>1, AtRest
<1>3. StockCall(call'[a], item, meddled) /\ Still(a)
  BY <1>2, AtRestClaims DEF Still
<1> QED
  BY <1>1, <1>2, <1>3, DocStep

\* An order once stored stays, with its cart and its number; payments only grow.
Keeps(o) ==
    order[o].status # "none" =>
        order'[o].status # "none" /\ order'[o].cart = order[o].cart /\ order'[o].number = order[o].number
LEMMA MoneyOfOthers ==
  ASSUME InventoryInv, NEW b \in Actor, payments' \in [OrderId -> Nat],
         \A o \in OrderId : Keeps(o) /\ payments[o] <= payments'[o]
  PROVE  MoneyCall(call[b], order', payments')
<1>1. MoneyCall(call[b], order, payments) /\ Shape(call[b]) /\ MoneyHolds
  BY CallOf
<1> DEFINE c == call[b]
           o == call[b].o
<1> SUFFICES ASSUME c.op = "return" \/ Rewrites(c) PROVE MoneyCall(c, order', payments')
  BY DEF MoneyCall
<1>2. o \in OrderId /\ order[o].status # "none" /\ Keeps(o) /\ payments[o] <= payments'[o]
  BY <1>1 DEF MoneyCall
<1>3. payments[o] \in Nat /\ payments'[o] \in Nat /\ Unfiled(c) \in Nat
  BY <1>1, <1>2 DEF MoneyHolds, Shape, Unfiled
<1>4. Rewrites(c) => c.doc.paid \in Nat /\ c.doc.paid <= payments[o] + Unfiled(c)
  BY <1>1 DEF MoneyCall, OrderHolds
<1>5. Rewrites(c) => c.doc.paid <= payments'[o] + Unfiled(c)
  BY <1>2, <1>3, <1>4
<1> QED
  BY <1>1, <1>2, <1>5 DEF MoneyCall, Keeps

LEMMA ReturnsGrow ==
  ASSUME CallTypes, ReturnsHold, NEW a \in Actor, Others(a), UNCHANGED ret,
         \A o \in OrderId : Keeps(o), ReturnCall(call'[a], ret, order')
  PROVE  ReturnsHold'
<1>1. \A d : ReturnHolds(d, order) => ReturnHolds(d, order')
  BY DEF ReturnHolds, Keeps
<1>2. \A b \in Actor : ReturnCall(call[b], ret, order')
  BY <1>1 DEF ReturnsHold, ReturnCall
<1>3. \A b \in Actor : ReturnCall(call'[b], ret, order')
  BY <1>2 DEF Others
<1> HIDE DEF ReturnCall, ReturnHolds
<1> QED
  BY <1>1, <1>3 DEF ReturnsHold, Returns

\* A drawn number goes to a document.
LEMMA NumbersFiled ==
  ASSUME CallTypes, NumbersHold, NEW a \in Actor, Ends(a), UNCHANGED counter,
         NEW k0 \in {"order", "newreturn"}, Numbered(call[a], k0),
         NEW x, x \notin DOMAIN Filed(k0),
         DOMAIN Filed(k0)' = DOMAIN Filed(k0) \cup {x},
         Filed(k0)'[x] = call[a].n, \A y \in DOMAIN Filed(k0) : Filed(k0)'[y] = Filed(k0)[y],
         \A k \in {"order", "newreturn"} \ {k0} : Filed(k)' = Filed(k)
  PROVE  NumbersHold'
<1> DEFINE K == {"order", "newreturn"}
<1>1. Others(a) /\ call'[a].op = "none" /\ call'[a].at = "none"
  BY AtRest DEF Ends
<1>2. \A b \in Actor, k \in K : Numbered(call'[b], k) => b # a /\ Numbered(call[b], k) /\ call'[b].n = call[b].n
  BY <1>1 DEF Others, Numbered
<1>3. \A b \in Actor : call'[b].at = "count" => call'[b] = call[b]
  BY <1>1 DEF Others
<1>4. call[a].n \in Nat
  BY DEF CallTypes, Shape
<1>5. /\ \A k \in K : \A y \in DOMAIN Filed(k) : Filed(k)[y] \in Nat /\ Filed(k)[y] <= counter[k]
      /\ \A k \in K : \A y, z \in DOMAIN Filed(k) : y # z => Filed(k)[y] # Filed(k)[z]
      /\ \A k \in K, b \in Actor : Numbered(call[b], k) =>
            call[b].n <= counter[k] /\ \A y \in DOMAIN Filed(k) : Filed(k)[y] # call[b].n
      /\ \A k \in K, b, c \in Actor : Numbered(call[b], k) /\ Numbered(call[c], k) /\ b # c => call[b].n # call[c].n
      /\ \A b \in Actor : call[b].at = "count" => call[b].n = counter[call[b].op] + 1
      /\ \A b, c \in Actor : call[b].at = "count" /\ call[c].at = "count" => b = c
  BY DEF NumbersHold
<1> HIDE DEF Numbered, Filed
<1>6. ASSUME NEW k \in K
      PROVE  /\ \A y \in DOMAIN Filed(k)' : Filed(k)'[y] \in Nat /\ Filed(k)'[y] <= counter[k]
             /\ \A y, z \in DOMAIN Filed(k)' : y # z => Filed(k)'[y] # Filed(k)'[z]
             /\ \A b \in Actor : Numbered(call'[b], k) =>
                   call'[b].n <= counter[k] /\ \A y \in DOMAIN Filed(k)' : Filed(k)'[y] # call'[b].n
  <2>1. CASE k # k0
    BY <1>2, <1>5, <2>1
  <2>2. CASE k = k0
    <3>1. \A y \in DOMAIN Filed(k)' : y = x \/ y \in DOMAIN Filed(k)
      BY <2>2
    <3>2. Filed(k)'[x] = call[a].n /\ \A y \in DOMAIN Filed(k) : Filed(k)'[y] = Filed(k)[y]
      BY <2>2
    <3>3. call[a].n <= counter[k] /\ \A y \in DOMAIN Filed(k) : Filed(k)[y] # call[a].n
      BY <1>5, <2>2
    <3>4. \A b \in Actor : Numbered(call'[b], k) =>
             /\ call'[b].n <= counter[k] /\ call'[b].n # call[a].n
             /\ \A y \in DOMAIN Filed(k) : Filed(k)[y] # call'[b].n
      BY <1>2, <1>5, <2>2
    <3>5. /\ \A y \in DOMAIN Filed(k) : Filed(k)[y] \in Nat /\ Filed(k)[y] <= counter[k]
          /\ \A y, z \in DOMAIN Filed(k) : y # z => Filed(k)[y] # Filed(k)[z]
      BY <1>5
    <3> QED
      BY <1>4, <3>1, <3>2, <3>3, <3>4, <3>5
  <2> QED
    BY <2>1, <2>2
<1>7. \A k \in K, b, c \in Actor : Numbered(call'[b], k) /\ Numbered(call'[c], k) /\ b # c => call'[b].n # call'[c].n
  BY <1>2, <1>5
<1>8. \A b \in Actor : call'[b].at = "count" => call'[b].n = counter[call'[b].op] + 1
  BY <1>3, <1>5
<1>9. \A b, c \in Actor : call'[b].at = "count" /\ call'[c].at = "count" => b = c
  BY <1>3, <1>5
<1> QED
  BY <1>6, <1>7, <1>8, <1>9 DEF NumbersHold

LEMMA PutOrderInv ==
  ASSUME InventoryInv, NEW a \in Actor, NEW o \in OrderId, PutOrder(a, o)
  PROVE  InventoryInv'
<1>0. CallTypes /\ NumbersHold /\ MoneyHolds /\ ReturnsHold
  BY CallOf
<1>1. /\ call[a].op = "order" /\ call[a].at = "settle" /\ order[o].status = "none"
      /\ UNCHANGED <<stockVars, ret, payments, refunds, counter, lock>>
      /\ order' = [order EXCEPT ![o] = [NoOrder EXCEPT !.status = "pending", !.cart = call[a].cart,
                                                       !.number = call[a].n]]
  BY DEF PutOrder, At, Orders
<1>2. Ends(a)
  BY <1>0, ReturnFacts DEF PutOrder
<1>3. call[a].cart \in CartType /\ call[a].cart # <<>> /\ call[a].n \in Nat
  BY <1>1, CallOf, CartFacts DEF OrderShape, Shape
<1>4. PICK d : d = [NoOrder EXCEPT !.status = "pending", !.cart = call[a].cart, !.number = call[a].n]
  OBVIOUS
<1>5. OrderHolds(d) /\ d.status = "pending" /\ d.cart = call[a].cart /\ d.number = call[a].n /\ d.paid = 0
  BY <1>3, <1>4, NoOrderFields DEF OrderHolds
<1>6. DOMAIN order = OrderId /\ DOMAIN order' = OrderId /\ order'[o] = d /\ \A p \in OrderId \ {o} : order'[p] = order[p]
  BY <1>0, <1>1, <1>4 DEF MoneyHolds
<1>7. Orders' = Orders \cup {o} /\ o \notin Orders
  BY <1>1, <1>5, <1>6 DEF Orders
<1>8. \A p \in OrderId : Keeps(p)
  BY <1>1, <1>6 DEF Keeps
<1>9. Others(a) /\ call'[a].op = "none" /\ call'[a].at = "none"
  BY <1>2, AtRest DEF Ends
<1>10. ~Locked(call[a])
  BY <1>1 DEF Locked
<1>11. NumbersHold'
  <2>1. Numbered(call[a], "order")
    BY <1>1 DEF Numbered
  <2>2. /\ o \notin DOMAIN Filed("order") /\ DOMAIN Filed("order")' = DOMAIN Filed("order") \cup {o}
        /\ Filed("order")'[o] = call[a].n
        /\ \A p \in DOMAIN Filed("order") : Filed("order")'[p] = Filed("order")[p]
    BY <1>5, <1>6, <1>7 DEF Filed, Orders
  <2>3. Filed("newreturn")' = Filed("newreturn")
    BY <1>1 DEF Filed, Returns
  <2> QED
    BY <1>0, <1>1, <1>2, <2>1, <2>2, <2>3, NumbersFiled
<1>12. MoneyHolds'
  <2>1. payments' \in [OrderId -> Nat] /\ refunds' \in [OrderId -> Nat]
        /\ \A p \in OrderId : payments[p] \in Nat /\ payments[p] <= payments'[p]
    BY <1>0, <1>1 DEF MoneyHolds
  <2>2. \A b \in Actor : MoneyCall(call[b], order', payments')
    BY <1>8, <2>1, MoneyOfOthers
  <2>3. \A b \in Actor : MoneyCall(call'[b], order', payments')
    BY <1>9, <2>2, AtRestClaims DEF Others
  <2>4. ASSUME NEW p \in OrderId
        PROVE  /\ OrderHolds(order'[p]) /\ order'[p].paid <= payments'[p]
               /\ order'[p].status = "none" => order'[p].cart = <<>>
               /\ order'[p].status # "none" => order'[p].cart # <<>>
    <3>1. CASE p = o
      BY <1>3, <1>5, <1>6, <2>1, <3>1
    <3>2. CASE p # o
      BY <1>0, <1>1, <1>6, <3>2 DEF MoneyHolds
    <3> QED
      BY <3>1, <3>2
  <2> QED
    BY <1>6, <2>1, <2>3, <2>4 DEF MoneyHolds
<1>13. ReturnsHold'
  BY <1>0, <1>1, <1>8, <1>9, AtRestClaims, ReturnsGrow
<1> QED
  BY <1>1, <1>2, <1>10, <1>11, <1>12, <1>13, EndedDocStep

\* Storing a copy of an order.
LEMMA OrderStored ==
  ASSUME InventoryInv, NEW a \in Actor, Rewrites(call[a]), Unfiled(call[a]) = 0,
         order' = [order EXCEPT ![call[a].o] = call[a].doc], UNCHANGED <<payments, refunds>>
  PROVE  /\ \A p \in OrderId : Keeps(p)
         /\ Filed("order")' = Filed("order")
         /\ DOMAIN order' = OrderId /\ payments' \in [OrderId -> Nat] /\ refunds' \in [OrderId -> Nat]
         /\ \A p \in OrderId : /\ OrderHolds(order'[p]) /\ order'[p].paid <= payments'[p]
                               /\ order'[p].status = "none" => order'[p].cart = <<>>
                               /\ order'[p].status # "none" => order'[p].cart # <<>>
         /\ \A b \in Actor : MoneyCall(call[b], order', payments')
<1>0. MoneyHolds /\ MoneyCall(call[a], order, payments)
  BY CallOf
<1>1. PICK o \in OrderId : o = call[a].o
  BY <1>0 DEF MoneyCall
<1>2. PICK d : d = call[a].doc
  OBVIOUS
<1>3. /\ order[o].status # "none" /\ OrderHolds(d) /\ d.status # "none"
      /\ d.cart = order[o].cart /\ d.number = order[o].number /\ d.paid <= payments[o] + 0
  BY <1>0, <1>1, <1>2 DEF MoneyCall
<1>4. DOMAIN order = OrderId /\ DOMAIN order' = OrderId /\ order'[o] = d /\ \A p \in OrderId \ {o} : order'[p] = order[p]
  BY <1>0, <1>1, <1>2 DEF MoneyHolds
<1>5. \A p \in OrderId : Keeps(p)
  BY <1>3, <1>4 DEF Keeps
<1>6. Filed("order")' = Filed("order")
  <2>1. Orders' = Orders
    BY <1>3, <1>4 DEF Orders
  <2>2. \A p \in Orders : order'[p].number = order[p].number
    BY <1>3, <1>4 DEF Orders
  <2> QED
    BY <2>1, <2>2 DEF Filed
<1>7. payments' \in [OrderId -> Nat] /\ refunds' \in [OrderId -> Nat]
      /\ \A p \in OrderId : payments[p] \in Nat /\ payments[p] <= payments'[p]
  BY <1>0 DEF MoneyHolds
<1>8. ASSUME NEW p \in OrderId
      PROVE  /\ OrderHolds(order'[p]) /\ order'[p].paid <= payments'[p]
             /\ order'[p].status = "none" => order'[p].cart = <<>>
             /\ order'[p].status # "none" => order'[p].cart # <<>>
  <2>1. d.paid <= payments[o]
    BY <1>3, <1>7
  <2> HIDE DEF OrderHolds
  <2> QED
    BY <1>0, <1>3, <1>4, <2>1 DEF MoneyHolds
<1>9. \A b \in Actor : MoneyCall(call[b], order', payments')
  BY <1>5, <1>7, MoneyOfOthers
<1> QED
  BY <1>4, <1>5, <1>6, <1>7, <1>8, <1>9

LEMMA PutOrderDocInv ==
  ASSUME InventoryInv, NEW a \in Actor, PutOrderDoc(a)
  PROVE  InventoryInv'
<1>0. CallTypes /\ NumbersHold /\ MoneyHolds /\ ReturnsHold
  BY CallOf
<1>1. /\ call[a].op \in {"cancel", "status", "pay", "refund"} /\ call[a].at = "settle"
      /\ UNCHANGED <<stockVars, ret, payments, refunds, counter, lock>>
      /\ order' = [order EXCEPT ![call[a].o] = call[a].doc]
  BY DEF PutOrderDoc, At
<1>2. Ends(a)
  BY <1>0, ReturnFacts DEF PutOrderDoc
<1>3. Rewrites(call[a]) /\ Unfiled(call[a]) = 0 /\ ~Locked(call[a])
  BY <1>1 DEF Rewrites, Unfiled, Locked
<1>4. /\ \A p \in OrderId : Keeps(p)
      /\ Filed("order")' = Filed("order")
      /\ DOMAIN order' = OrderId /\ payments' \in [OrderId -> Nat] /\ refunds' \in [OrderId -> Nat]
      /\ \A p \in OrderId : /\ OrderHolds(order'[p]) /\ order'[p].paid <= payments'[p]
                            /\ order'[p].status = "none" => order'[p].cart = <<>>
                            /\ order'[p].status # "none" => order'[p].cart # <<>>
      /\ \A b \in Actor : MoneyCall(call[b], order', payments')
  BY <1>1, <1>3, OrderStored
<1>5. Others(a) /\ call'[a].op = "none" /\ call'[a].at = "none"
  BY <1>2, AtRest DEF Ends
<1>6. NumbersHold'
  <2>1. Filed("newreturn")' = Filed("newreturn")
    BY <1>1 DEF Filed, Returns
  <2>2. \A k \in {"order", "newreturn"} : Filed(k)' = Filed(k)
    BY <1>4, <2>1
  <2>3. \A k \in {"order", "newreturn"} : ~Numbered(call'[a], k)
    BY <1>5 DEF Numbered
  <2> QED
    BY <1>0, <1>1, <1>5, <2>2, <2>3, NumbersStay
<1>7. MoneyHolds'
  <2>1. \A b \in Actor : MoneyCall(call'[b], order', payments')
    BY <1>4, <1>5, AtRestClaims DEF Others
  <2> QED
    BY <1>4, <2>1 DEF MoneyHolds
<1>8. ReturnsHold'
  BY <1>0, <1>1, <1>4, <1>5, AtRestClaims, ReturnsGrow
<1> QED
  BY <1>1, <1>2, <1>3, <1>6, <1>7, <1>8, EndedDocStep


LEMMA PutPaymentInv ==
  ASSUME InventoryInv, NEW a \in Actor, PutPayment(a)
  PROVE  InventoryInv'
<1>0. CallTypes /\ NumbersHold /\ MoneyHolds /\ ReturnsHold
  BY CallOf
<1>1. call[a].at = "ledger" /\ UNCHANGED <<stockVars, order, ret, counter, lock>>
  BY DEF PutPayment, At
<1>2. call[a].op \in {"pay", "refund", "return"}
  BY <1>1, CallOf DEF Shape, Awaits, Stocking
<1>3. Rewrites(call[a]) /\ MoneyCall(call[a], order, payments) /\ Shape(call[a]) /\ OrderShape(call[a])
  BY <1>1, <1>2, CallOf DEF Rewrites
<1>4. PICK o \in OrderId : o = call[a].o
  BY <1>3 DEF MoneyCall
<1>5. PICK m \in Nat : m = call[a].amount
  BY <1>3 DEF Shape
<1>6. \/ /\ call[a].op = "pay" /\ UNCHANGED refunds
         /\ payments' = [payments EXCEPT ![o] = @ + m]
      \/ /\ call[a].op # "pay" /\ UNCHANGED payments
         /\ refunds' = [refunds EXCEPT ![o] = @ + m]
  BY <1>4, <1>5 DEF PutPayment
<1>7. /\ payments' \in [OrderId -> Nat] /\ refunds' \in [OrderId -> Nat]
      /\ \A p \in OrderId : payments[p] \in Nat /\ payments[p] <= payments'[p]
      /\ payments'[o] = payments[o] + (IF call[a].op = "pay" THEN m ELSE 0)
  <2>1. payments \in [OrderId -> Nat] /\ refunds \in [OrderId -> Nat]
    BY <1>0 DEF MoneyHolds
  <2>2. CASE call[a].op = "pay" /\ UNCHANGED refunds /\ payments' = [payments EXCEPT ![o] = @ + m]
    <3>1. payments' \in [OrderId -> Nat] /\ payments'[o] = payments[o] + m
          /\ \A p \in OrderId : payments[p] \in Nat /\ payments[p] <= payments'[p]
      BY <2>1, <2>2
    <3> QED
      BY <2>1, <2>2, <3>1
  <2>3. CASE call[a].op # "pay" /\ UNCHANGED payments /\ refunds' = [refunds EXCEPT ![o] = @ + m]
    <3>1. refunds' \in [OrderId -> Nat]
      BY <2>1, <2>3
    <3> QED
      BY <2>1, <2>3, <3>1
  <2> QED
    BY <1>6, <2>2, <2>3
<1>8. PICK at : at = (IF call[a].op = "return" THEN "refunded" ELSE "settle")
  OBVIOUS
<1>9. Goes(a, at)
  BY <1>0, <1>8, GotoFacts DEF PutPayment
<1>10. /\ Others(a) /\ call'[a].at = at /\ call'[a].op = call[a].op /\ call'[a].o = call[a].o
       /\ call'[a].doc = call[a].doc /\ call'[a].r = call[a].r /\ call'[a].rdoc = call[a].rdoc
  BY <1>9 DEF Goes, SameOrder, SameDocs
<1>11. Shape(call'[a]) /\ OrderShape(call'[a])
  <2>1. Shape(call'[a])
    BY <1>1, <1>2, <1>3, <1>8, <1>9 DEF Goes, SameOrder, Shape, Awaits, Stocking
  <2>2. OrderShape(call'[a])
    BY <1>2, <1>10 DEF OrderShape
  <2> QED
    BY <2>1, <2>2
<1>12. ~Locked(call[a]) /\ ~Locked(call'[a]) /\ Still(a) /\ StockCall(call'[a], item, meddled)
  BY <1>1, <1>2, <1>8, <1>10 DEF Locked, Still, StockCall
<1>13. NumbersHold'
  <2>1. \A k \in {"order", "newreturn"} : Filed(k)' = Filed(k)
    BY <1>1, FiledStays
  <2>2. call'[a].at # "count" /\ \A k \in {"order", "newreturn"} : ~Numbered(call'[a], k)
    BY <1>2, <1>8, <1>10 DEF Numbered
  <2> QED
    BY <1>0, <1>1, <1>10, <2>1, <2>2, NumbersStay
<1>14. \A p \in OrderId : Keeps(p)
  BY <1>1 DEF Keeps
<1>15. MoneyHolds'
  <2>1. \A b \in Actor : MoneyCall(call[b], order', payments')
    BY <1>7, <1>14, MoneyOfOthers
  <2>2. MoneyCall(call'[a], order', payments')
    <3>1. /\ OrderHolds(call[a].doc) /\ call[a].doc.status # "none" /\ order[o].status # "none"
          /\ call[a].doc.cart = order[o].cart /\ call[a].doc.number = order[o].number
          /\ call[a].doc.paid <= payments[o] + Unfiled(call[a])
      BY <1>3, <1>4 DEF MoneyCall
    <3>2. Unfiled(call[a]) = (IF call[a].op = "pay" THEN m ELSE 0) /\ Unfiled(call'[a]) = 0
      BY <1>1, <1>2, <1>5, <1>8, <1>10 DEF Unfiled
    <3>3. call[a].doc.paid <= payments'[o] + 0
      BY <1>7, <3>1, <3>2
    <3> QED
      BY <1>1, <1>4, <1>10, <3>1, <3>2, <3>3 DEF MoneyCall
  <2>3. \A b \in Actor : MoneyCall(call'[b], order', payments')
    BY <1>10, <2>1, <2>2 DEF Others
  <2>4. ASSUME NEW p \in OrderId
        PROVE  order[p].paid <= payments'[p]
    <3>1. order[p].paid \in Nat /\ order[p].paid <= payments[p]
      BY <1>0 DEF MoneyHolds, OrderHolds
    <3> QED
      BY <1>7, <3>1
  <2> QED
    BY <1>0, <1>1, <1>7, <2>3, <2>4 DEF MoneyHolds
<1>16. ReturnsHold'
  <2>1. ReturnCall(call'[a], ret, order)
    <3>1. ReturnCall(call[a], ret, order)
      BY CallOf
    <3> QED
      BY <1>10, <3>1 DEF ReturnCall
  <2> QED
    BY <1>0, <1>1, <1>10, <2>1, ReturnsStay
<1> QED
  BY <1>1, <1>10, <1>11, <1>12, <1>13, <1>15, <1>16, DocStep

\* A return once stored stays, with its number.
LEMMA ReturnsOfOthers ==
  ASSUME InventoryInv, NEW a \in Actor, Ends(a), UNCHANGED order,
         \A r \in ReturnId : ret[r].status # "none" => ret'[r].status # "none" /\ ret'[r].number = ret[r].number,
         DOMAIN ret' = ReturnId, \A r \in ReturnId : ret'[r].status # "none" => ReturnHolds(ret'[r], order)
  PROVE  ReturnsHold'
<1>1. Others(a) /\ call'[a].op = "none" /\ call'[a].at = "none"
  BY AtRest DEF Ends
<1>2. \A b \in Actor : ReturnCall(call[b], ret, order)
  BY CallOf
<1>3. \A b \in Actor : ReturnCall(call[b], ret', order)
  BY <1>2 DEF ReturnCall
<1>4. \A b \in Actor : ReturnCall(call'[b], ret', order)
  BY <1>1, <1>3, AtRestClaims DEF Others
<1> HIDE DEF ReturnCall, ReturnHolds
<1> QED
  BY <1>4 DEF ReturnsHold, Returns

LEMMA MoneyEnds ==
  ASSUME InventoryInv, NEW a \in Actor, Ends(a), UNCHANGED <<order, payments, refunds>>
  PROVE  MoneyHolds'
<1>1. Others(a) /\ call'[a].op = "none" /\ call'[a].at = "none"
  BY AtRest DEF Ends
<1> QED
  BY <1>1, AtRestClaims, CallOf, MoneyStays

LEMMA PutReturnInv ==
  ASSUME InventoryInv, NEW a \in Actor, NEW r \in ReturnId, PutReturn(a, r)
  PROVE  InventoryInv'
<1>0. CallTypes /\ NumbersHold /\ MoneyHolds /\ ReturnsHold
  BY CallOf
<1>1. /\ call[a].op = "newreturn" /\ call[a].at = "settle" /\ ret[r].status = "none"
      /\ UNCHANGED <<stockVars, order, payments, refunds, counter, lock>>
      /\ ret' = [ret EXCEPT ![r] = [call[a].rdoc EXCEPT !.number = call[a].n]]
  BY DEF PutReturn, At, Returns
<1>2. Ends(a)
  BY <1>0, ReturnFacts DEF PutReturn
<1>3. PICK d : d = [call[a].rdoc EXCEPT !.number = call[a].n]
  OBVIOUS
<1>4. ReturnHolds(d, order) /\ d.number = call[a].n
  <2>1. ReturnHolds(call[a].rdoc, order) /\ call[a].n \in Nat
    BY <1>1, CallOf DEF ReturnCall, Shape
  <2> QED
    BY <1>3, <2>1, NoReturnFields DEF ReturnHolds
<1>5. DOMAIN ret = ReturnId /\ DOMAIN ret' = ReturnId /\ ret'[r] = d /\ \A s \in ReturnId \ {r} : ret'[s] = ret[s]
  BY <1>0, <1>1, <1>3 DEF ReturnsHold
<1>6. Returns' = Returns \cup {r} /\ r \notin Returns
  BY <1>1, <1>4, <1>5 DEF Returns, ReturnHolds
<1>7. ~Locked(call[a])
  BY <1>1 DEF Locked
<1>8. NumbersHold'
  <2>1. Numbered(call[a], "newreturn")
    BY <1>1 DEF Numbered
  <2>2. /\ r \notin DOMAIN Filed("newreturn") /\ DOMAIN Filed("newreturn")' = DOMAIN Filed("newreturn") \cup {r}
        /\ Filed("newreturn")'[r] = call[a].n
        /\ \A s \in DOMAIN Filed("newreturn") : Filed("newreturn")'[s] = Filed("newreturn")[s]
    BY <1>4, <1>5, <1>6 DEF Filed, Returns
  <2>3. Filed("order")' = Filed("order")
    BY <1>1 DEF Filed, Orders
  <2> QED
    BY <1>0, <1>1, <1>2, <2>1, <2>2, <2>3, NumbersFiled
<1>9. ReturnsHold'
  <2>1. \A s \in ReturnId : ret[s].status # "none" => ret'[s] = ret[s]
    BY <1>1, <1>5
  <2>2. \A s \in ReturnId : ret'[s].status # "none" => ReturnHolds(ret'[s], order)
    BY <1>0, <1>4, <1>5 DEF ReturnsHold, Returns
  <2> QED
    BY <1>1, <1>2, <1>5, <2>1, <2>2, ReturnsOfOthers
<1>10. MoneyHolds'
  BY <1>1, <1>2, MoneyEnds
<1> QED
  BY <1>1, <1>2, <1>7, <1>8, <1>9, <1>10, EndedDocStep

LEMMA PutReturnDocInv ==
  ASSUME InventoryInv, NEW a \in Actor, PutReturnDoc(a)
  PROVE  InventoryInv'
<1>0. CallTypes /\ NumbersHold /\ MoneyHolds /\ ReturnsHold
  BY CallOf
<1>1. /\ call[a].at = "final"
      /\ UNCHANGED <<stockVars, order, payments, refunds, counter, lock>>
      /\ ret' = [ret EXCEPT ![call[a].r] = call[a].rdoc]
  BY DEF PutReturnDoc, At
<1>2. Ends(a)
  BY <1>0, ReturnFacts DEF PutReturnDoc
<1>3. call[a].op \in {"retstatus", "return"}
  BY <1>1, CallOf DEF Shape, Awaits, Stocking
<1>4. ReturnCall(call[a], ret, order)
  BY CallOf
<1>5. PICK r \in ReturnId : r = call[a].r
  BY <1>3, <1>4 DEF ReturnCall
<1>6. PICK d : d = call[a].rdoc
  OBVIOUS
<1>7. ReturnHolds(d, order) /\ d.number = ret[r].number /\ ret[r].status # "none" /\ d.status # "none"
  BY <1>3, <1>4, <1>5, <1>6 DEF ReturnCall, ReturnHolds
<1>8. DOMAIN ret = ReturnId /\ DOMAIN ret' = ReturnId /\ ret'[r] = d /\ \A s \in ReturnId \ {r} : ret'[s] = ret[s]
  BY <1>0, <1>1, <1>5, <1>6 DEF ReturnsHold
<1>9. ~Locked(call[a]) /\ call[a].at # "record" /\ call[a].op # "open"
  BY <1>1, <1>3 DEF Locked
<1>10. NumbersHold'
  <2>1. Filed("newreturn")' = Filed("newreturn")
    <3>1. Returns' = Returns /\ \A s \in Returns : ret'[s].number = ret[s].number
      BY <1>7, <1>8 DEF Returns
    <3> QED
      BY <3>1 DEF Filed
  <2>2. Filed("order")' = Filed("order")
    BY <1>1 DEF Filed, Orders
  <2>3. \A k \in {"order", "newreturn"} : Filed(k)' = Filed(k)
    BY <2>1, <2>2
  <2>4. Others(a) /\ call'[a].at # "count" /\ \A k \in {"order", "newreturn"} : ~Numbered(call'[a], k)
    BY <1>2, AtRest DEF Ends, Numbered
  <2> QED
    BY <1>0, <1>1, <2>3, <2>4, NumbersStay
<1>11. ReturnsHold'
  <2>1. \A s \in ReturnId : ret[s].status # "none" => ret'[s].status # "none" /\ ret'[s].number = ret[s].number
    BY <1>7, <1>8
  <2>2. \A s \in ReturnId : ret'[s].status # "none" => ReturnHolds(ret'[s], order)
    BY <1>0, <1>7, <1>8 DEF ReturnsHold, Returns
  <2> QED
    BY <1>1, <1>2, <1>8, <2>1, <2>2, ReturnsOfOthers
<1>12. MoneyHolds'
  BY <1>1, <1>2, MoneyEnds
<1> QED
  BY <1>1, <1>2, <1>9, <1>10, <1>11, <1>12, EndedDocStep

LEMMA ProcessReturnAmountInv ==
  ASSUME InventoryInv, NEW a \in Actor, ProcessReturnAmount(a)
  PROVE  InventoryInv'
<1>0. CallTypes /\ ItemTypes /\ LockHolds /\ MoneyHolds
  BY CallOf
<1>1. /\ call[a].op = "return" /\ call[a].at = "settle"
      /\ UNCHANGED <<stockVars, docs, counter, lock>>
  BY DEF ProcessReturnAmount, At
<1>2. PICK at : at = IF ReturnAmount(a) > 0 THEN "refund" ELSE "final"
  OBVIOUS
<1>3. /\ Others(a) /\ DOMAIN call'[a] = DOMAIN Idle /\ call'[a].at = at
      /\ SameOrder(a)
      /\ call'[a].base = call[a].base /\ call'[a].n = call[a].n /\ call'[a].amount = ReturnAmount(a)
      /\ call'[a].o = call[a].o /\ call'[a].r = call[a].r
      /\ \E status \in {"received", "refunded"} : call'[a].rdoc = Restated(call[a].rdoc, status)
  BY <1>0, <1>2, ProcessReturnAmountFacts
<1>4. /\ Shape(call[a]) /\ MoneyCall(call[a], order, payments) /\ ReturnCall(call[a], ret, order)
  BY CallOf
<1>5. ReturnHolds(call[a].rdoc, order) /\ call[a].o \in OrderId
  BY <1>1, <1>4 DEF MoneyCall, ReturnCall
<1>6. ReturnAmount(a) \in Nat
  <2>1. OrderHolds(order[call[a].o]) /\ call[a].rdoc.qty \in Nat
    BY <1>0, <1>5 DEF MoneyHolds, ReturnHolds
  <2>2. MaxRefund(call[a].o) \in Nat
    BY <2>1 DEF OrderHolds, MaxRefund
  <2> QED
    BY <2>1, <2>2 DEF ReturnAmount
<1>7. call'[a].op = "return" /\ call'[a].todo = call[a].todo /\ at \in {"refund", "final"}
  BY <1>1, <1>2, <1>3 DEF SameOrder
<1>8. Shape(call'[a])
  BY <1>1, <1>3, <1>4, <1>6, <1>7 DEF Shape, Awaits, Stocking
<1>9. OrderShape(call'[a]) /\ StockCall(call'[a], item, meddled)
  BY <1>3, <1>7 DEF OrderShape, StockCall
<1>10. MoneyCall(call'[a], order, payments)
  BY <1>1, <1>3, <1>4, <1>7 DEF MoneyCall, Rewrites
<1>11. ReturnCall(call'[a], ret, order)
  <2>1. ReturnHolds(call'[a].rdoc, order) /\ call'[a].rdoc.number = call[a].rdoc.number
    BY <1>3, <1>5, ReturnCopyHolds
  <2> QED
    BY <1>1, <1>3, <1>4, <1>7, <2>1 DEF ReturnCall
<1>12. LockHolds' /\ lock' \in [Worker -> Actor \cup {None}]
  <2>1. ~Locked(call'[a]) /\ ~Locked(call[a])
    BY <1>1, <1>3, <1>7 DEF Locked
  <2>2. LockHolds'
    BY <1>0, <1>1, <1>3, <2>1, LockStays
  <2> QED
    BY <1>0, <1>1, <2>2 DEF ItemTypes
<1>13. Still(a) /\ call'[a].at # "count" /\ \A k \in {"order", "newreturn"} : ~Numbered(call'[a], k)
  BY <1>1, <1>3, <1>7 DEF Still, Numbered
<1> QED
  BY <1>1, <1>3, <1>8, <1>9, <1>10, <1>11, <1>12, <1>13, OwnCallStep

LEMMA ProcessReturnRefundInv ==
  ASSUME InventoryInv, NEW a \in Actor, ProcessReturnRefund(a)
  PROVE  InventoryInv'
<1>0. CallTypes /\ ItemTypes /\ LockHolds /\ MoneyHolds
  BY CallOf
<1>1. /\ call[a].op = "return" /\ call[a].at = "refund"
      /\ UNCHANGED <<stockVars, docs, counter, lock>>
  BY DEF ProcessReturnRefund, At
<1>2. ~Locked(call[a])
  BY <1>1 DEF Locked
<1>3. \/ /\ Others(a) /\ DOMAIN call'[a] = DOMAIN Idle /\ call'[a].at = "ledger"
         /\ call[a].amount <= MaxRefund(call[a].o)
         /\ SameOrder(a)
         /\ call'[a].base = call[a].base /\ call'[a].n = call[a].n /\ call'[a].amount = call[a].amount
         /\ call'[a].o = call[a].o /\ call'[a].r = call[a].r /\ call'[a].rdoc = call[a].rdoc
         /\ call'[a].doc = Refunded(order[call[a].o], call[a].amount)
      \/ Ends(a)
  BY <1>0, ProcessReturnRefundFacts
<1>4. CASE Ends(a)
  BY <1>1, <1>2, <1>4, EndStep
<1>5. CASE /\ Others(a) /\ DOMAIN call'[a] = DOMAIN Idle /\ call'[a].at = "ledger"
           /\ call[a].amount <= MaxRefund(call[a].o)
           /\ SameOrder(a)
           /\ call'[a].base = call[a].base /\ call'[a].n = call[a].n /\ call'[a].amount = call[a].amount
           /\ call'[a].o = call[a].o /\ call'[a].r = call[a].r /\ call'[a].rdoc = call[a].rdoc
           /\ call'[a].doc = Refunded(order[call[a].o], call[a].amount)
  <2>1. /\ Shape(call[a]) /\ MoneyCall(call[a], order, payments) /\ ReturnCall(call[a], ret, order)
    BY CallOf
  <2>2. PICK o \in OrderId : o = call[a].o /\ order[o].status # "none"
    BY <1>1, <2>1 DEF MoneyCall
  <2>3. PICK m \in Nat : m = call[a].amount
    BY <2>1 DEF Shape
  <2>4. OrderHolds(order[o]) /\ order[o].paid <= payments[o] /\ payments[o] \in Nat
    BY <1>0 DEF MoneyHolds
  <2>5. m <= order[o].paid - order[o].refunded
    BY <1>5, <2>2, <2>3 DEF MaxRefund
  <2>6. /\ OrderHolds(call'[a].doc) /\ call'[a].doc.status # "none" /\ call'[a].doc.cart = order[o].cart
        /\ call'[a].doc.number = order[o].number /\ call'[a].doc.paid = order[o].paid
    <3>1. call'[a].doc = Refunded(order[o], m)
      BY <1>5, <2>2, <2>3
    <3> QED
      BY <2>2, <2>4, <2>5, <3>1, RefundedHolds
  <2>7. call'[a].op = "return" /\ call'[a].todo = call[a].todo
    BY <1>1, <1>5 DEF SameOrder
  <2>8. Shape(call'[a])
    BY <1>1, <1>5, <2>1, <2>7 DEF Shape, Awaits, Stocking
  <2>9. OrderShape(call'[a]) /\ StockCall(call'[a], item, meddled)
    BY <1>5, <2>7 DEF OrderShape, StockCall
  <2>10. MoneyCall(call'[a], order, payments)
    <3>1. Unfiled(call'[a]) = 0
      BY <2>7 DEF Unfiled
    <3>2. call'[a].doc.paid <= payments[o] + 0
      BY <2>4, <2>6 DEF OrderHolds
    <3> QED
      BY <1>5, <2>2, <2>6, <3>1, <3>2 DEF MoneyCall
  <2>11. ReturnCall(call'[a], ret, order)
    BY <1>1, <1>5, <2>1, <2>7 DEF ReturnCall
  <2>12. LockHolds' /\ lock' \in [Worker -> Actor \cup {None}]
    <3>1. ~Locked(call'[a])
      BY <1>5, <2>7 DEF Locked
    <3>2. LockHolds'
      BY <1>0, <1>1, <1>2, <1>5, <3>1, LockStays
    <3> QED
      BY <1>0, <1>1, <3>2 DEF ItemTypes
  <2>13. Still(a) /\ call'[a].at # "count" /\ \A k \in {"order", "newreturn"} : ~Numbered(call'[a], k)
    BY <1>1, <1>5, <2>7 DEF Still, Numbered
  <2> QED
    BY <1>1, <1>5, <2>8, <2>9, <2>10, <2>11, <2>12, <2>13, OwnCallStep
<1> QED
  BY <1>3, <1>4, <1>5

LEMMA ProcessReturnOrderInv ==
  ASSUME InventoryInv, NEW a \in Actor, ProcessReturnOrder(a)
  PROVE  InventoryInv'
<1>0. CallTypes /\ NumbersHold /\ MoneyHolds /\ ReturnsHold
  BY CallOf
<1>1. /\ call[a].op = "return" /\ call[a].at = "refunded"
      /\ UNCHANGED <<stockVars, ret, payments, refunds, counter, lock>>
      /\ order' = [order EXCEPT ![call[a].o] = call[a].doc]
  BY DEF ProcessReturnOrder, At
<1>2. /\ Others(a) /\ DOMAIN call'[a] = DOMAIN Idle /\ call'[a].at = "final"
      /\ SameOrder(a)
      /\ call'[a].base = call[a].base /\ call'[a].n = call[a].n /\ call'[a].amount = call[a].amount
      /\ call'[a].o = call[a].o /\ call'[a].doc = call[a].doc /\ call'[a].r = call[a].r
      /\ call'[a].rdoc = Repaid(call[a].rdoc)
  BY <1>0, ProcessReturnOrderFacts
<1>3. Rewrites(call[a]) /\ Unfiled(call[a]) = 0 /\ ~Locked(call[a])
  BY <1>1 DEF Rewrites, Unfiled, Locked
<1>4. /\ \A p \in OrderId : Keeps(p)
      /\ Filed("order")' = Filed("order")
      /\ DOMAIN order' = OrderId /\ payments' \in [OrderId -> Nat] /\ refunds' \in [OrderId -> Nat]
      /\ \A p \in OrderId : /\ OrderHolds(order'[p]) /\ order'[p].paid <= payments'[p]
                            /\ order'[p].status = "none" => order'[p].cart = <<>>
                            /\ order'[p].status # "none" => order'[p].cart # <<>>
      /\ \A b \in Actor : MoneyCall(call[b], order', payments')
  BY <1>1, <1>3, OrderStored
<1>5. /\ Shape(call[a]) /\ ReturnCall(call[a], ret, order)
  BY CallOf
<1>6. call'[a].op = "return" /\ call'[a].todo = call[a].todo
  BY <1>1, <1>2 DEF SameOrder
<1>7. Shape(call'[a])
  BY <1>1, <1>2, <1>5, <1>6 DEF Shape, Awaits, Stocking
<1>8. /\ OrderShape(call'[a]) /\ StockCall(call'[a], item, meddled) /\ ~Locked(call'[a]) /\ Still(a)
      /\ ~Rewrites(call'[a])
  BY <1>1, <1>2, <1>6 DEF OrderShape, StockCall, Locked, Still, Rewrites
<1>9. NumbersHold'
  <2>1. Filed("newreturn")' = Filed("newreturn")
    BY <1>1 DEF Filed, Returns
  <2>2. \A k \in {"order", "newreturn"} : Filed(k)' = Filed(k)
    BY <1>4, <2>1
  <2>3. call'[a].at # "count" /\ \A k \in {"order", "newreturn"} : ~Numbered(call'[a], k)
    BY <1>2, <1>6 DEF Numbered
  <2> QED
    BY <1>0, <1>1, <1>2, <2>2, <2>3, NumbersStay
<1>10. MoneyHolds'
  <2>1. MoneyCall(call'[a], order', payments')
    <3>1. MoneyCall(call[a], order', payments')
      BY <1>4
    <3> QED
      BY <1>1, <1>2, <1>8, <3>1 DEF MoneyCall
  <2>2. \A b \in Actor : MoneyCall(call'[b], order', payments')
    BY <1>2, <1>4, <2>1 DEF Others
  <2> QED
    BY <1>4, <2>2 DEF MoneyHolds
<1>11. ReturnsHold'
  <2>1. ReturnHolds(call[a].rdoc, order)
    BY <1>1, <1>5 DEF ReturnCall
  <2>2. ReturnHolds(call'[a].rdoc, order) /\ call'[a].rdoc.number = call[a].rdoc.number
    BY <1>2, <2>1, RepaidHolds
  <2>3. ReturnHolds(call'[a].rdoc, order')
    BY <1>4, <2>2 DEF ReturnHolds, Keeps
  <2>4. ReturnCall(call'[a], ret, order')
    BY <1>1, <1>2, <1>5, <1>6, <2>2, <2>3 DEF ReturnCall
  <2> QED
    BY <1>0, <1>1, <1>2, <1>4, <2>4, ReturnsGrow
<1> QED
  BY <1>1, <1>2, <1>3, <1>7, <1>8, <1>9, <1>10, <1>11, DocStep


-----------------------------------------------------------------------------
\* The inventory: the invariant holds.

LEMMA InventoryInit ==
  ASSUME Init
  PROVE  InventoryInv
<1>0. Opening \in Nat
  BY InventoryConstants
<1>1. /\ item \in [Item -> {[state |-> "new", stock |-> 0], [state |-> "listed", stock |-> Opening]}]
      /\ moved = [i \in Item |-> item[i].stock] /\ sold = [i \in Item |-> 0] /\ meddled = {}
      /\ order = [o \in OrderId |-> NoOrder] /\ ret = [r \in ReturnId |-> NoReturn]
      /\ payments = [o \in OrderId |-> 0] /\ refunds = [o \in OrderId |-> 0]
      /\ counter = [k \in {"order", "newreturn"} |-> 0]
      /\ lock = [w \in Worker |-> None] /\ call = [a \in Actor |-> Idle]
  BY DEF Init
<1>2. \A i \in Item : \/ item[i] = [state |-> "new", stock |-> 0]
                      \/ item[i] = [state |-> "listed", stock |-> Opening]
  BY <1>1
<1>3. \A i \in Item : item[i].stock \in Nat /\ item[i].stock \in Int
  BY <1>0, <1>2
<1>4. ItemTypes
  <2>1. item \in [Item -> [state : {"new", "listed", "removed"}, stock : Nat]]
    BY <1>0, <1>1
  <2>2. moved \in [Item -> Int] /\ sold \in [Item -> Int]
    BY <1>1, <1>3
  <2> QED
    BY <1>1, <2>1, <2>2 DEF ItemTypes
<1>5. CallTypes
  BY <1>1, AtRest DEF CallTypes
<1>6. LockHolds
  BY <1>1, AtRest, InventoryConstants DEF LockHolds
<1>7. StockHolds
  <2>1. \A a \in Actor : call[a].op = "none" /\ call[a].at = "none"
    BY <1>1, AtRest
  <2>2. \A a \in Actor, i \in Item : ~Opens(call[a], i) /\ ~Records(call[a], i)
    BY <2>1 DEF Opens, Records
  <2>3. \A i \in Item : Unopened(i) = 0
    BY <2>2 DEF Unopened
  <2>4. \A i \in Item : Explained(i)
    BY <1>1, <1>3, <2>2, <2>3 DEF Explained
  <2>5. \A i \in Item : item[i].state = "new" => moved[i] = 0
    BY <1>1, <1>2
  <2>6. \A a \in Actor : StockCall(call[a], item, meddled)
    BY <2>1, AtRestClaims
  <2> QED
    BY <2>2, <2>4, <2>5, <2>6 DEF StockHolds
<1>8. Orders = {} /\ Returns = {}
  BY <1>1, NoOrderFields, NoReturnFields DEF Orders, Returns
<1>9. NumbersHold
  <2>1. \A k : DOMAIN Filed(k) = {}
    BY <1>8 DEF Filed
  <2>2. \A a \in Actor, k \in {"order", "newreturn"} : call[a].at # "count" /\ ~Numbered(call[a], k)
    BY <1>1, AtRest DEF Numbered
  <2> HIDE DEF Filed, Numbered
  <2> QED
    BY <2>1, <2>2 DEF NumbersHold
<1>10. MoneyHolds
  <2>1. \A a \in Actor : MoneyCall(call[a], order, payments)
    BY <1>1, AtRest, AtRestClaims
  <2>2. OrderHolds(NoOrder)
    BY NoOrderFields DEF OrderHolds, CartType
  <2>3. DOMAIN order = OrderId /\ payments \in [OrderId -> Nat] /\ refunds \in [OrderId -> Nat]
    BY <1>1
  <2>4. \A o \in OrderId : order[o] = NoOrder /\ payments[o] = 0
    BY <1>1
  <2> QED
    BY <2>1, <2>2, <2>3, <2>4, NoOrderFields DEF MoneyHolds
<1>11. ReturnsHold
  <2>1. \A a \in Actor : ReturnCall(call[a], ret, order)
    BY <1>1, AtRest, AtRestClaims
  <2> QED
    BY <1>1, <1>8, <2>1 DEF ReturnsHold
<1> QED
  BY <1>4, <1>5, <1>6, <1>7, <1>9, <1>10, <1>11 DEF InventoryInv

LEMMA InventoryStutters ==
  ASSUME InventoryInv, UNCHANGED vars
  PROVE  InventoryInv'
<1>1. UNCHANGED <<item, moved, sold, meddled, order, ret, payments, refunds, counter, lock, call>>
  BY DEF vars, stockVars, docs
<1>2. ItemTypes' /\ CallTypes' /\ LockHolds'
  BY <1>1 DEF InventoryInv, ItemTypes, CallTypes, LockHolds
<1>3. StockHolds'
  BY <1>1 DEF InventoryInv, StockHolds, Explained, Unopened
<1>4. NumbersHold'
  <2>1. \A k : Filed(k)' = Filed(k)
    BY <1>1, FiledStays
  <2> HIDE DEF Filed
  <2> QED
    BY <1>1, <2>1 DEF InventoryInv, NumbersHold
<1>5. MoneyHolds' /\ ReturnsHold'
  BY <1>1 DEF InventoryInv, MoneyHolds, ReturnsHold, Returns
<1> QED
  BY <1>2, <1>3, <1>4, <1>5 DEF InventoryInv

LEMMA CallsInv ==
  ASSUME InventoryInv, NEW a \in Actor, Calls(a)
  PROVE  InventoryInv'
BY SaveNewItemInv, SaveItemReadInv, RemoveItemInv, AdjustStockInv, CreateOrderInv, CancelOrderInv,
   UpdateOrderStatusInv, RecordPaymentInv, RefundPaymentInv, CreateReturnInv, UpdateReturnStatusInv,
   ProcessReturnInv, Zenon DEF Calls

LEMMA ContinueInv ==
  ASSUME OneWorker, InventoryInv, NEW a \in Actor, Continue(a)
  PROVE  InventoryInv'
<1>1. SaveItemPut(a) \/ WithStockLock(a) \/ PriceLines(a) \/ NextNumberRead(a) \/ NextNumberWrite(a) => InventoryInv'
  BY SaveItemPutInv, WithStockLockInv, PriceLinesInv, NextNumberReadInv, NextNumberWriteInv
<1>2. AdjustFails(a) \/ AdjustRead(a) \/ AdjustWrite(a) \/ AdjustRecord(a) => InventoryInv'
  BY AdjustFailsInv, AdjustReadInv, AdjustWriteInv, AdjustRecordInv
<1>3. (\E o \in OrderId : PutOrder(a, o)) \/ PutPayment(a) \/ PutOrderDoc(a) => InventoryInv'
  BY PutOrderInv, PutPaymentInv, PutOrderDocInv
<1>4. (\E r \in ReturnId : PutReturn(a, r)) \/ ProcessReturnAmount(a) \/ ProcessReturnRefund(a) => InventoryInv'
  BY PutReturnInv, ProcessReturnAmountInv, ProcessReturnRefundInv
<1>5. ProcessReturnOrder(a) \/ PutReturnDoc(a) => InventoryInv'
  BY ProcessReturnOrderInv, PutReturnDocInv
<1> QED
  BY <1>1, <1>2, <1>3, <1>4, <1>5 DEF Continue

LEMMA InventoryStep ==
  ASSUME OneWorker, InventoryInv, [Next]_vars
  PROVE  InventoryInv'
BY InventoryStutters, CallsInv, ContinueInv DEF Next

\* What the invariant says of the stock, the numbers and the money.
LEMMA StockFromInv ==
  ASSUME InventoryInv
  PROVE  StockReconciles
<1> SUFFICES ASSUME NEW i \in Item, item[i].state = "listed", i \notin meddled,
                    \A a \in Actor : ~(At(a, "record") /\ Line(a).item = i)
             PROVE  item[i].stock = moved[i]
  BY DEF StockReconciles, InventoryInv, ItemTypes
<1>1. \A a \in Actor : call[a].at = "record" => Head(call[a].todo) = call[a].todo[1]
  <2> SUFFICES ASSUME NEW a \in Actor, call[a].at = "record" PROVE Head(call[a].todo) = call[a].todo[1]
    OBVIOUS
  <2>1. call[a].todo \in Movements /\ call[a].todo # <<>>
    BY CallOf DEF Shape, Stocking
  <2> QED
    BY <2>1, LineFacts
<1>2. \A a \in Actor : call[a].at = "record" => call[a].todo[1].item # i
  BY <1>1 DEF At, Line
<1>3. \A a \in Actor : ~Records(call[a], i) /\ ~Opens(call[a], i)
  BY <1>2, CallOf DEF Records, Opens, Shape, Awaits
<1>4. Unopened(i) = 0
  BY <1>3 DEF Unopened
<1>5. Explained(i) /\ moved[i] \in Int
  BY DEF InventoryInv, StockHolds, ItemTypes
<1> QED
  BY <1>3, <1>4, <1>5 DEF Explained

LEMMA TypesFromInv ==
  ASSUME InventoryInv
  PROVE  TypeOK
<1>1. ItemTypes /\ MoneyHolds /\ \A a \in Actor : Shape(call[a])
  BY DEF InventoryInv, CallTypes
<1> QED
  BY <1>1 DEF ItemTypes, MoneyHolds, OrderHolds, Shape, TypeOK

LEMMA NumbersFromInv ==
  ASSUME InventoryInv
  PROVE  NumbersUnique
<1>1. \A k \in {"order", "newreturn"} : \A x, y \in DOMAIN Filed(k) : x # y => Filed(k)[x] # Filed(k)[y]
  BY DEF InventoryInv, NumbersHold
<1>2. Filed("order") = [o \in Orders |-> order[o].number] /\ Filed("newreturn") = [r \in Returns |-> ret[r].number]
  BY DEF Filed
<1>3. \A o, p \in Orders : o # p => order[o].number # order[p].number
  BY <1>1, <1>2
<1>4. \A r, q \in Returns : r # q => ret[r].number # ret[q].number
  BY <1>1, <1>2
<1> QED
  BY <1>3, <1>4 DEF NumbersUnique

LEMMA MoneyFromInv ==
  ASSUME InventoryInv
  PROVE  OrderShowsRealMoney
BY DEF InventoryInv, MoneyHolds, OrderHolds, OrderShowsRealMoney, Orders


-----------------------------------------------------------------------------
\* The inventory: the units that left stock.

LEMMA TakenFacts ==
  ASSUME NEW c, Shape(c), OrderShape(c), NEW i
  PROVE  /\ Taken(c, i) \in Nat
         /\ c.op = "order" => c.cart \in CartType /\ Done(c) \in 0 .. Len(c.cart) /\ Len(c.cart) \in Nat
<1>1. CASE c.op = "order"
  <2>1. c.cart \in CartType /\ Len(c.todo) <= Len(c.cart) /\ Len(c.cart) \in Nat /\ Len(c.todo) \in Nat
    BY <1>1, CartFacts DEF OrderShape, Shape, Movements
  <2>2. Done(c) \in 0 .. Len(c.cart)
    <3>1. PICK m \in Nat, n \in Nat : m = Len(c.cart) /\ n = Len(c.todo) /\ n <= m
      BY <2>1
    <3>2. n <= m
      BY <3>1
    <3>3. m - n \in 0 .. m
      BY <3>2
    <3> QED
      BY <3>1, <3>3 DEF Done
  <2>3. UnitsUpTo(c.cart, Done(c), i) \in Nat
    BY <2>1, <2>2, UnitsOfLines
  <2> QED
    BY <1>1, <2>1, <2>2, <2>3 DEF Taken
<1>2. CASE c.op # "order"
  BY <1>2 DEF Taken
<1> QED
  BY <1>1, <1>2

\* The two sums in the next state, if what they add up is the same.
LEMMA OrderedStays ==
  ASSUME \A o \in OrderId : order'[o].cart = order[o].cart, NEW i
  PROVE  Ordered(i)' = Ordered(i)
<1> DEFINE f == [o \in OrderId |-> Units(order[o].cart, i)]
           g == [o \in OrderId |-> Units(order'[o].cart, i)]
<1>1. \A o \in OrderId : g[o] = f[o]
  OBVIOUS
<1>2. Ordered(i) = SumOver(f, OrderId) /\ Ordered(i)' = SumOver(g, OrderId)
  BY DEF Ordered
<1> HIDE DEF f, g
<1> QED
  BY <1>1, <1>2, SumSame

LEMMA OrderingStays ==
  ASSUME NEW a \in Actor, Others(a), NEW i, Taken(call'[a], i) = Taken(call[a], i)
  PROVE  Ordering(i)' = Ordering(i)
<1> DEFINE f == [b \in Actor |-> Taken(call[b], i)]
           g == [b \in Actor |-> Taken(call'[b], i)]
<1>1. \A b \in Actor : g[b] = f[b]
  BY DEF Others
<1>2. Ordering(i) = SumOver(f, Actor) /\ Ordering(i)' = SumOver(g, Actor)
  BY DEF Ordering
<1> HIDE DEF f, g
<1> QED
  BY <1>1, <1>2, SumSame

LEMMA OrderingChanges ==
  ASSUME InventoryInv, InventoryInv', NEW a \in Actor, Others(a), NEW i
  PROVE  Ordering(i) \in Nat /\ Ordering(i)' = Ordering(i) - Taken(call[a], i) + Taken(call'[a], i)
<1> DEFINE f == [b \in Actor |-> Taken(call[b], i)]
           g == [b \in Actor |-> Taken(call'[b], i)]
<1>1. \A b \in Actor : f[b] = Taken(call[b], i) /\ g[b] = Taken(call'[b], i)
  OBVIOUS
<1>2. \A b \in Actor : Taken(call[b], i) \in Nat
  BY TakenFacts DEF InventoryInv, CallTypes
<1>3. \A b \in Actor : Taken(call'[b], i) \in Nat
  <2>1. \A b \in Actor : Shape(call'[b]) /\ OrderShape(call'[b])
    BY DEF InventoryInv, CallTypes
  <2> QED
    BY <2>1, TakenFacts
<1>4. \A b \in Actor \ {a} : g[b] = f[b]
  BY DEF Others
<1>5. Ordering(i) = SumOver(f, Actor) /\ Ordering(i)' = SumOver(g, Actor)
  BY DEF Ordering
<1>6. IsFiniteSet(Actor) /\ \A b \in Actor : f[b] \in Nat /\ g[b] \in Nat
  BY <1>1, <1>2, <1>3, InventoryConstants
<1> HIDE DEF f, g
<1>7. SumOver(f, Actor) \in Nat /\ SumOver(g, Actor) = SumOver(f, Actor) - f[a] + g[a]
  BY <1>4, <1>6, SumChanges
<1> QED
  BY <1>1, <1>5, <1>7

LEMMA UnitsNat ==
  ASSUME NEW cart \in CartType, NEW i
  PROVE  Units(cart, i) \in Nat
<1>1. Len(cart) \in 0 .. Len(cart)
  BY DEF CartType
<1> QED
  BY <1>1, UnitsOfLines DEF Units

LEMMA OrderedNat ==
  ASSUME MoneyHolds, NEW i
  PROVE  Ordered(i) \in Nat
<1> DEFINE f == [p \in OrderId |-> Units(order[p].cart, i)]
<1>1. \A p \in OrderId : f[p] \in Nat
  BY UnitsNat DEF MoneyHolds, OrderHolds
<1>2. Ordered(i) = SumOver(f, OrderId) /\ IsFiniteSet(OrderId)
  BY InventoryConstants DEF Ordered
<1> HIDE DEF f
<1> QED
  BY <1>1, <1>2, SumIsNat

\* A stored order adds its units to those of the orders.
LEMMA OrderedGrows ==
  ASSUME MoneyHolds, MoneyHolds', NEW o \in OrderId, order[o].cart = <<>>,
         \A p \in OrderId \ {o} : order'[p].cart = order[p].cart, NEW i
  PROVE  Ordered(i) \in Nat /\ Ordered(i)' = Ordered(i) + Units(order'[o].cart, i)
<1> DEFINE f == [p \in OrderId |-> Units(order[p].cart, i)]
           g == [p \in OrderId |-> Units(order'[p].cart, i)]
<1>1. \A p \in OrderId : f[p] = Units(order[p].cart, i) /\ g[p] = Units(order'[p].cart, i)
  OBVIOUS
<1>2. \A p \in OrderId : order[p].cart \in CartType /\ order'[p].cart \in CartType
  BY DEF MoneyHolds, OrderHolds
<1>3. \A p \in OrderId : f[p] \in Nat /\ g[p] \in Nat
  BY <1>1, <1>2, UnitsNat
<1>4. f[o] = 0
  <2>1. order[o].cart \in CartType /\ Len(order[o].cart) = 0
    BY <1>2
  <2>2. UnitsUpTo(order[o].cart, 0, i) = 0
    BY <2>1, UnitsOfLines
  <2> QED
    BY <1>1, <2>1, <2>2 DEF Units
<1>5. \A p \in OrderId \ {o} : g[p] = f[p]
  BY <1>1
<1>6. Ordered(i) = SumOver(f, OrderId) /\ Ordered(i)' = SumOver(g, OrderId)
  BY DEF Ordered
<1>7. IsFiniteSet(OrderId)
  BY InventoryConstants
<1> HIDE DEF f, g
<1>8. SumOver(f, OrderId) \in Nat /\ SumOver(g, OrderId) = SumOver(f, OrderId) - f[o] + g[o]
  BY <1>3, <1>5, <1>7, SumChanges
<1> QED
  BY <1>1, <1>3, <1>4, <1>6, <1>8

\* A step of a call that leaves carts and what it has taken as they are.
LEMMA UnitsStay ==
  ASSUME UnitsHold, NEW a \in Actor, Others(a), UNCHANGED sold, meddled' = {} => meddled = {},
         \A o \in OrderId : order'[o].cart = order[o].cart,
         \A i : Taken(call'[a], i) = Taken(call[a], i),
         meddled' = {} => \A b \in Actor : Enough(call'[b], item')
  PROVE  UnitsHold'
<1> SUFFICES ASSUME meddled' = {}
             PROVE  /\ \A b \in Actor : Enough(call'[b], item')
                    /\ \A i \in Item : sold'[i] = Ordered(i)' + Ordering(i)'
  BY DEF UnitsHold
<1>1. \A i \in Item : sold[i] = Ordered(i) + Ordering(i)
  BY DEF UnitsHold
<1>2. \A i \in Item : Ordered(i)' = Ordered(i) /\ Ordering(i)' = Ordering(i)
  BY OrderedStays, OrderingStays
<1> QED
  BY <1>1, <1>2

\* The stock stays, too, and the call has enough for the rest of its order.
LEMMA UnitsStayByCall ==
  ASSUME UnitsHold, NEW a \in Actor, Others(a), UNCHANGED <<item, sold, meddled>>,
         \A o \in OrderId : order'[o].cart = order[o].cart,
         \A i : Taken(call'[a], i) = Taken(call[a], i),
         meddled = {} => Enough(call'[a], item)
  PROVE  UnitsHold'
<1>1. meddled = {} => \A b \in Actor : Enough(call'[b], item)
  BY DEF UnitsHold, Others
<1> QED
  BY <1>1, UnitsStay

\* A call that is no order.
LEMMA UnitsStayByOther ==
  ASSUME UnitsHold, NEW a \in Actor, Others(a), UNCHANGED <<item, sold, meddled>>,
         \A o \in OrderId : order'[o].cart = order[o].cart,
         call[a].op # "order", call'[a].op # "order"
  PROVE  UnitsHold'
<1>1. Enough(call'[a], item) /\ \A i : Taken(call'[a], i) = Taken(call[a], i)
  BY DEF Enough, Taken
<1> QED
  BY <1>1, UnitsStayByCall

\* The call of an order that goes on with the same lines.
LEMMA SameTaken ==
  ASSUME NEW a \in Actor, SameOrder(a)
  PROVE  \A i : Taken(call'[a], i) = Taken(call[a], i)
BY DEF SameOrder, Taken, Done


\* A handler that is no createOrder begins.
LEMMA UnitsStart ==
  ASSUME UnitsHold, NEW a \in Actor, NEW op, op # "order", NEW at, Starts(a, op, at), UNCHANGED <<stockVars, docs>>
  PROVE  UnitsHold'
<1>1. Others(a) /\ call[a].op # "order" /\ call'[a].op # "order"
  BY DEF Starts
<1>2. UNCHANGED <<item, sold, meddled>> /\ \A o \in OrderId : order'[o].cart = order[o].cart
  BY DEF stockVars, docs
<1> QED
  BY <1>1, <1>2, UnitsStayByOther

LEMMA CreateOrderUnits ==
  ASSUME InventoryInv, UnitsHold, NEW a \in Actor, NEW cart \in Carts, CreateOrder(a, cart)
  PROVE  UnitsHold'
<1>0. CallTypes
  BY CallOf
<1>1. Starts(a, "order", "lock") /\ call'[a].cart = cart /\ call'[a].todo = Moves(cart, -1)
  BY <1>0, CreateOrderFacts
<1>2. cart \in CartType /\ Len(cart) \in Nat
  BY CartFacts
<1>3. Len(Moves(cart, -1)) = Len(cart)
  BY <1>2, MovesFacts
<1>4. Others(a) /\ call[a].op = "none" /\ call[a].at = "none" /\ call'[a].op = "order" /\ call'[a].at = "lock"
  BY <1>1 DEF Starts
<1>5. \A i : Taken(call'[a], i) = Taken(call[a], i)
  <2> SUFFICES ASSUME NEW i PROVE Taken(call'[a], i) = Taken(call[a], i)
    OBVIOUS
  <2>1. Taken(call[a], i) = 0
    BY <1>4 DEF Taken
  <2>2. Done(call'[a]) = 0
    BY <1>1, <1>2, <1>3 DEF Done
  <2>3. UnitsUpTo(cart, 0, i) = 0
    BY <1>2, UnitsOfLines
  <2> QED
    BY <1>1, <1>4, <2>1, <2>2, <2>3 DEF Taken
<1>6. Enough(call'[a], item)
  BY <1>4 DEF Enough
<1>7. UNCHANGED <<item, sold, meddled>> /\ \A o \in OrderId : order'[o].cart = order[o].cart
  BY DEF CreateOrder, stockVars, docs
<1> QED
  BY <1>4, <1>5, <1>6, <1>7, UnitsStayByCall

LEMMA SaveNewItemUnits ==
  ASSUME InventoryInv, UnitsHold, NEW a \in Actor, NEW i \in Item, SaveNewItem(a, i)
  PROVE  UnitsHold'
<1>0. CallTypes /\ ItemTypes
  BY CallOf
<1>1. /\ item[i].state = "new" /\ UNCHANGED <<moved, sold, meddled, docs, counter, lock>>
      /\ item' = [item EXCEPT ![i] = [state |-> "listed", stock |-> Opening]]
  BY DEF SaveNewItem
<1>2. Others(a) /\ call[a].op = "none" /\ call'[a].op = "open"
  BY <1>0, SaveNewItemFacts DEF Starts
<1>3. \A i1 : Taken(call'[a], i1) = Taken(call[a], i1)
  BY <1>2 DEF Taken
<1>4. meddled = {} => \A b \in Actor : Enough(call'[b], item')
  <2> SUFFICES ASSUME meddled = {}, NEW b \in Actor PROVE Enough(call'[b], item')
    OBVIOUS
  <2>1. CASE b = a
    BY <1>2, <2>1 DEF Enough
  <2>2. CASE b # a
    <3>1. call'[b] = call[b] /\ Enough(call[b], item)
      BY <1>2, <2>2 DEF Others, UnitsHold
    <3>2. \A j : item[j].state = "listed" => item'[j] = item[j]
      <4>1. item \in [Item -> [state : {"new", "listed", "removed"}, stock : Nat]]
        BY <1>0 DEF ItemTypes
      <4> QED
        BY <1>1, <4>1
    <3> QED
      BY <3>1, <3>2 DEF Enough
  <2> QED
    BY <2>1, <2>2
<1>5. \A o \in OrderId : order'[o].cart = order[o].cart
  BY <1>1 DEF docs
<1> QED
  BY <1>1, <1>2, <1>3, <1>4, <1>5, UnitsStay

LEMMA RemoveItemUnits ==
  ASSUME InventoryInv, UnitsHold, NEW a \in Actor, NEW i \in Item, RemoveItem(a, i)
  PROVE  UnitsHold'
<1>0. CallTypes /\ ItemTypes /\ LockHolds
  BY CallOf
<1>1. /\ UNCHANGED <<moved, sold, docs, counter, lock, call>>
      /\ meddled' = IF \A w \in Worker : lock[w] = None THEN meddled ELSE meddled \cup {i}
  BY DEF RemoveItem
<1>2. Others(a) /\ \A j : Taken(call'[a], j) = Taken(call[a], j)
  BY <1>0, <1>1 DEF Others, CallTypes
<1>3. meddled' = {} => meddled = {} /\ \A b \in Actor : Enough(call'[b], item')
  <2> SUFFICES ASSUME meddled' = {}, NEW b \in Actor PROVE meddled = {} /\ Enough(call[b], item')
    BY <1>1
  <2>1. meddled = {} /\ \A w \in Worker : lock[w] = None
    BY <1>1
  <2>2. ~Locked(call[b])
    BY <1>0, <2>1, InventoryConstants DEF LockHolds
  <2> QED
    BY <2>1, <2>2 DEF Locked, Enough
<1>4. \A o \in OrderId : order'[o].cart = order[o].cart
  BY <1>1 DEF docs
<1> QED
  BY <1>1, <1>2, <1>3, <1>4, UnitsStay

LEMMA CallsUnits ==
  ASSUME InventoryInv, UnitsHold, NEW a \in Actor, Calls(a)
  PROVE  UnitsHold'
<1>0. CallTypes
  BY CallOf
<1>1. ASSUME NEW i \in Item, SaveItemRead(a, i) PROVE UnitsHold'
  BY <1>0, <1>1, SaveItemReadFacts, UnitsStart DEF SaveItemRead
<1>2. ASSUME NEW i \in Item, NEW d \in Adjustments, AdjustStock(a, i, d) PROVE UnitsHold'
  <2>1. d \in Int
    BY InventoryConstants
  <2> QED
    BY <1>0, <1>2, <2>1, AdjustStockFacts, UnitsStart DEF AdjustStock
<1>3. ASSUME NEW o \in OrderId, NEW restock \in BOOLEAN, CancelOrder(a, o, restock) PROVE UnitsHold'
  <2>1. Starts(a, "cancel", "lock") \/ Starts(a, "cancel", "settle")
    BY <1>0, <1>3, CancelOrderFacts, Zenon
  <2>2. UNCHANGED <<stockVars, docs>>
    BY <1>3 DEF CancelOrder
  <2> QED
    BY <2>1, <2>2, UnitsStart
<1>4. ASSUME NEW o \in OrderId, NEW to, UpdateOrderStatus(a, o, to) PROVE UnitsHold'
  BY <1>0, <1>4, UpdateOrderStatusFacts, UnitsStart DEF UpdateOrderStatus
<1>5. ASSUME NEW o \in OrderId, NEW m \in Amounts, RecordPayment(a, o, m) PROVE UnitsHold'
  BY <1>0, <1>5, RecordPaymentFacts, UnitsStart DEF RecordPayment
<1>6. ASSUME NEW o \in OrderId, NEW m \in Amounts, RefundPayment(a, o, m) PROVE UnitsHold'
  BY <1>0, <1>6, RefundPaymentFacts, UnitsStart DEF RefundPayment
<1>7. ASSUME NEW o \in OrderId, NEW i \in Item, NEW q \in Amounts, CreateReturn(a, o, i, q) PROVE UnitsHold'
  <2>1. Starts(a, "newreturn", "number")
    BY <1>0, <1>7, CreateReturnFacts, Zenon
  <2>2. UNCHANGED <<stockVars, docs>>
    BY <1>7 DEF CreateReturn
  <2> QED
    BY <2>1, <2>2, UnitsStart
<1>8. ASSUME NEW r \in ReturnId, NEW to, UpdateReturnStatus(a, r, to) PROVE UnitsHold'
  BY <1>0, <1>8, UpdateReturnStatusFacts, UnitsStart DEF UpdateReturnStatus
<1>9. ASSUME NEW r \in ReturnId, NEW restock \in BOOLEAN, NEW refund \in BOOLEAN, ProcessReturn(a, r, restock, refund)
      PROVE  UnitsHold'
  <2>1. Starts(a, "return", "lock") \/ Starts(a, "return", "settle")
    BY <1>0, <1>9, ProcessReturnFacts, Zenon
  <2>2. UNCHANGED <<stockVars, docs>>
    BY <1>9 DEF ProcessReturn
  <2> QED
    BY <2>1, <2>2, UnitsStart
<1> QED
  BY <1>1, <1>2, <1>3, <1>4, <1>5, <1>6, <1>7, <1>8, <1>9, SaveNewItemUnits, RemoveItemUnits, CreateOrderUnits,
     Zenon DEF Calls


LEMMA CartLine ==
  ASSUME NEW cart \in CartType, NEW k \in 1 .. Len(cart)
  PROVE  k \in DOMAIN cart /\ cart[k].item \in Item /\ cart[k].qty \in Nat \ {0}
<1>1. cart[k] \in [item : Item, qty : Nat \ {0}]
  BY ElementOfSeq DEF CartType
<1>2. DOMAIN cart = 1 .. Len(cart)
  BY DEF CartType
<1> QED
  BY <1>1, <1>2

LEMMA SaveItemPutUnits ==
  ASSUME InventoryInv, UnitsHold, NEW a \in Actor, SaveItemPut(a)
  PROVE  UnitsHold'
<1>0. CallTypes /\ ItemTypes
  BY CallOf
<1>1. call[a].op = "save" /\ call[a].at = "put" /\ UNCHANGED <<moved, sold, docs, counter, lock>> /\ Return(a)
  BY CallOf DEF SaveItemPut, Shape, Awaits
<1>2. Others(a) /\ call'[a].op = "none"
  BY <1>0, <1>1, ReturnFacts, AtRest DEF Ends
<1>3. PICK i : i = Line(a).item
  OBVIOUS
<1>4. PICK product : product = [state |-> "listed", stock |-> call[a].base]
  OBVIOUS
<1>5. /\ item' = [item EXCEPT ![i] = product]
      /\ meddled' = IF item[i] = product THEN meddled ELSE meddled \cup {i}
  BY <1>3, <1>4 DEF SaveItemPut
<1>6. \A j : Taken(call'[a], j) = Taken(call[a], j)
  BY <1>1, <1>2 DEF Taken
<1>7. meddled' = {} => meddled = {} /\ \A b \in Actor : Enough(call'[b], item')
  <2> SUFFICES ASSUME meddled' = {} PROVE meddled = {} /\ \A b \in Actor : Enough(call'[b], item')
    OBVIOUS
  <2>1. meddled = {} /\ item[i] = product
    BY <1>5
  <2>2. item' = item
    BY <1>0, <1>5, <2>1 DEF ItemTypes
  <2>3. \A b \in Actor : Enough(call[b], item)
    BY <2>1 DEF UnitsHold
  <2>4. Enough(call'[a], item')
    BY <1>2 DEF Enough
  <2> QED
    BY <1>2, <2>1, <2>2, <2>3, <2>4 DEF Others
<1>8. \A o \in OrderId : order'[o].cart = order[o].cart
  BY <1>1 DEF docs
<1> QED
  BY <1>1, <1>2, <1>6, <1>7, <1>8, UnitsStay

\* The call of an order has enough as long as it waits for no line that it has not been checked for.
LEMMA EnoughKept ==
  ASSUME NEW a \in Actor, Enough(call[a], item), SameOrder(a),
         call'[a].at \in {"number", "count", "read"} => call[a].at \in {"number", "count", "read"},
         call'[a].at \in {"write", "record"} => call[a].at \in {"number", "count", "read", "write", "record"}
  PROVE  Enough(call'[a], item)
BY DEF Enough, SameOrder

LEMMA WithStockLockUnits ==
  ASSUME InventoryInv, UnitsHold, NEW a \in Actor, WithStockLock(a)
  PROVE  UnitsHold'
<1>0. CallTypes
  BY CallOf
<1>1. PICK at : at = (IF call[a].op = "order" THEN "price" ELSE "read")
  OBVIOUS
<1>2. Goes(a, at)
  BY <1>0, <1>1, GotoFacts DEF WithStockLock
<1>3. Others(a) /\ SameOrder(a) /\ call'[a].at = at /\ call'[a].op = call[a].op
  BY <1>2 DEF Goes, SameOrder
<1>4. \A i : Taken(call'[a], i) = Taken(call[a], i)
  BY <1>3, SameTaken
<1>5. Enough(call'[a], item)
  BY <1>1, <1>3 DEF Enough
<1>6. UNCHANGED <<item, sold, meddled>> /\ \A o \in OrderId : order'[o].cart = order[o].cart
  BY DEF WithStockLock, stockVars, docs
<1> QED
  BY <1>3, <1>4, <1>5, <1>6, UnitsStayByCall

LEMMA PriceLinesUnits ==
  ASSUME InventoryInv, UnitsHold, NEW a \in Actor, PriceLines(a)
  PROVE  UnitsHold'
<1>0. CallTypes /\ ItemTypes
  BY CallOf
<1>1. call[a].at = "price" /\ UNCHANGED <<stockVars, docs, counter>>
  BY DEF PriceLines, At
<1>2. UNCHANGED <<item, sold, meddled>> /\ \A o \in OrderId : order'[o].cart = order[o].cart
  BY <1>1 DEF stockVars, docs
<1>3. call[a].op = "order"
  BY <1>1, CallOf DEF Shape, Awaits, Stocking
<1> DEFINE cart == call[a].cart
           todo == call[a].todo
<1>4. /\ cart \in CartType /\ Len(cart) \in Nat /\ Len(todo) = Len(cart) /\ Done(call[a]) = 0
      /\ \A k \in 1 .. Len(todo) : todo[k].item = cart[k].item /\ todo[k].delta = -(cart[k].qty)
  <2>1. /\ cart \in Carts /\ Len(todo) = Len(cart)
        /\ \A k \in 1 .. Len(todo) : /\ todo[k].item = cart[Done(call[a]) + k].item
                                     /\ todo[k].delta = -(cart[Done(call[a]) + k].qty)
    BY <1>1, <1>3, CallOf DEF OrderShape
  <2>2. cart \in CartType /\ Len(cart) \in Nat
    BY <2>1, CartFacts
  <2>3. Done(call[a]) = 0
    BY <2>1, <2>2 DEF Done
  <2>4. \A k \in 1 .. Len(todo) : Done(call[a]) + k = k
    BY <2>3
  <2> QED
    BY <2>1, <2>2, <2>3, <2>4
<1>5. CASE Available(call[a].cart)
  <2>1. Goes(a, "number")
    BY <1>0, <1>5, GotoFacts DEF PriceLines
  <2>2. Others(a) /\ SameOrder(a)
    BY <2>1 DEF Goes
  <2>3. Enough(call'[a], item)
    <3>1. \A k \in 1 .. Len(todo) : item[todo[k].item].state = "listed" /\ item[todo[k].item].stock + todo[k].delta >= 0
      <4> SUFFICES ASSUME NEW k \in 1 .. Len(todo)
                   PROVE  item[todo[k].item].state = "listed" /\ item[todo[k].item].stock + todo[k].delta >= 0
        OBVIOUS
      <4>1. k \in DOMAIN cart /\ cart[k].item \in Item /\ cart[k].qty \in Nat
        BY <1>4, CartLine
      <4>2. PICK i \in Item, q \in Nat : i = cart[k].item /\ q = cart[k].qty
        BY <4>1
      <4>3. item[i].state = "listed" /\ item[i].stock >= q /\ item[i].stock \in Nat
        BY <1>0, <1>5, <4>1, <4>2 DEF Available, ItemTypes
      <4>4. todo[k].item = i /\ todo[k].delta = -q
        BY <1>4, <4>2
      <4> QED
        BY <4>3, <4>4
    <3> QED
      BY <2>2, <3>1 DEF Enough, SameOrder
  <2>4. \A i : Taken(call'[a], i) = Taken(call[a], i)
    BY <2>2, SameTaken
  <2> QED
    BY <1>2, <2>2, <2>3, <2>4, UnitsStayByCall
<1>6. CASE ~Available(call[a].cart)
  <2>1. Others(a) /\ call'[a].op = "none" /\ call'[a].at = "none"
    BY <1>0, <1>6, ReturnFacts, AtRest DEF PriceLines, Ends
  <2>2. \A i : Taken(call'[a], i) = Taken(call[a], i)
    <3> SUFFICES ASSUME NEW i PROVE Taken(call'[a], i) = Taken(call[a], i)
      OBVIOUS
    <3>1. UnitsUpTo(cart, 0, i) = 0
      BY <1>4, UnitsOfLines
    <3> QED
      BY <1>3, <1>4, <2>1, <3>1 DEF Taken
  <2> QED
    BY <1>2, <2>1, <2>2, AtRestClaims, UnitsStayByCall
<1> QED
  BY <1>5, <1>6

LEMMA NextNumberReadUnits ==
  ASSUME InventoryInv, UnitsHold, NEW a \in Actor, NextNumberRead(a)
  PROVE  UnitsHold'
<1>1. Others(a) /\ SameOrder(a) /\ call[a].at = "number" /\ call'[a].at = "count"
  BY CallOf, NextNumberReadFacts DEF NextNumberRead, At
<1>2. UNCHANGED <<item, sold, meddled>> /\ \A o \in OrderId : order'[o].cart = order[o].cart
  BY DEF NextNumberRead, stockVars, docs
<1>3. meddled = {} => Enough(call'[a], item)
  BY <1>1, EnoughKept DEF UnitsHold
<1> QED
  BY <1>1, <1>2, <1>3, SameTaken, UnitsStayByCall

LEMMA NextNumberWriteUnits ==
  ASSUME InventoryInv, UnitsHold, NEW a \in Actor, NextNumberWrite(a)
  PROVE  UnitsHold'
<1>0. CallTypes
  BY CallOf
<1>1. PICK at : at = (IF call[a].op = "order" THEN "read" ELSE "settle")
  OBVIOUS
<1>2. Goes(a, at) /\ call[a].at = "count"
  BY <1>0, <1>1, GotoFacts DEF NextNumberWrite, At
<1>3. Others(a) /\ SameOrder(a) /\ call'[a].at = at
  BY <1>2 DEF Goes
<1>4. UNCHANGED <<item, sold, meddled>> /\ \A o \in OrderId : order'[o].cart = order[o].cart
  BY DEF NextNumberWrite, stockVars, docs
<1>5. meddled = {} => Enough(call'[a], item)
  BY <1>1, <1>2, <1>3, EnoughKept DEF UnitsHold
<1> QED
  BY <1>3, <1>4, <1>5, SameTaken, UnitsStayByCall

LEMMA AdjustReadUnits ==
  ASSUME InventoryInv, UnitsHold, NEW a \in Actor, AdjustRead(a)
  PROVE  UnitsHold'
<1>1. Others(a) /\ SameOrder(a) /\ call[a].at = "read" /\ call'[a].at = "write"
  BY CallOf, AdjustReadFacts DEF AdjustRead, At
<1>2. UNCHANGED <<item, sold, meddled>> /\ \A o \in OrderId : order'[o].cart = order[o].cart
  BY DEF AdjustRead, stockVars, docs
<1>3. meddled = {} => Enough(call'[a], item)
  BY <1>1, EnoughKept DEF UnitsHold
<1> QED
  BY <1>1, <1>2, <1>3, SameTaken, UnitsStayByCall

\* No decrement of an order fails while nobody meddles.
LEMMA AdjustFailsUnits ==
  ASSUME InventoryInv, UnitsHold, NEW a \in Actor, AdjustFails(a)
  PROVE  UnitsHold'
<1>0. CallTypes
  BY CallOf
<1>1. /\ call[a].at = "read" /\ UNCHANGED <<stockVars, docs, counter>>
      /\ item[Line(a).item].state # "listed" \/ item[Line(a).item].stock + Line(a).delta < 0
  BY DEF AdjustFails, At
<1>2. UNCHANGED <<item, sold, meddled>> /\ \A o \in OrderId : order'[o].cart = order[o].cart
  BY <1>1 DEF stockVars, docs
<1>3. call[a].todo \in Movements /\ call[a].todo # <<>>
  BY <1>1, CallOf DEF Shape, Stocking
<1>4. /\ Line(a) = call[a].todo[1] /\ 1 \in 1 .. Len(call[a].todo)
      /\ call[a].todo[1].item \in Item /\ call[a].todo[1].delta \in Int
  BY <1>3, LineFacts DEF Line
<1>5. CASE call[a].op = "order"
  <2>1. meddled # {}
    <3> SUFFICES ASSUME meddled = {} PROVE FALSE
      OBVIOUS
    <3>1. Enough(call[a], item)
      BY DEF UnitsHold
    <3>2. item[Line(a).item].state = "listed" /\ item[Line(a).item].stock + Line(a).delta >= 0
      BY <1>1, <1>4, <1>5, <3>1 DEF Enough
    <3>3. item[Line(a).item].stock \in Nat /\ Line(a).delta \in Int
      BY <1>4, CallOf DEF ItemTypes
    <3> QED
      BY <1>1, <3>2, <3>3
  <2> QED
    BY <1>2, <2>1 DEF UnitsHold
<1>6. CASE call[a].op # "order"
  <2>1. Others(a) /\ call'[a].op # "order"
    <3>1. CASE call[a].op = "adjust"
      BY <1>0, <1>6, <3>1, ReturnFacts, AtRest DEF AdjustFails, Ends
    <3>2. CASE call[a].op # "adjust"
      <4>1. NextLine(a)
        BY <1>6, <3>2 DEF AdjustFails
      <4>2. Ends(a) \/ \E at : Proceeds(a, at)
        BY <1>0, <4>1, NextLineFacts
      <4> QED
        BY <1>6, <4>2, AtRest DEF Ends, Proceeds
    <3> QED
      BY <3>1, <3>2
  <2> QED
    BY <1>2, <1>6, <2>1, UnitsStayByOther
<1> QED
  BY <1>5, <1>6


LEMMA AdjustWriteUnits ==
  ASSUME OneWorker, OneLineEach, InventoryInv, UnitsHold, NEW a \in Actor, AdjustWrite(a)
  PROVE  UnitsHold'
<1>0. CallTypes /\ ItemTypes /\ LockHolds
  BY CallOf
<1>1. call[a].at = "write" /\ UNCHANGED <<moved, sold, meddled, docs, counter, lock>>
  BY DEF AdjustWrite, At
<1>2. Goes(a, "record")
  BY <1>0, GotoFacts DEF AdjustWrite
<1>3. Others(a) /\ SameOrder(a) /\ call'[a].at = "record"
  BY <1>2 DEF Goes
<1>4. call[a].todo \in Movements /\ call[a].todo # <<>>
  BY <1>1, CallOf DEF Shape, Stocking
<1>5. PICK i \in Item : i = call[a].todo[1].item /\ i = Line(a).item
  BY <1>4, LineFacts DEF Line
<1>6. \A j : j # i => item'[j] = item[j]
  <2>1. \E product : item' = [item EXCEPT ![i] = product]
    BY <1>5 DEF AdjustWrite
  <2>2. item \in [Item -> [state : {"new", "listed", "removed"}, stock : Nat]]
    BY <1>0 DEF ItemTypes
  <2> QED
    BY <2>1, <2>2
<1>7. meddled' = {} => \A b \in Actor : Enough(call'[b], item')
  <2> SUFFICES ASSUME meddled = {}, NEW b \in Actor PROVE Enough(call'[b], item')
    BY <1>1
  <2>1. CASE b # a
    <3>1. call'[b] = call[b]
      BY <1>3, <2>1 DEF Others
    <3>2. ~Locked(call[b])
      <4>1. Locked(call[a])
        BY <1>1 DEF Locked
      <4> QED
        BY <1>0, <2>1, <4>1, OneHolder
    <3> QED
      BY <3>1, <3>2 DEF Locked, Enough
  <2>2. CASE b = a /\ call[a].op = "order"
    <3> DEFINE cart == call[a].cart
               todo == call[a].todo
    <3>1. /\ cart \in Carts /\ Len(todo) <= Len(cart)
          /\ \A k \in 1 .. Len(todo) : todo[k].item = cart[Done(call[a]) + k].item
      BY <2>2, CallOf DEF OrderShape
    <3>2. cart \in CartType /\ Len(cart) \in Nat /\ Len(todo) \in Nat \ {0}
      BY <1>4, <3>1, CartFacts, LineFacts
    <3>3. \A k \in 1 .. Len(todo) : k > 1 => todo[k].item # i
      <4> SUFFICES ASSUME NEW k \in 1 .. Len(todo), k > 1, todo[k].item = i PROVE FALSE
        OBVIOUS
      <4>1. PICK n \in 0 .. Len(cart) : n = Done(call[a]) /\ n + Len(todo) = Len(cart)
        <5>1. Done(call[a]) \in 0 .. Len(cart)
          BY <2>2, CallOf, TakenFacts
        <5>2. Done(call[a]) + Len(todo) = Len(cart)
          BY <3>2 DEF Done
        <5> QED
          BY <5>1, <5>2
      <4>2. n + k \in 1 .. Len(cart) /\ n + 1 \in 1 .. Len(cart) /\ n + k # n + 1
        BY <3>2, <4>1
      <4>3. n + k \in DOMAIN cart /\ n + 1 \in DOMAIN cart
        BY <3>2, <4>2, CartLine
      <4>31. 1 \in 1 .. Len(todo)
        BY <3>2
      <4>32. todo[1].item = cart[n + 1].item /\ todo[k].item = cart[n + k].item
        BY <3>1, <4>1, <4>31
      <4>4. cart[n + k].item = i /\ cart[n + 1].item = i
        BY <1>5, <4>32
      <4> QED
        BY <3>1, <4>2, <4>3, <4>4 DEF OneLineEach
    <3>4. Enough(call[a], item)
      BY DEF UnitsHold
    <3> QED
      BY <1>1, <1>3, <1>6, <2>2, <3>3, <3>4 DEF Enough, SameOrder
  <2>3. CASE b = a /\ call[a].op # "order"
    BY <1>3, <2>3 DEF Enough, SameOrder
  <2> QED
    BY <2>1, <2>2, <2>3
<1>8. \A o \in OrderId : order'[o].cart = order[o].cart
  BY <1>1 DEF docs
<1> QED
  BY <1>1, <1>3, <1>7, <1>8, SameTaken, UnitsStay

LEMMA AdjustRecordUnits ==
  ASSUME InventoryInv, InventoryInv', UnitsHold, NEW a \in Actor, AdjustRecord(a)
  PROVE  UnitsHold'
<1>0. CallTypes /\ ItemTypes
  BY CallOf
<1>1. call[a].at = "record" /\ UNCHANGED <<item, meddled, docs, counter>> /\ NextLine(a)
  BY DEF AdjustRecord, At
<1>2. \A o \in OrderId : order'[o].cart = order[o].cart
  BY <1>1 DEF docs
<1>3. call[a].todo \in Movements /\ call[a].todo # <<>>
  BY <1>1, CallOf DEF Shape, Stocking
<1>4. /\ Line(a) = call[a].todo[1] /\ Len(call[a].todo) \in Nat \ {0}
      /\ call[a].todo[1].item \in Item /\ call[a].todo[1].delta \in Int
      /\ Len(Tail(call[a].todo)) = Len(call[a].todo) - 1
      /\ \A k \in 1 .. Len(call[a].todo) - 1 : Tail(call[a].todo)[k] = call[a].todo[k + 1]
  BY <1>3, LineFacts DEF Line
<1>5. CASE call[a].op # "order"
  <2>1. Ends(a) \/ \E at : Proceeds(a, at)
    BY <1>0, <1>1, NextLineFacts
  <2>2. Others(a) /\ call'[a].op # "order"
    BY <1>5, <2>1, AtRest DEF Ends, Proceeds
  <2>3. UNCHANGED sold
    BY <1>5 DEF AdjustRecord
  <2> QED
    BY <1>1, <1>2, <1>5, <2>2, <2>3, UnitsStayByOther
<1>6. CASE call[a].op = "order"
  <2> DEFINE cart == call[a].cart
             todo == call[a].todo
             n == Done(call[a])
  <2>1. PICK at \in {"read", "settle"} : Proceeds(a, at)
    BY <1>0, <1>1, <1>6, NextLineFacts
  <2>2. /\ Others(a) /\ call'[a].op = "order" /\ call'[a].at = at /\ call'[a].cart = cart
        /\ call'[a].todo = Tail(todo)
    BY <1>6, <2>1 DEF Proceeds
  <2>3. /\ cart \in CartType /\ Len(cart) \in Nat /\ n \in 0 .. Len(cart) /\ n + Len(todo) = Len(cart)
        /\ todo[1].item = cart[n + 1].item /\ todo[1].delta = -(cart[n + 1].qty)
    <3>1. cart \in CartType /\ Len(cart) \in Nat /\ n \in 0 .. Len(cart)
      BY <1>6, CallOf, TakenFacts
    <3>2. n + Len(todo) = Len(cart)
      BY <1>4, <3>1 DEF Done
    <3>3. \A k \in 1 .. Len(todo) : todo[k].item = cart[n + k].item /\ todo[k].delta = -(cart[n + k].qty)
      BY <1>6, CallOf DEF OrderShape
    <3>4. 1 \in 1 .. Len(todo)
      BY <1>4
    <3> QED
      BY <3>1, <3>2, <3>3, <3>4
  <2>4. n + 1 \in 1 .. Len(cart) /\ n + 1 \in 0 .. Len(cart) /\ (n + 1) - 1 = n
    BY <1>4, <2>3
  <2>5. Done(call'[a]) = n + 1
    <3>1. Len(call'[a].cart) = Len(cart) /\ Len(call'[a].todo) = Len(todo) - 1
      BY <1>4, <2>2
    <3>2. PICK m \in Nat, l \in Nat : m = Len(cart) /\ l = Len(todo)
      BY <1>4, <2>3
    <3>3. n = m - l
      BY <3>2 DEF Done
    <3>4. Done(call'[a]) = m - (l - 1)
      BY <3>1, <3>2 DEF Done
    <3> QED
      BY <3>3, <3>4
  <2>6. PICK i \in Item, q \in Nat : i = cart[n + 1].item /\ q = cart[n + 1].qty
    BY <2>3, <2>4, CartLine
  <2>7. sold' = [sold EXCEPT ![i] = @ - (-q)]
    BY <1>4, <1>6, <2>3, <2>6 DEF AdjustRecord
  <2>8. \A j \in Item : sold[j] \in Int /\ sold'[j] = sold[j] + (IF i = j THEN q ELSE 0)
    BY <1>0, <2>7 DEF ItemTypes
  <2>9. ASSUME NEW j
        PROVE  Taken(call[a], j) \in Nat /\ Taken(call'[a], j) = Taken(call[a], j) + (IF i = j THEN q ELSE 0)
    <3>1. /\ UnitsUpTo(cart, n + 1, j) = UnitsUpTo(cart, (n + 1) - 1, j) + (IF cart[n + 1].item = j THEN cart[n + 1].qty ELSE 0)
          /\ UnitsUpTo(cart, n, j) \in Nat
      <4>1. n + 1 > 0
        BY <2>4
      <4>2. UnitsUpTo(cart, n, j) \in Nat
        BY <2>3, UnitsOfLines
      <4>3. UnitsUpTo(cart, n + 1, j) = UnitsUpTo(cart, (n + 1) - 1, j) + (IF cart[n + 1].item = j THEN cart[n + 1].qty ELSE 0)
        <5>1. PICK m \in 0 .. Len(cart) : m = n + 1
          BY <2>4
        <5>2. UnitsUpTo(cart, m, j) = UnitsUpTo(cart, m - 1, j) + (IF cart[m].item = j THEN cart[m].qty ELSE 0)
          BY <2>3, <4>1, <5>1, UnitsOfLines
        <5> QED
          BY <5>1, <5>2
      <4> QED
        BY <4>2, <4>3
    <3>2. Taken(call[a], j) = UnitsUpTo(cart, n, j) /\ Taken(call'[a], j) = UnitsUpTo(cart, n + 1, j)
      BY <1>6, <2>2, <2>5 DEF Taken
    <3> QED
      BY <2>4, <2>6, <3>1, <3>2
  <2>10. meddled = {} => \A b \in Actor : Enough(call'[b], item)
    <3> SUFFICES ASSUME meddled = {}, NEW b \in Actor PROVE Enough(call'[b], item)
      OBVIOUS
    <3>1. Enough(call[b], item)
      BY DEF UnitsHold
    <3>2. CASE b # a
      BY <2>2, <3>1, <3>2 DEF Others
    <3>3. CASE b = a /\ at = "settle"
      BY <2>2, <3>3 DEF Enough
    <3>4. CASE b = a /\ at = "read"
      <4>1. \A k \in 1 .. Len(todo) : k > 1 =>
               item[todo[k].item].state = "listed" /\ item[todo[k].item].stock + todo[k].delta >= 0
        BY <1>1, <1>6, <3>1, <3>4 DEF Enough
      <4>2. ASSUME NEW k \in 1 .. Len(Tail(todo))
            PROVE  item[Tail(todo)[k].item].state = "listed"
                   /\ item[Tail(todo)[k].item].stock + Tail(todo)[k].delta >= 0
        <5>1. k \in 1 .. Len(todo) - 1 /\ k + 1 \in 1 .. Len(todo) /\ k + 1 > 1
          BY <1>4
        <5> QED
          BY <1>4, <4>1, <5>1
      <4> QED
        BY <2>2, <3>4, <4>2 DEF Enough
    <3> QED
      BY <2>1, <3>2, <3>3, <3>4
  <2>11. meddled = {} => \A j \in Item : sold'[j] = Ordered(j)' + Ordering(j)'
    <3> SUFFICES ASSUME meddled = {}, NEW j \in Item PROVE sold'[j] = Ordered(j)' + Ordering(j)'
      OBVIOUS
    <3>1. sold[j] = Ordered(j) + Ordering(j)
      BY DEF UnitsHold
    <3>2. Ordered(j)' = Ordered(j)
      BY <1>2, OrderedStays
    <3>3. Ordering(j) \in Nat /\ Ordering(j)' = Ordering(j) - Taken(call[a], j) + Taken(call'[a], j)
      BY <2>2, OrderingChanges
    <3>4. Ordered(j) \in Nat
      BY CallOf, OrderedNat
    <3>5. PICK x \in Nat : x = (IF i = j THEN q ELSE 0)
      OBVIOUS
    <3>6. sold'[j] = sold[j] + x /\ Taken(call[a], j) \in Nat /\ Taken(call'[a], j) = Taken(call[a], j) + x
      BY <2>8, <2>9, <3>5
    <3>7. Ordering(j)' = Ordering(j) + x
      BY <3>3, <3>6
    <3> QED
      BY <3>1, <3>2, <3>3, <3>4, <3>6, <3>7
  <2> QED
    BY <1>1, <2>10, <2>11 DEF UnitsHold
<1> QED
  BY <1>5, <1>6

LEMMA PutOrderUnits ==
  ASSUME InventoryInv, InventoryInv', UnitsHold, NEW a \in Actor, NEW o \in OrderId, PutOrder(a, o)
  PROVE  UnitsHold'
<1>0. CallTypes /\ MoneyHolds /\ MoneyHolds'
  BY CallOf DEF InventoryInv
<1>1. /\ call[a].op = "order" /\ call[a].at = "settle" /\ order[o].status = "none"
      /\ UNCHANGED <<stockVars, ret, payments, refunds, counter, lock>>
      /\ order' = [order EXCEPT ![o] = [NoOrder EXCEPT !.status = "pending", !.cart = call[a].cart,
                                                       !.number = call[a].n]]
  BY DEF PutOrder, At, Orders
<1>2. Ends(a)
  BY <1>0, ReturnFacts DEF PutOrder
<1>3. Others(a) /\ call'[a].op = "none" /\ call'[a].at = "none"
  BY <1>2, AtRest DEF Ends
<1> DEFINE cart == call[a].cart
<1>4. cart \in CartType /\ Len(cart) \in Nat /\ call[a].todo = <<>>
  BY <1>1, CallOf, CartFacts DEF OrderShape
<1>5. Done(call[a]) = Len(cart)
  BY <1>4 DEF Done
<1>6. order[o].cart = <<>> /\ order'[o].cart = cart /\ \A p \in OrderId \ {o} : order'[p].cart = order[p].cart
  BY <1>0, <1>1, NoOrderFields DEF MoneyHolds
<1>7. UNCHANGED <<item, sold, meddled>>
  BY <1>1 DEF stockVars
<1>8. meddled = {} => \A b \in Actor : Enough(call'[b], item)
  BY <1>3, AtRestClaims DEF UnitsHold, Others
<1>9. ASSUME meddled = {}, NEW i \in Item PROVE sold[i] = Ordered(i)' + Ordering(i)'
  <2>1. sold[i] = Ordered(i) + Ordering(i)
    BY <1>9 DEF UnitsHold
  <2>2. Ordered(i) \in Nat /\ Ordered(i)' = Ordered(i) + Units(cart, i)
    BY <1>0, <1>6, OrderedGrows
  <2>3. Ordering(i) \in Nat /\ Ordering(i)' = Ordering(i) - Taken(call[a], i) + Taken(call'[a], i)
    BY <1>3, OrderingChanges
  <2>4. Taken(call'[a], i) = 0 /\ Taken(call[a], i) = Units(cart, i)
    BY <1>1, <1>3, <1>5 DEF Taken, Units
  <2>5. Units(cart, i) \in Nat
    BY <1>4, UnitsNat
  <2>6. Ordering(i)' = Ordering(i) - Units(cart, i)
    BY <2>3, <2>4, <2>5
  <2> QED
    BY <2>1, <2>2, <2>3, <2>5, <2>6
<1> QED
  BY <1>7, <1>8, <1>9 DEF UnitsHold

\* Storing a copy of an order leaves every cart.
LEMMA CartsStay ==
  ASSUME InventoryInv, NEW a \in Actor, Rewrites(call[a]),
         order' = [order EXCEPT ![call[a].o] = call[a].doc]
  PROVE  \A o \in OrderId : order'[o].cart = order[o].cart
<1>1. call[a].doc.cart = order[call[a].o].cart /\ DOMAIN order = OrderId
  BY CallOf DEF MoneyCall, MoneyHolds
<1> QED
  BY <1>1


LEMMA ContinueUnits ==
  ASSUME OneWorker, OneLineEach, InventoryInv, InventoryInv', UnitsHold, NEW a \in Actor, Continue(a)
  PROVE  UnitsHold'
<1>0. CallTypes
  BY CallOf
<1>1. SaveItemPut(a) \/ WithStockLock(a) \/ PriceLines(a) \/ NextNumberRead(a) \/ NextNumberWrite(a) => UnitsHold'
  BY SaveItemPutUnits, WithStockLockUnits, PriceLinesUnits, NextNumberReadUnits, NextNumberWriteUnits
<1>2. AdjustFails(a) \/ AdjustRead(a) \/ AdjustWrite(a) \/ AdjustRecord(a) => UnitsHold'
  BY AdjustFailsUnits, AdjustReadUnits, AdjustWriteUnits, AdjustRecordUnits
<1>3. (\E o \in OrderId : PutOrder(a, o)) => UnitsHold'
  BY PutOrderUnits
<1>4. ASSUME PutPayment(a) PROVE UnitsHold'
  <2>1. call[a].op # "order"
    BY <1>4, CallOf DEF PutPayment, At, Shape, Awaits, Stocking
  <2>2. \E at : Goes(a, at)
    BY <1>0, <1>4, GotoFacts DEF PutPayment
  <2>3. Others(a) /\ call'[a].op # "order"
    BY <2>1, <2>2 DEF Goes, SameOrder
  <2>4. UNCHANGED <<item, sold, meddled>> /\ \A o \in OrderId : order'[o].cart = order[o].cart
    BY <1>4 DEF PutPayment, stockVars
  <2> QED
    BY <2>1, <2>3, <2>4, UnitsStayByOther
<1>5. ASSUME PutOrderDoc(a) PROVE UnitsHold'
  <2>1. /\ Rewrites(call[a]) /\ Unfiled(call[a]) = 0 /\ call[a].op # "order"
        /\ order' = [order EXCEPT ![call[a].o] = call[a].doc] /\ UNCHANGED <<stockVars, payments, refunds>>
    BY <1>5 DEF PutOrderDoc, At, Rewrites, Unfiled
  <2>2. Others(a) /\ call'[a].op # "order"
    BY <1>0, <1>5, ReturnFacts, AtRest DEF PutOrderDoc, Ends
  <2> QED
    BY <2>1, <2>2, CartsStay, UnitsStayByOther DEF stockVars
<1>6. ASSUME NEW r \in ReturnId, PutReturn(a, r) PROVE UnitsHold'
  <2>1. Others(a) /\ call[a].op # "order" /\ call'[a].op # "order"
    BY <1>0, <1>6, ReturnFacts, AtRest DEF PutReturn, Ends
  <2>2. UNCHANGED <<item, sold, meddled>> /\ \A o \in OrderId : order'[o].cart = order[o].cart
    BY <1>6 DEF PutReturn, stockVars
  <2> QED
    BY <2>1, <2>2, UnitsStayByOther
<1>7. ASSUME ProcessReturnAmount(a) PROVE UnitsHold'
  <2>1. Others(a) /\ SameOrder(a)
    BY <1>0, <1>7, ProcessReturnAmountFacts
  <2>2. call[a].op # "order" /\ call'[a].op # "order"
    BY <1>7, <2>1 DEF ProcessReturnAmount, SameOrder
  <2>3. UNCHANGED <<item, sold, meddled>> /\ \A o \in OrderId : order'[o].cart = order[o].cart
    BY <1>7 DEF ProcessReturnAmount, stockVars, docs
  <2> QED
    BY <2>1, <2>2, <2>3, UnitsStayByOther
<1>8. ASSUME ProcessReturnRefund(a) PROVE UnitsHold'
  <2>1. (Others(a) /\ SameOrder(a)) \/ Ends(a)
    BY <1>0, <1>8, ProcessReturnRefundFacts
  <2>2. call[a].op # "order" /\ call'[a].op # "order" /\ Others(a)
    BY <1>8, <2>1, AtRest DEF ProcessReturnRefund, SameOrder, Ends
  <2>3. UNCHANGED <<item, sold, meddled>> /\ \A o \in OrderId : order'[o].cart = order[o].cart
    BY <1>8 DEF ProcessReturnRefund, stockVars, docs
  <2> QED
    BY <2>2, <2>3, UnitsStayByOther
<1>9. ASSUME ProcessReturnOrder(a) PROVE UnitsHold'
  <2>1. /\ Rewrites(call[a]) /\ Unfiled(call[a]) = 0 /\ call[a].op # "order"
        /\ order' = [order EXCEPT ![call[a].o] = call[a].doc] /\ UNCHANGED <<stockVars, payments, refunds>>
    BY <1>9 DEF ProcessReturnOrder, At, Rewrites, Unfiled
  <2>2. Others(a) /\ SameOrder(a)
    BY <1>0, <1>9, ProcessReturnOrderFacts
  <2>3. call'[a].op # "order"
    BY <2>1, <2>2 DEF SameOrder
  <2> QED
    BY <2>1, <2>2, <2>3, CartsStay, UnitsStayByOther DEF stockVars
<1>10. ASSUME PutReturnDoc(a) PROVE UnitsHold'
  <2>1. call[a].op # "order"
    BY <1>10, CallOf DEF PutReturnDoc, At, Shape, Awaits, Stocking
  <2>2. Others(a) /\ call'[a].op # "order"
    BY <1>0, <1>10, ReturnFacts, AtRest DEF PutReturnDoc, Ends
  <2>3. UNCHANGED <<item, sold, meddled>> /\ \A o \in OrderId : order'[o].cart = order[o].cart
    BY <1>10 DEF PutReturnDoc, stockVars
  <2> QED
    BY <2>1, <2>2, <2>3, UnitsStayByOther
<1> QED
  BY <1>1, <1>2, <1>3, <1>4, <1>5, <1>6, <1>7, <1>8, <1>9, <1>10 DEF Continue

LEMMA UnitsStutter ==
  ASSUME UnitsHold, UNCHANGED vars
  PROVE  UnitsHold'
<1>1. UNCHANGED <<item, sold, meddled, order, call>>
  BY DEF vars, stockVars, docs
<1> QED
  BY <1>1 DEF UnitsHold, Ordered, Ordering

LEMMA UnitsStep ==
  ASSUME OneWorker, OneLineEach, InventoryInv, UnitsHold, [Next]_vars
  PROVE  UnitsHold'
<1>1. InventoryInv'
  BY InventoryStep
<1> QED
  BY <1>1, CallsUnits, ContinueUnits, UnitsStutter DEF Next

\* A sum of zeros.
LEMMA SumOfZeros ==
  ASSUME NEW S, NEW f, \A x \in S : f[x] = 0
  PROVE  SumOver(f, S) = 0
<1>1. Pairs(f, S) = {}
  BY DEF Pairs
<1> QED
  BY <1>1, FS_EmptySet DEF SumOver, Pairs

\* Nothing is under way when no call is an order's.
LEMMA NothingOrdering ==
  ASSUME \A a \in Actor : call[a].op # "order", NEW i
  PROVE  Ordering(i) = 0
<1> DEFINE f == [a \in Actor |-> Taken(call[a], i)]
<1>1. \A a \in Actor : f[a] = 0
  BY DEF Taken
<1>2. Ordering(i) = SumOver(f, Actor)
  BY DEF Ordering
<1> HIDE DEF f
<1> QED
  BY <1>1, <1>2, SumOfZeros

\* The orders' units are those of the stored orders.
LEMMA OrderedOfOrders ==
  ASSUME MoneyHolds, NEW i
  PROVE  Ordered(i) = SumOver([o \in Orders |-> Units(order[o].cart, i)], Orders)
<1> DEFINE f == [o \in OrderId |-> Units(order[o].cart, i)]
           g == [o \in Orders |-> Units(order[o].cart, i)]
<1>1. Orders \in SUBSET OrderId /\ \A o \in Orders : f[o] = g[o]
  BY DEF Orders
<1>2. \A o \in OrderId \ Orders : f[o] = 0
  <2> SUFFICES ASSUME NEW o \in OrderId, order[o].status = "none" PROVE Units(order[o].cart, i) = 0
    BY DEF Orders
  <2>1. order[o].cart \in CartType /\ Len(order[o].cart) = 0
    BY DEF MoneyHolds, OrderHolds
  <2> QED
    BY <2>1, UnitsOfLines DEF Units
<1>3. Ordered(i) = SumOver(f, OrderId)
  BY DEF Ordered
<1> HIDE DEF f, g
<1>4. Ordered(i) = SumOver(g, Orders)
  BY <1>1, <1>2, <1>3, SumOfSome
<1> QED
  BY <1>4 DEF g

LEMMA UnitsInit ==
  ASSUME Init, InventoryInv
  PROVE  UnitsHold
<1>1. \A a \in Actor : call[a].op = "none" /\ call[a].at = "none"
  BY AtRest DEF Init
<1>2. Orders = {}
  BY NoOrderFields DEF Init, Orders
<1>3. ASSUME NEW i \in Item PROVE sold[i] = Ordered(i) + Ordering(i)
  <2>1. Ordering(i) = 0
    BY <1>1, NothingOrdering
  <2>2. Ordered(i) = 0
    <3> DEFINE g == [o \in Orders |-> Units(order[o].cart, i)]
    <3>1. Ordered(i) = SumOver(g, Orders)
      BY OrderedOfOrders DEF InventoryInv
    <3>2. \A o \in Orders : g[o] = 0
      BY <1>2
    <3> HIDE DEF g
    <3> QED
      BY <3>1, <3>2, SumOfZeros
  <2>3. sold[i] = 0
    BY DEF Init
  <2> QED
    BY <2>1, <2>2, <2>3
<1>4. \A a \in Actor : Enough(call[a], item)
  BY <1>1, AtRestClaims
<1> QED
  BY <1>3, <1>4 DEF UnitsHold

LEMMA OrdersFromInv ==
  ASSUME InventoryInv, UnitsHold
  PROVE  OrdersAreSound
<1>1. OrdersAllOrNothing
  <2> SUFFICES ASSUME meddled = {}, \A a \in Actor : call[a].op # "order", NEW i \in Item
               PROVE  sold[i] = SumOver([o \in Orders |-> Units(order[o].cart, i)], Orders)
    BY DEF OrdersAllOrNothing
  <2>1. sold[i] = Ordered(i) + Ordering(i)
    BY DEF UnitsHold
  <2>2. Ordering(i) = 0
    BY NothingOrdering
  <2>3. Ordered(i) \in Nat /\ Ordered(i) = SumOver([o \in Orders |-> Units(order[o].cart, i)], Orders)
    BY OrderedNat, OrderedOfOrders DEF InventoryInv
  <2> QED
    BY <2>1, <2>2, <2>3
<1> QED
  BY <1>1, NumbersFromInv, MoneyFromInv DEF OrdersAreSound


-----------------------------------------------------------------------------
\* The inventory: what holds of every behaviour.

\* The invariant of the inventory: in one worker the handlers of builtins/inventory/index.mjs,
\* interleaved at every await, keep the stock lock, the ledger, the numbers, the orders, the
\* returns and the copies that they are about to store as InventoryInv says.
THEOREM InventoryHolds == ASSUME OneWorker PROVE Spec => []InventoryInv
<1>1. Init => InventoryInv
  BY InventoryInit
<1>2. InventoryInv /\ [Next]_vars => InventoryInv'
  BY InventoryStep
<1> QED
  BY <1>1, <1>2, PTL DEF Spec

\* Type correctness of the inventory: no stock, counter, payment or refund is ever negative,
\* and the stock lock names a call (index.mjs:118-149).
THEOREM InventoryTypeCorrect == ASSUME OneWorker PROVE Spec => []TypeOK
<1>1. InventoryInv => TypeOK
  BY TypesFromInv
<1> QED
  BY <1>1, InventoryHolds, PTL

\* "The sum of movements always reconciles with on-hand stock" (index.mjs:432-433): with one
\* worker, for any number of calls, products, carts and adjustments, the ledger explains the
\* stock of every product that no edit overwrote, once the movement is recorded.
THEOREM LedgerReconciles == ASSUME OneWorker PROVE Spec => []StockReconciles
<1>1. InventoryInv => StockReconciles
  BY StockFromInv
<1> QED
  BY <1>1, InventoryHolds, PTL

\* Every order takes all of its stock or none (index.mjs:833-834) if its cart names a product
\* once, no two orders or returns share a number (index.mjs:134-149), and no order shows more
\* money than was paid or more refunded than collected (index.mjs:1000-1059).
THEOREM OrdersSound == ASSUME OneWorker, OneLineEach PROVE Spec => []OrdersAreSound
<1>1. Init => InventoryInv /\ UnitsHold
  BY InventoryInit, UnitsInit
<1>2. InventoryInv /\ UnitsHold /\ [Next]_vars => (InventoryInv /\ UnitsHold)'
  BY InventoryStep, UnitsStep
<1>3. InventoryInv /\ UnitsHold => OrdersAreSound
  BY OrdersFromInv
<1> QED
  BY <1>1, <1>2, <1>3, PTL DEF Spec
=============================================================================
