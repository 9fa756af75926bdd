--------------------------- MODULE Migration_proofs ---------------------------
(***************************************************************************)
(* Proofs about the switch of storage backend: type correctness, and that  *)
(* a migration that nothing outside the code's assumptions disturbs loses  *)
(* no acknowledged write, for any number of stores, documents, migrations, *)
(* failing steps and crashes.                                              *)
(***************************************************************************)
EXTENDS Migration, FiniteSetTheorems, TLAPS

-----------------------------------------------------------------------------
\* Type correctness.

\* A count of records is a natural number, and a store that counts none has
\* no settings document either.
LEMMA CountIsNat ==
    ASSUME TypeOK, NEW s \in Store
    PROVE  /\ Count(s) \in Nat
           /\ Count(s) = 0 => maint[s] = "absent"
<1>1. IsFiniteSet({d \in Doc : store[s][d] > 0})
  BY MigrationConstants, FS_Subset
<1>2. Cardinality({d \in Doc : store[s][d] > 0}) \in Nat
  BY <1>1, FS_CardinalityType
<1> QED
  BY <1>2 DEF Count, TypeOK

\* A write leaves the types of the disk and of the history.
LEMMA WriteType ==
    ASSUME TypeOK, NEW p \in Process, NEW d \in Doc, Write(p, d)
    PROVE  /\ acked' \in [Doc -> Nat] /\ store' \in [Store -> [Doc -> Nat]]
           /\ UNCHANGED <<config, saves, marker, maint>>
<1>1. on[p] \in Store
  BY DEF TypeOK, Write
<1>2. acked[d] + 1 \in Nat
  BY DEF TypeOK
<1> QED
  BY <1>1, <1>2 DEF TypeOK, Write

\* The catch block leaves well typed state.
LEMMA RollBackType ==
    ASSUME TypeOK, faults' \in Nat, RollBack
    PROVE  TypeOK'
<1>1. maint' \in [Store -> {"absent", "off", "on"}]
  BY DEF TypeOK, RollBack
<1>2. phase' \in Phase
  BY DEF RollBack, Phase
<1> QED
  BY <1>1, <1>2 DEF TypeOK, RollBack, procs

\* A process that exits leaves well typed state.
LEMMA StopType ==
    ASSUME TypeOK, NEW p \in Process, Stop(p), crashes' \in Nat
    PROVE  TypeOK'
<1>1. phase' \in Phase /\ copied' \subseteq Doc /\ engaged' \in BOOLEAN
  BY DEF Stop, TypeOK, Phase
<1>2. locked' \in BOOLEAN /\ cleaning' \in Store \cup {None} /\ siteCache' \in {"empty", "off", "on"}
  BY DEF Stop, TypeOK
<1> QED
  BY <1>1, <1>2 DEF Stop, TypeOK, disk

\* Type correctness of the switch: whatever fails, crashes or overlaps, a count
\* of records is always of a store and the marker names one.
THEOREM MigrationTypeCorrect == Spec => []TypeOK
<1>1. Init => TypeOK
  <2> SUFFICES ASSUME Init PROVE TypeOK
    OBVIOUS
  <2> store \in [Store -> [Doc -> Nat]]
    BY MigrationConstants DEF Init, Empty
  <2> QED
    BY MigrationConstants DEF Init, TypeOK, NoMarker, Phase
<1>2. TypeOK /\ [Next]_vars => TypeOK'
  <2> SUFFICES ASSUME TypeOK, [Next]_vars PROVE TypeOK'
    OBVIOUS
  <2> USE DEF disk, procs, run, budget
  <2>1. CASE UNCHANGED vars
    BY <2>1 DEF vars, TypeOK
  <2>2. CASE StudioAdmit
    BY <2>2 DEF StudioAdmit, TypeOK
  <2>3. CASE SiteReadFlag
    BY <2>3 DEF SiteReadFlag, TypeOK
  <2>4. CASE SiteCacheExpires
    BY <2>4 DEF SiteCacheExpires, TypeOK
  <2>5. CASE SiteAdmit
    BY <2>5 DEF SiteAdmit, TypeOK
  <2>6. ASSUME NEW p \in Process, FinishRequest(p) PROVE TypeOK'
    <3>1. admitted' \in [Process -> BOOLEAN] /\ UNCHANGED <<on, seen, siteCache, run, cleaning, budget>>
      BY <2>6 DEF FinishRequest, TypeOK
    <3>2. ASSUME NEW d \in Doc, Write(p, d) PROVE TypeOK'
      BY <3>1, <3>2, WriteType DEF TypeOK
    <3>3. CASE UNCHANGED <<disk, acked>>
      BY <3>1, <3>3 DEF TypeOK
    <3> QED
      BY <2>6, <3>2, <3>3 DEF FinishRequest
  <2>7. ASSUME NEW d \in Doc, UngatedWrite(d) PROVE TypeOK'
    BY <2>7, WriteType DEF UngatedWrite, TypeOK, Process
  <2>8. ASSUME NEW t \in Store, StartMigration(t) PROVE TypeOK'
    <3>1. "testing" \in Phase /\ starts + 1 \in Nat
      BY DEF Phase, Running, Before, TypeOK
    <3> QED
      BY <2>8, <3>1 DEF StartMigration, TypeOK
  <2>9. CASE MigrationStep
    <3> USE DEF Advance, Phase, Running, Before, Late
    <3>1. CASE TestTarget
      BY <3>1 DEF TestTarget, TypeOK
    <3>2. CASE RefuseTarget
      BY <3>2, RollBackType DEF RefuseTarget, TypeOK
    <3>3. CASE Lock
      BY <3>3 DEF Lock, TypeOK
    <3>4. CASE EndSleep
      BY <3>4 DEF EndSleep, TypeOK
    <3>5. ASSUME NEW d \in Doc, CopyDoc(d) PROVE TypeOK'
      <4>1. on["studio"] \in Store
        BY <3>5 DEF CopyDoc, TypeOK, Process
      <4> QED
        BY <3>5, <4>1 DEF CopyDoc, TypeOK
    <3>6. CASE EndCopy
      <4>1. on["studio"] \in Store
        BY <3>6 DEF EndCopy, TypeOK, Process
      <4> QED
        BY <3>6, <4>1 DEF EndCopy, TypeOK
    <3>7. CASE Verify
      BY <3>7 DEF Verify, TypeOK
    <3>8. CASE VerifyFails
      BY <3>8, RollBackType DEF VerifyFails, TypeOK
    <3>9. CASE BackupSource
      BY <3>9 DEF BackupSource, TypeOK
    <3>10. CASE ClearMaintenance
      BY <3>10 DEF ClearMaintenance, TypeOK
    <3>11. CASE WriteMarker
      <4>1. Count(to) \in Nat
        BY CountIsNat DEF TypeOK
      <4> QED
        BY <3>11, <4>1 DEF WriteMarker, TypeOK
    <3>12. CASE SaveStorageConfig
      BY <3>12 DEF SaveStorageConfig, TypeOK
    <3>13. CASE AuditCutover
      BY <3>13 DEF AuditCutover, TypeOK
    <3> QED
      BY <2>9, <3>1, <3>2, <3>3, <3>4, <3>5, <3>6, <3>7, <3>8, <3>9, <3>10, <3>11, <3>12, <3>13
      DEF MigrationStep
  <2>10. CASE StepThrows
    BY <2>10, RollBackType DEF StepThrows, TypeOK
  <2>11. CASE CleanupKeep
    BY <2>11 DEF CleanupKeep, TypeOK, NoMarker
  <2>12. CASE CleanupCheck
    BY <2>12 DEF CleanupCheck, TypeOK
  <2>13. CASE CleanupDelete
    BY <2>13 DEF CleanupDelete, TypeOK, NoMarker, Empty
  <2>14. ASSUME NEW p \in Process, Boot(p) PROVE TypeOK'
    BY <2>14 DEF Boot, TypeOK
  <2>15. ASSUME NEW p \in Process, WatchBaseline(p) PROVE TypeOK'
    BY <2>15 DEF WatchBaseline, TypeOK
  <2>16. ASSUME NEW p \in Process, RestartOnChange(p) PROVE TypeOK'
    <3>1. crashes' \in Nat
      BY <2>16 DEF RestartOnChange, TypeOK
    <3> QED
      BY <2>16, <3>1, StopType DEF RestartOnChange
  <2>17. ASSUME NEW p \in Process, Crash(p) PROVE TypeOK'
    <3>1. crashes' \in Nat
      BY <2>17 DEF Crash, TypeOK
    <3> QED
      BY <2>17, <3>1, StopType DEF Crash
  <2> QED
    BY <2>1, <2>2, <2>3, <2>4, <2>5, <2>6, <2>7, <2>8, <2>9, <2>10, <2>11, <2>12, <2>13, <2>14,
       <2>15, <2>16, <2>17 DEF Next
<1> QED
  BY <1>1, <1>2, PTL DEF Spec


-----------------------------------------------------------------------------
\* The inductive invariant of an undisturbed migration (exposure = {}).

\* The run holds the source: every writer is out until storage.json changes.
Held == {"copying", "verifying", "backing-up", "cutover", "cleared", "marked"}

\* The run has tested its target and no other store may be mistaken for it.
Aimed == {"locking", "sleeping"} \cup Held

\* storage.json names the target and the Studio has yet to restart on it.
Switched == {"saved", "awaiting-restart"}

\* The Studio is on the configured store except between the cutover and its
\* restart, and has no request at work while the lock holds.
StudioInv ==
    /\ phase \notin Switched =>
          /\ on["studio"] \in {config, None}
          /\ seen["studio"] \in {-1, saves}
    /\ on["studio"] = None => phase = "none" /\ admitted["studio"] = FALSE
    /\ admitted["studio"] = TRUE => on["studio"] = config
    /\ phase \in {"sleeping"} \cup Held \cup Switched => locked = TRUE
    /\ phase \in Held \cup Switched => admitted["studio"] = FALSE

\* A Site that runs on another store than the configured one, or on the source
\* of a copy, is in maintenance and has no request at work.
SiteInv ==
    /\ on["site"] = None => siteCache = "empty" /\ admitted["site"] = FALSE
    /\ on["site"] # None /\ (on["site"] # config \/ phase \in Held) =>
          maint[on["site"]] = "on" /\ siteCache # "off" /\ admitted["site"] = FALSE

\* The target of a run is in nobody's use, and its source is in maintenance.
TargetInv ==
    /\ phase \in Running \ {"saved"} => from = config
    /\ phase \in {"sleeping"} \cup Held => maint[config] = "on"
    /\ phase \in Aimed => to \notin {config, on["site"], marker.store, cleaning}

\* A cleanup never aims at a store in use, and the marker names a store that
\* holds records, so that no run can take it for an empty target.
CleanInv ==
    /\ cleaning # None => cleaning # config /\ cleaning # on["site"] /\ maint[cleaning] # "absent"
    /\ marker.store # None => maint[marker.store] # "absent"
    /\ marker.store # None /\ phase # "marked" => marker.store # config

\* The configured store is up to date, and so is every document copied.
CopyInv ==
    /\ store[config] = acked
    /\ phase \in {"testing", "locking", "sleeping"} => copied = {}
    /\ phase = "copying" => \A d \in copied : store[to][d] = acked[d]
    /\ phase \in Held \ {"copying"} => store[to] = acked

SwitchInv == StudioInv /\ SiteInv /\ TargetInv /\ CleanInv /\ CopyInv

\* A run in progress has a Studio, on the configured store until the cutover.
LEMMA RunHasStudio ==
    ASSUME TypeOK, SwitchInv, phase \in Running \ {"saved"}
    PROVE  on["studio"] = config /\ config \in Store /\ on["studio"] # None
  BY MigrationConstants DEF SwitchInv, StudioInv, Running, Before, Late, Switched, TypeOK

\* A rollback before the marker is written leaves the source in use.
LEMMA RollBackSwitch ==
    ASSUME TypeOK, SwitchInv, phase \in Running \ {"marked", "saved"}, RollBack
    PROVE  SwitchInv'
<1>1. on["studio"] = config /\ config \in Store /\ on["studio"] # None
  BY RunHasStudio
<1>2. /\ phase' = "failed" /\ UNCHANGED <<config, saves, marker, store, on, seen, admitted, siteCache, cleaning, acked>>
      /\ maint' \in {maint, [maint EXCEPT ![config] = "off"]}
  BY <1>1 DEF RollBack, procs
<1>3. StudioInv'
  BY <1>1, <1>2 DEF SwitchInv, StudioInv, Held, Switched, Running, Before, Late
<1>4. SiteInv'
  BY <1>1, <1>2 DEF SwitchInv, SiteInv, Held, TypeOK, Process
<1>5. TargetInv'
  BY <1>1, <1>2 DEF TargetInv, Held, Aimed, Running, Before, Late
<1>6. CleanInv'
  BY <1>1, <1>2, MigrationConstants DEF SwitchInv, CleanInv, TypeOK
<1>7. CopyInv'
  BY <1>1, <1>2 DEF SwitchInv, CopyInv, Held
<1> QED
  BY <1>3, <1>4, <1>5, <1>6, <1>7 DEF SwitchInv

\* A process that exits takes its requests and its run with it.
LEMMA StopSwitch ==
    ASSUME TypeOK, SwitchInv, NEW p \in Process, Stop(p),
           p = "studio" => phase # "marked"
    PROVE  SwitchInv'
<1> USE MigrationConstants
<1>1. CASE p = "studio"
  <2>1. /\ phase' = "none" /\ cleaning' = None
        /\ on' = [on EXCEPT !["studio"] = None] /\ seen' = [seen EXCEPT !["studio"] = -1]
        /\ admitted' = [admitted EXCEPT !["studio"] = FALSE]
        /\ UNCHANGED <<config, saves, marker, store, maint, siteCache, acked>>
    BY <1>1 DEF Stop, disk
  <2>2. /\ on'["studio"] = None /\ seen'["studio"] = -1 /\ admitted'["studio"] = FALSE
        /\ on'["site"] = on["site"] /\ admitted'["site"] = admitted["site"]
    BY <2>1 DEF TypeOK, Process
  <2>3. StudioInv'
    BY <2>1, <2>2 DEF StudioInv, Held, Switched
  <2>4. SiteInv'
    BY <2>1, <2>2 DEF SwitchInv, SiteInv, Held
  <2>5. TargetInv'
    BY <2>1, <2>2 DEF TargetInv, Held, Aimed, Running, Before, Late
  <2>6. CleanInv'
    BY <1>1, <2>1, <2>2 DEF SwitchInv, CleanInv
  <2>7. CopyInv'
    BY <2>1, <2>2 DEF SwitchInv, CopyInv, Held
  <2> QED
    BY <2>3, <2>4, <2>5, <2>6, <2>7 DEF SwitchInv
<1>2. CASE p = "site"
  <2>1. /\ siteCache' = "empty"
        /\ on' = [on EXCEPT !["site"] = None] /\ seen' = [seen EXCEPT !["site"] = -1]
        /\ admitted' = [admitted EXCEPT !["site"] = FALSE]
        /\ UNCHANGED <<config, saves, marker, store, maint, locked, phase, copied, cleaning, from, to, acked>>
    BY <1>2 DEF Stop, disk
  <2>2. /\ on'["site"] = None /\ admitted'["site"] = FALSE
        /\ on'["studio"] = on["studio"] /\ admitted'["studio"] = admitted["studio"]
        /\ seen'["studio"] = seen["studio"]
    BY <2>1 DEF TypeOK, Process
  <2>3. StudioInv'
    BY <2>1, <2>2 DEF SwitchInv, StudioInv
  <2>4. SiteInv'
    BY <2>1, <2>2 DEF SiteInv
  <2>5. TargetInv'
    BY <2>1, <2>2 DEF SwitchInv, TargetInv, TypeOK
  <2>6. CleanInv'
    BY <2>1, <2>2 DEF SwitchInv, CleanInv
  <2>7. CopyInv'
    BY <2>1, <2>2 DEF SwitchInv, CopyInv
  <2> QED
    BY <2>3, <2>4, <2>5, <2>6, <2>7 DEF SwitchInv
<1> QED
  BY <1>1, <1>2 DEF Process

\* A request that ends wrote, if it wrote at all, to the configured store, and
\* never while a run relies on that store.
LEMMA FinishSwitch ==
    ASSUME TypeOK, SwitchInv, NEW p \in Process, FinishRequest(p)
    PROVE  SwitchInv'
<1>1. /\ admitted[p] = TRUE
      /\ admitted' = [admitted EXCEPT ![p] = FALSE]
      /\ UNCHANGED <<config, saves, marker, maint, on, seen, siteCache, locked, phase, from, to, copied, cleaning>>
  BY DEF FinishRequest, Write, TypeOK, disk, run, budget
<1>2. \A q \in Process : admitted'[q] \in {admitted[q], FALSE}
  BY <1>1 DEF TypeOK
<1>3. on[p] = config /\ phase \notin Held
  BY <1>1, MigrationConstants DEF SwitchInv, StudioInv, SiteInv, TypeOK, Process
<1>4. StudioInv' /\ SiteInv' /\ TargetInv' /\ CleanInv'
  BY <1>1, <1>2 DEF SwitchInv, StudioInv, SiteInv, TargetInv, CleanInv, Process
<1>5. CopyInv'
  <2>1. CASE UNCHANGED <<disk, acked>>
    BY <1>1, <2>1 DEF SwitchInv, CopyInv, disk
  <2>2. ASSUME NEW d \in Doc, Write(p, d) PROVE CopyInv'
    <3>1. store'[config] = [store[config] EXCEPT ![d] = acked[d] + 1]
      BY <2>2, <1>3 DEF Write, TypeOK
    <3> QED
      BY <1>1, <1>3, <2>2, <3>1 DEF Write, SwitchInv, CopyInv, Held
  <2> QED
    BY <2>1, <2>2 DEF FinishRequest
<1> QED
  BY <1>4, <1>5 DEF SwitchInv

\* A run that takes its target has found it empty: it is not the store a Site
\* still runs on, nor one that a marker names or a cleanup is about to delete.
LEMMA TestSwitch ==
    ASSUME TypeOK, SwitchInv, TestTarget
    PROVE  SwitchInv'
<1> USE MigrationConstants
<1>1. /\ phase = "testing" /\ phase' = "locking" /\ from # to /\ to \in Store
      /\ UNCHANGED <<disk, procs, locked, from, to, engaged, copied, cleaning, budget, acked>>
  BY DEF TestTarget, Advance, Refused, TypeOK
<1>2. maint[to] = "absent"
  <2>1. ~(Count(to) > 0)
    BY DEF TestTarget, Refused
  <2>2. Count(to) \in Nat /\ (Count(to) = 0 => maint[to] = "absent")
    BY <1>1, CountIsNat
  <2> QED
    BY <2>1, <2>2
<1>3. to \notin {config, on["site"], marker.store, cleaning}
  BY <1>1, <1>2 DEF SwitchInv, SiteInv, TargetInv, CleanInv, TypeOK, Running, Before, Late
<1>4. StudioInv' /\ SiteInv' /\ CleanInv' /\ CopyInv'
  BY <1>1 DEF SwitchInv, StudioInv, SiteInv, CleanInv, CopyInv, Held, Switched, disk, procs
<1>5. TargetInv'
  BY <1>1, <1>3 DEF SwitchInv, TargetInv, Held, disk, procs, Running, Before, Late
<1> QED
  BY <1>4, <1>5 DEF SwitchInv

\* When the sleep ends every writer is out: the Studio by its lock, the Site by
\* the maintenance flag it has read again since.
LEMMA EndSleepSwitch ==
    ASSUME TypeOK, SwitchInv, exposure = {}, EndSleep
    PROVE  SwitchInv'
<1>1. /\ phase = "sleeping" /\ phase' = "copying" /\ on["studio"] # None
      /\ UNCHANGED <<disk, procs, locked, from, to, engaged, copied, cleaning, budget, acked>>
  BY DEF EndSleep, Advance
<1>2. admitted["studio"] = FALSE /\ admitted["site"] = FALSE
  BY DEF EndSleep, Quiet, TypeOK, Process
<1>3. StudioInv' /\ CleanInv' /\ CopyInv'
  BY <1>1, <1>2 DEF SwitchInv, StudioInv, CleanInv, CopyInv, Held, Switched, disk, procs
<1>4. TargetInv'
  BY <1>1 DEF SwitchInv, TargetInv, Aimed, Held, disk, procs, Running, Before, Late
<1>5. SiteInv'
  <2>1. on["studio"] = config
    BY <1>1 DEF SwitchInv, StudioInv, Switched
  <2>2. on["site"] = config => maint[config] = "on" /\ siteCache # "off"
    BY <1>1, <2>1 DEF SwitchInv, TargetInv, EndSleep, Quiet
  <2> QED
    BY <1>1, <1>2, <2>2 DEF SwitchInv, SiteInv, disk, procs
<1> QED
  BY <1>3, <1>4, <1>5 DEF SwitchInv

\* Every document copied is the last acknowledged one.
LEMMA CopySwitch ==
    ASSUME TypeOK, SwitchInv, NEW d \in Doc, CopyDoc(d)
    PROVE  SwitchInv'
<1>1. /\ phase = "copying" /\ copied' = copied \cup {d}
      /\ UNCHANGED <<config, saves, marker, maint, procs, locked, phase, from, to, cleaning, acked>>
  BY DEF CopyDoc, budget
<1>2. StudioInv' /\ SiteInv' /\ TargetInv' /\ CleanInv'
  BY <1>1 DEF SwitchInv, StudioInv, SiteInv, TargetInv, CleanInv, procs
<1>3. CopyInv'
  <2>1. on["studio"] = config /\ config \in Store /\ to \in Store /\ to # config
    BY <1>1, RunHasStudio DEF SwitchInv, TargetInv, Aimed, Held, Running, Before, Late, TypeOK
  <2>2. /\ store'[config] = store[config]
        /\ store'[to] = [store[to] EXCEPT ![d] = acked[d]]
    BY <2>1 DEF CopyDoc, TypeOK, SwitchInv, CopyInv
  <2> QED
    BY <1>1, <2>1, <2>2 DEF SwitchInv, CopyInv, Held, TypeOK
<1> QED
  BY <1>2, <1>3 DEF SwitchInv

\* A copy that is complete is the configured store, maintenance flag included.
LEMMA EndCopySwitch ==
    ASSUME TypeOK, SwitchInv, EndCopy
    PROVE  SwitchInv'
<1>1. /\ phase = "copying" /\ phase' = "verifying" /\ copied = Doc
      /\ maint' = [maint EXCEPT ![to] = maint[on["studio"]]]
      /\ UNCHANGED <<config, saves, marker, store, procs, locked, from, to, copied, cleaning, acked>>
  BY DEF EndCopy, Advance
<1>2. /\ on["studio"] = config /\ config \in Store /\ to \in Store
      /\ to \notin {config, on["site"], marker.store, cleaning}
  BY <1>1, RunHasStudio DEF SwitchInv, TargetInv, Aimed, Held, Running, Before, Late, TypeOK
<1>3. \A s \in Store : s # to => maint'[s] = maint[s]
  BY <1>1 DEF TypeOK
<1>4. StudioInv'
  BY <1>1 DEF SwitchInv, StudioInv, Held, Switched, procs
<1>5. SiteInv'
  BY <1>1, <1>2, <1>3 DEF SwitchInv, SiteInv, Held, procs, TypeOK, Process
<1>6. TargetInv'
  BY <1>1, <1>2, <1>3 DEF SwitchInv, TargetInv, Aimed, Held, procs, Running, Before, Late
<1>7. CleanInv'
  BY <1>1, <1>2, <1>3 DEF SwitchInv, CleanInv, procs, TypeOK
<1>8. CopyInv'
  <2>1. \A d \in Doc : store[to][d] = acked[d]
    BY <1>1 DEF SwitchInv, CopyInv
  <2>2. store[to] = acked
    BY <1>2, <2>1 DEF TypeOK
  <2> QED
    BY <1>1, <2>2 DEF SwitchInv, CopyInv, Held
<1> QED
  BY <1>4, <1>5, <1>6, <1>7, <1>8 DEF SwitchInv

\* The target serves from the cutover: its flag is cleared, the source's stays.
LEMMA ClearSwitch ==
    ASSUME TypeOK, SwitchInv, ClearMaintenance
    PROVE  SwitchInv'
<1>1. /\ phase = "cutover" /\ phase' = "cleared"
      /\ maint' = [maint EXCEPT ![to] = "off"]
      /\ UNCHANGED <<config, saves, marker, store, procs, locked, from, to, copied, cleaning, acked>>
  BY DEF ClearMaintenance, Advance
<1>2. /\ config \in Store /\ to \in Store
      /\ to \notin {config, on["site"], marker.store, cleaning}
  BY <1>1 DEF SwitchInv, TargetInv, Aimed, Held, TypeOK
<1>3. \A s \in Store : s # to => maint'[s] = maint[s]
  BY <1>1 DEF TypeOK
<1>4. StudioInv'
  BY <1>1 DEF SwitchInv, StudioInv, Held, Switched, procs
<1>5. SiteInv'
  BY <1>1, <1>2, <1>3 DEF SwitchInv, SiteInv, Held, procs, TypeOK, Process
<1>6. TargetInv'
  BY <1>1, <1>2, <1>3 DEF SwitchInv, TargetInv, Aimed, Held, procs, Running, Before, Late
<1>7. CleanInv'
  BY <1>1, <1>2, <1>3 DEF SwitchInv, CleanInv, procs, TypeOK
<1>8. CopyInv'
  BY <1>1 DEF SwitchInv, CopyInv, Held
<1> QED
  BY <1>4, <1>5, <1>6, <1>7, <1>8 DEF SwitchInv

\* The marker goes to disk before storage.json changes and names the source.
LEMMA MarkSwitch ==
    ASSUME TypeOK, SwitchInv, WriteMarker
    PROVE  SwitchInv'
<1>1. /\ phase = "cleared" /\ phase' = "marked"
      /\ marker' = [store |-> from, expected |-> Count(to)]
      /\ UNCHANGED <<config, saves, store, maint, procs, locked, from, to, copied, cleaning, acked>>
  BY DEF WriteMarker, Advance
<1>2. /\ marker'.store = config /\ maint[config] = "on"
      /\ to \notin {config, on["site"], cleaning}
  BY <1>1 DEF SwitchInv, TargetInv, Aimed, Held, Running, Before, Late
<1>3. StudioInv' /\ SiteInv' /\ CopyInv'
  BY <1>1 DEF SwitchInv, StudioInv, SiteInv, CopyInv, Held, Switched, procs
<1>4. TargetInv'
  BY <1>1, <1>2 DEF SwitchInv, TargetInv, Aimed, Held, procs, Running, Before, Late
<1>5. CleanInv'
  BY <1>1, <1>2 DEF SwitchInv, CleanInv, procs
<1> QED
  BY <1>3, <1>4, <1>5 DEF SwitchInv

\* The cutover: the target becomes the configured store and holds what was
\* acknowledged; a Site on the source stays in maintenance until it restarts.
LEMMA SaveSwitch ==
    ASSUME TypeOK, SwitchInv, SaveStorageConfig
    PROVE  SwitchInv'
<1>1. /\ phase = "marked" /\ phase' = "saved" /\ config' = to /\ on["studio"] # None
      /\ UNCHANGED <<marker, store, maint, procs, locked, from, to, copied, cleaning, acked>>
  BY DEF SaveStorageConfig, Advance
<1>2. to \notin {on["site"], marker.store, cleaning}
  BY <1>1 DEF SwitchInv, TargetInv, Aimed, Held
<1>3. StudioInv' /\ TargetInv'
  BY <1>1 DEF SwitchInv, StudioInv, TargetInv, Aimed, Held, Switched, procs
<1>4. SiteInv'
  BY <1>1 DEF SwitchInv, SiteInv, Held, procs
<1>5. CleanInv'
  BY <1>1, <1>2 DEF SwitchInv, CleanInv, procs
<1>6. CopyInv'
  BY <1>1 DEF SwitchInv, CopyInv, Held
<1> QED
  BY <1>3, <1>4, <1>5, <1>6 DEF SwitchInv

\* A cleanup deletes a store that nobody uses and no run copies to.
LEMMA DeleteSwitch ==
    ASSUME TypeOK, SwitchInv, CleanupDelete
    PROVE  SwitchInv'
<1>1. /\ cleaning # None /\ cleaning' = None /\ marker' = NoMarker
      /\ store' = [store EXCEPT ![cleaning] = Empty]
      /\ maint' = [maint EXCEPT ![cleaning] = "absent"]
      /\ UNCHANGED <<config, saves, procs, run, acked>>
  BY DEF CleanupDelete
<1>2. cleaning \notin {config, on["site"]} /\ (phase \in Aimed => cleaning # to)
  BY <1>1 DEF SwitchInv, CleanInv, TargetInv
<1>3. \A s \in Store : s # cleaning => maint'[s] = maint[s] /\ store'[s] = store[s]
  BY <1>1 DEF TypeOK
<1>4. StudioInv'
  BY <1>1 DEF SwitchInv, StudioInv, procs, run
<1>5. SiteInv'
  BY <1>1, <1>2, <1>3 DEF SwitchInv, SiteInv, procs, run, TypeOK, Process
<1>6. TargetInv'
  BY <1>1, <1>2, <1>3, MigrationConstants DEF SwitchInv, TargetInv, NoMarker, procs, run, TypeOK
<1>7. CleanInv'
  BY <1>1 DEF SwitchInv, CleanInv, NoMarker, procs, run
<1>8. CopyInv'
  BY <1>1, <1>2, <1>3 DEF SwitchInv, CopyInv, Held, Aimed, run, TypeOK
<1> QED
  BY <1>4, <1>5, <1>6, <1>7, <1>8 DEF SwitchInv

\* A process boots on the configured store, and a Site that boots on the source
\* of a copy finds it in maintenance.
LEMMA BootSwitch ==
    ASSUME TypeOK, SwitchInv, NEW p \in Process, Boot(p)
    PROVE  SwitchInv'
<1>1. /\ on[p] = None /\ on' = [on EXCEPT ![p] = config]
      /\ UNCHANGED <<disk, seen, admitted, siteCache, run, cleaning, acked>>
  BY DEF Boot, budget
<1>2. \A q \in Process : on'[q] = IF q = p THEN config ELSE on[q]
  BY <1>1 DEF TypeOK
<1>3. StudioInv'
  BY <1>1, <1>2 DEF SwitchInv, StudioInv, Process, disk, run
<1>4. SiteInv'
  BY <1>1, <1>2 DEF SwitchInv, SiteInv, TargetInv, Process, disk, run
<1>5. TargetInv'
  BY <1>1, <1>2 DEF SwitchInv, TargetInv, Process, disk, run
<1>6. CleanInv'
  BY <1>1, <1>2 DEF SwitchInv, CleanInv, Process, disk, run
<1>7. CopyInv'
  BY <1>1 DEF SwitchInv, CopyInv, disk, run
<1> QED
  BY <1>3, <1>4, <1>5, <1>6, <1>7 DEF SwitchInv

\* The steps of a run that change nothing but its phase.
LEMMA AdvanceSwitch ==
    ASSUME TypeOK, SwitchInv, Verify \/ BackupSource \/ AuditCutover
    PROVE  SwitchInv'
<1>1. /\ \/ phase = "verifying" /\ phase' = "backing-up"
         \/ phase = "backing-up" /\ phase' = "cutover"
         \/ phase = "saved" /\ phase' = "awaiting-restart"
      /\ UNCHANGED <<disk, procs, locked, from, to, copied, cleaning, acked>>
  BY DEF Verify, BackupSource, AuditCutover, Advance
<1>2. StudioInv' /\ SiteInv' /\ CleanInv' /\ CopyInv'
  BY <1>1 DEF SwitchInv, StudioInv, SiteInv, CleanInv, CopyInv, Held, Switched, disk, procs
<1>3. TargetInv'
  BY <1>1 DEF SwitchInv, TargetInv, Aimed, Held, disk, procs, Running, Before, Late
<1> QED
  BY <1>2, <1>3 DEF SwitchInv

\* The invariant holds in every state of an undisturbed migration.
LEMMA SwitchInvariant == Spec => [](exposure = {} => SwitchInv)
<1> USE MigrationConstants
<1>1. Init => SwitchInv
  BY DEF Init, NoMarker, SwitchInv, StudioInv, SiteInv, TargetInv, CleanInv, CopyInv,
         Held, Aimed, Switched, Running, Before, Late, Process
<1>2. TypeOK /\ (exposure = {} => SwitchInv) /\ [Next]_vars => (exposure = {} => SwitchInv)'
  <2> SUFFICES ASSUME TypeOK, exposure = {} => SwitchInv, [Next]_vars, exposure' = {}
               PROVE  SwitchInv'
    OBVIOUS
  <2>e. exposure' = exposure
    <3> USE DEF budget
    <3>1. CASE UNCHANGED vars
      BY <3>1 DEF vars
    <3>2. CASE MigrationStep
      BY <3>2 DEF MigrationStep, TestTarget, RefuseTarget, Lock, EndSleep, CopyDoc, EndCopy, Verify,
         VerifyFails, BackupSource, ClearMaintenance, WriteMarker, SaveStorageConfig,
         AuditCutover, RollBack
    <3>3. CASE StepThrows \/ CleanupKeep \/ CleanupCheck \/ CleanupDelete
      BY <3>3 DEF StepThrows, RollBack, CleanupKeep, CleanupCheck, CleanupDelete
    <3>4. ASSUME NEW p \in Process, Boot(p) \/ WatchBaseline(p) \/ RestartOnChange(p) \/ Crash(p)
          PROVE  exposure' = exposure
      BY <3>4 DEF Boot, WatchBaseline, RestartOnChange, Crash, Stop
    <3>5. CASE StudioAdmit \/ SiteReadFlag \/ SiteCacheExpires \/ SiteAdmit
      BY <3>5 DEF StudioAdmit, SiteReadFlag, SiteCacheExpires, SiteAdmit
    <3>6. ASSUME NEW p \in Process, FinishRequest(p) PROVE exposure' = exposure
      BY <3>6 DEF FinishRequest
    <3>7. ASSUME NEW d \in Doc, UngatedWrite(d) PROVE exposure' = exposure
      BY <3>7 DEF UngatedWrite
    <3>8. ASSUME NEW t \in Store, StartMigration(t) PROVE exposure' = exposure
      BY <3>8 DEF StartMigration
    <3> QED
      BY <3>1, <3>2, <3>3, <3>4, <3>5, <3>6, <3>7, <3>8 DEF Next
  <2>i. exposure = {} /\ SwitchInv
    BY <2>e
  <2> USE DEF disk, procs, run, budget
  <2>1. CASE UNCHANGED vars
    BY <2>1, <2>i DEF vars, SwitchInv, StudioInv, SiteInv, TargetInv, CleanInv, CopyInv
  <2>2. CASE StudioAdmit
    <3>1. /\ locked # TRUE /\ on["studio"] # None
          /\ admitted'["studio"] = TRUE /\ admitted'["site"] = admitted["site"]
          /\ UNCHANGED <<disk, on, seen, siteCache, run, cleaning, acked>>
      BY <2>2 DEF StudioAdmit, TypeOK, Process
    <3>2. StudioInv'
      BY <2>i, <3>1 DEF SwitchInv, StudioInv
    <3> QED
      BY <2>i, <3>1, <3>2 DEF SwitchInv, SiteInv, TargetInv, CleanInv, CopyInv
  <2>3. CASE SiteReadFlag
    BY <2>3, <2>i DEF SiteReadFlag, SwitchInv, StudioInv, SiteInv, TargetInv, CleanInv, CopyInv
  <2>4. CASE SiteCacheExpires
    BY <2>4, <2>i DEF SiteCacheExpires, SwitchInv, StudioInv, SiteInv, TargetInv, CleanInv, CopyInv
  <2>5. CASE SiteAdmit
    <3>1. /\ siteCache = "off" /\ on["site"] # None
          /\ admitted'["site"] = TRUE /\ admitted'["studio"] = admitted["studio"]
          /\ UNCHANGED <<disk, on, seen, siteCache, run, cleaning, acked>>
      BY <2>5 DEF SiteAdmit, TypeOK, Process
    <3> QED
      BY <2>i, <3>1 DEF SwitchInv, StudioInv, SiteInv, TargetInv, CleanInv, CopyInv
  <2>6. ASSUME NEW p \in Process, FinishRequest(p) PROVE SwitchInv'
    BY <2>6, <2>i, FinishSwitch
  <2>7. ASSUME NEW d \in Doc, UngatedWrite(d) PROVE SwitchInv'
    BY <2>7, <2>i DEF UngatedWrite
  <2>8. ASSUME NEW t \in Store, StartMigration(t) PROVE SwitchInv'
    <3>1. /\ phase \in {"none", "failed"} /\ on["studio"] # None
          /\ phase' = "testing" /\ from' = config /\ to' = t /\ copied' = {}
          /\ UNCHANGED <<disk, procs, locked, cleaning, acked>>
      BY <2>8, <2>i DEF StartMigration
    <3>2. StudioInv' /\ SiteInv' /\ CleanInv' /\ CopyInv'
      BY <2>i, <3>1 DEF SwitchInv, StudioInv, SiteInv, CleanInv, CopyInv, Held, Switched
    <3>3. TargetInv'
      BY <3>1 DEF TargetInv, Aimed, Held
    <3> QED
      BY <3>2, <3>3 DEF SwitchInv
  <2>9. CASE MigrationStep
    <3>1. CASE Lock
      <4>1. /\ phase = "locking" /\ phase' = "sleeping" /\ locked' = TRUE
            /\ maint' = [maint EXCEPT ![on["studio"]] = "on"]
            /\ UNCHANGED <<config, saves, marker, store, procs, from, to, copied, cleaning, acked>>
        BY <3>1 DEF Lock, Advance
      <4>2. on["studio"] = config /\ config \in Store
        BY <4>1, <2>i, RunHasStudio DEF Running, Before, Late
      <4>3. maint'[config] = "on" /\ \A s \in Store : maint'[s] \in {maint[s], "on"}
        BY <4>1, <4>2 DEF TypeOK
      <4>4. StudioInv' /\ CopyInv'
        BY <2>i, <4>1 DEF SwitchInv, StudioInv, CopyInv, Held, Switched
      <4>5. SiteInv'
        BY <2>i, <4>1, <4>3 DEF SwitchInv, SiteInv, Held, TypeOK, Process
      <4>6. TargetInv'
        BY <2>i, <4>1, <4>3 DEF SwitchInv, TargetInv, Aimed, Held, Running, Before, Late
      <4>7. CleanInv'
        BY <2>i, <4>1, <4>3 DEF SwitchInv, CleanInv, TypeOK
      <4> QED
        BY <4>4, <4>5, <4>6, <4>7 DEF SwitchInv
    <3>2. CASE RefuseTarget \/ VerifyFails
      BY <3>2, <2>i, RollBackSwitch DEF RefuseTarget, VerifyFails, Running, Before, Late
    <3> QED
      BY <2>9, <2>i, <3>1, <3>2, TestSwitch, EndSleepSwitch, CopySwitch, EndCopySwitch,
         AdvanceSwitch, ClearSwitch, MarkSwitch, SaveSwitch DEF MigrationStep
  <2>10. CASE StepThrows
    BY <2>10, <2>i, RollBackSwitch DEF StepThrows
  <2>11. CASE CleanupKeep
    <3>1. marker'.store = None
      BY <2>11 DEF CleanupKeep, NoMarker
    <3> QED
      BY <2>11, <2>i, <3>1 DEF CleanupKeep, SwitchInv, StudioInv, SiteInv, TargetInv, CleanInv,
         CopyInv, TypeOK
  <2>12. CASE CleanupCheck
    <3>1. /\ phase \in {"none", "failed"} /\ on["site"] = config
          /\ cleaning' = marker.store
          /\ UNCHANGED <<disk, procs, run, acked>>
      BY <2>12, <2>i DEF CleanupCheck, Process
    <3> QED
      BY <2>i, <3>1 DEF SwitchInv, StudioInv, SiteInv, TargetInv, CleanInv, CopyInv, Aimed, Held
  <2>13. CASE CleanupDelete
    BY <2>13, <2>i, DeleteSwitch
  <2>14. ASSUME NEW p \in Process, Boot(p) PROVE SwitchInv'
    BY <2>14, <2>i, BootSwitch
  <2>15. ASSUME NEW p \in Process, WatchBaseline(p) PROVE SwitchInv'
    <3>1. /\ seen'["studio"] \in {seen["studio"], saves}
          /\ UNCHANGED <<disk, on, admitted, siteCache, run, cleaning, acked>>
      BY <2>15 DEF WatchBaseline, TypeOK, Process
    <3> QED
      BY <2>i, <3>1 DEF SwitchInv, StudioInv, SiteInv, TargetInv, CleanInv, CopyInv
  <2>16. ASSUME NEW p \in Process, RestartOnChange(p) PROVE SwitchInv'
    <3>1. p = "studio" => phase # "marked"
      BY <2>16, <2>i DEF RestartOnChange, SwitchInv, StudioInv, Switched
    <3> QED
      BY <2>16, <2>i, <3>1, StopSwitch DEF RestartOnChange
  <2>17. ASSUME NEW p \in Process, Crash(p) PROVE SwitchInv'
    BY <2>17, <2>i, StopSwitch DEF Crash
  <2> QED
    BY <2>1, <2>2, <2>3, <2>4, <2>5, <2>6, <2>7, <2>8, <2>9, <2>10, <2>11, <2>12, <2>13, <2>14,
       <2>15, <2>16, <2>17 DEF Next
<1> QED
  BY <1>1, <1>2, MigrationTypeCorrect, PTL DEF Spec

\* No acknowledged write is lost in an undisturbed migration, for any number of
\* stores, documents, migrations, failing steps and crashes: what storage.json
\* names holds the last acknowledged version of every document
\* (db-manager.ts:415-470, 566-591; migration-lock.ts:3-5).
THEOREM UndisturbedLosesNothing == Spec => []NoAcknowledgedWriteLost
<1>1. (exposure = {} => SwitchInv) => NoAcknowledgedWriteLost
  BY DEF SwitchInv, CopyInv, NoAcknowledgedWriteLost
<1> QED
  BY <1>1, SwitchInvariant, PTL

=============================================================================
