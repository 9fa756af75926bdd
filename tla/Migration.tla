------------------------------ MODULE Migration ------------------------------
(***************************************************************************)
(* The Database Manager's switch of storage backend: runMigration and      *)
(* cleanup of apps/studio/src/db-manager.ts, the in-memory migration lock  *)
(* of the Studio, the Site's cached maintenance flag, storage.json, its    *)
(* ".previous" marker, and the watcher that restarts both processes on the *)
(* store storage.json names.                                               *)
(*                                                                         *)
(* A store is a map from documents to versions, 0 meaning "no document";   *)
(* the settings document is its maintenanceMode flag, kept in maint:       *)
(* "absent", "off" or "on".                                                *)
(*                                                                         *)
(* exposure is the set of environment behaviours that a run lets happen,   *)
(* one of Exposures.  With exposure = {} a migration is undisturbed; every *)
(* element is something the code does not exclude:                         *)
(*   "ungated"       writers that test neither the lock nor maintenance:   *)
(*                   scheduler ticks, login and session routes             *)
(*   "slow-request"  a request admitted before the lock that is still      *)
(*                   running when the propagation sleep (3.5 s) is over    *)
(*   "start-again"   a second start while the first one awaits its restart *)
(*   "early-cleanup" a cleanup before both processes have restarted        *)
(*   "torn-cutover"  a crash, or a failing save, between the writes of the *)
(*                   marker and of storage.json                            *)
(*   "late-fault"    a failure of the audit append after storage.json      *)
(*   "boot-overlap"  storage.json saved while a process is booting         *)
(***************************************************************************)
EXTENDS Integers, FiniteSets

CONSTANTS
    Store,        \* the stores a configuration can name
    Initial,      \* the one in use at first
    Doc,          \* documents
    None,         \* no store (a process that is down, no marker, no cleanup)
    MaxVersion,   \* bound: versions of a document
    MaxStarts,    \* bound: migrations started
    MaxFaults,    \* bound: failing steps of a migration
    MaxCrashes,   \* bound: process crashes
    Exposures     \* sets of environment behaviours, see above

ASSUME MigrationConstants ==
    /\ Initial \in Store /\ None \notin Store
    /\ IsFiniteSet(Doc)
    /\ MaxVersion \in Nat /\ MaxStarts \in Nat
    /\ MaxFaults \in Nat /\ MaxCrashes \in Nat
    /\ Exposures \subseteq SUBSET {"ungated", "slow-request", "start-again", "early-cleanup",
                                   "torn-cutover", "late-fault", "boot-overlap"}

Process == {"studio", "site"}

VARIABLES
    config,      \* the store storage.json names
    saves,       \* times storage.json was written: its mtime
    marker,      \* storage.json.previous: [store, expected], store None if absent
    store,       \* contents of every store
    maint,       \* settings.maintenanceMode in every store
    on,          \* the store each process opened at boot, None when it is down
    seen,        \* the mtime each process's watcher compares with, -1 before it has one
    admitted,    \* each process has a mutating request past its guard
    siteCache,   \* the Site's maintCache: "empty", "off" or "on"
    locked,      \* the Studio's migration lock
    phase,       \* of the current migration run
    from, to,    \* its source configuration and its target
    engaged,     \* its maintenanceEngaged flag
    copied,      \* documents it has copied
    cleaning,    \* the store a cleanup decided to delete, or None
    starts, faults, crashes,
    exposure,    \* the environment behaviours of this run
    acked        \* history: the version of every document last acknowledged

disk == <<config, saves, marker, store, maint>>
procs == <<on, seen, admitted, siteCache>>
run == <<locked, phase, from, to, engaged, copied>>
budget == <<starts, faults, crashes, exposure>>
vars == <<disk, procs, run, cleaning, budget, acked>>

Before == {"testing", "locking", "sleeping", "copying", "verifying", "backing-up", "cutover"}
Late == {"cleared", "marked", "saved"}
Running == Before \cup Late
Phase == Running \cup {"none", "failed", "awaiting-restart"}

NoMarker == [store |-> None, expected |-> 0]
Empty == [d \in Doc |-> 0]

\* countByCollection: what verification compares is a number of records.
Count(s) == Cardinality({d \in Doc : store[s][d] > 0})
            + (IF maint[s] = "absent" THEN 0 ELSE 1)

TypeOK ==
    /\ config \in Store
    /\ saves \in Nat
    /\ marker \in [store : Store \cup {None}, expected : Nat]
    /\ store \in [Store -> [Doc -> Nat]]
    /\ maint \in [Store -> {"absent", "off", "on"}]
    /\ on \in [Process -> Store \cup {None}]
    /\ seen \in [Process -> Nat \cup {-1}]
    /\ admitted \in [Process -> BOOLEAN]
    /\ siteCache \in {"empty", "off", "on"}
    /\ locked \in BOOLEAN
    /\ phase \in Phase
    /\ from \in Store /\ to \in Store
    /\ engaged \in BOOLEAN
    /\ copied \subseteq Doc
    /\ cleaning \in Store \cup {None}
    /\ starts \in Nat /\ faults \in Nat /\ crashes \in Nat
    /\ exposure \in Exposures
    /\ acked \in [Doc -> Nat]

Init ==
    /\ config = Initial
    /\ saves = 0
    /\ marker = NoMarker
    /\ acked \in [Doc -> {0, 1}]
    /\ store = [s \in Store |-> IF s = Initial THEN acked ELSE Empty]
    /\ maint = [s \in Store |-> IF s = Initial THEN "off" ELSE "absent"]
    /\ on = [p \in Process |-> Initial]
    /\ seen = [p \in Process |-> 0]
    /\ admitted = [p \in Process |-> FALSE]
    /\ siteCache = "empty"
    /\ locked = FALSE
    /\ phase = "none"
    /\ from = Initial /\ to = Initial
    /\ engaged = FALSE
    /\ copied = {}
    /\ cleaning = None
    /\ starts = 0 /\ faults = 0 /\ crashes = 0
    /\ exposure \in Exposures

-----------------------------------------------------------------------------
\* Requests.  The Studio tests the lock when a mutating request arrives; the
\* Site tests a maintenance flag it re-reads from its store when the cached one
\* has expired.  The write happens later, in whatever store the process opened.

Write(p, d) ==
    /\ on[p] # None
    /\ acked[d] < MaxVersion
    /\ acked' = [acked EXCEPT ![d] = @ + 1]
    /\ store' = [store EXCEPT ![on[p]][d] = acked[d] + 1]
    /\ UNCHANGED <<config, saves, marker, maint>>

StudioAdmit ==
    /\ on["studio"] # None /\ ~admitted["studio"]
    /\ ~locked
    /\ admitted' = [admitted EXCEPT !["studio"] = TRUE]
    /\ UNCHANGED <<disk, on, seen, siteCache, run, cleaning, budget, acked>>

SiteReadFlag ==
    /\ on["site"] # None
    /\ siteCache = "empty"
    /\ siteCache' = IF maint[on["site"]] = "on" THEN "on" ELSE "off"
    /\ UNCHANGED <<disk, on, seen, admitted, run, cleaning, budget, acked>>

SiteCacheExpires ==
    /\ siteCache # "empty"
    /\ siteCache' = "empty"
    /\ UNCHANGED <<disk, on, seen, admitted, run, cleaning, budget, acked>>

SiteAdmit ==
    /\ on["site"] # None /\ ~admitted["site"]
    /\ siteCache = "off"
    /\ admitted' = [admitted EXCEPT !["site"] = TRUE]
    /\ UNCHANGED <<disk, on, seen, siteCache, run, cleaning, budget, acked>>

FinishRequest(p) ==
    /\ admitted[p]
    /\ admitted' = [admitted EXCEPT ![p] = FALSE]
    /\ \/ \E d \in Doc : Write(p, d)
       \/ UNCHANGED <<disk, acked>>
    /\ UNCHANGED <<on, seen, siteCache, run, cleaning, budget>>

\* A scheduler tick or a login: no guard at all.
UngatedWrite(d) ==
    /\ "ungated" \in exposure
    /\ Write("studio", d)
    /\ UNCHANGED <<procs, run, cleaning, budget>>

-----------------------------------------------------------------------------
\* startMigration and runMigration, one action per awaited step.  The source
\* of the copy is the store the Studio has open; from is what storage.json says.

StartMigration(t) ==
    /\ on["studio"] # None
    /\ \/ phase \in {"none", "failed"}
       \/ phase = "awaiting-restart" /\ "start-again" \in exposure
    /\ starts < MaxStarts
    /\ starts' = starts + 1
    /\ phase' = "testing"
    /\ from' = config
    /\ to' = t
    /\ engaged' = FALSE
    /\ copied' = {}
    /\ UNCHANGED <<disk, procs, locked, cleaning, faults, crashes, exposure, acked>>

\* Mutant: the catch block does not report the failure.
RollBackKeepsPhase ==
    /\ maint' = IF engaged THEN [maint EXCEPT ![on["studio"]] = "off"] ELSE maint
    /\ locked' = FALSE
    /\ UNCHANGED <<config, saves, marker, store, procs, phase, from, to, engaged, copied,
                   cleaning, starts, crashes, exposure, acked>>

\* The catch block: maintenance off if it was switched on, lock released.
RollBack ==
    /\ maint' = IF engaged THEN [maint EXCEPT ![on["studio"]] = "off"] ELSE maint
    /\ locked' = FALSE
    /\ phase' = "failed"
    /\ UNCHANGED <<config, saves, marker, store, procs, from, to, engaged, copied,
                   cleaning, starts, crashes, exposure, acked>>

Advance(p, q) ==
    /\ on["studio"] # None
    /\ phase = p
    /\ phase' = q

\* Same backend, or a target that already holds data: refused.
Refused == from = to \/ Count(to) > 0

TestTarget ==
    /\ Advance("testing", "locking")
    /\ ~Refused
    /\ UNCHANGED <<disk, procs, locked, from, to, engaged, copied, cleaning, budget, acked>>

RefuseTarget ==
    /\ phase = "testing"
    /\ Refused
    /\ RollBack
    /\ UNCHANGED faults

\* Mutant: lock() is forgotten.
LockWithoutLock ==
    /\ Advance("locking", "sleeping")
    /\ maint' = [maint EXCEPT ![on["studio"]] = "on"]
    /\ engaged' = TRUE
    /\ UNCHANGED <<config, saves, marker, store, procs, locked, from, to, copied,
                   cleaning, budget, acked>>

Lock ==
    /\ Advance("locking", "sleeping")
    /\ locked' = TRUE
    /\ maint' = [maint EXCEPT ![on["studio"]] = "on"]
    /\ engaged' = TRUE
    /\ UNCHANGED <<config, saves, marker, store, procs, from, to, copied, cleaning,
                   budget, acked>>

\* The sleep (3.5 s) outlasts the Site's cache (3 s): a flag read as "off"
\* before the switch has expired.  Requests are over too unless they are slow.
Quiet ==
    /\ on["site"] = on["studio"] => siteCache # "off"
    /\ "slow-request" \notin exposure => \A p \in Process : ~admitted[p]

\* Mutant: no sleep.
EndSleepAtOnce ==
    /\ Advance("sleeping", "copying")
    /\ UNCHANGED <<disk, procs, locked, from, to, engaged, copied, cleaning, budget, acked>>

EndSleep ==
    /\ Advance("sleeping", "copying")
    /\ Quiet
    /\ UNCHANGED <<disk, procs, locked, from, to, engaged, copied, cleaning, budget, acked>>

CopyDoc(d) ==
    /\ on["studio"] # None /\ phase = "copying"
    /\ d \notin copied
    /\ store' = [store EXCEPT ![to][d] = store[on["studio"]][d]]
    /\ copied' = copied \cup {d}
    /\ UNCHANGED <<config, saves, marker, maint, procs, locked, phase, from, to, engaged,
                   cleaning, budget, acked>>

\* The settings document is one of those copied: its flag comes along.
EndCopy ==
    /\ Advance("copying", "verifying")
    /\ copied = Doc
    /\ maint' = [maint EXCEPT ![to] = maint[on["studio"]]]
    /\ UNCHANGED <<config, saves, marker, store, procs, locked, from, to, engaged, copied,
                   cleaning, budget, acked>>

Verify ==
    /\ Advance("verifying", "backing-up")
    /\ Count(on["studio"]) = Count(to)
    /\ UNCHANGED <<disk, procs, locked, from, to, engaged, copied, cleaning, budget, acked>>

VerifyFails ==
    /\ phase = "verifying"
    /\ Count(on["studio"]) # Count(to)
    /\ RollBack
    /\ UNCHANGED faults

\* The credential is sealed and the source backed up: neither changes a store.
BackupSource ==
    /\ Advance("backing-up", "cutover")
    /\ UNCHANGED <<disk, procs, locked, from, to, engaged, copied, cleaning, budget, acked>>

\* Mutant: the flag that came along with the copy is left on.
ClearMaintenanceForgotten ==
    /\ Advance("cutover", "cleared")
    /\ UNCHANGED <<disk, procs, locked, from, to, engaged, copied, cleaning, budget, acked>>

ClearMaintenance ==
    /\ Advance("cutover", "cleared")
    /\ maint' = [maint EXCEPT ![to] = "off"]
    /\ UNCHANGED <<config, saves, marker, store, procs, locked, from, to, engaged, copied,
                   cleaning, budget, acked>>

\* Mutant: the marker describes the new store.
WriteMarkerOfTarget ==
    /\ Advance("cleared", "marked")
    /\ marker' = [store |-> to, expected |-> Count(to)]
    /\ UNCHANGED <<config, saves, store, maint, procs, locked, from, to, engaged, copied,
                   cleaning, budget, acked>>

WriteMarker ==
    /\ Advance("cleared", "marked")
    /\ marker' = [store |-> from, expected |-> Count(to)]
    /\ UNCHANGED <<config, saves, store, maint, procs, locked, from, to, engaged, copied,
                   cleaning, budget, acked>>

SaveStorageConfig ==
    /\ Advance("marked", "saved")
    /\ "boot-overlap" \notin exposure =>
          \A p \in Process : on[p] # None => seen[p] >= 0
    /\ config' = to
    /\ saves' = saves + 1
    /\ UNCHANGED <<marker, store, maint, procs, locked, from, to, engaged, copied,
                   cleaning, budget, acked>>

AuditCutover ==
    /\ Advance("saved", "awaiting-restart")
    /\ UNCHANGED <<disk, procs, locked, from, to, engaged, copied, cleaning, budget, acked>>

\* Any awaited step may throw.
StepThrows ==
    /\ phase \in Running
    /\ phase = "marked" => "torn-cutover" \in exposure
    /\ phase = "saved" => "late-fault" \in exposure
    /\ faults < MaxFaults
    /\ faults' = faults + 1
    /\ RollBack

-----------------------------------------------------------------------------
\* cleanup: keep drops the marker; otherwise the store the Studio has open must
\* hold as many records as were migrated, and the store the marker names goes.

CleanupKeep ==
    /\ on["studio"] # None
    /\ marker # NoMarker
    /\ marker' = NoMarker
    /\ UNCHANGED <<config, saves, store, maint, procs, run, cleaning, budget, acked>>

CleanupCheck ==
    /\ on["studio"] # None
    /\ marker # NoMarker /\ cleaning = None
    /\ \/ "early-cleanup" \in exposure
       \/ phase \in {"none", "failed"} /\ \A p \in Process : on[p] = config
    /\ Count(on["studio"]) >= marker.expected
    /\ cleaning' = marker.store
    /\ UNCHANGED <<disk, procs, run, budget, acked>>

CleanupDelete ==
    /\ cleaning # None
    /\ store' = [store EXCEPT ![cleaning] = Empty]
    /\ maint' = [maint EXCEPT ![cleaning] = "absent"]
    /\ marker' = NoMarker
    /\ cleaning' = None
    /\ UNCHANGED <<config, saves, procs, run, budget, acked>>

-----------------------------------------------------------------------------
\* Processes.  watchStorageConfig takes its first mtime some time after the
\* process loaded storage.json, and fires on a later mtime that differs.

Stop(p) ==
    /\ on' = [on EXCEPT ![p] = None]
    /\ seen' = [seen EXCEPT ![p] = -1]
    /\ admitted' = [admitted EXCEPT ![p] = FALSE]
    /\ IF p = "site"
       THEN siteCache' = "empty" /\ UNCHANGED <<locked, phase, engaged, copied, cleaning>>
       ELSE /\ locked' = FALSE /\ phase' = "none" /\ engaged' = FALSE /\ copied' = {}
            /\ cleaning' = None
            /\ UNCHANGED siteCache
    /\ UNCHANGED <<disk, from, to, starts, faults, exposure, acked>>

Boot(p) ==
    /\ on[p] = None
    /\ on' = [on EXCEPT ![p] = config]
    /\ UNCHANGED <<disk, seen, admitted, siteCache, run, cleaning, budget, acked>>

WatchBaseline(p) ==
    /\ on[p] # None /\ seen[p] = -1
    /\ seen' = [seen EXCEPT ![p] = saves]
    /\ UNCHANGED <<disk, on, admitted, siteCache, run, cleaning, budget, acked>>

\* Mutant: the watcher fires only when storage.json is created.
RestartOnCreate(p) ==
    /\ on[p] # None /\ seen[p] = 0 /\ saves # 0
    /\ Stop(p)
    /\ UNCHANGED crashes

RestartOnChange(p) ==
    /\ on[p] # None /\ seen[p] >= 0 /\ seen[p] # saves
    /\ Stop(p)
    /\ UNCHANGED crashes

Crash(p) ==
    /\ on[p] # None
    /\ crashes < MaxCrashes
    /\ p = "studio" /\ phase = "marked" => "torn-cutover" \in exposure
    /\ crashes' = crashes + 1
    /\ Stop(p)

MigrationStep ==
    \/ TestTarget \/ RefuseTarget \/ Lock \/ EndSleep \/ (\E d \in Doc : CopyDoc(d))
    \/ EndCopy \/ Verify \/ VerifyFails \/ BackupSource \/ ClearMaintenance
    \/ WriteMarker \/ SaveStorageConfig \/ AuditCutover

Next ==
    \/ StudioAdmit \/ SiteReadFlag \/ SiteCacheExpires \/ SiteAdmit
    \/ \E p \in Process : FinishRequest(p)
    \/ \E d \in Doc : UngatedWrite(d)
    \/ \E t \in Store : StartMigration(t)
    \/ MigrationStep \/ StepThrows
    \/ CleanupKeep \/ CleanupCheck \/ CleanupDelete
    \/ \E p \in Process : Boot(p) \/ WatchBaseline(p) \/ RestartOnChange(p) \/ Crash(p)

Spec == Init /\ [][Next]_vars

\* An awaited step ends, a request ends, the cache runs out, the supervisor
\* restarts what exited and the poll of storage.json keeps running.  Nobody is
\* obliged to start a migration, to send a request or to clean up.
Fairness ==
    /\ WF_vars(MigrationStep)
    /\ WF_vars(SiteCacheExpires)
    /\ \A p \in Process :
        WF_vars(FinishRequest(p)) /\ WF_vars(Boot(p)) /\ WF_vars(WatchBaseline(p))
        /\ WF_vars(RestartOnChange(p))

FairSpec == Spec /\ Fairness

-----------------------------------------------------------------------------
\* Properties.

\* No acknowledged write is lost in an undisturbed migration, its cleanup, a failing step or a crash: the
\* store that storage.json names, the one every later boot opens, holds the last acknowledged version of
\* every document.  The count that step 4 compares cannot see an update, so it is the lock and the
\* maintenance flag that keep every writer out (migration-lock.ts:3-5, db-manager.ts:415-470, 566-591).
NoAcknowledgedWriteLost == exposure = {} => store[config] = acked

\* What the code does not exclude loses one: the same, whatever disturbs the migration.
NoWriteLostAtAll == store[config] = acked

\* A migration that started ends, in failure or in the restart of the Studio.
MigrationEnds == phase \in Running ~> phase \in {"none", "failed"}

\* Both processes come to run on the store that storage.json names
\* (RUNBOOK-pressh.md:188-189).
ProcessesFollowConfig == []<>(\A p \in Process : on[p] = config)

\* Whatever fails, crashes or overlaps, a migration ends and leaves both processes on one store
\* (db-manager.ts runMigration, storage-config.ts watchStorageConfig).
MigrationsSettle == MigrationEnds /\ ProcessesFollowConfig

\* The public Site does not stay in maintenance: the flag that a migration set
\* on the configured store is lifted again, by the rollback or by the cutover,
\* whichever step fails (db-manager.ts:452-453, 478-482).  A crash of the Studio
\* leaves it on: the run that would lift it lives in memory.
MaintenanceIsLifted == []<>(maint[config] # "on" \/ crashes > 0)
=============================================================================
