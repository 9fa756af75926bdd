------------------------------ MODULE Scheduler ------------------------------
(***************************************************************************)
(* The persisted job scheduler of packages/core/src/scheduler.ts.  Job     *)
(* records live in storage and outlive the process; a tick loads the due   *)
(* jobs and works through them, re-reading each before it claims it, on a  *)
(* private copy of the record that it writes back whole.  Ticks are fired  *)
(* by an interval that does not wait for the one before, so several may be *)
(* at work in one process.                                                 *)
(***************************************************************************)
EXTENDS Integers, FiniteSets

CONSTANTS
    Job,              \* job ids
    Handled,          \* those whose type has a registered handler
    Tick,             \* ticks that can be at work at the same time
    MaxAttempts,      \* maxAttempts: runs of a failing job
    Horizon,          \* bound: the clock
    MaxThrows,        \* bound: handlers that throw
    MaxAuditFaults,   \* bound: failing audit appends
    MaxCrashes        \* bound: process crashes

ASSUME SchedulerConstants ==
    /\ Handled \subseteq Job
    /\ MaxAttempts \in Nat \ {0}
    /\ Horizon \in Nat /\ MaxThrows \in Nat
    /\ MaxAuditFaults \in Nat /\ MaxCrashes \in Nat

VARIABLES
    job,       \* the stored records: [status, attempts, runAt]
    pc,        \* where each tick is
    due,       \* the jobs each tick has still to look at
    cur,       \* the job each tick is at
    copy,      \* its private copy of that job's record
    clock, throws, auditFaults, crashes,
    runs,      \* history: how often each handler was called
    overlapped \* history: a tick started while another was at work

ticks == <<pc, due, cur, copy>>
budget == <<throws, auditFaults, crashes>>
history == <<runs, overlapped>>
schedulerVars == <<job, ticks, clock, budget, history>>

Status == {"none", "pending", "running", "done", "failed"}
JobRecord == [status : Status, attempts : Nat, runAt : Nat]
Absent == [status |-> "none", attempts |-> 0, runAt |-> 0]

SchedulerTypeOK ==
    /\ job \in [Job -> JobRecord]
    /\ pc \in [Tick -> {"idle", "scan", "claim", "run", "succeeded", "recorded", "threw", "noted"}]
    /\ due \in [Tick -> SUBSET Job]
    /\ cur \in [Tick -> Job]
    /\ copy \in [Tick -> JobRecord]
    /\ clock \in Nat /\ throws \in Nat /\ auditFaults \in Nat /\ crashes \in Nat
    /\ runs \in [Job -> Nat]
    /\ overlapped \in BOOLEAN

SchedulerInit ==
    /\ job = [j \in Job |-> Absent]
    /\ pc = [t \in Tick |-> "idle"]
    /\ due = [t \in Tick |-> {}]
    /\ cur \in [Tick -> Job]
    /\ copy = [t \in Tick |-> Absent]
    /\ clock = 0 /\ throws = 0 /\ auditFaults = 0 /\ crashes = 0
    /\ runs = [j \in Job |-> 0]
    /\ overlapped = FALSE

-----------------------------------------------------------------------------
\* schedule: the record is written before it is audited; a failing audit
\* rejects the caller's promise but leaves the job in place.
Schedule(j, at) ==
    /\ job[j] = Absent
    /\ job' = [job EXCEPT ![j] = [status |-> "pending", attempts |-> 0, runAt |-> at]]
    /\ UNCHANGED <<ticks, clock, budget, history>>

TimePasses ==
    /\ clock < Horizon
    /\ clock' = clock + 1
    /\ UNCHANGED <<job, ticks, budget, history>>

Due(j) == job[j].status = "pending" /\ job[j].runAt <= clock

\* tick: loadPending, filtered on runAt.
LoadPending(t) ==
    /\ pc[t] = "idle"
    /\ \E j \in Job : Due(j)
    /\ due' = [due EXCEPT ![t] = {j \in Job : Due(j)}]
    /\ pc' = [pc EXCEPT ![t] = "scan"]
    /\ overlapped' = (overlapped \/ \E u \in Tick \ {t} : pc[u] # "idle")
    /\ UNCHANGED <<job, cur, copy, clock, budget, runs>>

EndTick(t) ==
    /\ pc[t] = "scan"
    /\ due[t] = {}
    /\ pc' = [pc EXCEPT ![t] = "idle"]
    /\ UNCHANGED <<job, due, cur, copy, clock, budget, history>>

\* The loop takes the due jobs in the order of runAt.
Earliest(t, j) == j \in due[t] /\ \A k \in due[t] : job[j].runAt <= job[k].runAt

Reread(t, j) ==
    /\ pc[t] = "scan"
    /\ Earliest(t, j)
    /\ due' = [due EXCEPT ![t] = @ \ {j}]
    /\ IF job[j].status = "pending"
       THEN /\ cur' = [cur EXCEPT ![t] = j]
            /\ copy' = [copy EXCEPT ![t] = job[j]]
            /\ pc' = [pc EXCEPT ![t] = "claim"]
       ELSE UNCHANGED <<cur, copy, pc>>
    /\ UNCHANGED <<job, clock, budget, history>>

\* job.status = s on the private copy, which is written back whole.
Put(t, s, n) ==
    LET rec == [status |-> s, attempts |-> n, runAt |-> copy[t].runAt] IN
    /\ copy' = [copy EXCEPT ![t] = rec]
    /\ job' = [job EXCEPT ![cur[t]] = rec]

Claim(t) ==
    /\ pc[t] = "claim"
    /\ Put(t, "running", copy[t].attempts)
    /\ pc' = [pc EXCEPT ![t] = "run"]
    /\ UNCHANGED <<due, cur, clock, budget, history>>

\* Mutant: the loop does not go on with the next job.
NoHandlerFallsThrough(t) ==
    /\ pc[t] = "run" /\ cur[t] \notin Handled
    /\ Put(t, "failed", copy[t].attempts)
    /\ pc' = [pc EXCEPT ![t] = "threw"]
    /\ UNCHANGED <<due, cur, clock, budget, history>>

NoHandler(t) ==
    /\ pc[t] = "run" /\ cur[t] \notin Handled
    /\ Put(t, "failed", copy[t].attempts)
    /\ pc' = [pc EXCEPT ![t] = "scan"]
    /\ UNCHANGED <<due, cur, clock, budget, history>>

\* The handler is called; it returns or throws.
HandlerReturns(t) ==
    /\ pc[t] = "run" /\ cur[t] \in Handled
    /\ runs' = [runs EXCEPT ![cur[t]] = @ + 1]
    /\ pc' = [pc EXCEPT ![t] = "succeeded"]
    /\ UNCHANGED <<job, due, cur, copy, clock, budget, overlapped>>

HandlerThrows(t) ==
    /\ pc[t] = "run" /\ cur[t] \in Handled
    /\ throws < MaxThrows
    /\ throws' = throws + 1
    /\ runs' = [runs EXCEPT ![cur[t]] = @ + 1]
    /\ pc' = [pc EXCEPT ![t] = "threw"]
    /\ UNCHANGED <<job, due, cur, copy, clock, auditFaults, crashes, overlapped>>

RecordDone(t) ==
    /\ pc[t] = "succeeded"
    /\ Put(t, "done", copy[t].attempts)
    /\ pc' = [pc EXCEPT ![t] = "recorded"]
    /\ UNCHANGED <<due, cur, clock, budget, history>>

\* The "job.done" audit entry is written inside the try block ...
AuditDone(t) ==
    /\ pc[t] = "recorded"
    /\ pc' = [pc EXCEPT ![t] = "scan"]
    /\ UNCHANGED <<job, due, cur, copy, clock, budget, history>>

\* ... so its failure is treated as a failure of the handler.
AuditDoneFails(t) ==
    /\ pc[t] = "recorded"
    /\ auditFaults < MaxAuditFaults
    /\ auditFaults' = auditFaults + 1
    /\ pc' = [pc EXCEPT ![t] = "threw"]
    /\ UNCHANGED <<job, due, cur, copy, clock, throws, crashes, history>>

\* Mutant: the limit is tested before the attempt is counted.
RecordFailureOffByOne(t) ==
    /\ pc[t] = "threw"
    /\ Put(t, IF copy[t].attempts >= MaxAttempts THEN "failed" ELSE "pending",
           copy[t].attempts + 1)
    /\ pc' = [pc EXCEPT ![t] = "noted"]
    /\ UNCHANGED <<due, cur, clock, budget, history>>

\* Mutant: a run that may be repeated is not put back to "pending".
RecordFailureStaysRunning(t) ==
    /\ pc[t] = "threw"
    /\ LET n == copy[t].attempts + 1 IN
         Put(t, IF n >= MaxAttempts THEN "failed" ELSE copy[t].status, n)
    /\ pc' = [pc EXCEPT ![t] = "noted"]
    /\ UNCHANGED <<due, cur, clock, budget, history>>

\* Mutant: a job is given up at its first failure.
RecordFailureGivesUp(t) ==
    /\ pc[t] = "threw"
    /\ Put(t, "failed", copy[t].attempts + 1)
    /\ pc' = [pc EXCEPT ![t] = "noted"]
    /\ UNCHANGED <<due, cur, clock, budget, history>>

RecordFailure(t) ==
    /\ pc[t] = "threw"
    /\ LET n == copy[t].attempts + 1 IN
         Put(t, IF n >= MaxAttempts THEN "failed" ELSE "pending", n)
    /\ pc' = [pc EXCEPT ![t] = "noted"]
    /\ UNCHANGED <<due, cur, clock, budget, history>>

AuditFailure(t) ==
    /\ pc[t] = "noted"
    /\ pc' = [pc EXCEPT ![t] = "scan"]
    /\ UNCHANGED <<job, due, cur, copy, clock, budget, history>>

\* The process ends: killed, or by the unhandled rejection of a tick whose
\* storage call failed outside the try block (the interval drops the promise).
SchedulerCrash ==
    /\ crashes < MaxCrashes
    /\ crashes' = crashes + 1
    /\ pc' = [t \in Tick |-> "idle"]
    /\ due' = [t \in Tick |-> {}]
    /\ UNCHANGED <<job, cur, copy, clock, throws, auditFaults, history>>

TickStep(t) ==
    \/ LoadPending(t) \/ EndTick(t) \/ (\E j \in Job : Reread(t, j)) \/ Claim(t)
    \/ NoHandler(t) \/ HandlerReturns(t) \/ HandlerThrows(t) \/ RecordDone(t)
    \/ AuditDone(t) \/ AuditDoneFails(t) \/ RecordFailure(t) \/ AuditFailure(t)

SchedulerNext ==
    \/ \E j \in Job, at \in 0..Horizon : Schedule(j, at)
    \/ TimePasses
    \/ \E t \in Tick : TickStep(t)
    \/ SchedulerCrash

SchedulerSpec == SchedulerInit /\ [][SchedulerNext]_schedulerVars

\* The interval keeps firing and an awaited step ends; time goes on.
SchedulerFairSpec == SchedulerSpec /\ WF_schedulerVars(TimePasses) /\ \A t \in Tick : WF_schedulerVars(TickStep(t))

-----------------------------------------------------------------------------
\* Properties.

\* A job that is settled, by success or by giving it up, is never taken up
\* again ("A completed job is never re-run", scheduler.ts:9): none of the writes
\* a tick has still to make touches it, as long as ticks do not overlap and the
\* audit log accepts the entry of a finished job.
SettledIsFinal ==
    [][\A j \in Job : job[j].status \in {"done", "failed"} /\ ~overlapped /\ auditFaults = 0
                      => job'[j] = job[j]]_schedulerVars

\* As long as ticks do not overlap, a job's handler is called at most
\* maxAttempts times, however its runs fail, the audit log rejects their entries
\* and the process crashes in between (scheduler.ts:100-137).
RunsBounded == ~overlapped => \A j \in Job : runs[j] <= MaxAttempts

\* A job is given up only after maxAttempts failed runs, or when no handler is
\* registered for it (scheduler.ts:111-131), with any number of ticks at work on
\* stale copies of its record.
FailedIsExhausted ==
    \A j \in Handled : job[j].status = "failed" => runs[j] >= MaxAttempts

\* The attempts of a job are what its handler was called: neither more calls than attempts allowed nor
\* a job given up early, whatever copies of its record the ticks hold (scheduler.ts:100-137).
AttemptsAreSpent == RunsBounded /\ FailedIsExhausted

\* A crash came between the claim of a job and the record of its outcome.
Stranded(j) ==
    /\ crashes > 0 /\ job[j].status = "running"
    /\ \A t \in Tick : pc[t] \in {"idle", "scan"} \/ cur[t] # j

\* Every scheduled job is brought to an end once it is due (FR-052): overlapping
\* ticks, failures and crashes keep none waiting, except one whose handler was
\* running when the process crashed.
JobsSettle ==
    \A j \in Job : job[j].status # "none" ~>
        job[j].status \in {"done", "failed"} \/ Stranded(j)

\* Jobs "survive restarts" (scheduler.ts:7-8), a crash in the middle of a run
\* included (scheduler.ts:9-10): every scheduled job is brought to an end.
JobsSurviveRestarts ==
    \A j \in Job : job[j].status # "none" ~> job[j].status \in {"done", "failed"}
=============================================================================
