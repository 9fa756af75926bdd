----------------------------- MODULE MCServices -----------------------------
(***************************************************************************)
(* The services underneath the rest, for TLC: a behaviour is one of the    *)
(* audit log or one of the scheduler, which share no state.                *)
(***************************************************************************)
EXTENDS AuditLog, Scheduler

VARIABLE service

servicesVars == <<service, auditVars, schedulerVars>>

ServicesInit ==
    /\ service \in {"audit", "scheduler"} /\ AuditInit /\ SchedulerInit
    /\ \A t \in Tick : cur[t] \in Handled   \* what a tick that never worked is at, is never read

AuditRests == UNCHANGED <<service, auditVars>>

ServicesNext ==
    \/ service = "audit" /\ AuditNext /\ UNCHANGED <<service, schedulerVars>>
    \/ service = "scheduler" /\ SchedulerNext /\ AuditRests

\* The fairness of the scheduler; the audit log needs none.
ServicesSpec ==
    /\ ServicesInit /\ [][ServicesNext]_servicesVars
    /\ WF_servicesVars(service = "scheduler" /\ TimePasses /\ AuditRests)
    /\ \A t \in Tick : WF_servicesVars(service = "scheduler" /\ TickStep(t) /\ AuditRests)
=============================================================================
