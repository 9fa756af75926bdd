------------------------------ MODULE Lockout ------------------------------
(***************************************************************************)
(* Time, and the lockout that the accounts of the Studio                   *)
(* (packages/core/src/auth/service.ts) and those of the members of the     *)
(* site (packages/core/src/members.ts) share: a failed login is counted,   *)
(* and from MaxAttempts on each further one locks the account for a time   *)
(* that doubles, up to a limit, every MaxAttempts failures.                *)
(***************************************************************************)
EXTENDS Integers, FiniteSets

CONSTANTS
    MaxAttempts,  \* failures that lock an account
    LockoutTime,  \* length of the first lock
    MaxLockout,   \* limit of the doubling
    MaxNow        \* bound: the clock

ASSUME LockoutConstants ==
    /\ MaxAttempts \in Nat \ {0} /\ LockoutTime \in Nat \ {0}
    /\ MaxLockout \in Nat \ {0} /\ MaxNow \in Nat

VARIABLE now

Least(x, y) == IF x <= y THEN x ELSE y

Backoff(failed) == Least(LockoutTime * 2 ^ ((failed \div MaxAttempts) - 1), MaxLockout)

\* Mutant: only the failure that reaches the limit locks.
CountFailureOnce(r, t) ==
    IF r.failed + 1 = MaxAttempts
    THEN [r EXCEPT !.failed = @ + 1, !.lockedUntil = t + Backoff(r.failed + 1)]
    ELSE [r EXCEPT !.failed = @ + 1]

CountFailure(r, t) ==
    IF r.failed + 1 >= MaxAttempts
    THEN [r EXCEPT !.failed = @ + 1, !.lockedUntil = t + Backoff(r.failed + 1)]
    ELSE [r EXCEPT !.failed = @ + 1]

Unlocked(r) == [r EXCEPT !.failed = 0, !.lockedUntil = 0]

IsLocked(r, t) == r.lockedUntil > t

PassTime == now < MaxNow /\ now' = now + 1
=============================================================================
