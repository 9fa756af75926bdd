----------------------------- MODULE PluginHost -----------------------------
(***************************************************************************)
(* One registered plugin in the host of packages/runtime/src/host.ts: its  *)
(* worker is spawned by the first call, shared by concurrent calls, killed *)
(* by a call that times out, reclaimed when idle and stopped when the      *)
(* plugin is disabled.                                                     *)
(*                                                                         *)
(* The host is one JavaScript thread.  What it runs between two events     *)
(* (a request, a message, a timer, the exit of a worker) is one step,      *)
(* continuations of promises that the event settles included.  What the    *)
(* plugin does is outside the model: a worker may answer a call, never     *)
(* answer it, or exit.  A plugin may fail its signature or CVE check at    *)
(* any spawn.                                                              *)
(***************************************************************************)
EXTENDS Integers, FiniteSets

CONSTANTS
    Caller,      \* concurrent calls of invoke
    Admin,       \* concurrent calls of enable and disable
    Worker,      \* worker threads, each spawned at most once
    None,
    MaxCalls,    \* bound: calls of invoke
    MaxToggles,  \* bound: calls of enable and disable
    MaxExits     \* bound: workers that exit by themselves

ASSUME PluginHostConstants ==
    /\ None \notin Worker
    /\ MaxCalls \in Nat /\ MaxToggles \in Nat /\ MaxExits \in Nat
    /\ IsFiniteSet(Caller)

VARIABLES
    enabled,    \* the record's enabled flag
    stored,     \* the persisted one (plugin_state)
    instance,   \* the record's worker
    spawning,   \* the spawn in flight: "none", "validate" or "start"
    inflight,   \* the record's count of running calls
    timer,      \* whether the idle timer is armed
    worker,     \* what each thread does
    pending,    \* each instance's map of calls that await an answer
    call,       \* each caller: where it is and on which worker
    admin,      \* each toggle: where it is and the worker it stops
    calls, toggles, exits,
    cut         \* history: calls whose entry terminate() dropped

vars == <<enabled, stored, instance, spawning, inflight, timer, worker, pending, call, admin,
          calls, toggles, exits, cut>>

Idle == [at |-> "none", on |-> None]
Running == {"spawn", "pending", "kill"}
Stopping == {"killed", "reclaimed"}   \* terminate() was called, the thread has not exited

TypeOK ==
    /\ enabled \in BOOLEAN /\ stored \in BOOLEAN /\ timer \in BOOLEAN
    /\ instance \in Worker \cup {None}
    /\ spawning \in {"none", "validate", "start"}
    /\ inflight \in Nat
    /\ worker \in [Worker -> {"unused", "starting", "live", "dead", "orphan"} \cup Stopping]
    /\ pending \in [Worker -> SUBSET Caller]
    /\ call \in [Caller -> [at : {"none"} \cup Running, on : Worker \cup {None}]]
    /\ admin \in [Admin -> [at : {"none", "enable", "on", "kill", "off"}, on : Worker \cup {None}]]
    /\ calls \in 0..MaxCalls /\ toggles \in 0..MaxToggles /\ exits \in 0..MaxExits
    /\ cut \subseteq Caller

\* register: the flag comes from the store; no worker is spawned.
Init ==
    /\ stored \in BOOLEAN
    /\ enabled = stored
    /\ instance = None /\ spawning = "none"
    /\ inflight = 0 /\ timer = FALSE
    /\ worker = [w \in Worker |-> "unused"]
    /\ pending = [w \in Worker |-> {}]
    /\ call = [c \in Caller |-> Idle]
    /\ admin = [a \in Admin |-> Idle]
    /\ calls = 0 /\ toggles = 0 /\ exits = 0
    /\ cut = {}

\* Bound: a spawn finds an unused thread.
CanSpawn == \E w \in Worker : worker[w] = "unused"

-----------------------------------------------------------------------------
\* The instance: PluginInstance.invoke, terminate, #fail.

\* The calls cs are sent to w: they are counted and stop the idle timer.
Send(cs, w) ==
    /\ call' = [c \in Caller |-> IF c \in cs THEN [at |-> "pending", on |-> w] ELSE call[c]]
    /\ pending' = [pending EXCEPT ![w] = @ \cup cs]
    /\ inflight' = inflight + Cardinality(cs)
    /\ timer' = IF cs = {} THEN timer ELSE FALSE

\* Mutant: the count is treated as a flag.
EndAsFlag(cs, i) ==
    /\ call' = [c \in Caller |-> IF c \in cs THEN Idle ELSE call[c]]
    /\ inflight' = 0
    /\ timer' = (timer \/ (cs # {} /\ i # None))

\* Mutant: the idle timer is not armed.
EndNeverArms(cs, i) ==
    /\ call' = [c \in Caller |-> IF c \in cs THEN Idle ELSE call[c]]
    /\ inflight' = inflight - Cardinality(cs)
    /\ UNCHANGED timer

\* The calls cs end: the last one to end arms the idle timer of the worker i.
End(cs, i) ==
    /\ call' = [c \in Caller |-> IF c \in cs THEN Idle ELSE call[c]]
    /\ inflight' = inflight - Cardinality(cs)
    /\ timer' = (timer \/ (cs # {} /\ inflight' = 0 /\ i # None))

\* terminate() drops the entries of all calls on w, which nothing settles any more.
Terminate(w, how) ==
    /\ worker' = [worker EXCEPT ![w] = IF @ = "live" THEN how ELSE @]
    /\ pending' = [pending EXCEPT ![w] = {}]

-----------------------------------------------------------------------------
\* invoke and the spawn it may start.

\* Mutant: each call spawns a worker of its own.
InvokeSpawns(c) ==
    /\ call[c] = Idle /\ c \notin cut /\ enabled
    /\ calls < MaxCalls /\ CanSpawn
    /\ calls' = calls + 1
    /\ spawning' = "validate"
    /\ call' = [call EXCEPT ![c] = [at |-> "spawn", on |-> None]]
    /\ UNCHANGED <<inflight, timer, pending>>
    /\ UNCHANGED <<enabled, stored, instance, worker, admin, toggles, exits, cut>>

Invoke(c) ==
    /\ call[c] = Idle /\ c \notin cut /\ enabled
    /\ calls < MaxCalls /\ CanSpawn
    /\ calls' = calls + 1
    /\ IF instance # None
       THEN Send({c}, instance) /\ UNCHANGED spawning
       ELSE /\ spawning' = IF spawning = "none" THEN "validate" ELSE spawning
            /\ call' = [call EXCEPT ![c] = [at |-> "spawn", on |-> None]]
            /\ UNCHANGED <<inflight, timer, pending>>
    /\ UNCHANGED <<enabled, stored, instance, worker, admin, toggles, exits, cut>>

Waiting == {c \in Caller : call[c].at = "spawn"}

\* The signature and the CVE feed are checked, the thread is created.
Spawn(w) ==
    /\ spawning = "validate" /\ worker[w] = "unused"
    /\ spawning' = "start"
    /\ worker' = [worker EXCEPT ![w] = "starting"]
    /\ UNCHANGED <<enabled, stored, instance, inflight, timer, pending, call, admin, calls, toggles, exits, cut>>

\* Mutant: the calls that await the spawn are not told.
SpawnFailsQuietly ==
    /\ spawning' = "none"
    /\ UNCHANGED <<enabled, stored, instance, inflight, timer, pending, call, admin, calls, toggles, exits, cut>>

\* The spawn is refused: every call that awaits it fails.
SpawnFails ==
    /\ spawning' = "none"
    /\ call' = [c \in Caller |-> IF c \in Waiting THEN Idle ELSE call[c]]
    /\ UNCHANGED <<enabled, stored, instance, inflight, timer, pending, admin, calls, toggles, exits, cut>>

ValidateRefuses == spawning = "validate" /\ SpawnFails /\ UNCHANGED worker

\* The import fails: the thread reports it and lives on, referenced by nothing.
StartFails(w) ==
    /\ worker[w] = "starting"
    /\ worker' = [worker EXCEPT ![w] = "orphan"]
    /\ SpawnFails

Ready(w) ==
    /\ worker[w] = "starting"
    /\ worker' = [worker EXCEPT ![w] = "live"]
    /\ instance' = w /\ spawning' = "none"
    /\ Send(Waiting, w)
    /\ UNCHANGED <<enabled, stored, admin, calls, toggles, exits, cut>>

Answer(c) ==
    LET w == call[c].on IN
    /\ call[c].at = "pending" /\ c \in pending[w] /\ worker[w] = "live"
    /\ pending' = [pending EXCEPT ![w] = @ \ {c}]
    /\ End({c}, instance)
    /\ UNCHANGED <<enabled, stored, instance, spawning, worker, admin, calls, toggles, exits, cut>>

\* Mutant: a call that times out leaves the worker to the others.
TimeoutSpares(c) ==
    LET w == call[c].on IN
    /\ call[c].at = "pending" /\ c \in pending[w]
    /\ pending' = [pending EXCEPT ![w] = @ \ {c}]
    /\ call' = [call EXCEPT ![c] = Idle]
    /\ UNCHANGED <<inflight, timer>>
    /\ UNCHANGED <<enabled, stored, instance, spawning, worker, admin, calls, toggles, exits, cut>>

\* A call times out and kills the worker.  A thread that is gone already needs
\* no waiting for.
Timeout(c) ==
    LET w == call[c].on IN
    /\ call[c].at = "pending" /\ c \in pending[w]
    /\ Terminate(w, "killed")
    /\ cut' = cut \cup (pending[w] \ {c})
    /\ IF worker[w] = "dead"
       THEN instance' = None /\ End({c}, None)
       ELSE /\ call' = [call EXCEPT ![c].at = "kill"]
            /\ UNCHANGED <<instance, inflight, timer>>
    /\ UNCHANGED <<enabled, stored, spawning, admin, calls, toggles, exits>>

-----------------------------------------------------------------------------
\* The exit of a thread: #fail rejects the calls still in the map, then every
\* await of terminate() goes on, and forgets the instance.

Exited(w) ==
    LET killers == {c \in Caller : call[c] = [at |-> "kill", on |-> w]}
        disabling == {a \in Admin : admin[a] = [at |-> "kill", on |-> w]} IN
    /\ worker' = [worker EXCEPT ![w] = "dead"]
    /\ pending' = [pending EXCEPT ![w] = {}]
    /\ instance' = IF killers \cup disabling # {} THEN None ELSE instance
    /\ End(pending[w] \cup killers, IF killers # {} THEN None ELSE instance)
    /\ admin' = [a \in Admin |-> IF a \in disabling THEN [at |-> "off", on |-> None] ELSE admin[a]]
    /\ UNCHANGED <<enabled, stored, spawning, calls, toggles, cut>>

Exit(w) == worker[w] \in Stopping /\ Exited(w) /\ UNCHANGED exits

\* A crash or the memory limit: the record keeps the dead instance.
ExitsByItself(w) ==
    /\ worker[w] = "live" /\ exits < MaxExits
    /\ exits' = exits + 1
    /\ Exited(w)

StartExits(w) ==
    /\ worker[w] = "starting"
    /\ worker' = [worker EXCEPT ![w] = "dead"]
    /\ SpawnFails

IdleFires ==
    /\ timer /\ timer' = FALSE
    /\ IF inflight = 0 /\ instance # None
       THEN Terminate(instance, "reclaimed") /\ instance' = None
       ELSE UNCHANGED <<worker, pending, instance>>
    /\ UNCHANGED <<enabled, stored, spawning, inflight, call, admin, calls, toggles, exits, cut>>

-----------------------------------------------------------------------------
\* enable: check, set the flag, persist it.  disable: clear the flag, stop the
\* worker that is there, persist.

Enable(a) ==
    /\ admin[a] = Idle /\ toggles < MaxToggles
    /\ toggles' = toggles + 1
    /\ admin' = [admin EXCEPT ![a].at = "enable"]
    /\ UNCHANGED <<enabled, stored, instance, spawning, inflight, timer, worker, pending, call, calls, exits, cut>>

EnableValidated(a) ==
    /\ admin[a].at = "enable"
    /\ \/ enabled' = TRUE /\ admin' = [admin EXCEPT ![a].at = "on"]
       \/ UNCHANGED enabled /\ admin' = [admin EXCEPT ![a] = Idle]
    /\ UNCHANGED <<stored, instance, spawning, inflight, timer, worker, pending, call, calls, toggles, exits, cut>>

Disable(a) ==
    /\ admin[a] = Idle /\ toggles < MaxToggles
    /\ toggles' = toggles + 1
    /\ enabled' = FALSE /\ timer' = FALSE
    /\ IF instance # None
       THEN /\ Terminate(instance, "killed")
            /\ cut' = cut \cup pending[instance]
            /\ IF worker[instance] = "dead"
               THEN instance' = None /\ admin' = [admin EXCEPT ![a].at = "off"]
               ELSE admin' = [admin EXCEPT ![a] = [at |-> "kill", on |-> instance]] /\ UNCHANGED instance
       ELSE admin' = [admin EXCEPT ![a].at = "off"] /\ UNCHANGED <<instance, worker, pending, cut>>
    /\ UNCHANGED <<stored, spawning, inflight, call, calls, exits>>

SetEnabled(a) ==
    /\ admin[a].at \in {"on", "off"}
    /\ stored' = (admin[a].at = "on")
    /\ admin' = [admin EXCEPT ![a] = Idle]
    /\ UNCHANGED <<enabled, instance, spawning, inflight, timer, worker, pending, call, calls, toggles, exits, cut>>

-----------------------------------------------------------------------------
Requests ==
    \/ \E c \in Caller : Invoke(c)
    \/ \E a \in Admin : Enable(a) \/ Disable(a)

SpawnSteps ==
    \/ ValidateRefuses
    \/ \E w \in Worker : Spawn(w) \/ StartFails(w) \/ StartExits(w) \/ Ready(w)

Next ==
    \/ Requests \/ SpawnSteps \/ IdleFires
    \/ \E c \in Caller : Answer(c) \/ Timeout(c)
    \/ \E w \in Worker : Exit(w) \/ ExitsByItself(w)
    \/ \E a \in Admin : EnableValidated(a) \/ SetEnabled(a)

Spec == Init /\ [][Next]_vars

\* Files are read, threads start or fail, a terminated thread exits, timers
\* fire.  Answers are not assumed.
FairSpec ==
    /\ Spec
    /\ WF_vars(SpawnSteps) /\ WF_vars(IdleFires)
    /\ \A c \in Caller : WF_vars(Timeout(c))
    /\ \A w \in Worker : WF_vars(Exit(w))
    /\ \A a \in Admin : WF_vars(EnableValidated(a)) /\ WF_vars(SetEnabled(a))

-----------------------------------------------------------------------------
\* Properties.

\* "Concurrent invokes share a single in-flight spawn so exactly one worker is
\* ever created" (host.ts:540-541): whatever times out, exits, idles or is
\* toggled meanwhile, at most one thread is starting or serving, and it is the
\* one the record names.  (A thread whose import failed is an orphan.)
OneWorker ==
    /\ Cardinality({w \in Worker : worker[w] \in {"starting", "live"}}) <= 1
    /\ \A w \in Worker : worker[w] = "live" => instance = w

\* The count that the idle timer relies on is the number of running calls
\* (host.ts:513, 525).
InflightExact == inflight = Cardinality({c \in Caller : call[c].at \in {"pending", "kill"}})

\* "never reclaim a worker that's mid-call" (host.ts:514): an idle teardown
\* never takes the thread of a call.
IdleSparesCalls ==
    \A c \in Caller, w \in Worker : worker[w] = "reclaimed" => call[c].on # w

\* A call is served by the one worker there is, and the count that stands between the idle timer and
\* that worker is right at every step (host.ts:505-580).
WorkersServeCalls == OneWorker /\ InflightExact /\ IdleSparesCalls

\* Every call is answered, refused or timed out, unless terminate() dropped it.
InvokesSettle ==
    \A c \in Caller : call[c] # Idle ~> (call[c] = Idle \/ c \in cut)

\* A worker does not outlive its use (host.ts:562-564): a thread that serves
\* is reclaimed in the end, unless a dropped call keeps the count up.
WorkersAreReclaimed ==
    \A w \in Worker : worker[w] = "live" ~> (worker[w] # "live" \/ cut # {})

\* Neither a call nor a worker lives for ever: what a spawn that fails, a timeout, an exit or the idle
\* timer leaves behind is settled by another of them (host.ts:505-640).
CallsAndWorkersEnd == InvokesSettle /\ WorkersAreReclaimed

\* "worker crash/timeout/OOM -> host kills + restarts; request fails closed"
\* (docs/TDD-pressh.md:78): every call settles.
EveryInvokeSettles == \A c \in Caller : call[c] # Idle ~> call[c] = Idle
=============================================================================
