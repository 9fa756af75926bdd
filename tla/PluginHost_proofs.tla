------------------------- MODULE PluginHost_proofs -------------------------
(***************************************************************************)
(* Proofs about the plugin host for any number of calls, toggles, threads  *)
(* and exits: what a call relies on of the worker that serves it.          *)
(***************************************************************************)
EXTENDS PluginHost, FiniteSetTheorems, TLAPS

\* TypeOK without what the argument does not need.
ThreadState == {"unused", "starting", "live", "dead", "orphan"} \cup Stopping
CallRecord == [at : {"none"} \cup Running, on : Worker \cup {None}]
AdminRecord == [at : {"none", "enable", "on", "kill", "off"}, on : Worker \cup {None}]

Types ==
    /\ instance \in Worker \cup {None} /\ inflight \in Nat /\ timer \in {TRUE, FALSE}
    /\ worker \in [Worker -> ThreadState] /\ pending \in [Worker -> SUBSET Caller]
    /\ call \in [Caller -> CallRecord] /\ admin \in [Admin -> AdminRecord]

\* One thread is starting or live; it is the record's, or the spawn is still on its way and the record
\* has none; and a thread the record names was live once and is not reclaimed.
Active(w) == worker[w] \in {"starting", "live"}
Threads ==
    /\ \A w, x \in Worker : Active(w) /\ Active(x) => w = x
    /\ \A w \in Worker : worker[w] = "live" => instance = w
    /\ \A w \in Worker : worker[w] = "starting" => spawning = "start"
    /\ spawning \in {"none", "validate", "start"}
    /\ spawning # "none" => instance = None
    /\ \A w \in Worker : instance = w => worker[w] \in {"live", "killed", "dead"}

\* A call that runs is on a thread; one that can still be answered is on the record's.
Busy(c) == call[c].at \in {"pending", "kill"}
Calls ==
    /\ \A c \in Caller : IF Busy(c) THEN call[c].on \in Worker ELSE call[c].on = None
    /\ \A w \in Worker : \A c \in pending[w] : call[c].at = "pending" /\ call[c].on = w /\ instance = w
    /\ \A c \in Caller, w \in Worker : worker[w] = "reclaimed" => call[c].on # w

\* Who waits for a thread to exit waits for the record's, and no idle timer is armed meanwhile.
Kills ==
    /\ \A c \in Caller : call[c].at = "kill" => instance = call[c].on /\ worker[call[c].on] = "killed"
    /\ \A a \in Admin : admin[a].at = "kill" =>
           admin[a].on \in Worker /\ instance = admin[a].on /\ worker[admin[a].on] = "killed" /\ timer = FALSE

\* The count is exact, and the idle timer is armed only when nothing runs.
Counted ==
    /\ inflight = Cardinality({c \in Caller : Busy(c)})
    /\ timer = TRUE => inflight = 0

\* The invariant: WorkersServeCalls, and what makes it inductive.
HostInv == Types /\ Threads /\ Calls /\ Kills /\ Counted

BusyCalls == {c \in Caller : Busy(c)}

\* Finite sets of calls.
LEMMA Finite == ASSUME NEW cs \in SUBSET Caller PROVE IsFiniteSet(cs) /\ Cardinality(cs) \in Nat
BY PluginHostConstants, FS_Subset, FS_CardinalityType

LEMMA CountMore ==
    ASSUME NEW S \in SUBSET Caller, NEW cs \in SUBSET Caller, S \cap cs = {}
    PROVE Cardinality(S \cup cs) = Cardinality(S) + Cardinality(cs)
<1>1. Cardinality(S \cap cs) = 0
  BY FS_EmptySet
<1>2. Cardinality(S \cup cs) = Cardinality(S) + Cardinality(cs) - Cardinality(S \cap cs)
  BY Finite, FS_Union
<1>3. Cardinality(S) \in Nat /\ Cardinality(cs) \in Nat
  BY Finite
<1> QED BY <1>1, <1>2, <1>3

LEMMA CountLess ==
    ASSUME NEW S \in SUBSET Caller, NEW cs \in SUBSET S
    PROVE Cardinality(S \ cs) = Cardinality(S) - Cardinality(cs) /\ Cardinality(S \ cs) \in Nat
<1>1. S \cap cs = cs
  OBVIOUS
<1>2. Cardinality(S \ cs) = Cardinality(S) - Cardinality(S \cap cs)
  BY Finite, FS_Difference
<1>3. Cardinality(S \ cs) = Cardinality(S) - Cardinality(cs)
  BY <1>1, <1>2
<1> QED BY <1>3, Finite

LEMMA CallIs ==
    ASSUME NEW c \in CallRecord, NEW at, NEW on, c.at = at, c.on = on
    PROVE c = [at |-> at, on |-> on]
BY DEF CallRecord

\* What Send and End leave.
LEMMA Sent ==
    ASSUME HostInv, NEW cs \in SUBSET Caller, NEW w \in Worker, Send(cs, w), \A c \in cs : ~Busy(c)
    PROVE /\ call' \in [Caller -> CallRecord] /\ pending' \in [Worker -> SUBSET Caller]
          /\ \A c \in cs : call'[c].at = "pending" /\ call'[c].on = w
          /\ \A c \in Caller \ cs : call'[c] = call[c]
          /\ pending'[w] = pending[w] \cup cs /\ \A x \in Worker \ {w} : pending'[x] = pending[x]
          /\ inflight' \in Nat /\ timer' \in {TRUE, FALSE} /\ Counted'
          /\ timer = FALSE => timer' = FALSE
<1>1. call' = [c \in Caller |-> IF c \in cs THEN [at |-> "pending", on |-> w] ELSE call[c]]
  BY DEF Send
<1>2. [at |-> "pending", on |-> w] \in CallRecord
  BY DEF CallRecord, Running
<1>3. /\ call' \in [Caller -> CallRecord]
      /\ \A c \in cs : call'[c].at = "pending" /\ call'[c].on = w
      /\ \A c \in Caller \ cs : call'[c] = call[c]
  BY <1>1, <1>2 DEF HostInv, Types
<1>4. pending' \in [Worker -> SUBSET Caller] /\ pending'[w] = pending[w] \cup cs
      /\ \A x \in Worker \ {w} : pending'[x] = pending[x]
  BY DEF Send, HostInv, Types
<1>5. {c \in Caller : Busy(c)'} = BusyCalls \cup cs
  BY <1>3 DEF Busy, BusyCalls
<1>6. inflight = Cardinality(BusyCalls) /\ BusyCalls \cap cs = {} /\ BusyCalls \in SUBSET Caller
  BY DEF HostInv, Counted, BusyCalls
<1>7. Cardinality(BusyCalls \cup cs) = inflight + Cardinality(cs)
  BY <1>6, CountMore
<1>8. inflight' = inflight + Cardinality(cs) /\ inflight' \in Nat
  BY Finite DEF Send, HostInv, Types
<1>9. /\ timer' = TRUE => inflight' = 0
      /\ timer' \in {TRUE, FALSE}
      /\ timer = FALSE => timer' = FALSE
  <2>1. CASE cs = {}
    <3>1. Cardinality(cs) = 0 /\ inflight' = inflight
      BY <2>1, <1>8, FS_EmptySet DEF HostInv, Types
    <3>2. timer' = timer
      BY <2>1, Zenon DEF Send
    <3> QED BY <3>1, <3>2 DEF HostInv, Counted, Types
  <2>2. CASE cs # {}
    <3>1. timer' = FALSE
      BY <2>2, Zenon DEF Send
    <3> QED BY <3>1
  <2> QED BY <2>1, <2>2
<1>10. Counted'
  <2>1. inflight' = Cardinality({c \in Caller : Busy(c)'})
    BY <1>5, <1>7, <1>8
  <2> QED BY <2>1, <1>9 DEF Counted
<1> QED BY <1>3, <1>4, <1>8, <1>9, <1>10

LEMMA Ended ==
    ASSUME HostInv, NEW cs \in SUBSET Caller, NEW i, End(cs, i), \A c \in cs : Busy(c)
    PROVE /\ call' \in [Caller -> CallRecord]
          /\ \A c \in cs : call'[c] = Idle
          /\ \A c \in Caller \ cs : call'[c] = call[c]
          /\ inflight' \in Nat /\ Counted'
          /\ timer' \in {TRUE, FALSE}
          /\ cs = {} /\ timer = FALSE => timer' = FALSE
<1>1. call' = [c \in Caller |-> IF c \in cs THEN Idle ELSE call[c]]
  BY DEF End
<1>2. Idle \in CallRecord
  BY DEF CallRecord, Idle
<1>3. /\ call' \in [Caller -> CallRecord]
      /\ \A c \in cs : call'[c] = Idle
      /\ \A c \in Caller \ cs : call'[c] = call[c]
  BY <1>1, <1>2 DEF HostInv, Types
<1>4. {c \in Caller : Busy(c)'} = BusyCalls \ cs
  BY <1>3 DEF Busy, BusyCalls, Idle
<1>5. inflight = Cardinality(BusyCalls) /\ cs \in SUBSET BusyCalls /\ BusyCalls \in SUBSET Caller
  BY DEF HostInv, Counted, BusyCalls
<1>6. Cardinality(BusyCalls \ cs) = inflight - Cardinality(cs) /\ Cardinality(BusyCalls \ cs) \in Nat
  BY <1>5, CountLess
<1>7. inflight' = Cardinality(BusyCalls \ cs) /\ inflight' \in Nat
  BY <1>6 DEF End
<1>8. /\ timer' \in {TRUE, FALSE}
      /\ timer' = TRUE => inflight' = 0
      /\ cs = {} /\ timer = FALSE => timer' = FALSE
  <2>1. CASE timer = TRUE
    <3>1. timer' = TRUE /\ inflight = 0
      BY <2>1 DEF End, HostInv, Counted
    <3>2. cs = {}
      BY <1>5, <3>1, Finite, FS_EmptySet, <1>6
    <3>3. inflight' = 0
      BY <3>1, <3>2, <1>6, <1>7, FS_EmptySet
    <3> QED BY <2>1, <3>1, <3>3
  <2>2. CASE timer = FALSE
    <3>1. timer' <=> (cs # {} /\ inflight' = 0 /\ i # None)
      BY <2>2, Zenon DEF End
    <3>2. timer' \in {TRUE, FALSE}
      BY <2>2, Zenon DEF End
    <3> QED BY <2>2, <3>1, <3>2
  <2> QED BY <2>1, <2>2 DEF HostInv, Types
<1> QED BY <1>3, <1>4, <1>7, <1>8 DEF Counted

\* A step that starts and ends no call.
LEMMA CountKept ==
    ASSUME Counted, inflight' = inflight, timer' = TRUE => timer = TRUE, \A c \in Caller : Busy(c)' <=> Busy(c)
    PROVE Counted'
<1>1. {c \in Caller : Busy(c)'} = {c \in Caller : Busy(c)}
  OBVIOUS
<1>2. inflight' = Cardinality({c \in Caller : Busy(c)'})
  BY <1>1 DEF Counted
<1> QED BY <1>2 DEF Counted

\* One lemma for each action.
LEMMA HostStart == Init => HostInv
<1> SUFFICES ASSUME Init PROVE HostInv
  OBVIOUS
<1>1. /\ instance = None /\ spawning = "none" /\ inflight = 0 /\ worker = [w \in Worker |-> "unused"]
      /\ pending = [w \in Worker |-> {}] /\ call = [c \in Caller |-> Idle] /\ admin = [a \in Admin |-> Idle]
  BY DEF Init
<1>2. timer = FALSE
  BY Zenon DEF Init
<1>3. Idle \in CallRecord /\ Idle \in AdminRecord /\ Idle.at = "none" /\ Idle.on = None
  BY DEF Idle, CallRecord, AdminRecord
<1>4. /\ \A w \in Worker : worker[w] = "unused" /\ pending[w] = {}
      /\ \A c \in Caller : call[c] = Idle
      /\ \A a \in Admin : admin[a] = Idle
  BY <1>1
<1>5. Types
  BY <1>1, <1>2, <1>3 DEF Types, ThreadState
<1>6. \A c \in Caller : ~Busy(c)
  BY <1>3, <1>4 DEF Busy
<1>7. Counted
  <2>1. {c \in Caller : Busy(c)} = {}
    BY <1>6
  <2>2. inflight = Cardinality({c \in Caller : Busy(c)})
    BY <2>1, <1>1, FS_EmptySet
  <2> QED BY <1>2, <2>2 DEF Counted
<1>8. Threads
  BY <1>1, <1>4, PluginHostConstants DEF Threads, Active
<1>9. Calls /\ Kills
  BY <1>3, <1>4, <1>6 DEF Calls, Kills
<1> QED BY <1>5, <1>7, <1>8, <1>9 DEF HostInv

LEMMA SpawnStep == ASSUME HostInv, NEW w \in Worker, Spawn(w) PROVE HostInv'
<1>1. /\ spawning = "validate" /\ worker[w] = "unused" /\ spawning' = "start"
      /\ worker' = [worker EXCEPT ![w] = "starting"]
      /\ UNCHANGED <<instance, inflight, timer, pending, call, admin>>
  BY DEF Spawn
<1>2. instance = None /\ None \notin Worker
  BY <1>1, PluginHostConstants DEF HostInv, Threads
<1>3. Types'
  BY <1>1 DEF HostInv, Types, ThreadState
<1>4. Threads'
  BY <1>1, <1>2 DEF HostInv, Types, Threads, Active
<1>5. Calls' /\ Kills'
  BY <1>1, <1>2 DEF HostInv, Types, Calls, Kills, Busy
<1>6. Counted'
  BY <1>1, CountKept DEF HostInv, Busy
<1> QED BY <1>3, <1>4, <1>5, <1>6 DEF HostInv

\* Refused, failed or gone: w, if there is one, is no thread that starts or serves any more.
LEMMA SpawnFailsStep ==
    ASSUME HostInv, SpawnFails,
           \/ UNCHANGED worker /\ spawning = "validate"
           \/ \E w \in Worker, how \in {"orphan", "dead"} : worker[w] = "starting" /\ worker' = [worker EXCEPT ![w] = how]
    PROVE HostInv'
<1>1. /\ spawning' = "none" /\ call' = [c \in Caller |-> IF c \in Waiting THEN Idle ELSE call[c]]
      /\ UNCHANGED <<instance, inflight, timer, pending, admin>>
  BY DEF SpawnFails
<1>2. Idle \in CallRecord /\ Idle.at = "none" /\ Idle.on = None
  BY DEF Idle, CallRecord
<1>3. /\ call' \in [Caller -> CallRecord]
      /\ \A c \in Caller : \/ call'[c] = call[c]
                           \/ call[c].at = "spawn" /\ call'[c].at = "none" /\ call'[c].on = None
  BY <1>1, <1>2 DEF HostInv, Types, Waiting
<1>4. \A c \in Caller : Busy(c)' <=> Busy(c)
  BY <1>3 DEF Busy
<1>5. Counted'
  BY <1>1, <1>4, CountKept DEF HostInv
<1>6. worker' \in [Worker -> ThreadState]
  BY DEF HostInv, Types, ThreadState
<1>7. /\ \A x \in Worker : worker'[x] # "starting"
      /\ \A x \in Worker : worker[x] # "starting" => worker'[x] = worker[x]
      /\ \A x \in Worker : worker[x] = "starting" => worker'[x] \in {"orphan", "dead"}
  BY DEF HostInv, Types, Threads, Active
<1>8. Types'
  BY <1>1, <1>3, <1>6 DEF HostInv, Types
<1>9. Threads'
  BY <1>1, <1>7 DEF HostInv, Threads, Active
<1>10. Calls'
  <2>1. \A c \in Caller : IF Busy(c)' THEN call'[c].on \in Worker ELSE call'[c].on = None
    BY <1>3, <1>4 DEF HostInv, Calls, Busy
  <2>2. \A x \in Worker : \A c \in pending'[x] : call'[c].at = "pending" /\ call'[c].on = x /\ instance' = x
    BY <1>1, <1>3 DEF HostInv, Types, Calls
  <2>3. \A c \in Caller, x \in Worker : worker'[x] = "reclaimed" => call'[c].on # x
    BY <1>3, <1>7, PluginHostConstants DEF HostInv, Calls
  <2> QED BY <2>1, <2>2, <2>3 DEF Calls
<1>11. Kills'
  <2>1. \A c \in Caller : call'[c].at = "kill" => call'[c] = call[c] /\ call[c].on \in Worker
    BY <1>3 DEF HostInv, Calls, Busy
  <2> QED BY <1>1, <1>7, <2>1 DEF HostInv, Kills
<1> QED BY <1>5, <1>8, <1>9, <1>10, <1>11 DEF HostInv

LEMMA InvokeStep == ASSUME HostInv, NEW c \in Caller, Invoke(c) PROVE HostInv'
<1>1. /\ call[c] = Idle /\ UNCHANGED <<instance, worker, admin>>
  BY DEF Invoke
<1>2. ~Busy(c)
  BY <1>1 DEF Busy, Idle
<1>3. CASE instance # None
  <2> DEFINE cs == {c}
  <2>1. PICK w \in Worker : w = instance
    BY <1>3 DEF HostInv, Types
  <2>2. Send(cs, w) /\ spawning' = spawning
    BY <1>3, <2>1 DEF Invoke
  <2>3. instance \in Worker /\ cs \in SUBSET Caller /\ \A d \in cs : ~Busy(d)
    BY <1>2, <2>1
  <2>4. c \in cs /\ \A d \in Caller \ {c} : d \notin cs
    OBVIOUS
  <2>5. cs = {c}
    OBVIOUS
  <2> HIDE DEF cs
  <2>6. /\ call' \in [Caller -> CallRecord] /\ pending' \in [Worker -> SUBSET Caller]
        /\ \A d \in cs : call'[d].at = "pending" /\ call'[d].on = w
        /\ \A d \in Caller \ cs : call'[d] = call[d]
        /\ pending'[w] = pending[w] \cup cs /\ \A x \in Worker \ {w} : pending'[x] = pending[x]
        /\ inflight' \in Nat /\ timer' \in {TRUE, FALSE} /\ Counted'
        /\ timer = FALSE => timer' = FALSE
    BY <2>2, <2>3, Sent
  <2>7. /\ call' \in [Caller -> CallRecord] /\ pending' \in [Worker -> SUBSET Caller]
        /\ call'[c].at = "pending" /\ call'[c].on = instance
        /\ \A d \in Caller \ {c} : call'[d] = call[d]
        /\ pending'[instance] = pending[instance] \cup {c}
        /\ \A x \in Worker \ {instance} : pending'[x] = pending[x]
        /\ inflight' \in Nat /\ timer' \in {TRUE, FALSE} /\ Counted'
        /\ timer = FALSE => timer' = FALSE
    BY <2>1, <2>4, <2>5, <2>6
  <2>8. Types'
    BY <1>1, <2>7 DEF HostInv, Types
  <2>9. Threads'
    BY <1>1, <2>2 DEF HostInv, Threads, Active
  <2>10. worker[instance] # "reclaimed"
    BY <2>3 DEF HostInv, Threads
  <2>11. \A d \in Caller : IF Busy(d)' THEN call'[d].on \in Worker ELSE call'[d].on = None
    BY <2>3, <2>7 DEF HostInv, Calls, Busy
  <2>12. \A x \in Worker : \A d \in pending'[x] : call'[d].at = "pending" /\ call'[d].on = x /\ instance' = x
    <3> SUFFICES ASSUME NEW x \in Worker, NEW d \in pending'[x]
                 PROVE call'[d].at = "pending" /\ call'[d].on = x /\ instance' = x
      OBVIOUS
    <3>1. CASE d = c
      <4>1. c \notin pending[x]
        BY <1>2 DEF HostInv, Calls, Busy
      <4>2. x = instance
        BY <2>7, <3>1, <4>1
      <4> QED BY <1>1, <2>7, <3>1, <4>2
    <3>2. CASE d # c
      <4>1. d \in pending[x] /\ d \in Caller
        BY <2>3, <2>7, <3>2 DEF HostInv, Types
      <4> QED BY <1>1, <2>7, <3>2, <4>1 DEF HostInv, Calls
    <3> QED BY <3>1, <3>2
  <2>13. \A d \in Caller, x \in Worker : worker'[x] = "reclaimed" => call'[d].on # x
    BY <1>1, <2>7, <2>10 DEF HostInv, Calls
  <2>14. Kills'
    BY <1>1, <2>7 DEF HostInv, Kills
  <2> QED BY <2>7, <2>8, <2>9, <2>11, <2>12, <2>13, <2>14 DEF HostInv, Calls
<1>4. CASE instance = None
  <2>1. /\ spawning' = IF spawning = "none" THEN "validate" ELSE spawning
        /\ call' = [call EXCEPT ![c] = [at |-> "spawn", on |-> None]]
        /\ UNCHANGED <<inflight, timer, pending>>
    BY <1>4 DEF Invoke
  <2>2. [at |-> "spawn", on |-> None] \in CallRecord
    BY DEF CallRecord, Running
  <2>3. /\ call' \in [Caller -> CallRecord] /\ call'[c].at = "spawn" /\ call'[c].on = None
        /\ \A d \in Caller \ {c} : call'[d] = call[d]
    BY <2>1, <2>2 DEF HostInv, Types
  <2>4. Types'
    BY <1>1, <2>1, <2>3 DEF HostInv, Types
  <2>5. Threads'
    BY <1>1, <1>4, <2>1, PluginHostConstants DEF HostInv, Threads, Active
  <2>6. Calls'
    BY <1>1, <1>2, <2>1, <2>3, PluginHostConstants DEF HostInv, Types, Calls, Busy
  <2>7. Kills'
    BY <1>1, <2>1, <2>3 DEF HostInv, Kills
  <2>8. Counted'
    BY <1>2, <2>1, <2>3, CountKept DEF HostInv, Busy
  <2> QED BY <2>4, <2>5, <2>6, <2>7, <2>8 DEF HostInv
<1> QED BY <1>3, <1>4

LEMMA ReadyStep == ASSUME HostInv, NEW w \in Worker, Ready(w) PROVE HostInv'
<1>1. /\ worker[w] = "starting" /\ worker' = [worker EXCEPT ![w] = "live"]
      /\ instance' = w /\ spawning' = "none" /\ admin' = admin /\ Send(Waiting, w)
  BY DEF Ready
<1>2. \A c \in Waiting : ~Busy(c)
  BY DEF Waiting, Busy
<1>3. Waiting \in SUBSET Caller /\ \A c \in Waiting : c \in Caller
  BY DEF Waiting
<1>4. /\ call' \in [Caller -> CallRecord] /\ pending' \in [Worker -> SUBSET Caller]
      /\ \A c \in Waiting : call'[c].at = "pending" /\ call'[c].on = w
      /\ \A c \in Caller \ Waiting : call'[c] = call[c]
      /\ pending'[w] = pending[w] \cup Waiting /\ \A x \in Worker \ {w} : pending'[x] = pending[x]
      /\ inflight' \in Nat /\ timer' \in {TRUE, FALSE} /\ Counted'
  BY <1>1, <1>2, <1>3, Sent
<1>5. instance = None /\ None \notin Worker
  BY <1>1, PluginHostConstants DEF HostInv, Threads
<1>6. Types'
  BY <1>1, <1>4 DEF HostInv, Types, ThreadState
<1>7. Threads'
  <2>1. \A x \in Worker : worker'[x] \in {"starting", "live"} => x = w
    BY <1>1 DEF HostInv, Types, Threads, Active
  <2>2. worker'[w] = "live"
    BY <1>1 DEF HostInv, Types
  <2> QED BY <1>1, <2>1, <2>2 DEF Threads, Active
<1>8. /\ \A x \in Worker : pending[x] = {}
      /\ \A c \in Caller : call[c].at # "kill"
      /\ \A a \in Admin : admin[a].at # "kill"
  BY <1>5 DEF HostInv, Types, Calls, Kills, Busy
<1>9. Calls'
  <2>1. \A c \in Caller : IF Busy(c)' THEN call'[c].on \in Worker ELSE call'[c].on = None
    BY <1>4 DEF HostInv, Calls, Busy
  <2>2. \A x \in Worker : \A c \in pending'[x] : call'[c].at = "pending" /\ call'[c].on = x /\ instance' = x
    BY <1>1, <1>4, <1>8
  <2>3. \A c \in Caller, x \in Worker : worker'[x] = "reclaimed" => call'[c].on # x
    BY <1>1, <1>4 DEF HostInv, Types, Calls
  <2> QED BY <2>1, <2>2, <2>3 DEF Calls
<1>10. Kills'
  BY <1>1, <1>4, <1>8 DEF Kills
<1> QED BY <1>4, <1>6, <1>7, <1>9, <1>10 DEF HostInv

LEMMA EndedOne ==
    ASSUME HostInv, NEW c \in Caller, NEW i, End({c}, i), Busy(c)
    PROVE /\ call' \in [Caller -> CallRecord] /\ call'[c].at = "none" /\ call'[c].on = None
          /\ \A d \in Caller \ {c} : call'[d] = call[d]
          /\ inflight' \in Nat /\ Counted' /\ timer' \in {TRUE, FALSE}
<1> DEFINE cs == {c}
<1>1. cs \in SUBSET Caller /\ c \in cs /\ (\A d \in cs : Busy(d)) /\ End(cs, i) /\ \A d \in Caller \ {c} : d \notin cs
  OBVIOUS
<1> HIDE DEF cs
<1>2. Idle.at = "none" /\ Idle.on = None
  BY DEF Idle
<1> QED BY <1>1, <1>2, Ended

LEMMA AnswerStep == ASSUME HostInv, NEW c \in Caller, Answer(c) PROVE HostInv'
<1> DEFINE w == call[c].on
<1>1. /\ call[c].at = "pending" /\ c \in pending[w] /\ worker[w] = "live"
      /\ pending' = [pending EXCEPT ![w] = @ \ {c}] /\ End({c}, instance)
      /\ UNCHANGED <<instance, spawning, worker, admin>>
  BY DEF Answer
<1>2. Busy(c) /\ w \in Worker
  BY <1>1 DEF HostInv, Calls, Busy
<1>3. /\ call' \in [Caller -> CallRecord] /\ call'[c].at = "none" /\ call'[c].on = None
      /\ \A d \in Caller \ {c} : call'[d] = call[d]
      /\ inflight' \in Nat /\ Counted' /\ timer' \in {TRUE, FALSE}
  BY <1>1, <1>2, EndedOne
<1> HIDE DEF w
<1>4. /\ pending' \in [Worker -> SUBSET Caller] /\ pending'[w] = pending[w] \ {c}
      /\ \A x \in Worker \ {w} : pending'[x] = pending[x] /\ c \notin pending[x]
  BY <1>1, <1>2 DEF HostInv, Types, Calls, w
<1>5. instance = w
  BY <1>1, <1>2 DEF HostInv, Threads
<1>6. (\A d \in Caller : call[d].at # "kill") /\ \A a \in Admin : admin[a].at # "kill"
  BY <1>1, <1>5 DEF HostInv, Kills
<1>7. Types' /\ Threads'
  BY <1>1, <1>3, <1>4 DEF HostInv, Types, Threads, Active
<1>8. Kills'
  BY <1>1, <1>3, <1>6 DEF Kills
<1>9. Calls'
  <2>1. \A d \in Caller : IF Busy(d)' THEN call'[d].on \in Worker ELSE call'[d].on = None
    BY <1>3 DEF HostInv, Calls, Busy
  <2>2. \A x \in Worker : \A d \in pending'[x] : d # c /\ d \in pending[x] /\ d \in Caller
    BY <1>4 DEF HostInv, Types
  <2>3. \A d \in Caller, x \in Worker : worker'[x] = "reclaimed" => call'[d].on # x
    BY <1>1, <1>3, PluginHostConstants DEF HostInv, Calls
  <2> QED BY <1>1, <1>3, <2>1, <2>2, <2>3 DEF HostInv, Calls
<1> QED BY <1>3, <1>7, <1>8, <1>9 DEF HostInv

\* What terminate() of the instance leaves.
LEMMA Terminated ==
    ASSUME HostInv, NEW w \in Worker, NEW how \in Stopping, Terminate(w, how)
    PROVE /\ worker' \in [Worker -> ThreadState]
          /\ worker'[w] = (IF worker[w] = "live" THEN how ELSE worker[w])
          /\ \A x \in Worker \ {w} : worker'[x] = worker[x] /\ pending'[x] = pending[x]
          /\ pending' \in [Worker -> SUBSET Caller] /\ pending'[w] = {}
BY DEF Terminate, HostInv, Types, ThreadState

LEMMA TimeoutStep == ASSUME HostInv, NEW c \in Caller, Timeout(c) PROVE HostInv'
<1> DEFINE w == call[c].on
<1>1. /\ call[c].at = "pending" /\ c \in pending[w] /\ Terminate(w, "killed")
      /\ UNCHANGED <<spawning, admin>>
  BY DEF Timeout
<1>2. Busy(c) /\ w \in Worker
  BY <1>1 DEF HostInv, Calls, Busy
<1>3. instance = w
  BY <1>1, <1>2 DEF HostInv, Calls
<1>4. /\ worker' \in [Worker -> ThreadState]
      /\ worker'[w] = (IF worker[w] = "live" THEN "killed" ELSE worker[w])
      /\ \A x \in Worker \ {w} : worker'[x] = worker[x] /\ pending'[x] = pending[x]
      /\ pending' \in [Worker -> SUBSET Caller] /\ pending'[w] = {}
  BY <1>1, <1>2, Terminated DEF Stopping
<1>5. \A x \in Worker : pending'[x] = {}
  BY <1>3, <1>4 DEF HostInv, Types, Calls
<1>6. worker[w] \in {"live", "killed", "dead"}
  BY <1>2, <1>3 DEF HostInv, Threads
<1>7. CASE worker[w] = "dead"
  <2>1. instance' = None /\ End({c}, None)
    BY <1>7 DEF Timeout
  <2>2. /\ call' \in [Caller -> CallRecord] /\ call'[c].at = "none" /\ call'[c].on = None
        /\ \A d \in Caller \ {c} : call'[d] = call[d]
        /\ inflight' \in Nat /\ Counted' /\ timer' \in {TRUE, FALSE}
    BY <1>2, <2>1, EndedOne
  <2> HIDE DEF w
  <2>3. \A x \in Worker : worker'[x] = worker[x]
    BY <1>4, <1>7
  <2>4. \A x \in Worker : ~Active(x) \/ worker[x] = "starting"
    BY <1>2, <1>3, <1>7 DEF HostInv, Threads, Active
  <2>5. Types'
    BY <1>1, <1>4, <2>1, <2>2 DEF HostInv, Types
  <2>6. Threads'
    BY <1>1, <2>1, <2>3, <2>4, PluginHostConstants DEF HostInv, Threads, Active
  <2>7. (\A d \in Caller : call[d].at # "kill") /\ \A a \in Admin : admin[a].at # "kill"
    BY <1>3, <1>7 DEF HostInv, Kills
  <2>8. Kills'
    BY <1>1, <2>2, <2>7 DEF Kills
  <2>9. Calls'
    <3>1. \A d \in Caller : IF Busy(d)' THEN call'[d].on \in Worker ELSE call'[d].on = None
      BY <2>2 DEF HostInv, Calls, Busy
    <3>2. \A d \in Caller, x \in Worker : worker'[x] = "reclaimed" => call'[d].on # x
      BY <2>2, <2>3, PluginHostConstants DEF HostInv, Calls
    <3> QED BY <1>5, <3>1, <3>2 DEF Calls
  <2> QED BY <2>2, <2>5, <2>6, <2>8, <2>9 DEF HostInv
<1>8. CASE worker[w] # "dead"
  <2>1. call' = [call EXCEPT ![c].at = "kill"] /\ UNCHANGED <<instance, inflight, timer>>
    BY <1>8 DEF Timeout
  <2>2. /\ call' \in [Caller -> CallRecord] /\ call'[c].at = "kill" /\ call'[c].on = w
        /\ \A d \in Caller \ {c} : call'[d] = call[d]
    BY <2>1 DEF HostInv, Types, CallRecord, Running
  <2> HIDE DEF w
  <2>3. worker'[w] = "killed" /\ \A x \in Worker : worker'[x] = worker[x] \/ (x = w /\ worker[x] = "live")
    BY <1>4, <1>6, <1>8
  <2>4. Types'
    BY <1>1, <1>4, <2>1, <2>2 DEF HostInv, Types
  <2>5. Threads'
    BY <1>1, <1>3, <1>4, <2>1, <2>3 DEF HostInv, Threads, Active
  <2>6. Calls'
    <3>1. \A d \in Caller : IF Busy(d)' THEN call'[d].on \in Worker ELSE call'[d].on = None
      BY <1>2, <2>2 DEF HostInv, Calls, Busy
    <3>2. \A d \in Caller, x \in Worker : worker'[x] = "reclaimed" => call'[d].on # x
      BY <2>2, <2>3, <1>4, PluginHostConstants DEF HostInv, Calls
    <3> QED BY <1>5, <3>1, <3>2 DEF Calls
  <2>7. Kills'
    BY <1>1, <1>3, <2>1, <2>2, <2>3 DEF HostInv, Kills
  <2>8. Counted'
    BY <1>2, <2>1, <2>2, CountKept DEF HostInv, Busy
  <2> QED BY <2>4, <2>5, <2>6, <2>7, <2>8 DEF HostInv
<1> QED BY <1>7, <1>8

LEMMA AdminIs ==
    ASSUME NEW a \in AdminRecord, NEW at, NEW on, a.at = at, a.on = on
    PROVE a = [at |-> at, on |-> on]
BY DEF AdminRecord

LEMMA ExitedStep ==
    ASSUME HostInv, NEW w \in Worker, worker[w] \in Stopping \cup {"live"}, Exited(w) PROVE HostInv'
<1> DEFINE killers == {c \in Caller : call[c] = [at |-> "kill", on |-> w]}
           disabling == {a \in Admin : admin[a] = [at |-> "kill", on |-> w]}
           cs == pending[w] \cup killers
           i == IF killers # {} THEN None ELSE instance
<1>1. /\ worker' = [worker EXCEPT ![w] = "dead"] /\ pending' = [pending EXCEPT ![w] = {}]
      /\ instance' = IF killers \cup disabling # {} THEN None ELSE instance
      /\ End(cs, i)
      /\ admin' = [a \in Admin |-> IF a \in disabling THEN [at |-> "off", on |-> None] ELSE admin[a]]
      /\ spawning' = spawning
  BY DEF Exited
<1>2. /\ \A c \in Caller : c \in killers <=> (call[c].at = "kill" /\ call[c].on = w)
      /\ \A a \in Admin : a \in disabling <=> (admin[a].at = "kill" /\ admin[a].on = w)
  BY CallIs, AdminIs DEF HostInv, Types
<1>3. killers \in SUBSET Caller /\ disabling \in SUBSET Admin
  OBVIOUS
<1>4. cs \in SUBSET Caller /\ \A c \in cs : Busy(c)
  BY <1>2, <1>3 DEF HostInv, Types, Calls, Busy
<1>5. \A c \in Caller : call[c].at = "kill" /\ call[c].on = w => c \in cs
  BY <1>2
<1>6. pending[w] \subseteq cs
  OBVIOUS
<1>7. killers \cup disabling # {} => instance = w
  BY <1>2, <1>3 DEF HostInv, Kills
<1>8. instance # w => cs = {}
  BY <1>2, <1>3 DEF HostInv, Types, Calls, Kills
<1>9. instance' = instance \/ (instance' = None /\ instance = w)
  BY <1>1, <1>7
<1>10. [at |-> "off", on |-> None] \in AdminRecord /\ [at |-> "off", on |-> None].at = "off"
  BY DEF AdminRecord
<1>11. /\ admin' \in [Admin -> AdminRecord]
       /\ \A a \in Admin : admin'[a].at = "kill" => admin'[a] = admin[a] /\ admin[a].on # w
  BY <1>1, <1>2, <1>10 DEF HostInv, Types
<1> HIDE DEF killers, disabling, cs, i
<1>12. /\ call' \in [Caller -> CallRecord]
       /\ \A c \in cs : call'[c] = Idle
       /\ \A c \in Caller \ cs : call'[c] = call[c]
       /\ inflight' \in Nat /\ Counted' /\ timer' \in {TRUE, FALSE}
       /\ cs = {} /\ timer = FALSE => timer' = FALSE
  BY <1>1, <1>4, Ended
<1>13. /\ worker' \in [Worker -> ThreadState] /\ worker'[w] = "dead"
       /\ \A x \in Worker \ {w} : worker'[x] = worker[x] /\ pending'[x] = pending[x]
       /\ pending' \in [Worker -> SUBSET Caller] /\ pending'[w] = {}
  BY <1>1 DEF HostInv, Types, ThreadState
<1>14. Idle.at = "none" /\ Idle.on = None
  BY DEF Idle
<1>15. Types'
  BY <1>9, <1>11, <1>12, <1>13 DEF HostInv, Types
<1>16. Threads'
  BY <1>1, <1>9, <1>13, PluginHostConstants DEF HostInv, Threads, Active
<1>17. Calls'
  <2>1. \A c \in Caller : IF Busy(c)' THEN call'[c].on \in Worker ELSE call'[c].on = None
    BY <1>12, <1>14 DEF HostInv, Calls, Busy
  <2>2. ASSUME NEW x \in Worker, NEW c \in pending'[x]
        PROVE call'[c].at = "pending" /\ call'[c].on = x /\ instance' = x
    <3>1. x # w /\ c \in pending[x] /\ c \in Caller
      BY <1>13, <2>2 DEF HostInv, Types
    <3>2. instance = x /\ call[c].at = "pending" /\ call[c].on = x
      BY <3>1 DEF HostInv, Calls
    <3>3. c \notin cs
      BY <1>8, <3>1, <3>2
    <3> QED BY <1>9, <1>12, <3>1, <3>2, <3>3
  <2>3. \A c \in Caller, x \in Worker : worker'[x] = "reclaimed" => call'[c].on # x
    BY <1>12, <1>13, <1>14, PluginHostConstants DEF HostInv, Calls
  <2> QED BY <2>1, <2>2, <2>3 DEF Calls
<1>18. Kills'
  <2>1. ASSUME NEW c \in Caller, call'[c].at = "kill"
        PROVE instance' = call'[c].on /\ worker'[call'[c].on] = "killed"
    <3>1. c \notin cs /\ call'[c] = call[c] /\ call[c].at = "kill"
      BY <1>12, <1>14, <2>1
    <3>2. call[c].on # w /\ call[c].on \in Worker /\ instance = call[c].on /\ worker[call[c].on] = "killed"
      BY <1>5, <3>1 DEF HostInv, Kills, Calls, Busy
    <3> QED BY <1>9, <1>13, <3>1, <3>2
  <2>2. ASSUME NEW a \in Admin, admin'[a].at = "kill"
        PROVE admin'[a].on \in Worker /\ instance' = admin'[a].on /\ worker'[admin'[a].on] = "killed" /\ timer' = FALSE
    <3>1. admin'[a] = admin[a] /\ admin[a].at = "kill" /\ admin[a].on # w
      BY <1>11, <2>2
    <3>2. admin[a].on \in Worker /\ instance = admin[a].on /\ worker[admin[a].on] = "killed" /\ timer = FALSE
      BY <3>1 DEF HostInv, Kills
    <3>3. timer' = FALSE
      BY <1>8, <1>12, <3>1, <3>2
    <3> QED BY <1>9, <1>13, <3>1, <3>2, <3>3
  <2> QED BY <2>1, <2>2 DEF Kills
<1> QED BY <1>12, <1>15, <1>16, <1>17, <1>18 DEF HostInv

LEMMA IdleStep == ASSUME HostInv, IdleFires PROVE HostInv'
<1>1. timer = TRUE /\ timer' = FALSE /\ UNCHANGED <<spawning, inflight, call, admin>>
  <2>1. timer
    BY DEF IdleFires
  <2>2. timer = TRUE
    BY <2>1 DEF HostInv, Types
  <2>3. timer' = FALSE
    BY Zenon DEF IdleFires
  <2> QED BY <2>2, <2>3 DEF IdleFires
<1>2. Counted'
  BY <1>1, CountKept DEF HostInv, Busy
<1>3. CASE UNCHANGED <<worker, pending, instance>>
  BY <1>1, <1>2, <1>3 DEF HostInv, Types, Threads, Active, Calls, Kills, Busy
<1>4. CASE instance # None /\ Terminate(instance, "reclaimed") /\ instance' = None
  <2>0. PICK w \in Worker : w = instance
    BY <1>4 DEF HostInv, Types
  <2>1. /\ worker' \in [Worker -> ThreadState]
        /\ worker'[w] = (IF worker[w] = "live" THEN "reclaimed" ELSE worker[w])
        /\ \A x \in Worker \ {w} : worker'[x] = worker[x] /\ pending'[x] = pending[x]
        /\ pending' \in [Worker -> SUBSET Caller] /\ pending'[w] = {}
    BY <1>4, <2>0, Terminated DEF Stopping
  <2>2. \A c \in Caller : ~Busy(c)
    <3>1. Cardinality({c \in Caller : Busy(c)}) = 0
      BY <1>1 DEF HostInv, Counted
    <3>2. {c \in Caller : Busy(c)} = {}
      BY <3>1, Finite, FS_EmptySet
    <3> QED BY <3>2
  <2>3. \A c \in Caller : call[c].on = None
    BY <2>2 DEF HostInv, Calls
  <2>4. Types'
    BY <1>1, <1>4, <2>1 DEF HostInv, Types
  <2>5. worker[w] # "starting" /\ \A x \in Worker : worker'[x] \in {"starting", "live"} => worker[x] = "starting"
    BY <2>0, <2>1 DEF HostInv, Threads
  <2>6. Threads'
    BY <1>1, <1>4, <2>0, <2>1, <2>5, PluginHostConstants DEF HostInv, Threads, Active
  <2>7. \A x \in Worker : pending'[x] = {}
    BY <2>1, <2>2 DEF HostInv, Types, Calls, Busy
  <2>8. Calls'
    BY <1>1, <2>2, <2>3, <2>7, PluginHostConstants DEF Calls, Busy
  <2>9. \A a \in Admin : admin[a].at # "kill"
    BY <1>1 DEF HostInv, Kills
  <2>10. Kills'
    BY <1>1, <2>2, <2>9 DEF Kills, Busy
  <2> QED BY <1>2, <2>4, <2>6, <2>8, <2>10 DEF HostInv
<1> QED BY <1>3, <1>4 DEF IdleFires

LEMMA DisableStep == ASSUME HostInv, NEW a \in Admin, Disable(a) PROVE HostInv'
<1>1. admin[a] = Idle /\ timer' = FALSE /\ UNCHANGED <<spawning, inflight, call>>
  BY DEF Disable
<1>2. Counted'
  BY <1>1, CountKept DEF HostInv, Busy
<1>3. [at |-> "off", on |-> None] \in AdminRecord
  BY DEF AdminRecord
<1>4. CASE instance = None
  <2>1. admin' = [admin EXCEPT ![a].at = "off"] /\ UNCHANGED <<instance, worker, pending>>
    BY <1>4 DEF Disable
  <2>2. admin' \in [Admin -> AdminRecord] /\ admin'[a].at = "off" /\ \A b \in Admin \ {a} : admin'[b] = admin[b]
    BY <2>1 DEF HostInv, Types, AdminRecord
  <2>3. Types'
    BY <1>1, <2>1, <2>2 DEF HostInv, Types
  <2>4. Threads' /\ Calls'
    BY <1>1, <2>1 DEF HostInv, Threads, Active, Calls, Busy
  <2>5. Kills'
    BY <1>1, <2>1, <2>2 DEF HostInv, Kills
  <2> QED BY <1>2, <2>3, <2>4, <2>5 DEF HostInv
<1>5. CASE instance # None
  <2>0. PICK w \in Worker : w = instance
    BY <1>5 DEF HostInv, Types
  <2>1. Terminate(w, "killed")
    BY <1>5, <2>0 DEF Disable
  <2>2. /\ worker' \in [Worker -> ThreadState]
        /\ worker'[w] = (IF worker[w] = "live" THEN "killed" ELSE worker[w])
        /\ \A x \in Worker \ {w} : worker'[x] = worker[x] /\ pending'[x] = pending[x]
        /\ pending' \in [Worker -> SUBSET Caller] /\ pending'[w] = {}
    BY <2>1, Terminated DEF Stopping
  <2>3. \A x \in Worker : pending'[x] = {}
    BY <2>0, <2>2 DEF HostInv, Types, Calls
  <2>4. worker[w] \in {"live", "killed", "dead"}
    BY <2>0 DEF HostInv, Threads
  <2>5. Calls'
    <3>1. \A c \in Caller, x \in Worker : worker'[x] = "reclaimed" => worker[x] = "reclaimed"
      BY <2>2, <2>4
    <3> QED BY <1>1, <2>3, <3>1 DEF HostInv, Calls, Busy
  <2>6. CASE worker[w] = "dead"
    <3>1. instance' = None /\ admin' = [admin EXCEPT ![a].at = "off"]
      BY <1>5, <2>0, <2>6 DEF Disable
    <3>2. admin' \in [Admin -> AdminRecord] /\ admin'[a].at = "off" /\ \A b \in Admin \ {a} : admin'[b] = admin[b]
      BY <3>1 DEF HostInv, Types, AdminRecord
    <3>3. \A x \in Worker : worker'[x] = worker[x] /\ worker[x] # "live"
      BY <2>0, <2>2, <2>6 DEF HostInv, Threads
    <3>4. Types'
      BY <1>1, <2>2, <3>1, <3>2 DEF HostInv, Types
    <3>5. Threads'
      BY <1>1, <3>1, <3>3, PluginHostConstants DEF HostInv, Threads, Active
    <3>6. (\A c \in Caller : call[c].at # "kill") /\ \A b \in Admin : admin[b].at # "kill"
      BY <2>0, <2>6 DEF HostInv, Kills
    <3>7. Kills'
      BY <1>1, <3>2, <3>6 DEF Kills
    <3> QED BY <1>2, <2>5, <3>4, <3>5, <3>7 DEF HostInv
  <2>7. CASE worker[w] # "dead"
    <3>1. instance' = w /\ admin' = [admin EXCEPT ![a] = [at |-> "kill", on |-> w]]
      BY <1>5, <2>0, <2>7 DEF Disable
    <3>2. [at |-> "kill", on |-> w] \in AdminRecord
      BY DEF AdminRecord
    <3>3. /\ admin' \in [Admin -> AdminRecord] /\ admin'[a].at = "kill" /\ admin'[a].on = w
          /\ \A b \in Admin \ {a} : admin'[b] = admin[b]
      BY <3>1, <3>2 DEF HostInv, Types
    <3>4. worker'[w] = "killed" /\ \A x \in Worker : Active(x)' => Active(x) /\ worker'[x] = worker[x]
      BY <2>2, <2>4, <2>7 DEF Active
    <3>5. Types'
      BY <1>1, <2>2, <3>1, <3>3 DEF HostInv, Types
    <3>6. Threads'
      BY <1>1, <2>0, <2>2, <3>1, <3>4, PluginHostConstants DEF HostInv, Threads, Active
    <3>7. Kills'
      BY <1>1, <2>0, <3>1, <3>3, <3>4 DEF HostInv, Kills
    <3> QED BY <1>2, <2>5, <3>5, <3>6, <3>7 DEF HostInv
  <2> QED BY <2>6, <2>7
<1> QED BY <1>4, <1>5

\* The other steps of a toggle.
LEMMA ToggleStep ==
    ASSUME HostInv, NEW a \in Admin, Enable(a) \/ EnableValidated(a) \/ SetEnabled(a) PROVE HostInv'
<1>1. UNCHANGED <<instance, spawning, inflight, timer, worker, pending, call>>
  BY DEF Enable, EnableValidated, SetEnabled
<1>2. \/ \E at \in {"enable", "on"} : admin' = [admin EXCEPT ![a].at = at]
      \/ admin' = [admin EXCEPT ![a] = Idle]
  BY DEF Enable, EnableValidated, SetEnabled
<1>3. Idle \in AdminRecord /\ Idle.at = "none"
  BY DEF Idle, AdminRecord
<1>4. admin' \in [Admin -> AdminRecord] /\ admin'[a].at # "kill" /\ \A b \in Admin \ {a} : admin'[b] = admin[b]
  BY <1>2, <1>3 DEF HostInv, Types, AdminRecord
<1>5. Types' /\ Threads' /\ Calls'
  BY <1>1, <1>4 DEF HostInv, Types, Threads, Active, Calls, Busy
<1>6. Kills'
  BY <1>1, <1>4 DEF HostInv, Kills
<1>7. Counted'
  BY <1>1, CountKept DEF HostInv, Busy
<1> QED BY <1>5, <1>6, <1>7 DEF HostInv

LEMMA HostSame ==
    ASSUME HostInv, UNCHANGED <<instance, spawning, inflight, timer, worker, pending, call, admin>> PROVE HostInv'
<1>1. Counted'
  BY CountKept DEF HostInv, Busy
<1> QED BY <1>1 DEF HostInv, Types, Threads, Active, Calls, Busy, Kills

\* The next-state relation.
LEMMA HostStep == ASSUME HostInv, [Next]_vars PROVE HostInv'
<1>1. ASSUME NEW c \in Caller, Invoke(c) PROVE HostInv'
  BY <1>1, InvokeStep
<1>2. ASSUME NEW a \in Admin, Enable(a) \/ EnableValidated(a) \/ SetEnabled(a) PROVE HostInv'
  BY <1>2, ToggleStep
<1>3. ASSUME NEW a \in Admin, Disable(a) PROVE HostInv'
  BY <1>3, DisableStep
<1>4. ASSUME NEW w \in Worker, Spawn(w) PROVE HostInv'
  BY <1>4, SpawnStep
<1>5. ASSUME SpawnFails, \/ UNCHANGED worker /\ spawning = "validate"
                         \/ \E w \in Worker, how \in {"orphan", "dead"} :
                                worker[w] = "starting" /\ worker' = [worker EXCEPT ![w] = how]
      PROVE HostInv'
  BY <1>5, SpawnFailsStep
<1>6. CASE ValidateRefuses
  BY <1>5, <1>6 DEF ValidateRefuses
<1>7. ASSUME NEW w \in Worker, StartFails(w) \/ StartExits(w) PROVE HostInv'
  BY <1>5, <1>7 DEF StartFails, StartExits
<1>8. ASSUME NEW w \in Worker, Ready(w) PROVE HostInv'
  BY <1>8, ReadyStep
<1>9. CASE IdleFires
  BY <1>9, IdleStep
<1>10. ASSUME NEW c \in Caller, Answer(c) PROVE HostInv'
  BY <1>10, AnswerStep
<1>11. ASSUME NEW c \in Caller, Timeout(c) PROVE HostInv'
  BY <1>11, TimeoutStep
<1>12. ASSUME NEW w \in Worker, Exit(w) \/ ExitsByItself(w) PROVE HostInv'
  BY <1>12, ExitedStep DEF Exit, ExitsByItself
<1>13. CASE UNCHANGED vars
  BY <1>13, HostSame DEF vars
<1> QED BY <1>1, <1>2, <1>3, <1>4, <1>6, <1>7, <1>8, <1>9, <1>10, <1>11, <1>12, <1>13 DEF Next, Requests, SpawnSteps

LEMMA HostInvariant == Spec => []HostInv
BY HostStart, HostStep, PTL DEF Spec

\* At most one thread starts or serves and the record names it, the count of running calls is exact, and
\* an idle teardown never takes the thread of a call (host.ts:505-580): the record changes hands only
\* while no call can still be answered, and the idle timer is armed only when the count is zero.
THEOREM HostServes == Spec => []WorkersServeCalls
<1> DEFINE active == {w \in Worker : worker[w] \in {"starting", "live"}}
<1>1. ASSUME HostInv PROVE Cardinality(active) <= 1
  <2>1. CASE active = {}
    BY <2>1, FS_EmptySet
  <2>2. CASE active # {}
    <3>1. PICK w \in active : TRUE
      BY <2>2
    <3>2. active = {w}
      BY <1>1, <3>1 DEF HostInv, Threads, Active
    <3>3. Cardinality({w}) = 1
      BY FS_Singleton
    <3>4. Cardinality(active) = 1
      BY <3>2, <3>3
    <3> QED BY <3>4
  <2> QED BY <2>1, <2>2
<1>2. HostInv => OneWorker
  BY <1>1 DEF OneWorker, HostInv, Threads
<1>3. HostInv => InflightExact
  BY DEF HostInv, Counted, Busy, InflightExact
<1>4. HostInv => IdleSparesCalls
  BY DEF HostInv, Calls, IdleSparesCalls
<1>5. HostInv => WorkersServeCalls
  BY <1>2, <1>3, <1>4 DEF WorkersServeCalls
<1> QED BY <1>5, HostInvariant, PTL
=============================================================================
