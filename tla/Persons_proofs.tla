--------------------------- MODULE Persons_proofs ---------------------------
(***************************************************************************)
(* Proofs about the accounts of the Studio and the members of the site,    *)
(* for any number of users, members, sessions, invitations, tokens and     *)
(* calls at once, whatever the calls interleave; first each side, then     *)
(* both together.  A call of the Studio is described by what it carries    *)
(* from the record it read to the record it stores (Kept), a member's call *)
(* by VisitOK, and each property by what must be true of the calls under   *)
(* way for the next stored record to keep it.  A step that stores nothing  *)
(* about members is a QuietMove, so that each property meets such steps    *)
(* once and the others one by one.                                         *)
(***************************************************************************)
EXTENDS MCPersons, FiniteSetTheorems, TLAPS

-----------------------------------------------------------------------------
\* The lockout both share.

\* A power of two is a natural number: it counts the subsets of 1..n.
LEMMA PowerIsNat ==
    ASSUME NEW n \in Nat
    PROVE  2 ^ n \in Nat
<1>1. IsFiniteSet(1..n) /\ Cardinality(1..n) = n
  BY FS_Interval
<1>2. IsFiniteSet(SUBSET (1..n)) /\ Cardinality(SUBSET (1..n)) = 2 ^ n
  BY <1>1, FS_SUBSET
<1> QED
  BY <1>2, FS_CardinalityType

\* A lock has a length once there are failures enough to lock.
LEMMA BackoffIsNat ==
    ASSUME NEW n \in Nat, n >= MaxAttempts
    PROVE  Backoff(n) \in Nat
<1> USE LockoutConstants
<1> DEFINE q == n \div MaxAttempts
<1>1. q \in Int /\ q >= 1
  OBVIOUS
<1> HIDE DEF q
<1>2. 2 ^ (q - 1) \in Nat
  BY <1>1, PowerIsNat
<1> DEFINE x == 2 ^ (q - 1)
<1>3. x \in Nat
  BY <1>2
<1> HIDE DEF x
<1>4. LockoutTime * x \in Nat
  BY <1>3
<1>5. Least(LockoutTime * x, MaxLockout) \in Nat
  BY <1>4 DEF Least
<1> QED
  BY <1>5 DEF Backoff, q, x

-----------------------------------------------------------------------------
\* The accounts of the Studio: what a call carries from one step to the next.

Creators == {"create", "accept"}
Ops == {"none", "login", "verify", "enableMfa", "disableMfa", "beginMfa", "update", "password",
        "logout", "invite", "revokeInvite"} \cup Creators
Stages == {"none", "putUser", "prune", "revoke", "drop", "issue", "putSession", "account", "code",
           "setSeed", "confirm", "dropSeed", "putInvite", "consume", "insert"}
Request == [op : Ops, at : Stages, t : Nat, u : User \cup {None}, base : UserRecord, rec : UserRecord,
            owners : SUBSET User, s : 0..MaxSessions, baseSession : SessionRecord,
            session : SessionRecord, code : (0..MaxCalls) \X (Code \cup {None}),
            i : Invite \cup {None}, invite : InviteRecord, todo : SUBSET Token]

\* What a record about to be stored owes to the copy the call has read.
Kept(r) ==
    /\ r.op \in {"login", "verify", "enableMfa", "disableMfa", "update", "password"} \cup Creators
    /\ r.op \in Creators => r.base = NoUser
    /\ r.rec.status # "none"
    /\ r.op \notin Creators => r.base.status # "none" /\ r.rec.email = r.base.email
    /\ r.op \notin Creators \cup {"update"} => r.rec.role = r.base.role /\ r.rec.status = r.base.status
    /\ r.op = "update" => \/ r.rec.role = "owner" /\ r.rec.status = "active"
                          \/ ~(r.u \in r.owners /\ Cardinality(r.owners) <= 1)
    /\ r.op = "login" => \/ r.rec.failed = 0
                         \/ /\ r.rec.failed = r.base.failed + 1
                            /\ r.rec.failed >= MaxAttempts => r.rec.lockedUntil = r.t + Backoff(r.rec.failed)
    /\ r.op # "login" => r.rec.failed = r.base.failed /\ r.rec.lockedUntil = r.base.lockedUntil
    /\ r.op # "enableMfa" => r.rec.codes \subseteq r.base.codes /\ (r.rec.mfa = TRUE => r.base.mfa = TRUE)
    /\ r.op = "disableMfa" => r.rec.mfa = FALSE
    /\ r.code[2] # None => r.op = "verify" /\ r.code \notin r.rec.codes

\* The session a verification or a logout will write back is one it has read.
SessionKept(r) ==
    /\ r.s \in Token
    /\ r.baseSession.user \in User /\ r.session.user = r.baseSession.user

\* What a call carries at each of its steps.
ReqOK(r) ==
    /\ r.at = "none" => r = NoRequest
    /\ r.at = "putUser" => r.u \in User /\ Kept(r)
    /\ r.at \notin {"putUser", "putSession"} => r.code[2] = None
    /\ r.at = "prune" => r.op = "login" /\ r.u \in User
    /\ r.at = "issue" => r.op \in {"login", "accept"} /\ r.u \in User
    /\ r.at = "drop" => r.op \in {"login", "update"} /\ r.u \in User
    /\ r.at = "revoke" => r.op = "update" /\ r.u \in User
    /\ r.at = "confirm" => r.op = "enableMfa" /\ r.u \in User /\ r.rec = r.base /\ r.base.status # "none"
    /\ r.at \in {"account", "code"} => r.op = "verify"
    /\ r.at = "code" => r.rec = r.base /\ r.session.tries < MaxCodeTries /\ r.base.status # "none"
    /\ r.at = "putSession" => /\ SessionKept(r)
                              /\ r.op = "verify" \/ (r.op = "logout" /\ r.session.revoked = TRUE /\ r.code[2] = None)
    /\ r.op = "verify" => SessionKept(r) /\ r.u = r.session.user
    /\ r.at \in {"setSeed", "dropSeed"} => r.u \in User
    /\ r.at = "dropSeed" => r.op = "disableMfa"
    /\ r.at \in {"putInvite", "consume", "insert"} => r.i \in Invite
    /\ r.op = "accept" => r.i \in Invite
    /\ r.at \in {"insert", "consume"} => r.op = "accept"
    /\ r.at = "insert" => r.u = None /\ r.base = NoUser
    /\ r.at = "consume" => r.u \in User
    /\ r.at = "putInvite" => r.op \in {"invite", "revokeInvite"}

\* Users are never removed: what a call has seen of them is still there.
Known(u) == users[u].status # "none"
Live(r) ==
    /\ r.at = "putSession" \/ r.op = "verify" => r.s <= minted
    /\ r.u # None => Known(r.u) \/ (r.op \in Creators /\ r.at = "putUser")
    /\ r.baseSession.user # None => Known(r.baseSession.user)

\* The stores: AuthTypeOK up to the bound on batches, and every session has its user.
StoreOK ==
    /\ users \in [User -> UserRecord]
    /\ sessions \in [Token -> SessionRecord]
    /\ invites \in [Invite -> InviteRecord]
    /\ seeds \subseteq User
    /\ minted \in 0..MaxSessions
    /\ \A s \in Token : s > minted => sessions[s] = NoSession
    /\ \A s \in Token : sessions[s] = NoSession \/ (sessions[s].user \in User /\ Known(sessions[s].user))
    /\ \A u \in User : users[u].status = "none" => users[u] = NoUser

\* Every batch of recovery codes was paid for by a call that confirmed one.
Confirming == {a \in Actor : req[a].at = "confirm"}
BatchesOK ==
    /\ batches \in Nat /\ calls \in 0..MaxCalls /\ IsFiniteSet(Confirming)
    /\ batches + Cardinality(Confirming) <= calls

AuthShape ==
    /\ now \in Nat
    /\ StoreOK
    /\ BatchesOK
    /\ req \in [Actor -> Request]
    /\ \A a \in Actor : ReqOK(req[a]) /\ Live(req[a])

LEMMA ShapeIsTyped ==
    ASSUME AuthShape
    PROVE  AuthTypeOK /\ batches \in 0..MaxCalls
<1>1. Cardinality(Confirming) \in Nat
  BY FS_CardinalityType DEF AuthShape, BatchesOK
<1>2. batches \in 0..MaxCalls
  BY <1>1, AuthConstants DEF AuthShape, BatchesOK
<1> QED
  BY <1>2 DEF AuthTypeOK, AuthShape, StoreOK, BatchesOK

\* No call: it carries nothing, and nothing is asked of it.
LEMMA NoRequestOK ==
    /\ NoRequest \in Request
    /\ ReqOK(NoRequest)
    /\ NoUser \in UserRecord /\ NoSession \in SessionRecord /\ NoInvite \in InviteRecord
    /\ NoRequest.at = "none" /\ NoRequest.u = None /\ NoRequest.op = "none"
    /\ NoRequest.baseSession.user = None
<1> USE AuthConstants
<1>1. NoUser \in UserRecord
  BY DEF NoUser, UserRecord
<1>2. NoSession \in SessionRecord
  BY DEF NoSession, SessionRecord
<1>3. NoInvite \in InviteRecord
  BY DEF NoInvite, InviteRecord
<1>4. NoRequest \in Request
  BY <1>1, <1>2, <1>3 DEF NoRequest, Request, Ops, Stages
<1>5. /\ NoRequest.at = "none" /\ NoRequest.u = None /\ NoRequest.op = "none"
      /\ NoRequest.baseSession.user = None /\ NoRequest.code[2] = None
  BY DEF NoRequest, NoSession
<1>6. ReqOK(NoRequest)
  BY <1>5 DEF ReqOK
<1> QED
  BY <1>1, <1>2, <1>3, <1>4, <1>5, <1>6

\* A call made: it is counted, and everything else stays.
LEMMA AskShape ==
    ASSUME AuthShape, NEW a \in Actor, NEW r \in Request, Ask(a, r), UNCHANGED authStore,
           ReqOK(r), Live(r)
    PROVE  AuthShape'
<1> DEFINE C == Confirming
<1>1. Confirming' \subseteq C \cup {a} /\ IsFiniteSet(C) /\ Cardinality(C) \in Nat
  BY FS_CardinalityType DEF AuthShape, BatchesOK, Confirming, Ask
<1>2. IsFiniteSet(Confirming') /\ Cardinality(Confirming') \in Nat /\ Cardinality(Confirming') <= Cardinality(C) + 1
  <2>1. IsFiniteSet(C \cup {a}) /\ Cardinality(C \cup {a}) <= Cardinality(C) + 1
    <3> HIDE DEF C
    <3>1. /\ IsFiniteSet(C \cup {a})
          /\ Cardinality(C \cup {a}) = IF a \in C THEN Cardinality(C) ELSE Cardinality(C) + 1
      BY <1>1, FS_AddElement
    <3> QED
      BY <1>1, <3>1
  <2>2. IsFiniteSet(Confirming') /\ Cardinality(Confirming') <= Cardinality(C \cup {a})
    BY <1>1, <2>1, FS_Subset
  <2> QED
    BY <1>1, <2>1, <2>2, FS_CardinalityType
<1>3. BatchesOK'
  BY <1>1, <1>2, AuthConstants DEF AuthShape, BatchesOK, Ask, authStore
<1>4. StoreOK' /\ now' \in Nat
  BY DEF AuthShape, StoreOK, Known, authStore, Ask
<1>5. req' = [req EXCEPT ![a] = r] /\ UNCHANGED <<minted, users>>
  BY DEF Ask, authStore
<1>6. \A b \in Actor : req'[b] \in Request /\ ReqOK(req'[b]) /\ Live(req[b])'
  BY <1>5 DEF AuthShape, Live, Known
<1> QED
  BY <1>3, <1>4, <1>5, <1>6 DEF AuthShape

\* A step of a call that is under way.
LEMMA GoShape ==
    ASSUME AuthShape, NEW a \in Actor, NEW r \in Request, Go(a, r), StoreOK',
           ReqOK(r), Live(r)', r.at # "confirm",
           minted' >= minted, \A u \in User : Known(u) => Known(u)',
           batches' = batches \/ (batches' = batches + 1 /\ req[a].at = "confirm")
    PROVE  AuthShape'
<1> DEFINE C == Confirming
<1>1. Confirming' = C \ {a} /\ IsFiniteSet(C) /\ Cardinality(C) \in Nat
  BY FS_CardinalityType DEF AuthShape, BatchesOK, Confirming, Go
<1>2. /\ IsFiniteSet(Confirming') /\ Cardinality(Confirming') \in Nat
      /\ Cardinality(Confirming') = IF a \in C THEN Cardinality(C) - 1 ELSE Cardinality(C)
  BY <1>1, FS_RemoveElement, FS_CardinalityType
<1>3. BatchesOK'
  BY <1>1, <1>2, AuthConstants DEF AuthShape, BatchesOK, Go, Confirming
<1>4. req' = [req EXCEPT ![a] = r] /\ now' \in Nat
  BY DEF Go, AuthShape
<1>5. ASSUME NEW b \in Actor PROVE req'[b] \in Request /\ ReqOK(req'[b]) /\ Live(req[b])'
  <2>1. CASE b = a
    BY <1>4, <2>1 DEF AuthShape, Live, Known
  <2>2. CASE b # a
    <3>1. req'[b] = req[b] /\ req[b] \in Request /\ ReqOK(req[b]) /\ Live(req[b])
      BY <1>4, <2>2 DEF AuthShape
    <3>2. /\ req[b].s \in Nat /\ minted \in Nat /\ minted' \in Nat
          /\ req[b].u \in User \cup {None} /\ req[b].baseSession.user \in User \cup {None}
      BY <3>1 DEF Request, SessionRecord, StoreOK, AuthShape
    <3> QED
      BY <3>1, <3>2 DEF Live
  <2> QED
    BY <2>1, <2>2
<1> QED
  BY <1>3, <1>4, <1>5 DEF AuthShape

\* A counted failure is a record again, one failure further and locked from the
\* limit on; nothing else of it has changed.
LEMMA CountFailureFields ==
    ASSUME NEW r \in UserRecord, NEW t \in Nat
    PROVE  LET x == CountFailure(r, t) IN
           /\ x \in UserRecord /\ x.failed = r.failed + 1
           /\ x.failed >= MaxAttempts => x.lockedUntil = t + Backoff(x.failed)
           /\ x.email = r.email /\ x.role = r.role /\ x.status = r.status
           /\ x.codes = r.codes /\ x.mfa = r.mfa
<1> USE LockoutConstants
<1>1. r.failed + 1 \in Nat
  BY DEF UserRecord
<1>2. CASE r.failed + 1 >= MaxAttempts
  <2>1. t + Backoff(r.failed + 1) \in Nat
    BY <1>1, <1>2, BackoffIsNat
  <2> QED
    BY <1>1, <1>2, <2>1 DEF CountFailure, UserRecord
<1>3. CASE ~(r.failed + 1 >= MaxAttempts)
  BY <1>1, <1>3 DEF CountFailure, UserRecord
<1> QED
  BY <1>2, <1>3

\* The calls that store the record of a user.
LEMMA RecordOps ==
    /\ "login" \in Ops /\ "password" \in Ops /\ "disableMfa" \in Ops
    /\ "enableMfa" \in Ops /\ "update" \in Ops
    /\ "create" \in Ops /\ "create" \in Creators
BY DEF Ops, Creators

\* A call that has just read a user and will store rec.
LEMMA StoringFields ==
    ASSUME AuthShape, NEW op \in Ops, NEW u \in User, NEW rec \in UserRecord
    PROVE  LET r == Storing(op, u, rec) IN
           /\ r \in Request
           /\ r.op = op /\ r.at = "putUser" /\ r.t = now /\ r.u = u
           /\ r.base = users[u] /\ r.rec = rec /\ r.owners = {}
           /\ r.baseSession = NoSession /\ r.code[2] = None
           /\ op # "verify" /\ (Known(u) \/ op \in Creators) => Live(r)
<1> USE AuthConstants, NoRequestOK
<1>1. users[u] \in UserRecord /\ now \in Nat
  BY DEF AuthShape, StoreOK
<1>2. Storing(op, u, rec) \in Request
  BY <1>1 DEF Storing, Request, Stages
<1>3. /\ Storing(op, u, rec).op = op /\ Storing(op, u, rec).at = "putUser"
      /\ Storing(op, u, rec).t = now /\ Storing(op, u, rec).u = u
      /\ Storing(op, u, rec).base = users[u] /\ Storing(op, u, rec).rec = rec
      /\ Storing(op, u, rec).owners = {} /\ Storing(op, u, rec).baseSession = NoSession
      /\ Storing(op, u, rec).code = <<0, None>>
  BY DEF Storing, NoRequest
<1> QED
  BY <1>2, <1>3 DEF Live, NoSession

\* Calls that read a user's record: what they will store is Kept.
LEMMA AuthenticateShape ==
    ASSUME AuthShape, NEW a \in Actor, NEW u \in User, NEW p \in Password, AuthenticateRead(a, u, p)
    PROVE  AuthShape'
<1>1. users[u] \in UserRecord /\ now \in Nat /\ users[u].status # "none" /\ Known(u)
  BY DEF AuthenticateRead, Exists, AuthShape, StoreOK, Known
<1>2. PICK rec \in {Unlocked(users[u]), CountFailure(users[u], now)} : Ask(a, Storing("login", u, rec))
  BY DEF AuthenticateRead
<1>3. /\ rec \in UserRecord
      /\ rec.email = users[u].email /\ rec.role = users[u].role /\ rec.status = users[u].status
      /\ rec.codes = users[u].codes /\ rec.mfa = users[u].mfa
      /\ \/ rec.failed = 0
         \/ /\ rec.failed = users[u].failed + 1
            /\ rec.failed >= MaxAttempts => rec.lockedUntil = now + Backoff(rec.failed)
  <2>1. CASE rec = Unlocked(users[u])
    BY <1>1, <2>1 DEF Unlocked, UserRecord
  <2>2. CASE rec = CountFailure(users[u], now)
    BY <1>1, <2>2, CountFailureFields
  <2> QED
    BY <2>1, <2>2
<1> DEFINE r == Storing("login", u, rec)
<1>4. /\ r \in Request /\ Live(r)
      /\ r.op = "login" /\ r.at = "putUser" /\ r.t = now /\ r.u = u /\ r.base = users[u]
      /\ r.rec = rec /\ r.code[2] = None
  BY <1>1, <1>3, StoringFields, RecordOps
<1>5. Ask(a, r) /\ UNCHANGED authStore
  BY <1>2 DEF AuthenticateRead
<1> HIDE DEF r
<1>6. ReqOK(r)
  BY <1>1, <1>3, <1>4 DEF ReqOK, Kept, Creators
<1> QED
  BY <1>4, <1>5, <1>6, AskShape

LEMMA ChangePasswordShape ==
    ASSUME AuthShape, NEW a \in Actor, NEW u \in User, NEW p \in Password, ChangePassword(a, u, p)
    PROVE  AuthShape'
<1>1. users[u] \in UserRecord /\ users[u].status # "none" /\ Known(u)
  BY DEF ChangePassword, Exists, AuthShape, StoreOK, Known
<1> DEFINE rec == [users[u] EXCEPT !.password = p, !.mustChange = FALSE]
           r == Storing("password", u, rec)
<1>2. rec \in UserRecord
  BY <1>1 DEF UserRecord
<1>3. /\ rec.email = users[u].email /\ rec.role = users[u].role /\ rec.status = users[u].status
      /\ rec.codes = users[u].codes /\ rec.mfa = users[u].mfa
      /\ rec.failed = users[u].failed /\ rec.lockedUntil = users[u].lockedUntil
  BY <1>1 DEF UserRecord
<1> HIDE DEF rec
<1>4. /\ r \in Request /\ Live(r)
      /\ r.op = "password" /\ r.at = "putUser" /\ r.u = u /\ r.base = users[u]
      /\ r.rec = rec /\ r.code[2] = None
  BY <1>1, <1>2, StoringFields, RecordOps
<1>5. Ask(a, r) /\ UNCHANGED authStore
  BY DEF ChangePassword, rec
<1> HIDE DEF r
<1>6. ReqOK(r)
  BY <1>1, <1>3, <1>4 DEF ReqOK, Kept, Creators
<1> QED
  BY <1>4, <1>5, <1>6, AskShape

LEMMA DisableMfaShape ==
    ASSUME AuthShape, NEW a \in Actor, NEW u \in User, DisableMfa(a, u)
    PROVE  AuthShape'
<1>1. users[u] \in UserRecord /\ users[u].status # "none" /\ Known(u)
  BY DEF DisableMfa, AuthShape, StoreOK, Known, NoUser
<1> DEFINE rec == [users[u] EXCEPT !.mfa = FALSE, !.codes = {}]
           r == Storing("disableMfa", u, rec)
<1>2. rec \in UserRecord
  BY <1>1 DEF UserRecord
<1>3. /\ rec.email = users[u].email /\ rec.role = users[u].role /\ rec.status = users[u].status
      /\ rec.codes = {} /\ rec.mfa = FALSE
      /\ rec.failed = users[u].failed /\ rec.lockedUntil = users[u].lockedUntil
  BY <1>1 DEF UserRecord
<1> HIDE DEF rec
<1>4. /\ r \in Request /\ Live(r)
      /\ r.op = "disableMfa" /\ r.at = "putUser" /\ r.u = u /\ r.base = users[u]
      /\ r.rec = rec /\ r.code[2] = None
  BY <1>1, <1>2, StoringFields, RecordOps
<1>5. Ask(a, r) /\ UNCHANGED authStore
  BY DEF DisableMfa, rec
<1> HIDE DEF r
<1>6. ReqOK(r)
  BY <1>1, <1>3, <1>4 DEF ReqOK, Kept, Creators
<1> QED
  BY <1>4, <1>5, <1>6, AskShape

LEMMA ConfirmMfaReadShape ==
    ASSUME AuthShape, NEW a \in Actor, NEW u \in User, ConfirmMfaRead(a, u)
    PROVE  AuthShape'
<1>1. users[u] \in UserRecord /\ users[u].status # "none" /\ Known(u)
  BY DEF ConfirmMfaRead, Exists, AuthShape, StoreOK, Known
<1> DEFINE q == Storing("enableMfa", u, users[u])
           r == [q EXCEPT !.at = "confirm"]
<1>2. /\ q \in Request /\ q.op = "enableMfa" /\ q.u = u /\ q.base = users[u]
      /\ q.rec = users[u] /\ q.code[2] = None /\ q.baseSession = NoSession
  BY <1>1, StoringFields, RecordOps
<1> HIDE DEF q
<1>3. /\ r \in Request /\ r.op = "enableMfa" /\ r.at = "confirm" /\ r.u = u /\ r.base = users[u]
      /\ r.rec = users[u] /\ r.code[2] = None /\ r.baseSession = NoSession
  BY <1>2 DEF Request, Stages
<1>4. Ask(a, r) /\ UNCHANGED authStore
  BY DEF ConfirmMfaRead, q
<1> HIDE DEF r
<1>5. ReqOK(r)
  BY <1>1, <1>3 DEF ReqOK
<1>6. Live(r)
  BY <1>1, <1>3 DEF Live, NoSession
<1> QED
  BY <1>3, <1>4, <1>5, <1>6, AskShape

\* An update of role or status was decided on the owners there were.
LEMMA UpdateUserShape ==
    ASSUME AuthShape, NEW a \in Actor, NEW u \in User, NEW role \in Roles,
           NEW status \in {"active", "disabled"}, UpdateUser(a, u, role, status)
    PROVE  AuthShape'
<1>1. users[u] \in UserRecord /\ users[u].status # "none" /\ Known(u) /\ ActiveOwners \subseteq User
  BY DEF UpdateUser, Exists, AuthShape, StoreOK, Known, ActiveOwners
<1> DEFINE rec == [users[u] EXCEPT !.role = role, !.status = status]
           q == Storing("update", u, rec)
           r == [q EXCEPT !.owners = ActiveOwners]
<1>2. /\ rec \in UserRecord /\ rec.role = role /\ rec.status = status
      /\ rec.email = users[u].email /\ rec.codes = users[u].codes /\ rec.mfa = users[u].mfa
      /\ rec.failed = users[u].failed /\ rec.lockedUntil = users[u].lockedUntil
  BY <1>1 DEF UserRecord
<1> HIDE DEF rec
<1>3. /\ q \in Request /\ q.op = "update" /\ q.at = "putUser" /\ q.u = u /\ q.base = users[u]
      /\ q.rec = rec /\ q.code[2] = None /\ q.baseSession = NoSession
  BY <1>1, <1>2, StoringFields, RecordOps
<1> HIDE DEF q
<1>4. /\ r \in Request /\ r.op = "update" /\ r.at = "putUser" /\ r.u = u /\ r.base = users[u]
      /\ r.rec = rec /\ r.code[2] = None /\ r.baseSession = NoSession /\ r.owners = ActiveOwners
  BY <1>1, <1>3 DEF Request
<1>5. Ask(a, r) /\ UNCHANGED authStore
  BY DEF UpdateUser, q, rec
<1> HIDE DEF r
<1>6. \/ rec.role = "owner" /\ rec.status = "active"
      \/ ~(u \in ActiveOwners /\ Cardinality(ActiveOwners) <= 1)
  BY <1>2 DEF UpdateUser, IsLastActiveOwner
<1>7. ReqOK(r)
  BY <1>1, <1>2, <1>4, <1>6 DEF ReqOK, Kept, Creators
<1>8. Live(r)
  BY <1>1, <1>4 DEF Live, NoSession
<1> QED
  BY <1>4, <1>5, <1>7, <1>8, AskShape

LEMMA CreateUserShape ==
    ASSUME AuthShape, NEW a \in Actor, NEW u \in User, NEW e \in Email, NEW role \in Roles,
           NEW p \in Password, CreateUser(a, u, e, role, p)
    PROVE  AuthShape'
<1> DEFINE rec == NewUser(e, role, p, TRUE)
           r == Storing("create", u, rec)
<1>1. users[u] = NoUser
  BY DEF CreateUser, Fresh, Unused, Exists
<1>2. /\ rec \in UserRecord /\ rec.status = "active" /\ rec.codes = {} /\ rec.mfa = FALSE
      /\ rec.failed = 0 /\ rec.lockedUntil = 0
      /\ NoUser.codes = {} /\ NoUser.mfa = FALSE /\ NoUser.failed = 0 /\ NoUser.lockedUntil = 0
  <2>1. rec \in UserRecord
    BY NoRequestOK DEF NewUser, UserRecord
  <2>2. rec.status = "active" /\ rec.codes = {} /\ rec.failed = 0 /\ rec.lockedUntil = 0
    BY NoRequestOK DEF NewUser, UserRecord, NoUser
  <2>3. rec.mfa = FALSE
    BY NoRequestOK DEF NewUser, UserRecord, NoUser
  <2> QED
    BY <2>1, <2>2, <2>3 DEF NoUser
<1> HIDE DEF rec
<1>3. /\ r \in Request /\ Live(r)
      /\ r.op = "create" /\ r.at = "putUser" /\ r.u = u /\ r.base = users[u]
      /\ r.rec = rec /\ r.code[2] = None
  BY <1>2, StoringFields, RecordOps
<1>4. Ask(a, r) /\ UNCHANGED authStore
  BY DEF CreateUser, rec
<1> HIDE DEF r
<1>5. ReqOK(r)
  BY <1>1, <1>2, <1>3 DEF ReqOK, Kept, Creators
<1> QED
  BY <1>3, <1>4, <1>5, AskShape

\* Calls that read a session.
LEMMA VerifyReadShape ==
    ASSUME AuthShape, NEW a \in Actor, NEW s \in Token, VerifyRead(a, s)
    PROVE  AuthShape'
<1> USE AuthConstants, NoRequestOK
<1>1. /\ sessions[s] \in SessionRecord /\ now \in Nat /\ s \in 0..MaxSessions
      /\ sessions[s].pending = TRUE
  BY DEF AuthShape, StoreOK, Token, VerifyRead, SessionRecord
<1>2. sessions[s] # NoSession
  BY <1>1 DEF NoSession
<1> DEFINE r == [NoRequest EXCEPT !.op = "verify", !.at = "account", !.t = now, !.u = sessions[s].user,
                  !.s = s, !.baseSession = sessions[s], !.session = sessions[s]]
<1>3. /\ r \in Request /\ r.op = "verify" /\ r.at = "account" /\ r.u = sessions[s].user /\ r.s = s
      /\ r.baseSession = sessions[s] /\ r.session = sessions[s] /\ r.code = <<0, None>>
  <2>1. sessions[s].user \in User \cup {None}
    BY <1>1 DEF SessionRecord
  <2>2. r \in Request
    BY <1>1, <2>1 DEF Request, Ops, Stages
  <2> QED
    BY <2>2 DEF NoRequest
<1>4. Ask(a, r) /\ UNCHANGED authStore
  BY DEF VerifyRead
<1> HIDE DEF r
<1>5. s <= minted
  BY <1>2 DEF AuthShape, StoreOK, Token
<1>6. sessions[s].user \in User /\ Known(sessions[s].user)
  BY <1>2 DEF AuthShape, StoreOK
<1>7. ReqOK(r)
  BY <1>1, <1>3, <1>6 DEF ReqOK, SessionKept
<1>8. Live(r)
  BY <1>3, <1>5, <1>6 DEF Live
<1> QED
  BY <1>3, <1>4, <1>7, <1>8, AskShape

LEMMA LogoutShape ==
    ASSUME AuthShape, NEW a \in Actor, NEW s \in Token, Logout(a, s)
    PROVE  AuthShape'
<1> USE AuthConstants, NoRequestOK
<1>1. sessions[s] \in SessionRecord /\ s \in 0..MaxSessions /\ sessions[s] # NoSession
  BY DEF AuthShape, StoreOK, Token, Logout
<1> DEFINE session == [sessions[s] EXCEPT !.revoked = TRUE]
           r == [NoRequest EXCEPT !.op = "logout", !.at = "putSession", !.s = s,
                  !.baseSession = sessions[s], !.session = session]
<1>2. session \in SessionRecord /\ session.user = sessions[s].user /\ session.revoked = TRUE
  BY <1>1 DEF SessionRecord
<1> HIDE DEF session
<1>3. /\ r \in Request /\ r.op = "logout" /\ r.at = "putSession" /\ r.u = None /\ r.s = s
      /\ r.baseSession = sessions[s] /\ r.session = session /\ r.code = <<0, None>>
  BY <1>1, <1>2 DEF Request, Ops, Stages, NoRequest
<1>4. Ask(a, r) /\ UNCHANGED authStore
  BY DEF Logout, session
<1> HIDE DEF r
<1>5. s <= minted /\ sessions[s].user \in User /\ Known(sessions[s].user)
  BY <1>1 DEF AuthShape, StoreOK, Token
<1>6. ReqOK(r)
  BY <1>2, <1>3, <1>5 DEF ReqOK, SessionKept
<1>7. Live(r)
  BY <1>3, <1>5 DEF Live
<1> QED
  BY <1>3, <1>4, <1>6, <1>7, AskShape

\* The calls that carry no record: an enrolment and the three on invitations.
LEMMA BeginMfaShape ==
    ASSUME AuthShape, NEW a \in Actor, NEW u \in User, BeginMfaEnrollment(a, u)
    PROVE  AuthShape'
<1> USE AuthConstants, NoRequestOK
<1> DEFINE r == [NoRequest EXCEPT !.op = "beginMfa", !.at = "setSeed", !.u = u]
<1>1. Known(u)
  BY DEF AuthShape, StoreOK, Known, BeginMfaEnrollment, Exists
<1>2. /\ r \in Request /\ r.op = "beginMfa" /\ r.at = "setSeed" /\ r.u = u /\ r.code = <<0, None>>
      /\ r.baseSession = NoSession
  BY DEF Request, Ops, Stages, NoRequest
<1>3. Ask(a, r) /\ UNCHANGED authStore
  BY DEF BeginMfaEnrollment
<1> HIDE DEF r
<1>4. ReqOK(r)
  BY <1>2 DEF ReqOK
<1>5. Live(r)
  BY <1>1, <1>2 DEF Live, NoSession
<1> QED
  BY <1>2, <1>3, <1>4, <1>5, AskShape

LEMMA InviteShape ==
    ASSUME AuthShape, NEW a \in Actor, NEW r \in Request,
           <<r.op, r.at>> \in {<<"invite", "putInvite">>, <<"revokeInvite", "putInvite">>, <<"accept", "insert">>},
           r.u = None, r.i \in Invite, r.code = <<0, None>>, r.baseSession = NoSession, r.base = NoUser,
           Ask(a, r), UNCHANGED authStore
    PROVE  AuthShape'
<1>1. ReqOK(r)
  BY DEF ReqOK
<1>2. Live(r)
  BY DEF Live, NoSession
<1> QED
  BY <1>1, <1>2, AskShape

LEMMA InvitesShape ==
    ASSUME AuthShape, NEW a \in Actor, NEW i \in Invite,
           RevokeInvite(a, i) \/ AcceptInvite(a, i)
           \/ \E e \in Email, role \in Roles : CreateInvite(a, i, e, role)
    PROVE  AuthShape'
<1> USE AuthConstants, NoRequestOK
<1>1. invites[i] \in InviteRecord /\ now + InviteTime \in Nat
  BY DEF AuthShape, StoreOK
<1>2. CASE RevokeInvite(a, i)
  <2> DEFINE r == [NoRequest EXCEPT !.op = "revokeInvite", !.at = "putInvite", !.i = i]
  <2>1. /\ r \in Request /\ r.op = "revokeInvite" /\ r.at = "putInvite" /\ r.i = i /\ r.u = None
        /\ r.code = <<0, None>> /\ r.baseSession = NoSession /\ r.base = NoUser
    BY DEF Request, Ops, Stages, NoRequest
  <2>2. Ask(a, r) /\ UNCHANGED authStore
    BY <1>2 DEF RevokeInvite
  <2> HIDE DEF r
  <2> QED
    BY <2>1, <2>2, InviteShape
<1>3. CASE AcceptInvite(a, i)
  <2> DEFINE invite == [invites[i] EXCEPT !.consumed = TRUE]
             r == [NoRequest EXCEPT !.op = "accept", !.at = "insert", !.i = i, !.invite = invite]
  <2>1. invite \in InviteRecord
    BY <1>1 DEF InviteRecord
  <2> HIDE DEF invite
  <2>2. /\ r \in Request /\ r.op = "accept" /\ r.at = "insert" /\ r.i = i /\ r.u = None
        /\ r.code = <<0, None>> /\ r.baseSession = NoSession /\ r.base = NoUser
    BY <2>1 DEF Request, Ops, Creators, Stages, NoRequest
  <2>3. Ask(a, r) /\ UNCHANGED authStore
    BY <1>3 DEF AcceptInvite, invite
  <2> HIDE DEF r
  <2> QED
    BY <2>2, <2>3, InviteShape
<1>4. ASSUME NEW e \in Email, NEW role \in Roles, CreateInvite(a, i, e, role)
      PROVE  AuthShape'
  <2> DEFINE invite == [email |-> e, role |-> role, expires |-> now + InviteTime, consumed |-> FALSE]
             r == [NoRequest EXCEPT !.op = "invite", !.at = "putInvite", !.i = i, !.invite = invite]
  <2>1. invite \in InviteRecord
    BY <1>1 DEF InviteRecord
  <2> HIDE DEF invite
  <2>2. /\ r \in Request /\ r.op = "invite" /\ r.at = "putInvite" /\ r.i = i /\ r.u = None
        /\ r.code = <<0, None>> /\ r.baseSession = NoSession /\ r.base = NoUser
    BY <2>1 DEF Request, Ops, Stages, NoRequest
  <2>3. Ask(a, r) /\ UNCHANGED authStore
    BY <1>4 DEF CreateInvite, invite
  <2> HIDE DEF r
  <2> QED
    BY <2>2, <2>3, InviteShape
<1> QED
  BY <1>2, <1>3, <1>4

\* The next step of a call.
LEMMA AtFields ==
    ASSUME NEW r \in Request, NEW at \in Stages
    PROVE  LET q == [r EXCEPT !.at = at] IN
           /\ q \in Request /\ q.at = at /\ q.op = r.op /\ q.t = r.t /\ q.u = r.u /\ q.base = r.base
           /\ q.rec = r.rec /\ q.owners = r.owners /\ q.s = r.s /\ q.baseSession = r.baseSession
           /\ q.session = r.session /\ q.code = r.code /\ q.i = r.i /\ q.invite = r.invite
           /\ q.todo = r.todo
BY DEF Request

\* Every stored record is followed by what its call has left to do.
LEMMA AfterPutUserFields ==
    ASSUME NEW r \in Request, r.at = "putUser", ReqOK(r)
    PROVE  LET q == AfterPutUser(r) IN
           /\ q \in Request /\ ReqOK(q) /\ q.at \in {"none", "prune", "putSession", "dropSeed", "revoke", "consume"}
           /\ q = NoRequest \/ (q.op = r.op /\ q.u = r.u /\ q.s = r.s /\ q.baseSession = r.baseSession)
<1> USE NoRequestOK
<1>1. CASE AfterPutUser(r) = NoRequest
  BY <1>1
<1>2. ASSUME NEW at \in Stages, AfterPutUser(r) = [r EXCEPT !.at = at],
             <<r.op, at>> \in {<<"login", "prune">>, <<"verify", "putSession">>, <<"disableMfa", "dropSeed">>,
                               <<"update", "revoke">>, <<"accept", "consume">>}
      PROVE  LET q == AfterPutUser(r) IN
             /\ q \in Request /\ ReqOK(q) /\ q.at = at
             /\ q.op = r.op /\ q.u = r.u /\ q.s = r.s /\ q.baseSession = r.baseSession
  <2> DEFINE q == [r EXCEPT !.at = at]
  <2>1. /\ q \in Request /\ q.at = at /\ q.op = r.op /\ q.u = r.u /\ q.s = r.s /\ q.i = r.i
        /\ q.baseSession = r.baseSession /\ q.session = r.session /\ q.code = r.code
    BY AtFields
  <2> HIDE DEF q
  <2>2. ReqOK(q)
    BY <2>1, <1>2 DEF ReqOK, Kept, SessionKept
  <2> QED
    BY <1>2, <2>1, <2>2 DEF q
<1>3. \/ AfterPutUser(r) = NoRequest
      \/ r.op = "login" /\ AfterPutUser(r) = [r EXCEPT !.at = "prune"]
      \/ r.op = "verify" /\ AfterPutUser(r) = [r EXCEPT !.at = "putSession"]
      \/ r.op = "disableMfa" /\ AfterPutUser(r) = [r EXCEPT !.at = "dropSeed"]
      \/ r.op = "update" /\ AfterPutUser(r) = [r EXCEPT !.at = "revoke"]
      \/ r.op = "accept" /\ AfterPutUser(r) = [r EXCEPT !.at = "consume"]
  BY DEF AfterPutUser, Refused
<1>4. {"prune", "putSession", "dropSeed", "revoke", "consume"} \subseteq Stages
  BY DEF Stages
<1> QED
  BY <1>1, <1>2, <1>3, <1>4

LEMMA PutUserShape ==
    ASSUME AuthShape, NEW a \in Actor, PutUser(a)
    PROVE  AuthShape'
<1>0. PICK r, q : r = req[a] /\ q = AfterPutUser(r)
  OBVIOUS
<1>1. r \in Request /\ ReqOK(r) /\ Live(r) /\ r.at = "putUser" /\ r.u \in User /\ Kept(r) /\ r.rec \in UserRecord
  BY <1>0 DEF AuthShape, PutUser, ReqOK, Request
<1>2. /\ q \in Request /\ ReqOK(q) /\ q.at \in {"none", "prune", "putSession", "dropSeed", "revoke", "consume"}
      /\ q = NoRequest \/ (q.op = r.op /\ q.u = r.u /\ q.s = r.s /\ q.baseSession = r.baseSession)
  BY <1>0, <1>1, AfterPutUserFields
<1>3. /\ Go(a, q) /\ users' = [users EXCEPT ![r.u] = r.rec]
      /\ UNCHANGED <<sessions, invites, seeds, minted, batches>>
  BY <1>0 DEF PutUser
<1>4. /\ users' \in [User -> UserRecord] /\ users'[r.u].status # "none"
      /\ \A u \in User : u # r.u => users'[u] = users[u]
  BY <1>1, <1>3 DEF AuthShape, StoreOK, Kept
<1>5. \A u \in User : Known(u) => Known(u)'
  BY <1>4 DEF Known
<1>6. StoreOK'
  BY <1>3, <1>4, <1>5 DEF AuthShape, StoreOK
<1>7. Live(q)'
  <2>1. CASE q = NoRequest
    BY <2>1, NoRequestOK DEF Live
  <2>2. CASE q.op = r.op /\ q.u = r.u /\ q.s = r.s /\ q.baseSession = r.baseSession
    <3>1. r.baseSession.user \in User \cup {None}
      BY <1>1 DEF Request, SessionRecord
    <3>0. r.op # "logout"
      BY <1>1 DEF Kept, Creators
    <3>2. q.at = "putSession" => r.op = "verify"
      BY <1>2, <2>2, <3>0 DEF ReqOK
    <3> QED
      BY <1>1, <1>3, <1>4, <1>5, <2>2, <3>1, <3>2 DEF Live, Known
  <2> QED
    BY <1>2, <2>1, <2>2
<1> QED
  BY <1>2, <1>3, <1>5, <1>6, <1>7, GoShape DEF AuthShape, StoreOK

\* A step that stores no user and issues no session.
LEMMA StepShape ==
    ASSUME AuthShape, NEW a \in Actor, NEW r \in Request, Go(a, r),
           ReqOK(r), Live(r), r.at # "confirm", UNCHANGED <<users, minted>>,
           batches' = batches \/ (batches' = batches + 1 /\ req[a].at = "confirm"),
           sessions' \in [Token -> SessionRecord], invites' \in [Invite -> InviteRecord], seeds' \subseteq User,
           \A s \in Token : \/ sessions'[s] = sessions[s] \/ sessions'[s] = NoSession
                            \/ /\ sessions'[s].user \in User /\ Known(sessions'[s].user)
                               /\ s <= minted
    PROVE  AuthShape'
<1>1. \A u : Known(u)' <=> Known(u)
  BY DEF Known
<1>2. Live(r)'
  BY <1>1 DEF Live
<1>3. StoreOK'
  <2>1. \A s \in Token : s > minted => sessions'[s] = NoSession
    BY DEF AuthShape, StoreOK, Token
  <2>2. \A s \in Token : sessions'[s] = NoSession \/ (sessions'[s].user \in User /\ Known(sessions'[s].user))
    BY DEF AuthShape, StoreOK
  <2> QED
    BY <1>1, <2>1, <2>2 DEF AuthShape, StoreOK, Known
<1> QED
  BY <1>1, <1>2, <1>3, GoShape DEF AuthShape, StoreOK

LEMMA EndShape ==
    ASSUME AuthShape, NEW a \in Actor, End(a), UNCHANGED <<users, minted, batches>>,
           sessions' \in [Token -> SessionRecord], invites' \in [Invite -> InviteRecord], seeds' \subseteq User,
           \A s \in Token : \/ sessions'[s] = sessions[s] \/ sessions'[s] = NoSession
                            \/ /\ sessions'[s].user \in User /\ Known(sessions'[s].user)
                               /\ s <= minted
    PROVE  AuthShape'
<1>1. NoRequest \in Request /\ ReqOK(NoRequest) /\ Live(NoRequest) /\ NoRequest.at # "confirm" /\ Go(a, NoRequest)
  BY NoRequestOK DEF Live, End
<1> QED
  BY <1>1, StepShape

LEMMA PutSessionShape ==
    ASSUME AuthShape, NEW a \in Actor, PutSession(a)
    PROVE  AuthShape'
<1>0. PICK r : r = req[a]
  OBVIOUS
<1>1. r \in Request /\ ReqOK(r) /\ Live(r) /\ r.at = "putSession"
  BY <1>0 DEF AuthShape, PutSession
<1>2. r.s \in Token /\ r.session \in SessionRecord /\ r.baseSession.user \in User
      /\ r.session.user = r.baseSession.user
  BY <1>1 DEF ReqOK, SessionKept, Request
<1>3. r.s <= minted /\ Known(r.session.user) /\ r.session.user \in User
  <2>1. r.baseSession.user # None
    BY <1>2, AuthConstants
  <2> QED
    BY <1>1, <1>2, <2>1 DEF Live
<1>4. /\ End(a) /\ sessions' = [sessions EXCEPT ![r.s] = r.session]
      /\ UNCHANGED <<users, invites, seeds, minted, batches>>
  BY <1>0 DEF PutSession
<1>5. sessions' \in [Token -> SessionRecord] /\ invites' \in [Invite -> InviteRecord] /\ seeds' \subseteq User
  BY <1>2, <1>4 DEF AuthShape, StoreOK
<1>6. \A s \in Token : sessions'[s] = sessions[s]
                       \/ (sessions'[s].user \in User /\ Known(sessions'[s].user) /\ s <= minted)
  BY <1>2, <1>3, <1>4 DEF AuthShape, StoreOK
<1> QED
  BY <1>4, <1>5, <1>6, EndShape

\* Sweeping a user's sessions: what is dropped is marked first.
LEMMA SweepShape ==
    ASSUME AuthShape, NEW a \in Actor, PruneUserSessions(a) \/ RevokeUserSessions(a) \/ DropSession(a)
    PROVE  AuthShape'
<1>0. PICK r : r = req[a]
  OBVIOUS
<1>1. r \in Request /\ ReqOK(r) /\ Live(r) /\ r.at \in {"prune", "revoke", "drop"}
  BY <1>0 DEF AuthShape, PruneUserSessions, RevokeUserSessions, DropSession
<1>2. r.op \in {"login", "update", "accept"} /\ r.u \in User /\ r.todo \subseteq Token /\ r.code[2] = None
  BY <1>1 DEF ReqOK, Request
<1>3. ASSUME NEW at \in {"drop", "issue"}, NEW todo \in SUBSET Token, NEW q \in Request,
             q = [r EXCEPT !.at = at, !.todo = todo],
             at = "drop" => r.op \in {"login", "update"}, at = "issue" => r.op \in {"login", "accept"}
      PROVE  ReqOK(q) /\ Live(q) /\ q.at # "confirm"
  <2>1. /\ q.at = at /\ q.op = r.op /\ q.u = r.u /\ q.s = r.s /\ q.i = r.i /\ q.code = r.code
        /\ q.baseSession = r.baseSession /\ q.session = r.session
    BY <1>1, <1>3 DEF Request
  <2>2. ReqOK(q)
    BY <1>1, <1>2, <1>3, <2>1 DEF ReqOK, SessionKept
  <2> QED
    BY <1>1, <1>2, <1>3, <2>1, <2>2 DEF Live
<1>4. {"drop", "issue"} \subseteq Stages
  BY DEF Stages
<1>5. ASSUME NEW todo \in SUBSET Token, Go(a, [r EXCEPT !.at = "drop", !.todo = todo]),
             UNCHANGED authStore, r.op \in {"login", "update"}
      PROVE  AuthShape'
  <2>1. PICK q : q = [r EXCEPT !.at = "drop", !.todo = todo]
    OBVIOUS
  <2>2. q \in Request
    BY <1>1, <1>4, <2>1 DEF Request
  <2>3. ReqOK(q) /\ Live(q) /\ q.at # "confirm"
    BY <1>3, <1>5, <2>1, <2>2
  <2> QED
    BY <1>5, <2>1, <2>2, <2>3, StepShape DEF authStore, AuthShape, StoreOK
<1>6. CASE PruneUserSessions(a) \/ RevokeUserSessions(a)
  <2>1. r.at \in {"prune", "revoke"} /\ UNCHANGED authStore
    BY <1>0, <1>6 DEF PruneUserSessions, RevokeUserSessions
  <2>2. r.op \in {"login", "update"}
    BY <1>1, <2>1 DEF ReqOK
  <2>3. PICK todo \in SUBSET Token : Go(a, [r EXCEPT !.at = "drop", !.todo = todo])
    BY <1>0, <1>6 DEF PruneUserSessions, RevokeUserSessions, SessionsOf
  <2> QED
    BY <1>5, <2>1, <2>2, <2>3
<1>7. CASE DropSession(a)
  <2>0. r.at = "drop" /\ r.op \in {"login", "update"}
    BY <1>0, <1>1, <1>7 DEF DropSession, ReqOK
  <2>1. ASSUME NEW s \in r.todo, sessions' = [sessions EXCEPT ![s] = NoSession],
               Go(a, [r EXCEPT !.todo = @ \ {s}]), UNCHANGED <<users, invites, seeds, minted, batches>>
        PROVE  AuthShape'
    <3>1. PICK todo, q : todo \in SUBSET Token /\ todo = r.todo \ {s} /\ q = [r EXCEPT !.at = "drop", !.todo = todo]
      BY <1>2
    <3>2. q \in Request /\ q = [r EXCEPT !.todo = r.todo \ {s}]
      BY <1>1, <1>4, <2>0, <3>1 DEF Request
    <3>3. ReqOK(q) /\ Live(q) /\ q.at # "confirm"
      BY <1>3, <2>0, <3>1, <3>2
    <3>4. Go(a, q)
      BY <2>1, <3>2
    <3>5. /\ sessions' \in [Token -> SessionRecord]
          /\ \A x \in Token : sessions'[x] = sessions[x] \/ sessions'[x] = NoSession
      BY <2>1, NoRequestOK DEF AuthShape, StoreOK
    <3> QED
      BY <2>1, <3>2, <3>3, <3>4, <3>5, StepShape DEF AuthShape, StoreOK
  <2>2. CASE Go(a, [r EXCEPT !.at = "issue"]) /\ UNCHANGED authStore /\ r.op = "login"
    <3>1. PICK q : q = [r EXCEPT !.at = "issue"]
      OBVIOUS
    <3>2. q \in Request /\ q = [r EXCEPT !.at = "issue", !.todo = r.todo]
      BY <1>1, <1>4, <3>1 DEF Request
    <3>3. ReqOK(q) /\ Live(q) /\ q.at # "confirm"
      BY <1>2, <1>3, <2>2, <3>1, <3>2
    <3> QED
      BY <2>2, <3>1, <3>2, <3>3, StepShape DEF authStore, AuthShape, StoreOK
  <2>3. CASE End(a) /\ UNCHANGED authStore
    BY <2>3, EndShape DEF authStore, AuthShape, StoreOK
  <2> QED
    BY <1>0, <1>7, <2>1, <2>2, <2>3 DEF DropSession, authStore
<1> QED
  BY <1>6, <1>7

LEMMA IssueShape ==
    ASSUME AuthShape, NEW a \in Actor, IssueSession(a)
    PROVE  AuthShape'
<1> USE AuthConstants
<1>0. PICK r, x, y : r = req[a] /\ x = minted + 1 /\ y = sessions'[x]
  OBVIOUS
<1>1. r \in Request /\ ReqOK(r) /\ Live(r) /\ r.at = "issue" /\ r.u \in User /\ r.rec \in UserRecord
  BY <1>0 DEF AuthShape, IssueSession, ReqOK, Request
<1>2. /\ x \in Token /\ x = minted + 1 /\ minted' = x /\ minted \in Nat
      /\ sessions' = [sessions EXCEPT ![x] =
                        [user |-> r.u, pending |-> r.rec.mfa, tries |-> 0, revoked |-> FALSE,
                         expires |-> now + IF r.rec.mfa THEN ChallengeTime ELSE SessionTime]]
      /\ UNCHANGED <<users, invites, seeds, batches>> /\ End(a)
  BY <1>0 DEF IssueSession, AuthShape, StoreOK, Token
<1>3. y = [user |-> r.u, pending |-> r.rec.mfa, tries |-> 0, revoked |-> FALSE,
           expires |-> now + IF r.rec.mfa THEN ChallengeTime ELSE SessionTime]
  BY <1>0, <1>2 DEF AuthShape, StoreOK
<1>4. y \in SessionRecord /\ y.user = r.u
  <2>1. r.rec.mfa \in BOOLEAN /\ now \in Nat
    BY <1>1 DEF UserRecord, AuthShape
  <2>2. now + (IF r.rec.mfa THEN ChallengeTime ELSE SessionTime) \in Nat
    BY <2>1
  <2>3. 0 \in 0..MaxCodeTries
    OBVIOUS
  <2> QED
    BY <1>1, <1>3, <2>1, <2>2, <2>3 DEF SessionRecord
<1>5. Known(r.u)
  BY <1>1 DEF Live
<1>6. sessions' = [sessions EXCEPT ![x] = y]
  BY <1>2, <1>3
<1>7. \A u : Known(u)' <=> Known(u)
  BY <1>2 DEF Known
<1>8. StoreOK'
  <2>1. sessions' \in [Token -> SessionRecord]
    BY <1>2, <1>4, <1>6 DEF AuthShape, StoreOK
  <2>2. \A s \in Token : s > minted' => sessions'[s] = NoSession
    BY <1>2, <1>6 DEF AuthShape, StoreOK, Token
  <2>3. \A s \in Token : sessions'[s] = NoSession \/ (sessions'[s].user \in User /\ Known(sessions[s].user)')
    BY <1>1, <1>2, <1>4, <1>5, <1>6, <1>7 DEF AuthShape, StoreOK
  <2>4. minted' \in 0..MaxSessions
    BY <1>2 DEF Token
  <2> QED
    BY <1>2, <1>7, <2>1, <2>2, <2>3, <2>4 DEF AuthShape, StoreOK, Known
<1>9. NoRequest \in Request /\ ReqOK(NoRequest) /\ Live(NoRequest)' /\ NoRequest.at # "confirm" /\ Go(a, NoRequest)
  BY <1>2, NoRequestOK DEF Live, End
<1> QED
  BY <1>2, <1>7, <1>8, <1>9, GoShape

\* The second step of a verification: its user, and whether a try is left.
LEMMA VerifyAccountShape ==
    ASSUME AuthShape, NEW a \in Actor, VerifyAccount(a)
    PROVE  AuthShape'
<1> USE AuthConstants
<1>0. PICK r, account : r = req[a] /\ account = users[r.u]
  OBVIOUS
<1>1. r \in Request /\ ReqOK(r) /\ Live(r) /\ r.at = "account"
  BY <1>0 DEF AuthShape, VerifyAccount
<1>2. r.op = "verify" /\ SessionKept(r) /\ r.u = r.session.user /\ r.u \in User /\ r.code[2] = None
      /\ r.session.tries \in Nat
  BY <1>1 DEF ReqOK, SessionKept, Request, SessionRecord
<1>3. account \in UserRecord /\ account.status # "none"
  BY <1>0, <1>1, <1>2 DEF AuthShape, StoreOK, Live, Known
<1>4. CASE sessions' = [sessions EXCEPT ![r.s] = NoSession] /\ End(a)
  <2>1. sessions' \in [Token -> SessionRecord]
    BY <1>4, NoRequestOK DEF AuthShape, StoreOK
  <2>2. \A s \in Token : sessions'[s] = sessions[s] \/ sessions'[s] = NoSession
    BY <1>4 DEF AuthShape, StoreOK
  <2> QED
    BY <1>4, <2>1, <2>2, EndShape DEF VerifyAccount, AuthShape, StoreOK
<1>5. CASE /\ ~(r.session.tries >= MaxCodeTries) /\ UNCHANGED sessions
           /\ Go(a, [r EXCEPT !.at = "code", !.base = account, !.rec = account])
  <2>1. PICK q : q = [r EXCEPT !.at = "code", !.base = account, !.rec = account]
    OBVIOUS
  <2>2. /\ q \in Request /\ q.at = "code" /\ q.op = r.op /\ q.u = r.u /\ q.s = r.s /\ q.code = r.code
        /\ q.baseSession = r.baseSession /\ q.session = r.session /\ q.base = account /\ q.rec = account
    BY <1>1, <1>3, <2>1 DEF Request, Stages
  <2>3. ReqOK(q)
    BY <1>2, <1>3, <1>5, <2>2 DEF ReqOK, SessionKept
  <2>4. Live(q)
    BY <1>1, <1>2, <2>2 DEF Live
  <2> QED
    BY <1>5, <2>1, <2>2, <2>3, <2>4, StepShape DEF VerifyAccount, AuthShape, StoreOK
<1> QED
  BY <1>0, <1>4, <1>5 DEF VerifyAccount

\* A code given, wrong or right.
LEMMA VerifyCodeShape ==
    ASSUME AuthShape, NEW a \in Actor,
           VerifyWrong(a) \/ VerifyTotp(a) \/ \E n \in 0..MaxCalls, c \in Code : VerifyRecovery(a, <<n, c>>)
    PROVE  AuthShape'
<1> USE AuthConstants
<1>0. PICK r : r = req[a]
  OBVIOUS
<1>1. r \in Request /\ ReqOK(r) /\ Live(r) /\ r.at = "code"
  BY <1>0 DEF AuthShape, VerifyWrong, VerifyTotp, VerifyRecovery
<1>2. /\ r.op = "verify" /\ SessionKept(r) /\ r.u = r.session.user /\ r.u \in User
      /\ r.session \in SessionRecord /\ r.rec = r.base /\ r.rec \in UserRecord
      /\ r.session.tries < MaxCodeTries /\ r.base.status # "none" /\ r.t \in Nat /\ r.code[2] = None
  BY <1>1 DEF ReqOK, SessionKept, Request
<1>3. Promoted(r) \in SessionRecord /\ Promoted(r).user = r.session.user
  <2>1. PICK t \in Nat : t = r.t + SessionTime
    BY <1>2
  <2>2. 0 \in 0..MaxCodeTries /\ FALSE \in BOOLEAN
    OBVIOUS
  <2>3. Promoted(r) = [r.session EXCEPT !.pending = FALSE, !.tries = 0, !.expires = t]
    BY <2>1 DEF Promoted
  <2> QED
    BY <1>2, <2>2, <2>3 DEF SessionRecord
<1>4. [r.session EXCEPT !.tries = @ + 1] \in SessionRecord /\ [r.session EXCEPT !.tries = @ + 1].user = r.session.user
  BY <1>2 DEF SessionRecord
<1>5. ASSUME NEW session \in SessionRecord, session.user = r.session.user,
             Go(a, [r EXCEPT !.at = "putSession", !.session = session]), UNCHANGED authStore
      PROVE  AuthShape'
  <2>1. PICK q : q = [r EXCEPT !.at = "putSession", !.session = session]
    OBVIOUS
  <2>2. /\ q \in Request /\ q.at = "putSession" /\ q.op = r.op /\ q.u = r.u /\ q.s = r.s
        /\ q.baseSession = r.baseSession /\ q.session = session
    BY <1>1, <2>1 DEF Request, Stages
  <2>3. ReqOK(q)
    BY <1>2, <1>5, <2>2 DEF ReqOK, SessionKept
  <2>4. Live(q)
    BY <1>1, <1>2, <2>2 DEF Live
  <2> QED
    BY <1>5, <2>1, <2>2, <2>3, <2>4, StepShape DEF authStore, AuthShape, StoreOK
<1>6. CASE VerifyWrong(a)
  <2>1. PICK session : session = [r.session EXCEPT !.tries = @ + 1]
    OBVIOUS
  <2>2. Go(a, [r EXCEPT !.at = "putSession", !.session = session]) /\ UNCHANGED authStore
    <3>1. [r EXCEPT !.at = "putSession", !.session = session]
          = [r EXCEPT !.at = "putSession", !.session.tries = @ + 1]
      BY <1>1, <2>1 DEF Request
    <3> QED
      BY <1>0, <1>6, <3>1 DEF VerifyWrong
  <2> QED
    BY <1>4, <1>5, <2>1, <2>2
<1>7. CASE VerifyTotp(a)
  BY <1>0, <1>3, <1>5, <1>7 DEF VerifyTotp
<1>8. ASSUME NEW n \in 0..MaxCalls, NEW c \in Code, VerifyRecovery(a, <<n, c>>)
      PROVE  AuthShape'
  <2>1. PICK code, rec, session, q : /\ code = <<n, c>> /\ rec = [r.rec EXCEPT !.codes = @ \ {code}]
                            /\ session = Promoted(r)
                            /\ q = [r EXCEPT !.at = "putUser", !.code = code, !.rec = rec,
                                             !.session = session]
    OBVIOUS
  <2>2. /\ rec \in UserRecord /\ rec.codes = r.rec.codes \ {code}
        /\ rec.email = r.base.email /\ rec.role = r.base.role /\ rec.status = r.base.status
        /\ rec.failed = r.base.failed /\ rec.lockedUntil = r.base.lockedUntil /\ rec.mfa = r.base.mfa
    BY <1>2, <2>1 DEF UserRecord
  <2>3. code \in (0..MaxCalls) \X (Code \cup {None})
    BY <2>1
  <2>4. /\ q \in Request /\ q.at = "putUser" /\ q.op = r.op /\ q.u = r.u /\ q.s = r.s
        /\ q.baseSession = r.baseSession /\ q.session = session /\ q.base = r.base /\ q.rec = rec
        /\ q.code = code
    BY <1>1, <1>3, <2>1, <2>2, <2>3 DEF Request, Stages
  <2>5. ReqOK(q)
    BY <1>2, <1>3, <2>1, <2>2, <2>4 DEF ReqOK, SessionKept, Kept, Creators
  <2>6. Live(q)
    BY <1>1, <1>2, <2>4 DEF Live
  <2>7. Go(a, q) /\ UNCHANGED authStore
    <3>1. q = [r EXCEPT !.at = "putUser", !.code = <<n, c>>, !.rec.codes = @ \ {<<n, c>>},
                        !.session = Promoted(r)]
      BY <1>1, <2>1 DEF Request
    <3> QED
      BY <1>0, <1>8, <3>1 DEF VerifyRecovery
  <2> QED
    BY <2>4, <2>5, <2>6, <2>7, StepShape DEF authStore, AuthShape, StoreOK
<1> QED
  BY <1>6, <1>7, <1>8

LEMMA SeedShape ==
    ASSUME AuthShape, NEW a \in Actor, SetSeed(a) \/ DropSeed(a)
    PROVE  AuthShape'
<1>1. req[a].u \in User
  BY DEF AuthShape, SetSeed, DropSeed, ReqOK
<1> QED
  BY <1>1, EndShape DEF SetSeed, DropSeed, AuthShape, StoreOK

\* Every confirmation generates a batch of codes of its own.
LEMMA ConfirmMfaShape ==
    ASSUME AuthShape, NEW a \in Actor, ConfirmMfa(a)
    PROVE  AuthShape'
<1> USE AuthConstants
<1>0. PICK r, n, codes : r = req[a] /\ n = batches + 1 /\ codes = {n} \X Code
  OBVIOUS
<1>1. r \in Request /\ ReqOK(r) /\ Live(r) /\ r.at = "confirm"
  BY <1>0 DEF AuthShape, ConfirmMfa
<1>2. /\ r.op = "enableMfa" /\ r.u \in User /\ r.rec = r.base /\ r.base.status # "none"
      /\ r.rec \in UserRecord /\ r.code[2] = None
  BY <1>1 DEF ReqOK, Request
<1>3. n \in 0..MaxCalls
  <2>1. a \in Confirming /\ IsFiniteSet(Confirming)
    BY <1>0, <1>1 DEF Confirming, AuthShape, BatchesOK
  <2>2. Cardinality(Confirming) # 0 /\ Cardinality(Confirming) \in Nat
    BY <2>1, FS_EmptySet, FS_CardinalityType
  <2> QED
    BY <1>0, <2>2 DEF AuthShape, BatchesOK
<1>4. codes \subseteq (0..MaxCalls) \X Code
  BY <1>0, <1>3
<1>5. CASE /\ Go(a, [r EXCEPT !.at = "putUser", !.rec.mfa = TRUE, !.rec.codes = codes])
           /\ batches' = batches + 1
  <2>1. PICK rec, q : /\ rec = [r.rec EXCEPT !.mfa = TRUE, !.codes = codes]
                      /\ q = [r EXCEPT !.at = "putUser", !.rec = rec]
    OBVIOUS
  <2>2. /\ rec \in UserRecord
        /\ rec.email = r.base.email /\ rec.role = r.base.role /\ rec.status = r.base.status
        /\ rec.failed = r.base.failed /\ rec.lockedUntil = r.base.lockedUntil
    BY <1>2, <1>4, <2>1 DEF UserRecord
  <2>3. /\ q \in Request /\ q.at = "putUser" /\ q.op = r.op /\ q.u = r.u /\ q.s = r.s /\ q.code = r.code
        /\ q.baseSession = r.baseSession /\ q.session = r.session /\ q.base = r.base /\ q.rec = rec
    BY <1>1, <2>1, <2>2 DEF Request, Stages
  <2>4. ReqOK(q)
    BY <1>2, <2>2, <2>3 DEF ReqOK, Kept, Creators
  <2>5. Live(q)
    BY <1>1, <1>2, <2>3 DEF Live
  <2>6. Go(a, q)
    <3>1. q = [r EXCEPT !.at = "putUser", !.rec.mfa = TRUE, !.rec.codes = codes]
      BY <1>1, <2>1 DEF Request
    <3> QED
      BY <1>5, <3>1
  <2> QED
    BY <1>0, <1>1, <1>5, <2>3, <2>4, <2>5, <2>6, StepShape DEF ConfirmMfa, AuthShape, StoreOK
<1>6. CASE End(a) /\ UNCHANGED batches
  BY <1>6, EndShape DEF ConfirmMfa, AuthShape, StoreOK
<1> QED
  BY <1>0, <1>5, <1>6 DEF ConfirmMfa

LEMMA PutInviteShape ==
    ASSUME AuthShape, NEW a \in Actor, PutInvite(a)
    PROVE  AuthShape'
<1>0. PICK r : r = req[a]
  OBVIOUS
<1>1. r \in Request /\ ReqOK(r) /\ Live(r) /\ r.at \in {"putInvite", "consume"}
  BY <1>0 DEF AuthShape, PutInvite
<1>2. r.i \in Invite /\ r.invite \in InviteRecord
  BY <1>1 DEF ReqOK, Request
<1>3. /\ invites' \in [Invite -> InviteRecord] /\ UNCHANGED <<users, sessions, seeds, minted, batches>>
      /\ sessions' \in [Token -> SessionRecord] /\ seeds' \subseteq User
  BY <1>0, <1>2 DEF PutInvite, AuthShape, StoreOK
<1>4. CASE r.op = "accept" /\ Go(a, [r EXCEPT !.at = "issue"])
  <2>1. PICK q : q = [r EXCEPT !.at = "issue"]
    OBVIOUS
  <2>2. /\ q \in Request /\ q.at = "issue" /\ q.op = r.op /\ q.u = r.u /\ q.code = r.code /\ q.i = r.i
        /\ q.baseSession = r.baseSession
    BY <1>1, <2>1 DEF Request, Stages
  <2>3. ReqOK(q)
    BY <1>1, <1>2, <1>4, <2>2 DEF ReqOK
  <2>4. Live(q)
    BY <1>1, <1>4, <2>2 DEF Live
  <2> QED
    BY <1>3, <1>4, <2>1, <2>2, <2>3, <2>4, StepShape
<1>5. CASE End(a)
  BY <1>3, <1>5, EndShape
<1> QED
  BY <1>0, <1>4, <1>5 DEF PutInvite

LEMMA InsertInvitedShape ==
    ASSUME AuthShape, NEW a \in Actor, NEW u \in User, NEW p \in Password, InsertInvited(a, u, p)
    PROVE  AuthShape'
<1> USE AuthConstants
<1>0. PICK r, rec : r = req[a] /\ rec = NewUser(r.invite.email, r.invite.role, p, FALSE)
  OBVIOUS
<1>1. r \in Request /\ ReqOK(r) /\ Live(r) /\ r.at = "insert"
  BY <1>0 DEF AuthShape, InsertInvited
<1>2. /\ r.op = "accept" /\ r.u = None /\ r.base = NoUser /\ r.code[2] = None /\ r.i \in Invite
      /\ r.invite.email \in Email \cup {None} /\ r.invite.role \in Roles \cup {"none"}
  BY <1>1 DEF ReqOK, Request, InviteRecord
<1>3. /\ rec \in UserRecord /\ rec.status = "active" /\ rec.codes = {} /\ rec.mfa = FALSE
      /\ rec.failed = 0 /\ rec.lockedUntil = 0
      /\ NoUser.codes = {} /\ NoUser.mfa = FALSE /\ NoUser.failed = 0 /\ NoUser.lockedUntil = 0
  <2>1. rec \in UserRecord
    BY <1>0, <1>2, NoRequestOK DEF NewUser, UserRecord
  <2>2. rec.status = "active" /\ rec.codes = {} /\ rec.failed = 0 /\ rec.lockedUntil = 0
    BY <1>0, NoRequestOK DEF NewUser, UserRecord, NoUser
  <2>3. rec.mfa = FALSE
    BY <1>0, NoRequestOK DEF NewUser, UserRecord, NoUser
  <2> QED
    BY <2>1, <2>2, <2>3 DEF NoUser
<1>4. CASE Go(a, [r EXCEPT !.at = "putUser", !.u = u, !.rec = rec])
  <2>1. PICK q : q = [r EXCEPT !.at = "putUser", !.u = u, !.rec = rec]
    OBVIOUS
  <2>2. /\ q \in Request /\ q.at = "putUser" /\ q.op = r.op /\ q.u = u /\ q.code = r.code /\ q.i = r.i
        /\ q.baseSession = r.baseSession /\ q.base = r.base /\ q.rec = rec
    BY <1>1, <1>3, <2>1 DEF Request, Stages
  <2>3. ReqOK(q)
    BY <1>2, <1>3, <2>2 DEF ReqOK, Kept, Creators
  <2>4. Live(q)
    BY <1>1, <1>2, <2>2 DEF Live, Creators
  <2> QED
    BY <1>4, <2>1, <2>2, <2>3, <2>4, StepShape DEF InsertInvited, authStore, AuthShape, StoreOK
<1>5. CASE End(a)
  BY <1>5, EndShape DEF InsertInvited, authStore, AuthShape, StoreOK
<1> QED
  BY <1>0, <1>4, <1>5 DEF InsertInvited

-----------------------------------------------------------------------------
\* The shape holds at the start and after every step.

LEMMA InitShape ==
    ASSUME AuthInit
    PROVE  AuthShape
<1> USE AuthConstants, NoRequestOK
<1>1. PICK w \in Worlds : users = w.users /\ seeds = {u \in User : w.users[u].mfa}
  BY DEF AuthInit
<1>2. /\ users \in [User -> UserRecord]
      /\ \A u \in User : users[u].status = "none" => users[u] = NoUser
  BY <1>1, WorldsConstants
<1>3. StoreOK
  BY <1>1, <1>2 DEF AuthInit, StoreOK
<1>4. Confirming = {}
  BY DEF AuthInit, Confirming
<1>5. BatchesOK
  BY <1>4, FS_EmptySet DEF AuthInit, BatchesOK
<1>6. \A a \in Actor : req[a] = NoRequest /\ Live(NoRequest)
  BY DEF AuthInit, Live
<1> QED
  BY <1>3, <1>5, <1>6 DEF AuthInit, AuthShape

LEMMA NextShape ==
    ASSUME AuthShape, [AuthNext]_authVars
    PROVE  AuthShape'
<1>1. CASE UNCHANGED <<authStore, req, calls>> /\ now' \in Nat
  BY <1>1 DEF AuthShape, StoreOK, BatchesOK, Confirming, Known, Live, authStore
<1>2. CASE UNCHANGED authVars
  BY <1>1, <1>2 DEF authVars, AuthShape
<1>3. CASE AuthTime
  BY <1>1, <1>3 DEF AuthTime, PassTime, AuthShape
<1>4. ASSUME NEW a \in Actor, AuthCalls(a) \/ AuthStep(a)
      PROVE  AuthShape'
  <2>1. CASE AuthCalls(a)
    BY <2>1, AuthenticateShape, ChangePasswordShape, VerifyReadShape, LogoutShape, BeginMfaShape,
       ConfirmMfaReadShape, DisableMfaShape, UpdateUserShape, CreateUserShape, InvitesShape
    DEF AuthCalls
  <2>2. CASE AuthStep(a)
    BY <2>2, PutUserShape, SweepShape, IssueShape, PutSessionShape, VerifyAccountShape, VerifyCodeShape,
       SeedShape, ConfirmMfaShape, PutInviteShape, InsertInvitedShape
    DEF AuthStep
  <2> QED
    BY <1>4, <2>1, <2>2
<1> QED
  BY <1>2, <1>3, <1>4 DEF AuthNext

-----------------------------------------------------------------------------
\* Which step changes what.

\* Only the storing of a record changes users, and what is remembered of them.
LEMMA UsersChange ==
    ASSUME [AuthNext]_authVars
    PROVE  \/ \E a \in Actor : PutUser(a)
           \/ UNCHANGED <<users, staleUsers, raced, changes, fails, lastFail>>
<1> USE DEF authStore, authHistory
<1>1. CASE UNCHANGED authVars
  BY <1>1 DEF authVars
<1>2. CASE AuthTime
  BY <1>2 DEF AuthTime
<1>3. ASSUME NEW a \in Actor, AuthCalls(a)
      PROVE  UNCHANGED <<users, staleUsers, raced, changes, fails, lastFail>>
  BY <1>3 DEF AuthCalls, AuthenticateRead, ChangePassword, VerifyRead, Logout, BeginMfaEnrollment,
     ConfirmMfaRead, DisableMfa, UpdateUser, CreateUser, CreateInvite, RevokeInvite, AcceptInvite
<1>4. ASSUME NEW a \in Actor, AuthStep(a), ~PutUser(a)
      PROVE  UNCHANGED <<users, staleUsers, raced, changes, fails, lastFail>>
  BY <1>4 DEF AuthStep, PruneUserSessions, RevokeUserSessions, DropSession, IssueSession, PutSession,
     VerifyAccount, VerifyWrong, VerifyTotp, VerifyRecovery, SetSeed, ConfirmMfa, DropSeed, PutInvite,
     InsertInvited
<1> QED
  BY <1>1, <1>2, <1>3, <1>4 DEF AuthNext

\* Four steps change sessions, and what is remembered of them.
LEMMA SessionsChange ==
    ASSUME [AuthNext]_authVars
    PROVE  \/ \E a \in Actor : DropSession(a) \/ IssueSession(a) \/ PutSession(a) \/ VerifyAccount(a)
           \/ UNCHANGED <<sessions, staleSessions, factors, born>>
<1> USE DEF authStore, authHistory
<1>1. CASE UNCHANGED authVars
  BY <1>1 DEF authVars
<1>2. CASE AuthTime
  BY <1>2 DEF AuthTime
<1>3. ASSUME NEW a \in Actor, AuthCalls(a)
      PROVE  UNCHANGED <<sessions, staleSessions, factors, born>>
  BY <1>3 DEF AuthCalls, AuthenticateRead, ChangePassword, VerifyRead, Logout, BeginMfaEnrollment,
     ConfirmMfaRead, DisableMfa, UpdateUser, CreateUser, CreateInvite, RevokeInvite, AcceptInvite
<1>4. ASSUME NEW a \in Actor, AuthStep(a),
             ~(DropSession(a) \/ IssueSession(a) \/ PutSession(a) \/ VerifyAccount(a))
      PROVE  UNCHANGED <<sessions, staleSessions, factors, born>>
  BY <1>4 DEF AuthStep, PutUser, PruneUserSessions, RevokeUserSessions,
     VerifyWrong, VerifyTotp, VerifyRecovery, SetSeed, ConfirmMfa, DropSeed, PutInvite, InsertInvited
<1> QED
  BY <1>1, <1>2, <1>3, <1>4 DEF AuthNext

\* A step is of one call, and leaves the others where they are.
LEMMA OneCallSteps ==
    ASSUME AuthShape, NEW b \in Actor, AuthCalls(b) \/ AuthStep(b)
    PROVE  \A a \in Actor \ {b} : req'[a] = req[a]
<1>1. PICK r : req' = [req EXCEPT ![b] = r]
  <2>1. CASE AuthCalls(b)
    BY <2>1 DEF AuthCalls, AuthenticateRead, ChangePassword, VerifyRead, Logout, BeginMfaEnrollment,
       ConfirmMfaRead, DisableMfa, UpdateUser, CreateUser, CreateInvite, RevokeInvite, AcceptInvite, Ask
  <2>2. CASE AuthStep(b)
    BY <2>2 DEF AuthStep, PutUser, PruneUserSessions, RevokeUserSessions, DropSession, IssueSession,
       PutSession, VerifyAccount, VerifyWrong, VerifyTotp, VerifyRecovery, SetSeed, ConfirmMfa, DropSeed,
       PutInvite, InsertInvited, Go, End
  <2> QED
    BY <2>1, <2>2
<1> QED
  BY <1>1 DEF AuthShape

\* What a stored record owes to the call that stores it.
LEMMA PutUserFacts ==
    ASSUME AuthShape, NEW a \in Actor, PutUser(a), NEW r, r = req[a]
    PROVE  /\ r \in Request /\ Kept(r) /\ r.at = "putUser" /\ r.u \in User
           /\ r.rec \in UserRecord /\ r.base \in UserRecord /\ users[r.u] \in UserRecord
           /\ users' = [users EXCEPT ![r.u] = r.rec]
           /\ \A v \in User : users'[v] = IF v = r.u THEN r.rec ELSE users[v]
BY DEF AuthShape, StoreOK, PutUser, ReqOK, Request

\* What one step makes of a call r that it does not end.
\* A call that has read a user, and will store or confirm.
Reads(q) ==
    /\ q.u \in User /\ Known(q.u) /\ q.base = users[q.u]
    /\ q.rec.codes \subseteq users[q.u].codes /\ q.code[2] = None
    /\ q.op \notin Creators
    /\ q.at = "confirm" \/ (q.at = "putUser" /\ q.op # "enableMfa")
\* A call that carries no record yet.
Begins(q) ==
    /\ q.base = NoUser /\ q.rec = NoUser /\ q.code[2] = None
    /\ q.u # None => Known(q.u)
    /\ q.at \in {"account", "putSession", "setSeed", "putInvite", "insert"}
\* A call that has found an email and an identity free for a new user.
Creates(a, q) ==
    /\ q.u \in User /\ Fresh(q.u) /\ q.base = NoUser /\ q.rec.codes = {} /\ q.code[2] = None
    /\ q.op \in Creators /\ q.at = "putUser"
    /\ EmailFree(q.rec.email)
    /\ crowded' = IF Creating(q.rec.email) # {} THEN crowded \cup {q.rec.email} ELSE crowded
\* A call one step further, with the record it had.
Continues(r, q) ==
    /\ q.op = r.op /\ q.u = r.u /\ q.base = r.base /\ q.rec = r.rec /\ q.code = r.code
    /\ r.at # "none" /\ q.at \in {"prune", "revoke", "drop", "issue", "putSession", "dropSeed", "consume"}
    /\ q.at = "dropSeed" => r.at = "putUser" /\ r.op = "disableMfa"
    /\ q.at = "putSession" /\ q.code[2] # None => r.at = "putUser"
    /\ r.at = "putUser" => r.u \in User /\ users'[r.u] = r.rec
\* A verification that has found its user.
Finds(r, q) ==
    /\ q.op = "verify" /\ r.op = "verify" /\ r.at = "account" /\ q.at = "code" /\ q.u = r.u /\ q.u \in User
    /\ q.base = users[q.u] /\ q.rec = q.base /\ q.code = r.code
\* A verification that will store the record without the code given.
Spends(r, q) ==
    /\ q.op = "verify" /\ r.op = "verify" /\ r.at = "code" /\ q.at = "putUser" /\ q.u = r.u /\ q.base = r.base
    /\ q.code \in r.rec.codes /\ q.rec.codes = r.rec.codes \ {q.code}
\* A confirmation, with a batch of codes of its own.
Enables(r, q) ==
    /\ q.op = "enableMfa" /\ r.op = "enableMfa" /\ r.at = "confirm" /\ q.at = "putUser"
    /\ q.u = r.u /\ q.u \in seeds /\ q.base = r.base
    /\ batches' = batches + 1 /\ q.rec.codes = {batches + 1} \X Code /\ q.code = r.code

\* A call made: what it has read.
LEMMA CallsMove ==
    ASSUME AuthShape, NEW a \in Actor, AuthCalls(a), NEW q, q = req'[a]
    PROVE  req[a] = NoRequest /\ (Reads(q) \/ Begins(q) \/ Creates(a, q))
<1> USE NoRequestOK, AuthConstants
<1>0. ASSUME NEW r \in Request, Ask(a, r)
      PROVE  q = r /\ req[a] = NoRequest
  BY <1>0 DEF Ask, AuthShape
<1>1. ASSUME NEW op \in Ops \ (Creators \cup {"enableMfa"}), NEW u \in User, NEW rec \in UserRecord, Exists(u),
             rec.codes \subseteq users[u].codes, Ask(a, Storing(op, u, rec))
      PROVE  req[a] = NoRequest /\ Reads(q)
  <2>1. PICK r : r = Storing(op, u, rec)
    OBVIOUS
  <2>2. /\ r \in Request /\ r.op = op /\ r.at = "putUser" /\ r.u = u
        /\ r.base = users[u] /\ r.rec = rec /\ r.code[2] = None
    BY <2>1, StoringFields
  <2>3. q = r /\ req[a] = NoRequest
    BY <1>0, <1>1, <2>1, <2>2
  <2>4. Known(u)
    BY <1>1 DEF Exists, Known, AuthShape, StoreOK
  <2> QED
    BY <1>1, <2>2, <2>3, <2>4 DEF Reads
<1>2. \A u \in User : users[u] \in UserRecord /\ now \in Nat
  BY DEF AuthShape, StoreOK
<1>3. ASSUME NEW u \in User, NEW p \in Password, AuthenticateRead(a, u, p)
      PROVE  req[a] = NoRequest /\ Reads(q)
  <2>1. PICK rec \in {Unlocked(users[u]), CountFailure(users[u], now)} : Ask(a, Storing("login", u, rec))
    BY <1>3 DEF AuthenticateRead
  <2>2. rec \in UserRecord /\ rec.codes = users[u].codes
    <3>1. CASE rec = Unlocked(users[u])
      BY <1>2, <3>1 DEF Unlocked, UserRecord
    <3>2. CASE rec = CountFailure(users[u], now)
      BY <1>2, <3>2, CountFailureFields
    <3> QED
      BY <2>1, <3>1, <3>2
  <2>3. "login" \in Ops \ (Creators \cup {"enableMfa"})
    BY DEF Ops, Creators
  <2> QED
    BY <1>1, <1>3, <2>1, <2>2, <2>3 DEF AuthenticateRead
<1>4. ASSUME NEW u \in User, NEW p \in Password, ChangePassword(a, u, p)
      PROVE  req[a] = NoRequest /\ Reads(q)
  <2>1. PICK rec : rec = [users[u] EXCEPT !.password = p, !.mustChange = FALSE]
    OBVIOUS
  <2>2. rec \in UserRecord /\ rec.codes = users[u].codes
    BY <1>2, <2>1 DEF UserRecord
  <2>3. "password" \in Ops \ (Creators \cup {"enableMfa"})
    BY DEF Ops, Creators
  <2> QED
    BY <1>1, <1>4, <2>1, <2>2, <2>3 DEF ChangePassword
<1>5. ASSUME NEW u \in User, DisableMfa(a, u)
      PROVE  req[a] = NoRequest /\ Reads(q)
  <2>1. PICK rec : rec = [users[u] EXCEPT !.mfa = FALSE, !.codes = {}]
    OBVIOUS
  <2>2. rec \in UserRecord /\ rec.codes = {}
    BY <1>2, <2>1 DEF UserRecord
  <2>3. "disableMfa" \in Ops \ (Creators \cup {"enableMfa"})
    BY DEF Ops, Creators
  <2>4. Exists(u)
    BY <1>5 DEF DisableMfa, Exists, NoUser
  <2> QED
    BY <1>1, <1>5, <2>1, <2>2, <2>3, <2>4 DEF DisableMfa
<1>6. ASSUME NEW u \in User, NEW role \in Roles, NEW status \in {"active", "disabled"},
             UpdateUser(a, u, role, status)
      PROVE  req[a] = NoRequest /\ Reads(q)
  <2>1. PICK rec, x, r : /\ rec = [users[u] EXCEPT !.role = role, !.status = status]
                         /\ x = Storing("update", u, rec)
                         /\ r = [x EXCEPT !.owners = ActiveOwners]
    OBVIOUS
  <2>2. rec \in UserRecord /\ rec.codes = users[u].codes
    BY <1>2, <2>1 DEF UserRecord
  <2>3. "update" \in Ops \ (Creators \cup {"enableMfa"})
    BY DEF Ops, Creators
  <2>4. /\ x \in Request /\ x.op = "update" /\ x.at = "putUser" /\ x.u = u
        /\ x.base = users[u] /\ x.rec = rec /\ x.code[2] = None
    BY <2>1, <2>2, <2>3, StoringFields
  <2>5. /\ r \in Request /\ r.op = "update" /\ r.at = "putUser" /\ r.u = u
        /\ r.base = users[u] /\ r.rec = rec /\ r.code[2] = None
    BY <2>1, <2>4 DEF Request, ActiveOwners
  <2>6. Ask(a, r) /\ Known(u)
    BY <1>6, <2>1 DEF UpdateUser, Exists, Known, AuthShape, StoreOK
  <2> QED
    BY <1>0, <2>2, <2>3, <2>5, <2>6 DEF Reads
<1>7. ASSUME NEW u \in User, ConfirmMfaRead(a, u)
      PROVE  req[a] = NoRequest /\ Reads(q)
  <2>1. PICK x, r : x = Storing("enableMfa", u, users[u]) /\ r = [x EXCEPT !.at = "confirm"]
    OBVIOUS
  <2>2. "enableMfa" \in Ops \ Creators
    BY DEF Ops, Creators
  <2>4. /\ x \in Request /\ x.op = "enableMfa" /\ x.at = "putUser" /\ x.u = u
        /\ x.base = users[u] /\ x.rec = users[u] /\ x.code[2] = None
    BY <1>2, <2>1, <2>2, StoringFields
  <2>5. /\ r \in Request /\ r.op = "enableMfa" /\ r.at = "confirm" /\ r.u = u
        /\ r.base = users[u] /\ r.rec = users[u] /\ r.code[2] = None
    BY <2>1, <2>4 DEF Request, Stages
  <2>6. Ask(a, r) /\ Known(u)
    BY <1>7, <2>1 DEF ConfirmMfaRead, Exists, Known, AuthShape, StoreOK
  <2> QED
    BY <1>0, <2>2, <2>5, <2>6 DEF Reads
<1>8. ASSUME NEW u \in User, NEW e \in Email, NEW role \in Roles, NEW p \in Password,
             CreateUser(a, u, e, role, p)
      PROVE  req[a] = NoRequest /\ Creates(a, q)
  <2>1. PICK rec : rec = NewUser(e, role, p, TRUE)
    OBVIOUS
  <2>4. PICK r : r = Storing("create", u, rec)
    OBVIOUS
  <2>2. rec \in UserRecord
    BY <2>1 DEF NewUser, UserRecord
  <2>3. rec.email = e /\ rec.codes = {}
    BY <2>1 DEF NewUser, UserRecord, NoUser
  <2>5. /\ r \in Request /\ r.op = "create" /\ r.at = "putUser" /\ r.u = u
        /\ r.base = users[u] /\ r.rec = rec /\ r.code[2] = None
    BY <2>2, <2>4, StoringFields, RecordOps
  <2>6. Ask(a, r) /\ EmailFree(e) /\ Fresh(u) /\ users[u] = NoUser
        /\ crowded' = IF Creating(e) # {} THEN crowded \cup {e} ELSE crowded
    BY <1>8, <2>1, <2>4 DEF CreateUser, Fresh, Unused, Exists
  <2>7. q = r /\ req[a] = NoRequest
    BY <1>0, <2>5, <2>6
  <2> QED
    BY <2>3, <2>5, <2>6, <2>7 DEF Creates, Creators
<1>9. ASSUME NEW s \in Token, VerifyRead(a, s) \/ Logout(a, s)
      PROVE  req[a] = NoRequest /\ Begins(q)
  <2>1. sessions[s] # NoSession /\ sessions[s] \in SessionRecord /\ s \in 0..MaxSessions
    BY <1>9 DEF VerifyRead, Logout, NoSession, AuthShape, StoreOK, Token
  <2>2. sessions[s].user \in User /\ Known(sessions[s].user)
    BY <2>1 DEF AuthShape, StoreOK
  <2>3. req[a] = NoRequest /\ req'[a] = q
    BY <1>9 DEF VerifyRead, Logout, Ask
  <2>4. CASE VerifyRead(a, s)
    <3>1. q = [NoRequest EXCEPT !.op = "verify", !.at = "account", !.t = now, !.u = sessions[s].user,
                  !.s = s, !.baseSession = sessions[s], !.session = sessions[s]]
      BY <2>4 DEF VerifyRead, Ask, AuthShape
    <3>2. q.at = "account" /\ q.base = NoUser /\ q.rec = NoUser /\ q.code = <<0, None>> /\ q.u = sessions[s].user
      BY <3>1 DEF NoRequest
    <3> QED
      BY <2>2, <2>3, <3>2 DEF Begins
  <2>5. CASE Logout(a, s)
    <3>1. q = [NoRequest EXCEPT !.op = "logout", !.at = "putSession", !.s = s,
                  !.baseSession = sessions[s], !.session = [sessions[s] EXCEPT !.revoked = TRUE]]
      BY <2>5 DEF Logout, Ask, AuthShape
    <3>2. q.at = "putSession" /\ q.base = NoUser /\ q.rec = NoUser /\ q.code = <<0, None>> /\ q.u = None
      BY <3>1 DEF NoRequest
    <3> QED
      BY <2>3, <3>2 DEF Begins
  <2> QED
    BY <1>9, <2>4, <2>5
<1>10. ASSUME NEW u \in User, BeginMfaEnrollment(a, u)
       PROVE  req[a] = NoRequest /\ Begins(q)
  <2>1. q = [NoRequest EXCEPT !.op = "beginMfa", !.at = "setSeed", !.u = u] /\ req[a] = NoRequest /\ Known(u)
    BY <1>10 DEF BeginMfaEnrollment, Ask, AuthShape, StoreOK, Exists, Known
  <2>2. q.at = "setSeed" /\ q.base = NoUser /\ q.rec = NoUser /\ q.code = <<0, None>> /\ q.u = u
    BY <2>1 DEF NoRequest
  <2> QED
    BY <2>1, <2>2 DEF Begins
<1>11. ASSUME NEW i \in Invite, RevokeInvite(a, i) \/ AcceptInvite(a, i)
              \/ \E e \in Email, role \in Roles : CreateInvite(a, i, e, role)
       PROVE  req[a] = NoRequest /\ Begins(q)
  <2>1. PICK op, at, invite : /\ Ask(a, [NoRequest EXCEPT !.op = op, !.at = at, !.i = i, !.invite = invite])
                              /\ at \in {"putInvite", "insert"}
    <3>1. CASE RevokeInvite(a, i)
      <4>1. [NoRequest EXCEPT !.op = "revokeInvite", !.at = "putInvite", !.i = i]
            = [NoRequest EXCEPT !.op = "revokeInvite", !.at = "putInvite", !.i = i, !.invite = NoRequest.invite]
        BY DEF NoRequest
      <4> QED
        BY <3>1, <4>1 DEF RevokeInvite
    <3>2. CASE AcceptInvite(a, i)
      BY <3>2 DEF AcceptInvite
    <3>3. CASE \E e \in Email, role \in Roles : CreateInvite(a, i, e, role)
      BY <3>3 DEF CreateInvite
    <3> QED
      BY <1>11, <3>1, <3>2, <3>3
  <2>2. q = [NoRequest EXCEPT !.op = op, !.at = at, !.i = i, !.invite = invite] /\ req[a] = NoRequest
    BY <2>1 DEF Ask, AuthShape
  <2>3. q.at = at /\ q.base = NoUser /\ q.rec = NoUser /\ q.code = <<0, None>> /\ q.u = None
    BY <2>2 DEF NoRequest
  <2> QED
    BY <2>1, <2>2, <2>3 DEF Begins
<1> QED
  BY <1>3, <1>4, <1>5, <1>6, <1>7, <1>8, <1>9, <1>10, <1>11 DEF AuthCalls

\* A step of a call under way that does not end it.
LEMMA StepsMove ==
    ASSUME AuthShape, NEW a \in Actor, AuthStep(a), NEW r, NEW q, r = req[a], q = req'[a], q # NoRequest
    PROVE  Continues(r, q) \/ Finds(r, q) \/ Spends(r, q) \/ Enables(r, q)
           \/ (Creates(a, q) /\ r.at = "insert" /\ r.op = "accept")
<1> USE NoRequestOK, AuthConstants
<1>0. r \in Request /\ ReqOK(r)
  BY DEF AuthShape
<1>1. ASSUME NEW x, Go(a, x)
      PROVE  q = x
  BY <1>1 DEF Go, AuthShape
<1>2. ~End(a)
  BY <1>1 DEF End
<1>3. ASSUME PutUser(a)
      PROVE  Continues(r, q)
  <2>1. r.at = "putUser" /\ q = AfterPutUser(r)
    BY <1>1, <1>3 DEF PutUser
  <2>2. PICK at \in {"prune", "putSession", "dropSeed", "revoke", "consume"} :
            q = [r EXCEPT !.at = at] /\ (at = "dropSeed" => r.op = "disableMfa")
    BY <2>1 DEF AfterPutUser, Refused
  <2>3. q.op = r.op /\ q.u = r.u /\ q.base = r.base /\ q.rec = r.rec /\ q.code = r.code /\ q.at = at
    BY <1>0, <2>2 DEF Request
  <2>4. r.u \in User /\ users'[r.u] = r.rec
    BY <1>3, PutUserFacts
  <2> QED
    BY <2>1, <2>2, <2>3, <2>4 DEF Continues
<1>4. ASSUME PruneUserSessions(a) \/ RevokeUserSessions(a)
      PROVE  Continues(r, q)
  <2>1. PICK todo : q = [r EXCEPT !.at = "drop", !.todo = todo] /\ r.at \in {"prune", "revoke"}
    BY <1>1, <1>4 DEF PruneUserSessions, RevokeUserSessions
  <2>2. q.op = r.op /\ q.u = r.u /\ q.base = r.base /\ q.rec = r.rec /\ q.code = r.code /\ q.at = "drop"
    BY <1>0, <2>1 DEF Request
  <2> QED
    BY <2>1, <2>2 DEF Continues
<1>5. ASSUME DropSession(a)
      PROVE  Continues(r, q)
  <2>1. PICK todo, at : /\ at \in {"drop", "issue"} /\ r.at = "drop"
                          /\ q = [r EXCEPT !.at = at, !.todo = todo]
    <3>1. CASE \E s \in r.todo : q = [r EXCEPT !.todo = @ \ {s}]
      <4>1. PICK s \in r.todo : q = [r EXCEPT !.todo = @ \ {s}]
        BY <3>1
      <4>2. q = [r EXCEPT !.at = "drop", !.todo = r.todo \ {s}]
        BY <1>0, <1>5, <4>1 DEF Request, DropSession
      <4> QED
        BY <1>5, <4>2 DEF DropSession
    <3>2. CASE q = [r EXCEPT !.at = "issue"]
      <4>1. q = [r EXCEPT !.at = "issue", !.todo = r.todo]
        BY <1>0, <3>2 DEF Request
      <4> QED
        BY <1>5, <4>1 DEF DropSession
    <3> QED
      BY <1>1, <1>2, <1>5, <3>1, <3>2 DEF DropSession
  <2>2. q.op = r.op /\ q.u = r.u /\ q.base = r.base /\ q.rec = r.rec /\ q.code = r.code /\ q.at = at
    BY <1>0, <2>1 DEF Request
  <2> QED
    BY <2>1, <2>2 DEF Continues
<1>6. ASSUME PutInvite(a)
      PROVE  Continues(r, q)
  <2>1. q = [r EXCEPT !.at = "issue"] /\ r.at \in {"putInvite", "consume"}
    BY <1>1, <1>2, <1>6 DEF PutInvite
  <2>2. q.op = r.op /\ q.u = r.u /\ q.base = r.base /\ q.rec = r.rec /\ q.code = r.code /\ q.at = "issue"
    BY <1>0, <2>1 DEF Request
  <2> QED
    BY <2>1, <2>2 DEF Continues
<1>7. ASSUME VerifyWrong(a) \/ VerifyTotp(a)
      PROVE  Continues(r, q)
  <2>1. r.at = "code" /\ r.code[2] = None
    BY <1>0, <1>7 DEF VerifyWrong, VerifyTotp, ReqOK
  <2>2. q.op = r.op /\ q.u = r.u /\ q.base = r.base /\ q.rec = r.rec /\ q.code = r.code /\ q.at = "putSession"
    <3>1. CASE VerifyWrong(a)
      BY <1>0, <1>1, <3>1 DEF VerifyWrong, Request
    <3>2. CASE VerifyTotp(a)
      BY <1>0, <1>1, <3>2 DEF VerifyTotp, Request
    <3> QED
      BY <1>7, <3>1, <3>2
  <2> QED
    BY <2>1, <2>2 DEF Continues
<1>8. ASSUME VerifyAccount(a)
      PROVE  Finds(r, q)
  <2>1. r.op = "verify" /\ r.at = "account" /\ r.u \in User
    BY <1>0, <1>8 DEF VerifyAccount, ReqOK, SessionKept
  <2>2. q = [r EXCEPT !.at = "code", !.base = users[r.u], !.rec = users[r.u]]
    BY <1>1, <1>2, <1>8 DEF VerifyAccount
  <2>3. /\ q.op = r.op /\ q.u = r.u /\ q.base = users[r.u] /\ q.rec = users[r.u] /\ q.code = r.code
        /\ q.at = "code"
    BY <1>0, <2>2 DEF Request
  <2> QED
    BY <2>1, <2>3 DEF Finds
<1>9. ASSUME NEW n \in 0..MaxCalls, NEW c \in Code, VerifyRecovery(a, <<n, c>>)
      PROVE  Spends(r, q)
  <2>1. r.op = "verify" /\ r.at = "code" /\ r.rec \in UserRecord
    BY <1>0, <1>9 DEF VerifyRecovery, ReqOK, Request
  <2>2. q = [r EXCEPT !.at = "putUser", !.code = <<n, c>>, !.rec.codes = @ \ {<<n, c>>},
                      !.session = Promoted(r)]
    BY <1>1, <1>9 DEF VerifyRecovery
  <2>3. /\ q.op = r.op /\ q.u = r.u /\ q.base = r.base /\ q.code = <<n, c>> /\ q.at = "putUser"
        /\ q.rec = [r.rec EXCEPT !.codes = @ \ {<<n, c>>}]
    BY <1>0, <2>2 DEF Request
  <2>4. q.rec.codes = r.rec.codes \ {<<n, c>>}
    BY <2>1, <2>3 DEF UserRecord
  <2> QED
    BY <1>9, <2>1, <2>3, <2>4 DEF Spends, VerifyRecovery
<1>10. ASSUME ConfirmMfa(a)
       PROVE  Enables(r, q)
  <2>1. r.op = "enableMfa" /\ r.at = "confirm" /\ r.rec \in UserRecord
    BY <1>0, <1>10 DEF ConfirmMfa, ReqOK, Request
  <2>2. /\ q = [r EXCEPT !.at = "putUser", !.rec.mfa = TRUE, !.rec.codes = {batches + 1} \X Code]
        /\ r.u \in seeds /\ batches' = batches + 1
    BY <1>1, <1>2, <1>10 DEF ConfirmMfa
  <2>3. /\ q.op = r.op /\ q.u = r.u /\ q.base = r.base /\ q.code = r.code /\ q.at = "putUser"
        /\ q.rec = [r.rec EXCEPT !.mfa = TRUE, !.codes = {batches + 1} \X Code]
    BY <1>0, <2>1, <2>2 DEF Request
  <2>4. q.rec.codes = {batches + 1} \X Code
    BY <2>1, <2>3 DEF UserRecord
  <2> QED
    BY <2>1, <2>2, <2>3, <2>4 DEF Enables
<1>11. ASSUME NEW u \in User, NEW p \in Password, InsertInvited(a, u, p)
       PROVE  Creates(a, q) /\ r.at = "insert" /\ r.op = "accept"
  <2>1. r.op = "accept" /\ r.at = "insert" /\ r.base = NoUser /\ r.code[2] = None
    BY <1>0, <1>11 DEF InsertInvited, ReqOK
  <2>2. PICK e, rec : /\ e = r.invite.email /\ rec = NewUser(e, r.invite.role, p, FALSE)
                      /\ q = [r EXCEPT !.at = "putUser", !.u = u, !.rec = rec]
                      /\ Fresh(u) /\ EmailFree(e)
                      /\ crowded' = IF Creating(e) # {} THEN crowded \cup {e} ELSE crowded
    BY <1>1, <1>2, <1>11 DEF InsertInvited
  <2>3. q.op = r.op /\ q.u = u /\ q.base = r.base /\ q.code = r.code /\ q.at = "putUser" /\ q.rec = rec
    BY <1>0, <2>2 DEF Request
  <2>4. rec.email = e /\ rec.codes = {}
    BY <2>2 DEF NewUser, UserRecord, NoUser
  <2> QED
    BY <2>1, <2>2, <2>3, <2>4 DEF Creates, Creators
<1>12. ~SetSeed(a) /\ ~DropSeed(a) /\ ~IssueSession(a) /\ ~PutSession(a)
  BY <1>2 DEF SetSeed, DropSeed, IssueSession, PutSession
<1> QED
  BY <1>3, <1>4, <1>5, <1>6, <1>7, <1>8, <1>9, <1>10, <1>11, <1>12 DEF AuthStep

\* Together: what may become of a call in a step.
LEMMA CallMoves ==
    ASSUME AuthShape, [AuthNext]_authVars, NEW a \in Actor, NEW r, NEW q, r = req[a], q = req'[a]
    PROVE  \/ q = r \/ q = NoRequest
           \/ Continues(r, q) \/ Finds(r, q) \/ Spends(r, q) \/ Enables(r, q) \/ Creates(a, q)
           \/ (r = NoRequest /\ (Reads(q) \/ Begins(q)))
<1>1. CASE UNCHANGED req
  BY <1>1
<1>2. ASSUME NEW b \in Actor, AuthCalls(b) \/ AuthStep(b), b # a
      PROVE  q = r
  BY <1>2, OneCallSteps
<1>3. CASE AuthCalls(a)
  BY <1>3, CallsMove
<1>4. CASE AuthStep(a)
  BY <1>4, StepsMove
<1> QED
  BY <1>1, <1>2, <1>3, <1>4 DEF AuthNext, AuthTime, authVars

\* What the histories hold.
HistoryOK ==
    /\ fails \in [User -> Nat] /\ lastFail \in [User -> Nat] /\ changes \in [User -> Nat]
    /\ born \in [Token -> Nat] /\ factors \in [Token -> SUBSET {"mfa", "code"}]

LEMMA HistoryStep ==
    ASSUME AuthShape, HistoryOK, [AuthNext]_authVars
    PROVE  HistoryOK'
<1>1. fails' \in [User -> Nat] /\ lastFail' \in [User -> Nat] /\ changes' \in [User -> Nat]
  <2>1. ASSUME NEW a \in Actor, PutUser(a)
        PROVE  fails' \in [User -> Nat] /\ lastFail' \in [User -> Nat] /\ changes' \in [User -> Nat]
    <3>1. PICK r : r = req[a]
      OBVIOUS
    <3>2. r.u \in User /\ r.t \in Nat
      BY <2>1, <3>1, PutUserFacts DEF Request
    <3> QED
      BY <2>1, <3>1, <3>2 DEF PutUser, HistoryOK
  <2> QED
    BY <2>1, UsersChange DEF HistoryOK
<1>2. born' \in [Token -> Nat] /\ factors' \in [Token -> SUBSET {"mfa", "code"}]
  <2>1. ASSUME NEW a \in Actor, DropSession(a) \/ VerifyAccount(a)
        PROVE  UNCHANGED <<born, factors>>
    BY <2>1 DEF DropSession, VerifyAccount, authHistory
  <2>2. ASSUME NEW a \in Actor, IssueSession(a)
        PROVE  born' \in [Token -> Nat] /\ factors' \in [Token -> SUBSET {"mfa", "code"}]
    <3>1. req[a].u \in User
      BY <2>2 DEF AuthShape, IssueSession, ReqOK
    <3> QED
      BY <2>2, <3>1 DEF IssueSession, HistoryOK
  <2>3. ASSUME NEW a \in Actor, PutSession(a)
        PROVE  born' \in [Token -> Nat] /\ factors' \in [Token -> SUBSET {"mfa", "code"}]
    BY <2>3 DEF PutSession, HistoryOK
  <2> QED
    BY <2>1, <2>2, <2>3, SessionsChange DEF HistoryOK
<1> QED
  BY <1>1, <1>2 DEF HistoryOK

-----------------------------------------------------------------------------
\* An active owner remains.  An update that takes the role or the status from the
\* last one was refused when it was read, and is decided on owners that are those
\* of the moment it is stored, or raced is set.
LEMMA OwnerStep ==
    ASSUME AuthShape, ActiveOwnerRemains, [AuthNext]_authVars
    PROVE  ActiveOwnerRemains'
<1>1. CASE UNCHANGED <<users, raced>>
  BY <1>1 DEF ActiveOwnerRemains, ActiveOwners
<1>2. ASSUME NEW a \in Actor, PutUser(a), ~raced'
      PROVE  ActiveOwners' # {}
  <2>1. PICK r : r = req[a]
    OBVIOUS
  <2>2. /\ Kept(r) /\ r.u \in User /\ \A v \in User : users'[v] = IF v = r.u THEN r.rec ELSE users[v]
    BY <1>2, <2>1, PutUserFacts
  <2>3. users[r.u] = r.base /\ (r.op = "update" => r.owners = ActiveOwners) /\ ~raced
    <3>1. raced' = (raced \/ users[r.u] # r.base \/ (r.op = "update" /\ r.owners # ActiveOwners))
      BY <1>2, <2>1 DEF PutUser
    <3> QED
      BY <1>2, <3>1, Zenon
  <2>4. PICK w \in User : w \in ActiveOwners
    BY <2>3 DEF ActiveOwnerRemains, ActiveOwners
  <2>5. CASE r.op = "update"
    <3>1. CASE r.rec.role = "owner" /\ r.rec.status = "active"
      BY <2>2, <3>1 DEF ActiveOwners
    <3>2. CASE ~(r.u \in ActiveOwners /\ Cardinality(ActiveOwners) <= 1)
      <4>1. PICK v \in ActiveOwners : v # r.u
        <5>1. CASE r.u \notin ActiveOwners
          BY <2>4, <5>1
        <5>2. CASE r.u \in ActiveOwners /\ ActiveOwners = {r.u}
          <6>1. Cardinality({r.u}) = 1
            BY FS_Singleton
          <6> QED
            BY <3>2, <5>2, <6>1
        <5> QED
          BY <5>1, <5>2
      <4> QED
        BY <2>2, <4>1 DEF ActiveOwners
    <3> QED
      BY <2>2, <2>3, <2>5, <3>1, <3>2 DEF Kept
  <2>6. CASE r.op \in Creators
    <3>1. users[r.u].status = "none"
      BY <2>2, <2>3, <2>6 DEF Kept, NoUser
    <3> QED
      BY <2>2, <2>4, <3>1 DEF ActiveOwners
  <2>7. CASE r.op \notin Creators \cup {"update"}
    BY <2>2, <2>3, <2>4, <2>7 DEF Kept, ActiveOwners
  <2> QED
    BY <2>5, <2>6, <2>7
<1> QED
  BY <1>1, <1>2, UsersChange DEF ActiveOwnerRemains

\* The lock of an account whose record no outdated copy has overwritten is the one
\* that the number of wrong passwords since the last right one asks for.
LockInv ==
    \A u \in User \ staleUsers :
        /\ users[u].failed = fails[u]
        /\ fails[u] >= MaxAttempts => users[u].lockedUntil = lastFail[u] + Backoff(fails[u])

LEMMA LockStep ==
    ASSUME AuthShape, HistoryOK, LockInv, [AuthNext]_authVars
    PROVE  LockInv'
<1> USE LockoutConstants
<1>1. CASE UNCHANGED <<users, staleUsers, fails, lastFail>>
  BY <1>1 DEF LockInv
<1>2. ASSUME NEW a \in Actor, PutUser(a), NEW u \in User, u \notin staleUsers'
      PROVE  /\ users'[u].failed = fails'[u]
             /\ fails'[u] >= MaxAttempts => users'[u].lockedUntil = lastFail'[u] + Backoff(fails'[u])
  <2>1. PICK r : r = req[a]
    OBVIOUS
  <2>2. /\ Kept(r) /\ r.u \in User /\ r.rec \in UserRecord
        /\ \A v \in User : users'[v] = IF v = r.u THEN r.rec ELSE users[v]
    BY <1>2, <2>1, PutUserFacts
  <2>3. /\ u = r.u => users[r.u] = r.base
        /\ u \notin staleUsers
        /\ fails' = [fails EXCEPT ![r.u] = IF Refused(r) THEN @ + 1 ELSE IF r.op = "login" THEN 0 ELSE @]
        /\ lastFail' = [lastFail EXCEPT ![r.u] = IF Refused(r) THEN r.t ELSE @]
    BY <1>2, <2>1 DEF PutUser
  <2>4. /\ users[u].failed = fails[u] /\ fails[u] \in Nat
        /\ fails[u] >= MaxAttempts => users[u].lockedUntil = lastFail[u] + Backoff(fails[u])
    BY <2>3 DEF LockInv, HistoryOK
  <2>5. CASE u # r.u
    BY <2>2, <2>3, <2>4, <2>5 DEF HistoryOK
  <2>6. CASE u = r.u /\ Refused(r)
    <3>1. fails'[u] = fails[u] + 1 /\ lastFail'[u] = r.t /\ users'[u] = r.rec
      BY <2>2, <2>3, <2>6 DEF HistoryOK
    <3>2. r.op = "login" /\ r.rec.failed # 0
      BY <2>2, <2>6 DEF Refused, UserRecord
    <3>3. r.rec.failed = fails[u] + 1
          /\ (r.rec.failed >= MaxAttempts => r.rec.lockedUntil = r.t + Backoff(r.rec.failed))
      BY <2>2, <2>3, <2>4, <2>6, <3>2 DEF Kept
    <3> QED
      BY <3>1, <3>3
  <2>7. CASE u = r.u /\ ~Refused(r) /\ r.op = "login"
    <3>1. fails'[u] = 0 /\ users'[u] = r.rec
      BY <2>2, <2>3, <2>7 DEF HistoryOK
    <3>2. r.rec.failed = 0
      BY <2>2, <2>7 DEF Refused, UserRecord
    <3> QED
      BY <3>1, <3>2
  <2>8. CASE u = r.u /\ r.op # "login"
    <3>1. fails'[u] = fails[u] /\ lastFail'[u] = lastFail[u] /\ users'[u] = r.rec
      BY <2>2, <2>3, <2>8 DEF HistoryOK, Refused
    <3>2. r.rec.failed = users[u].failed /\ r.rec.lockedUntil = users[u].lockedUntil
      BY <2>2, <2>3, <2>8 DEF Kept
    <3> QED
      BY <2>4, <3>1, <3>2
  <2> QED
    BY <2>5, <2>6, <2>7, <2>8
<1> QED
  BY <1>1, <1>2, UsersChange DEF LockInv

LEMMA LockHolds ==
    ASSUME AuthShape, HistoryOK, LockInv
    PROVE  LockEscalates
<1> SUFFICES ASSUME NEW u \in User \ staleUsers, fails[u] >= MaxAttempts
             PROVE  users[u].lockedUntil >= lastFail[u] + Backoff(fails[u])
  BY DEF LockEscalates
<1>1. fails[u] \in Nat /\ lastFail[u] \in Nat
  BY DEF HistoryOK
<1>2. Backoff(fails[u]) \in Nat
  BY <1>1, BackoffIsNat
<1> QED
  BY <1>1, <1>2 DEF LockInv

-----------------------------------------------------------------------------
\* A session of a login that met a second factor stays pending, or is dead, until
\* a code is accepted for it: a verification writes a copy that is pending or counts
\* its code, a logout a revoked one, and only an issued session is new.
FactorInv ==
    \A s \in Token : "mfa" \in factors[s] =>
        \/ "code" \in factors[s]
        \/ sessions[s].pending = TRUE \/ sessions[s].revoked = TRUE \/ sessions[s] = NoSession

LEMMA FactorStep ==
    ASSUME AuthShape, HistoryOK, FactorInv, [AuthNext]_authVars
    PROVE  FactorInv'
<1>1. CASE UNCHANGED <<sessions, staleSessions, factors, born>>
  BY <1>1 DEF FactorInv
<1>2. ASSUME NEW a \in Actor, DropSession(a) \/ VerifyAccount(a)
      PROVE  FactorInv'
  <2>1. factors' = factors /\ \A s \in Token : sessions'[s] = sessions[s] \/ sessions'[s] = NoSession
    BY <1>2 DEF DropSession, VerifyAccount, authHistory, AuthShape, StoreOK
  <2> QED
    BY <2>1 DEF FactorInv
<1>3. ASSUME NEW a \in Actor, IssueSession(a), NEW s \in Token, "mfa" \in factors'[s]
      PROVE  \/ "code" \in factors'[s]
             \/ sessions'[s].pending = TRUE \/ sessions'[s].revoked = TRUE \/ sessions'[s] = NoSession
  <2>1. CASE s # minted + 1
    BY <1>3, <2>1 DEF IssueSession, FactorInv, AuthShape, StoreOK, HistoryOK
  <2>2. CASE s = minted + 1
    <3>1. /\ factors'[s] = IF req[a].rec.mfa THEN {"mfa"} ELSE {}
          /\ sessions'[s].pending = req[a].rec.mfa
      BY <1>3, <2>2 DEF IssueSession, AuthShape, StoreOK, HistoryOK
    <3>2. req[a].rec.mfa \in BOOLEAN
      BY DEF AuthShape, Request, UserRecord
    <3> QED
      BY <1>3, <3>1, <3>2
  <2> QED
    BY <2>1, <2>2
<1>4. ASSUME NEW a \in Actor, PutSession(a), NEW s \in Token, "mfa" \in factors'[s]
      PROVE  \/ "code" \in factors'[s]
             \/ sessions'[s].pending = TRUE \/ sessions'[s].revoked = TRUE \/ sessions'[s] = NoSession
  <2>1. PICK r : r = req[a]
    OBVIOUS
  <2>2. /\ r \in Request /\ r.at = "putSession" /\ r.s \in Token
        /\ r.op = "verify" \/ r.session.revoked = TRUE
    BY <1>4, <2>1 DEF AuthShape, PutSession, ReqOK, SessionKept
  <2>3. /\ sessions' = [sessions EXCEPT ![r.s] = r.session]
        /\ factors' = IF r.op = "verify" /\ ~r.session.pending
                      THEN [factors EXCEPT ![r.s] = @ \cup {"code"}] ELSE factors
    BY <1>4, <2>1 DEF PutSession
  <2>4. r.session.pending \in BOOLEAN /\ sessions'[r.s] = r.session
    BY <2>2, <2>3 DEF Request, SessionRecord, AuthShape, StoreOK
  <2>5. CASE s # r.s
    BY <1>4, <2>2, <2>3, <2>5 DEF FactorInv, AuthShape, StoreOK, HistoryOK
  <2>6. CASE s = r.s /\ r.op = "verify" /\ ~r.session.pending
    BY <2>2, <2>3, <2>6 DEF HistoryOK
  <2>7. CASE s = r.s /\ (r.op # "verify" \/ r.session.pending)
    BY <2>2, <2>4, <2>7
  <2> QED
    BY <2>5, <2>6, <2>7
<1> QED
  BY <1>1, <1>2, <1>3, <1>4, SessionsChange DEF FactorInv

LEMMA FactorHolds ==
    ASSUME AuthShape, FactorInv
    PROVE  SecondFactorNeeded
<1> SUFFICES ASSUME NEW s \in Token, ValidateSession(s), "mfa" \in factors[s]
             PROVE  "code" \in factors[s]
  BY DEF SecondFactorNeeded
<1>1. sessions[s] # NoSession /\ ~sessions[s].revoked /\ ~sessions[s].pending
  BY DEF ValidateSession
<1> QED
  BY <1>1 DEF FactorInv

-----------------------------------------------------------------------------
\* A session from before a privilege change is about to be dropped: the change has
\* still to list the sessions, or this one is on its list.
Ending(a, s) ==
    /\ req[a].op = "update" /\ req[a].u = sessions[s].user
    /\ req[a].at = "revoke" \/ (req[a].at = "drop" /\ s \in req[a].todo)
EndInv ==
    \A s \in Token \ staleSessions :
        sessions[s] # NoSession /\ born[s] < changes[sessions[s].user] => \E a \in Actor : Ending(a, s)

\* A step of another call, or of the change itself, keeps the session on its way out.
LEMMA EndingStep ==
    ASSUME AuthShape, [AuthNext]_authVars, NEW a \in Actor, NEW s \in Token, Ending(a, s),
           sessions'[s].user = sessions[s].user, sessions[s].user \in User
    PROVE  Ending(a, s)' \/ sessions'[s] = NoSession
<1>1. CASE req'[a] = req[a]
  BY <1>1 DEF Ending
<1>2. ASSUME NEW b \in Actor, b # a, AuthCalls(b) \/ AuthStep(b)
      PROVE  req'[a] = req[a]
  BY <1>2, OneCallSteps
<1>3. req[a].at \in {"revoke", "drop"} /\ req[a].op = "update" /\ req[a] \in Request
  BY DEF Ending, AuthShape
<1>4. req[a] # NoRequest
  BY <1>3, NoRequestOK
<1>5. ~AuthCalls(a)
  BY <1>4 DEF AuthCalls, AuthenticateRead, ChangePassword, VerifyRead, Logout, BeginMfaEnrollment,
     ConfirmMfaRead, DisableMfa, UpdateUser, CreateUser, CreateInvite, RevokeInvite, AcceptInvite, Ask
<1>6. CASE AuthStep(a)
  <2>1. RevokeUserSessions(a) \/ DropSession(a)
    BY <1>3, <1>6 DEF AuthStep, PutUser, PruneUserSessions, IssueSession,
       PutSession, VerifyAccount, VerifyWrong, VerifyTotp, VerifyRecovery, SetSeed, ConfirmMfa, DropSeed,
       PutInvite, InsertInvited
  <2>2. CASE RevokeUserSessions(a)
    <3>1. PICK r : r = req[a]
      OBVIOUS
    <3>2. req'[a] = [r EXCEPT !.at = "drop", !.todo = SessionsOf(r.u)]
      BY <2>2, <3>1 DEF RevokeUserSessions, Go, AuthShape
    <3>3. s \in SessionsOf(r.u)
      BY <3>1 DEF SessionsOf, Ending
    <3> QED
      BY <1>3, <3>1, <3>2, <3>3 DEF Ending, Request
  <2>3. CASE DropSession(a)
    <3>1. PICK r : r = req[a]
      OBVIOUS
    <3>2. s \in r.todo /\ r.at = "drop"
      BY <2>3, <3>1 DEF Ending, DropSession
    <3>3. PICK x \in r.todo : /\ sessions' = [sessions EXCEPT ![x] = NoSession]
                              /\ req'[a] = [r EXCEPT !.todo = @ \ {x}]
      BY <2>3, <3>1, <3>2 DEF DropSession, Go, AuthShape
    <3> QED
      BY <1>3, <3>1, <3>2, <3>3 DEF Ending, Request, AuthShape, StoreOK
  <2> QED
    BY <2>1, <2>2, <2>3
<1> QED
  BY <1>1, <1>2, <1>5, <1>6 DEF AuthNext, AuthTime, authVars

LEMMA EndStep ==
    ASSUME AuthShape, HistoryOK, EndInv, [AuthNext]_authVars
    PROVE  EndInv'
<1> SUFFICES ASSUME NEW s \in Token, s \notin staleSessions', sessions'[s] # NoSession,
                    born'[s] < changes'[sessions'[s].user]
             PROVE  \E a \in Actor : Ending(a, s)'
  BY DEF EndInv
<1>1. ASSUME s \notin staleSessions, sessions[s] # NoSession, sessions'[s].user = sessions[s].user,
             born[s] < changes[sessions[s].user]
      PROVE  \E a \in Actor : Ending(a, s)'
  <2>1. sessions[s].user \in User
    BY <1>1 DEF AuthShape, StoreOK
  <2>2. PICK a \in Actor : Ending(a, s)
    BY <1>1 DEF EndInv
  <2> QED
    BY <1>1, <2>1, <2>2, EndingStep
<1>2. CASE UNCHANGED <<users, staleUsers, raced, changes, fails, lastFail>>
           /\ UNCHANGED <<sessions, staleSessions, factors, born>>
  BY <1>1, <1>2
<1>3. ASSUME NEW a \in Actor, PutUser(a)
      PROVE  \E b \in Actor : Ending(b, s)'
  <2>1. PICK r : r = req[a]
    OBVIOUS
  <2>2. /\ r \in Request /\ r.u \in User /\ Kept(r)
        /\ UNCHANGED <<sessions, staleSessions, born>>
        /\ changes' = IF r.op = "update" /\ r.rec # r.base THEN [changes EXCEPT ![r.u] = @ + 1] ELSE changes
        /\ req' = [req EXCEPT ![a] = AfterPutUser(r)]
    BY <1>3, <2>1, PutUserFacts DEF PutUser, Go
  <2>3. CASE r.op = "update" /\ r.rec # r.base /\ sessions[s].user = r.u
    <3>1. AfterPutUser(r) = [r EXCEPT !.at = "revoke"]
      BY <2>3 DEF AfterPutUser, Refused
    <3>2. req'[a] = [r EXCEPT !.at = "revoke"]
      BY <2>2, <3>1 DEF AuthShape
    <3>3. Ending(a, s)'
      BY <2>2, <2>3, <3>2 DEF Ending, Request
    <3> QED
      BY <3>3
  <2>4. CASE ~(r.op = "update" /\ r.rec # r.base /\ sessions[s].user = r.u)
    <3>1. sessions[s].user \in User
      BY <2>2 DEF AuthShape, StoreOK
    <3>2. changes'[sessions[s].user] = changes[sessions[s].user]
      BY <2>2, <2>4, <3>1 DEF HistoryOK
    <3> QED
      BY <1>1, <2>2, <3>2
  <2> QED
    BY <2>3, <2>4
<1>4. ASSUME NEW a \in Actor, DropSession(a) \/ VerifyAccount(a)
      PROVE  \E b \in Actor : Ending(b, s)'
  <2>1. /\ sessions'[s] = sessions[s] \/ sessions'[s] = NoSession
        /\ UNCHANGED <<staleSessions, born, changes>>
    BY <1>4 DEF DropSession, VerifyAccount, AuthShape, StoreOK, authHistory
  <2> QED
    BY <1>1, <2>1
<1>5. ASSUME NEW a \in Actor, IssueSession(a)
      PROVE  \E b \in Actor : Ending(b, s)'
  <2>1. CASE s # minted + 1
    <3>1. sessions'[s] = sessions[s] /\ born'[s] = born[s] /\ UNCHANGED <<staleSessions, changes>>
      BY <1>5, <2>1 DEF IssueSession, AuthShape, StoreOK, HistoryOK
    <3> QED
      BY <1>1, <3>1
  <2>2. CASE s = minted + 1
    <3>1. /\ born'[s] = changes[req[a].u] /\ sessions'[s].user = req[a].u /\ changes' = changes
          /\ req[a].u \in User
      BY <1>5, <2>2 DEF IssueSession, AuthShape, StoreOK, HistoryOK, ReqOK
    <3> QED
      BY <3>1 DEF HistoryOK
  <2> QED
    BY <2>1, <2>2
<1>6. ASSUME NEW a \in Actor, PutSession(a)
      PROVE  \E b \in Actor : Ending(b, s)'
  <2>1. PICK r : r = req[a]
    OBVIOUS
  <2>2. r \in Request /\ SessionKept(r)
    BY <1>6, <2>1 DEF AuthShape, PutSession, ReqOK
  <2>3. /\ sessions' = [sessions EXCEPT ![r.s] = r.session]
        /\ staleSessions' = IF sessions[r.s] # r.baseSession THEN staleSessions \cup {r.s} ELSE staleSessions
        /\ UNCHANGED <<born, changes>>
    BY <1>6, <2>1 DEF PutSession
  <2>4. s \notin staleSessions /\ (s = r.s => sessions[s] = r.baseSession)
    BY <2>3
  <2>5. sessions'[s] = IF s = r.s THEN r.session ELSE sessions[s]
    BY <2>2, <2>3 DEF AuthShape, StoreOK, SessionKept
  <2>6. sessions[s] # NoSession /\ sessions'[s].user = sessions[s].user
    BY <2>2, <2>4, <2>5, AuthConstants DEF SessionKept, NoSession
  <2> QED
    BY <1>1, <2>3, <2>4, <2>6
<1> QED
  BY <1>2, <1>3, <1>4, <1>5, <1>6, UsersChange, SessionsChange

LEMMA EndHolds ==
    ASSUME EndInv
    PROVE  PrivilegeChangeEndsSessions
BY DEF EndInv, Ending, PrivilegeChangeEndsSessions

-----------------------------------------------------------------------------
\* An enabled second factor has its seed.  The two ways to lose it, an enabling that
\* was confirmed before a disabling drops the seed and a disabling whose record was
\* stored before, are the ones unseeded remembers.
SeedInv ==
    /\ EnabledHasSeed
    /\ \A a \in Actor :
        /\ req[a].at = "putUser" /\ req[a].op = "enableMfa" => req[a].u \in seeds \cup unseeded
        /\ req[a].at = "dropSeed" => req[a].u \in staleUsers \cup unseeded \/ users[req[a].u].mfa = FALSE

\* Two steps change seeds, one adds to them; two may add to unseeded.
LEMMA SeedsChange ==
    ASSUME [AuthNext]_authVars
    PROVE  \/ \E a \in Actor : PutUser(a) \/ SetSeed(a) \/ DropSeed(a)
           \/ UNCHANGED <<seeds, users, staleUsers, unseeded>>
<1> USE DEF authStore, authHistory
<1>1. CASE UNCHANGED authVars
  BY <1>1 DEF authVars
<1>2. CASE AuthTime
  BY <1>2 DEF AuthTime
<1>3. ASSUME NEW a \in Actor, AuthCalls(a)
      PROVE  UNCHANGED <<seeds, users, staleUsers, unseeded>>
  BY <1>3 DEF AuthCalls, AuthenticateRead, ChangePassword, VerifyRead, Logout, BeginMfaEnrollment,
     ConfirmMfaRead, DisableMfa, UpdateUser, CreateUser, CreateInvite, RevokeInvite, AcceptInvite
<1>4. ASSUME NEW a \in Actor, AuthStep(a), ~(PutUser(a) \/ SetSeed(a) \/ DropSeed(a))
      PROVE  UNCHANGED <<seeds, users, staleUsers, unseeded>>
  BY <1>4 DEF AuthStep, PruneUserSessions, RevokeUserSessions, DropSession, IssueSession, PutSession,
     VerifyAccount, VerifyWrong, VerifyTotp, VerifyRecovery, ConfirmMfa, PutInvite, InsertInvited
<1> QED
  BY <1>1, <1>2, <1>3, <1>4 DEF AuthNext

LEMMA SeedStep ==
    ASSUME AuthShape, SeedInv, [AuthNext]_authVars
    PROVE  SeedInv'
<1>1. staleUsers \subseteq staleUsers' /\ unseeded \subseteq unseeded'
  BY SeedsChange DEF PutUser, SetSeed, DropSeed, authHistory
<1>2. ASSUME NEW a \in Actor, req'[a].at = "putUser", req'[a].op = "enableMfa"
      PROVE  req'[a].u \in seeds' \cup unseeded'
  <2>0. PICK r, q : r = req[a] /\ q = req'[a]
    OBVIOUS
  <2>1. CASE q = r
    <3>1. r.at = "putUser" /\ r.op = "enableMfa" /\ r.u \in seeds \cup unseeded
      BY <1>2, <2>0, <2>1 DEF SeedInv
    <3>2. ASSUME NEW b \in Actor, DropSeed(b)
          PROVE  r.u \in seeds' \cup unseeded'
      BY <2>0, <3>1, <3>2 DEF DropSeed
    <3>3. ASSUME ~ \E b \in Actor : DropSeed(b)
          PROVE  seeds \subseteq seeds'
      BY <3>3, SeedsChange DEF PutUser, SetSeed
    <3> QED
      BY <1>1, <2>0, <2>1, <3>1, <3>2, <3>3
  <2>2. CASE Enables(r, q)
    <3>1. q.u \in seeds /\ r.at = "confirm" /\ q.at = "putUser"
      BY <2>2 DEF Enables
    <3>2. ASSUME NEW b \in Actor, PutUser(b) \/ SetSeed(b) \/ DropSeed(b)
          PROVE  b = a
      BY <2>0, <3>1, <3>2, OneCallSteps DEF AuthStep
    <3>3. UNCHANGED seeds
      BY <2>0, <3>1, <3>2, SeedsChange DEF PutUser, SetSeed, DropSeed
    <3> QED
      BY <2>0, <3>1, <3>3
  <2>3. q = r \/ Enables(r, q)
    <3>1. ~Continues(r, q) /\ ~Finds(r, q) /\ ~Spends(r, q) /\ ~Creates(a, q) /\ ~Reads(q) /\ ~Begins(q)
      BY <1>2, <2>0 DEF Continues, Finds, Spends, Creates, Creators, Reads, Begins
    <3>2. q # NoRequest
      BY <1>2, <2>0, NoRequestOK
    <3> QED
      BY <2>0, <3>1, <3>2, CallMoves
  <2> QED
    BY <2>1, <2>2, <2>3
<1>3. ASSUME NEW a \in Actor, req'[a].at = "dropSeed"
      PROVE  req'[a].u \in staleUsers' \cup unseeded' \/ users'[req'[a].u].mfa = FALSE
  <2>0. PICK r, q : r = req[a] /\ q = req'[a]
    OBVIOUS
  <2>1. CASE q = r
    <3>1. /\ r.at = "dropSeed" /\ r.u \in User
          /\ r.u \in staleUsers \cup unseeded \/ users[r.u].mfa = FALSE
      BY <1>3, <2>0, <2>1 DEF SeedInv, AuthShape, ReqOK
    <3>2. ASSUME NEW b \in Actor, PutUser(b), r.u \notin staleUsers' \cup unseeded'
          PROVE  users'[r.u].mfa = FALSE
      <4>1. PICK x : x = req[b]
        OBVIOUS
      <4>2. /\ Kept(x) /\ x.u \in User /\ x.rec \in UserRecord
            /\ \A v \in User : users'[v] = IF v = x.u THEN x.rec ELSE users[v]
        BY <3>2, <4>1, PutUserFacts
      <4>3. CASE r.u # x.u
        BY <1>1, <3>1, <3>2, <4>2, <4>3
      <4>4. CASE r.u = x.u
        <5>1. users[r.u] = x.base /\ users[r.u].mfa = FALSE
          BY <1>1, <3>1, <3>2, <4>1, <4>4 DEF PutUser
        <5>2. ~(x.rec.mfa /\ x.op = "enableMfa")
          BY <2>0, <3>1, <3>2, <4>1, <4>4 DEF PutUser
        <5>3. x.rec.mfa \in BOOLEAN
          BY <4>2 DEF UserRecord
        <5>4. x.rec.mfa = FALSE
          BY <4>2, <5>1, <5>2, <5>3 DEF Kept
        <5> QED
          BY <4>2, <4>4, <5>4
      <4> QED
        BY <4>3, <4>4
    <3>3. ASSUME ~ \E b \in Actor : PutUser(b)
          PROVE  users' = users
      BY <3>3, UsersChange
    <3> QED
      BY <1>1, <2>0, <2>1, <3>1, <3>2, <3>3
  <2>2. CASE Continues(r, q)
    <3>1. r.at = "putUser" /\ r.op = "disableMfa" /\ q.u = r.u /\ users'[r.u] = r.rec
      BY <1>3, <2>0, <2>2 DEF Continues
    <3>2. r.rec.mfa = FALSE
      BY <2>0, <3>1 DEF AuthShape, ReqOK, Kept
    <3> QED
      BY <2>0, <3>1, <3>2
  <2>3. q = r \/ Continues(r, q)
    <3>1. ~Enables(r, q) /\ ~Finds(r, q) /\ ~Spends(r, q) /\ ~Creates(a, q) /\ ~Reads(q) /\ ~Begins(q)
      BY <1>3, <2>0 DEF Enables, Finds, Spends, Creates, Creators, Reads, Begins
    <3>2. q # NoRequest
      BY <1>3, <2>0, NoRequestOK
    <3> QED
      BY <2>0, <3>1, <3>2, CallMoves
  <2> QED
    BY <2>1, <2>2, <2>3
<1>4. ASSUME NEW u \in User, u \notin staleUsers' \cup unseeded', users'[u].mfa
      PROVE  u \in seeds'
  <2>0. u \notin staleUsers \cup unseeded
    BY <1>1, <1>4
  <2>1. ASSUME users[u].mfa
        PROVE  u \in seeds
    BY <2>0, <2>1 DEF SeedInv, EnabledHasSeed
  <2>2. ASSUME NEW b \in Actor, PutUser(b)
        PROVE  u \in seeds'
    <3>1. PICK x : x = req[b]
      OBVIOUS
    <3>2. /\ Kept(x) /\ x.u \in User /\ x.rec \in UserRecord /\ x.base \in UserRecord /\ x.at = "putUser"
          /\ \A v \in User : users'[v] = IF v = x.u THEN x.rec ELSE users[v]
      BY <2>2, <3>1, PutUserFacts
    <3>3. seeds' = seeds
      BY <2>2 DEF PutUser
    <3>4. CASE u # x.u
      <4>1. users'[u] = users[u]
        BY <3>2, <3>4
      <4> QED
        BY <1>4, <2>1, <3>3, <4>1
    <3>5. CASE u = x.u
      <4>1. users[u] = x.base /\ users'[u] = x.rec
        BY <1>4, <2>2, <3>1, <3>2, <3>5 DEF PutUser
      <4>2. CASE x.op = "enableMfa"
        BY <2>0, <3>1, <3>2, <3>3, <3>5, <4>2 DEF SeedInv
      <4>3. CASE x.op # "enableMfa"
        <5>1. x.rec.mfa \in BOOLEAN /\ x.base.mfa \in BOOLEAN
          BY <3>2 DEF UserRecord
        <5>2. x.rec.mfa = TRUE
          BY <1>4, <4>1, <5>1
        <5>3. x.base.mfa = TRUE
          BY <3>2, <4>3, <5>2 DEF Kept
        <5>4. users[u].mfa
          BY <4>1, <5>3
        <5> QED
          BY <2>1, <3>3, <5>4
      <4> QED
        BY <4>2, <4>3
    <3> QED
      BY <3>4, <3>5
  <2>3. ASSUME NEW b \in Actor, DropSeed(b)
        PROVE  u \in seeds'
    <3>1. users' = users /\ seeds' = seeds \ {req[b].u} /\ req[b].at = "dropSeed"
      BY <2>3 DEF DropSeed
    <3>2. u \in seeds /\ users[u].mfa # FALSE
      BY <1>4, <2>1, <3>1
    <3>3. u # req[b].u
      BY <2>0, <3>1, <3>2 DEF SeedInv
    <3> QED
      BY <3>1, <3>2, <3>3
  <2>4. ASSUME NEW b \in Actor, SetSeed(b)
        PROVE  u \in seeds'
    BY <1>4, <2>1, <2>4 DEF SetSeed
  <2> QED
    BY <1>4, <2>1, <2>2, <2>3, <2>4, SeedsChange
<1> QED
  BY <1>2, <1>3, <1>4 DEF SeedInv, EnabledHasSeed

-----------------------------------------------------------------------------
\* One user per email.  A creation under way has its identity to itself, and an email
\* that no user and no other creation has, unless crowded remembers the email; and the
\* email of a user who exists never changes.
CreatingAt(a) == req[a].at = "putUser" /\ req[a].op \in Creators
EmailInv ==
    /\ EmailsUnique
    /\ \A a \in Actor : req[a].base.status # "none" =>
        req[a].u \in User /\ req[a].base.email = users[req[a].u].email
    /\ \A a \in Actor : CreatingAt(a) =>
        /\ users[req[a].u] = NoUser
        /\ \A b \in Actor \ {a} : req[b].u # req[a].u
        /\ \A v \in User : Exists(v) /\ users[v].email = req[a].rec.email => req[a].rec.email \in crowded
        /\ \A b \in Actor \ {a} : CreatingAt(b) /\ req[b].rec.email = req[a].rec.email
                                  => req[a].rec.email \in crowded

\* Emails are looked up by the two creations only.
LEMMA CrowdedGrows ==
    ASSUME [AuthNext]_authVars
    PROVE  crowded \subseteq crowded'
<1> USE DEF authStore, authHistory
<1>1. CASE UNCHANGED authVars
  BY <1>1 DEF authVars
<1>2. CASE AuthTime
  BY <1>2 DEF AuthTime
<1>3. ASSUME NEW a \in Actor, AuthCalls(a)
      PROVE  crowded \subseteq crowded'
  BY <1>3 DEF AuthCalls, AuthenticateRead, ChangePassword, VerifyRead, Logout, BeginMfaEnrollment,
     ConfirmMfaRead, DisableMfa, UpdateUser, CreateUser, CreateInvite, RevokeInvite, AcceptInvite
<1>4. ASSUME NEW a \in Actor, AuthStep(a)
      PROVE  crowded \subseteq crowded'
  BY <1>4 DEF AuthStep, PutUser, PruneUserSessions, RevokeUserSessions, DropSession, IssueSession, PutSession,
     VerifyAccount, VerifyWrong, VerifyTotp, VerifyRecovery, SetSeed, ConfirmMfa, DropSeed, PutInvite,
     InsertInvited
<1> QED
  BY <1>1, <1>2, <1>3, <1>4 DEF AuthNext

\* A user keeps its email, or it is the one that a creation stores now.
LEMMA EmailsKept ==
    ASSUME AuthShape, EmailInv, [AuthNext]_authVars, NEW u \in User
    PROVE  \/ users'[u].email = users[u].email /\ (Exists(u)' <=> Exists(u))
           \/ \E a \in Actor : /\ PutUser(a) /\ CreatingAt(a) /\ req[a].u = u
                               /\ users[u] = NoUser /\ users'[u].email = req[a].rec.email
<1>1. CASE users' = users
  BY <1>1 DEF Exists
<1>2. ASSUME NEW a \in Actor, PutUser(a)
      PROVE  \/ users'[u].email = users[u].email /\ (Exists(u)' <=> Exists(u))
             \/ /\ CreatingAt(a) /\ req[a].u = u
                /\ users[u] = NoUser /\ users'[u].email = req[a].rec.email
  <2>1. PICK r : r = req[a]
    OBVIOUS
  <2>2. /\ Kept(r) /\ r.u \in User /\ r.at = "putUser"
        /\ \A v \in User : users'[v] = IF v = r.u THEN r.rec ELSE users[v]
    BY <1>2, <2>1, PutUserFacts
  <2>3. CASE u # r.u
    BY <2>2, <2>3 DEF Exists
  <2>4. CASE u = r.u /\ r.op \in Creators
    BY <2>1, <2>2, <2>4 DEF EmailInv, CreatingAt
  <2>5. CASE u = r.u /\ r.op \notin Creators
    <3>1. r.base.status # "none" /\ r.rec.email = r.base.email /\ r.rec.status # "none"
      BY <2>2, <2>5 DEF Kept
    <3>2. r.base.email = users[u].email
      BY <2>1, <2>5, <3>1 DEF EmailInv
    <3>3. Known(u)
      BY <2>1, <2>2, <2>5, AuthConstants DEF AuthShape, Live
    <3>4. Exists(u) /\ Exists(u)'
      BY <2>2, <2>5, <3>1, <3>3 DEF Known, Exists, NoUser
    <3> QED
      BY <2>2, <2>5, <3>1, <3>2, <3>4
  <2> QED
    BY <2>3, <2>4, <2>5
<1> QED
  BY <1>1, <1>2, UsersChange

LEMMA EmailStep ==
    ASSUME AuthShape, AuthShape', EmailInv, [AuthNext]_authVars
    PROVE  EmailInv'
<1> USE AuthConstants
<1>1. crowded \subseteq crowded'
  BY CrowdedGrows
<1>2. \A u \in User : Known(u) => Exists(u)
  BY DEF Known, Exists, NoUser
<1>3. ASSUME NEW u \in User, Exists(u)
      PROVE  users'[u].email = users[u].email /\ Exists(u)'
  BY <1>3, EmailsKept DEF Exists
<1>4. ASSUME NEW a \in Actor, PutUser(a)
      PROVE  req'[a] # req[a]
  <2>1. req'[a] = AfterPutUser(req[a])
    BY <1>4 DEF PutUser, Go, AuthShape
  <2> QED
    BY <1>4, <2>1, PutUserFacts, AfterPutUserFields DEF AuthShape, PutUser
<1>5. ASSUME NEW u \in User, NEW v \in User, Exists(u)', Exists(v)', u # v, users'[u].email = users'[v].email
      PROVE  users'[u].email \in crowded'
  <2>1. ASSUME NEW x \in User, NEW y \in User, x # y, NEW a \in Actor, PutUser(a), CreatingAt(a), req[a].u = x,
               users'[x].email = req[a].rec.email, Exists(y)', users'[y].email = users'[x].email
        PROVE  users'[x].email \in crowded'
    <3>1. users'[y] = users[y]
      BY <2>1, PutUserFacts
    <3> QED
      BY <1>1, <2>1, <3>1 DEF EmailInv, Exists
  <2>2. CASE /\ users'[u].email = users[u].email /\ Exists(u)
             /\ users'[v].email = users[v].email /\ Exists(v)
    BY <1>1, <1>5, <2>2 DEF EmailInv, EmailsUnique
  <2> QED
    BY <1>5, <2>1, <2>2, EmailsKept
<1>6. ASSUME NEW a \in Actor, req'[a].base.status # "none"
      PROVE  req'[a].u \in User /\ req'[a].base.email = users'[req'[a].u].email
  <2>0. PICK r, q : r = req[a] /\ q = req'[a]
    OBVIOUS
  <2>1. CASE q.u = r.u /\ q.base = r.base
    <3>1. r.u \in User /\ r.base.email = users[r.u].email
      BY <1>6, <2>0, <2>1 DEF EmailInv
    <3>2. Known(r.u)
      <4>1. ~(r.op \in Creators /\ r.at = "putUser")
        BY <1>6, <2>0, <2>1 DEF AuthShape, ReqOK, Kept, NoUser
      <4> QED
        BY <2>0, <3>1, <4>1 DEF AuthShape, Live
    <3> QED
      BY <1>2, <1>3, <2>0, <2>1, <3>1, <3>2
  <2>2. CASE Finds(r, q) \/ Reads(q)
    <3>1. q.u \in User /\ q.base = users[q.u]
      BY <2>2 DEF Finds, Reads
    <3>2. Exists(q.u)
      BY <1>6, <2>0, <3>1 DEF Exists, NoUser
    <3> QED
      BY <1>3, <2>0, <3>1, <3>2
  <2>3. CASE q = NoRequest \/ Begins(q) \/ Creates(a, q)
    <3>1. q.base = NoUser
      BY <2>3 DEF Begins, Creates, NoRequest
    <3> QED
      BY <1>6, <2>0, <3>1 DEF NoUser
  <2>4. CASE q = r \/ Continues(r, q) \/ Spends(r, q) \/ Enables(r, q)
    BY <2>1, <2>4 DEF Continues, Spends, Enables
  <2> QED
    BY <2>0, <2>2, <2>3, <2>4, CallMoves
<1>7. ASSUME NEW a \in Actor, NEW r, NEW q, r = req[a], q = req'[a], q.at = "putUser", q.op \in Creators
      PROVE  q = r \/ Creates(a, q)
  <2>1. q # NoRequest /\ ~Continues(r, q) /\ ~Finds(r, q) /\ ~Spends(r, q) /\ ~Enables(r, q)
        /\ ~Reads(q) /\ ~Begins(q)
    BY <1>7, NoRequestOK DEF Continues, Finds, Spends, Enables, Reads, Begins, Creators
  <2> QED
    BY <1>7, <2>1, CallMoves
<1>8. ASSUME NEW a \in Actor, NEW q, q = req'[a], Creates(a, q)
      PROVE  /\ users' = users /\ users[q.u] = NoUser
             /\ \A b \in Actor : req[b].u # q.u
             /\ \A b \in Actor \ {a} : req'[b] = req[b]
  <2>1. /\ users[q.u] = NoUser
        /\ \A b \in Actor : req[b].u # q.u
    BY <1>8 DEF Creates, Fresh, Unused, Exists
  <2>2. req'[a] # req[a] /\ q.at = "putUser"
    BY <1>8, <2>1 DEF Creates
  <2>3. \A b \in Actor : AuthCalls(b) \/ AuthStep(b) => b = a
    BY <2>2, OneCallSteps
  <2>4. \A b \in Actor \ {a} : req'[b] = req[b]
    BY <2>2, <2>3, OneCallSteps DEF AuthNext, AuthTime, authVars
  <2>5. ~PutUser(a)
    <3>1. ASSUME PutUser(a)
          PROVE  q.at # "putUser"
      <4>1. q = AfterPutUser(req[a])
        BY <1>8, <3>1 DEF PutUser, Go, AuthShape
      <4> QED
        BY <3>1, <4>1, PutUserFacts, AfterPutUserFields, NoRequestOK DEF AuthShape, PutUser
    <3> QED
      BY <2>2, <3>1
  <2>6. users' = users
    BY <2>3, <2>5, UsersChange DEF AuthStep
  <2> QED
    BY <2>1, <2>4, <2>6

<1>9. ASSUME NEW a \in Actor, CreatingAt(a)'
      PROVE  /\ users'[req'[a].u] = NoUser
             /\ \A b \in Actor \ {a} : req'[b].u # req'[a].u
             /\ \A v \in User : Exists(v)' /\ users'[v].email = req'[a].rec.email
                                => req'[a].rec.email \in crowded'
             /\ \A b \in Actor \ {a} : CreatingAt(b)' /\ req'[b].rec.email = req'[a].rec.email
                                       => req'[a].rec.email \in crowded'
  <2>0. PICK r, q : r = req[a] /\ q = req'[a]
    OBVIOUS
  <2>1. q.at = "putUser" /\ q.op \in Creators /\ q.u \in User
    BY <1>9, <2>0 DEF CreatingAt, AuthShape, ReqOK
  <2>2. CASE q = r
    <3>1. /\ users[q.u] = NoUser
          /\ \A b \in Actor \ {a} : req[b].u # q.u
          /\ \A v \in User : Exists(v) /\ users[v].email = q.rec.email => q.rec.email \in crowded
          /\ \A b \in Actor \ {a} : CreatingAt(b) /\ req[b].rec.email = q.rec.email => q.rec.email \in crowded
          /\ r.base = NoUser
      BY <2>0, <2>1, <2>2 DEF EmailInv, CreatingAt, AuthShape, ReqOK, Kept
    <3>2. ASSUME NEW b \in Actor, PutUser(b)
          PROVE  b # a /\ req[b].u # q.u
      BY <1>4, <2>0, <2>2, <3>1, <3>2
    <3>3. users'[q.u] = NoUser
      BY <2>1, <3>1, <3>2, PutUserFacts, UsersChange
    <3>4. ASSUME NEW b \in Actor \ {a}
          PROVE  req'[b].u # q.u
      <4>1. PICK x, y : x = req[b] /\ y = req'[b]
        OBVIOUS
      <4>2. x.u # q.u
        BY <3>1, <4>1
      <4>3. ~Known(q.u)
        BY <3>1 DEF Known, NoUser
      <4>4. CASE y = x \/ Continues(x, y) \/ Finds(x, y) \/ Spends(x, y) \/ Enables(x, y)
        BY <4>1, <4>2, <4>4 DEF Continues, Finds, Spends, Enables
      <4>5. CASE y = NoRequest \/ Reads(y) \/ Begins(y)
        BY <2>1, <4>1, <4>3, <4>5, NoRequestOK DEF Reads, Begins
      <4>6. CASE Creates(b, y)
        BY <1>8, <2>0, <2>2, <4>1, <4>6
      <4> QED
        BY <4>1, <4>4, <4>5, <4>6, CallMoves
    <3>5. ASSUME NEW v \in User, Exists(v)', users'[v].email = q.rec.email
          PROVE  q.rec.email \in crowded'
      <4>1. CASE users'[v].email = users[v].email /\ Exists(v)
        BY <1>1, <3>1, <3>5, <4>1
      <4>2. ASSUME NEW b \in Actor, PutUser(b), CreatingAt(b), users'[v].email = req[b].rec.email
            PROVE  q.rec.email \in crowded'
        BY <1>1, <3>1, <3>2, <3>5, <4>2
      <4> QED
        BY <3>5, <4>1, <4>2, EmailsKept
    <3>6. ASSUME NEW b \in Actor \ {a}, CreatingAt(b)', req'[b].rec.email = q.rec.email
          PROVE  q.rec.email \in crowded'
      <4>1. PICK x, y : x = req[b] /\ y = req'[b]
        OBVIOUS
      <4>2. CASE y = x
        <5>1. CreatingAt(b)
          BY <3>6, <4>1, <4>2 DEF CreatingAt
        <5> QED
          BY <1>1, <3>1, <3>6, <4>1, <4>2, <5>1
      <4>3. CASE Creates(b, y)
        <5>1. a \in Creating(y.rec.email)
          BY <2>0, <2>1, <2>2, <3>1, <3>6, <4>1 DEF Creating
        <5> QED
          BY <3>6, <4>1, <4>3, <5>1 DEF Creates
      <4> QED
        BY <1>7, <3>6, <4>1, <4>2, <4>3 DEF CreatingAt
    <3> QED
      BY <2>0, <3>3, <3>4, <3>5, <3>6
  <2>3. CASE Creates(a, q)
    <3>1. /\ users' = users /\ users[q.u] = NoUser
          /\ \A b \in Actor : req[b].u # q.u
          /\ \A b \in Actor \ {a} : req'[b] = req[b]
      BY <1>8, <2>0, <2>3
    <3>2. \A v \in User : users'[v].email # q.rec.email
      BY <2>3, <3>1 DEF Creates, EmailFree
    <3>3. ASSUME NEW b \in Actor \ {a}, CreatingAt(b)', req'[b].rec.email = q.rec.email
          PROVE  q.rec.email \in crowded'
      <4>1. req[b].at = "putUser" /\ req[b].op \in Creators /\ req[b].rec.email = q.rec.email
        BY <3>1, <3>3 DEF CreatingAt
      <4>2. b \in Creating(q.rec.email)
        BY <4>1 DEF Creating, AuthShape, ReqOK, Kept
      <4> QED
        BY <2>3, <4>2 DEF Creates
    <3> QED
      BY <2>0, <3>1, <3>2, <3>3
  <2> QED
    BY <1>7, <2>0, <2>1, <2>2, <2>3
<1>10. EmailsUnique'
  BY <1>5 DEF EmailsUnique, Exists
<1> QED
  BY <1>6, <1>9, <1>10 DEF EmailInv, CreatingAt

-----------------------------------------------------------------------------
\* A recovery code is accepted once.  A confirmation generates a batch that nobody
\* else holds, and nothing of it has been accepted, until its record is stored; every
\* other record stored over the one that was read only takes codes from it.
Batch(n) == {n} \X Code
Codes(n) == (0..n) \X Code
OwnBatch(a, n) ==
    /\ req[a].rec.codes = Batch(n)
    /\ \A u \in User : users[u].codes \cap Batch(n) = {}
    /\ \A b \in Actor \ {a} : /\ req[b].rec.codes \cap Batch(n) = {}
                              /\ req[b].code[2] # None => req[b].code[1] # n
    /\ \A x \in spent : x[2][1] # n
CodesBounded ==
    /\ spent \subseteq User \X Codes(batches)
    /\ \A u \in User : users[u].codes \subseteq Codes(batches)
    /\ \A a \in Actor : /\ req[a].rec.codes \subseteq Codes(batches)
                        /\ req[a].code[2] # None => req[a].code \in Codes(batches)
CodeInv ==
    /\ CodesBounded
    /\ \A a \in Actor : req[a].at = "putUser" /\ req[a].op = "enableMfa"
                        => \E n \in 1..batches : OwnBatch(a, n)
    /\ CodesSingleUse
    /\ \A a \in Actor : req[a].at = "putSession" /\ req[a].code[2] # None
                        => req[a].u \in staleUsers \/ req[a].code \notin users[req[a].u].codes

\* One step accepts a code, one generates a batch.
LEMMA CodesChange ==
    ASSUME [AuthNext]_authVars
    PROVE  /\ UNCHANGED spent \/ \E a \in Actor : PutSession(a)
           /\ UNCHANGED batches \/ (batches' = batches + 1 /\ \E a \in Actor : ConfirmMfa(a))
<1> USE DEF authStore, authHistory
<1>1. CASE UNCHANGED authVars
  BY <1>1 DEF authVars
<1>2. CASE AuthTime
  BY <1>2 DEF AuthTime
<1>3. ASSUME NEW a \in Actor, AuthCalls(a)
      PROVE  UNCHANGED <<spent, batches>>
  BY <1>3 DEF AuthCalls, AuthenticateRead, ChangePassword, VerifyRead, Logout, BeginMfaEnrollment,
     ConfirmMfaRead, DisableMfa, UpdateUser, CreateUser, CreateInvite, RevokeInvite, AcceptInvite
<1>4. ASSUME NEW a \in Actor, AuthStep(a), ~PutSession(a), ~ConfirmMfa(a)
      PROVE  UNCHANGED <<spent, batches>>
  BY <1>4 DEF AuthStep, PutUser, PruneUserSessions, RevokeUserSessions, DropSession, IssueSession,
     VerifyAccount, VerifyWrong, VerifyTotp, VerifyRecovery, SetSeed, DropSeed, PutInvite, InsertInvited
<1>5. ASSUME NEW a \in Actor, ConfirmMfa(a)
      PROVE  UNCHANGED spent /\ (UNCHANGED batches \/ batches' = batches + 1)
  BY <1>5 DEF ConfirmMfa
<1>6. ASSUME NEW a \in Actor, PutSession(a)
      PROVE  UNCHANGED batches
  BY <1>6 DEF PutSession
<1> QED
  BY <1>1, <1>2, <1>3, <1>4, <1>5, <1>6 DEF AuthNext

\* An accepted code, and who has given it.
LEMMA AcceptedCode ==
    ASSUME AuthShape, NEW a \in Actor, PutSession(a)
    PROVE  /\ \A x \in spent' : x \in spent \/ (x = <<req[a].u, req[a].code>> /\ req[a].code[2] # None)
           /\ req[a].at = "putSession" /\ (req[a].code[2] # None => req[a].u \in User)
           /\ UNCHANGED <<users, staleUsers, batches>>
<1>1. /\ req[a].at = "putSession"
      /\ spent' = IF req[a].code[2] # None THEN spent \cup {<<req[a].u, req[a].code>>} ELSE spent
      /\ UNCHANGED <<users, staleUsers, batches>>
  BY DEF PutSession
<1>2. req[a].code[2] # None => req[a].op = "verify"
  BY <1>1 DEF AuthShape, ReqOK
<1>3. req[a].op = "verify" => req[a].u \in User
  BY DEF AuthShape, ReqOK, SessionKept
<1> QED
  BY <1>1, <1>2, <1>3

LEMMA CodesBoundedStep ==
    ASSUME AuthShape, AuthShape', CodesBounded, [AuthNext]_authVars
    PROVE  CodesBounded' /\ Codes(batches) \subseteq Codes(batches')
<1>0. batches \in Nat /\ batches' \in Nat /\ batches <= batches'
  BY CodesChange DEF AuthShape, BatchesOK
<1>1. Codes(batches) \subseteq Codes(batches')
  BY <1>0 DEF Codes
<1>2. spent' \subseteq User \X Codes(batches')
  <2>1. ASSUME NEW a \in Actor, PutSession(a), NEW x \in spent'
        PROVE  x \in User \X Codes(batches')
    BY <1>1, <2>1, AcceptedCode DEF CodesBounded
  <2> QED
    BY <1>1, <2>1, CodesChange DEF CodesBounded
<1>3. ASSUME NEW u \in User
      PROVE  users'[u].codes \subseteq Codes(batches')
  <2>1. ASSUME NEW a \in Actor, PutUser(a)
        PROVE  users'[u].codes \subseteq Codes(batches')
    BY <1>1, <2>1, PutUserFacts DEF CodesBounded
  <2> QED
    BY <1>1, <2>1, UsersChange DEF CodesBounded
<1>4. ASSUME NEW a \in Actor
      PROVE  /\ req'[a].rec.codes \subseteq Codes(batches')
             /\ req'[a].code[2] # None => req'[a].code \in Codes(batches')
  <2>0. PICK r, q : r = req[a] /\ q = req'[a]
    OBVIOUS
  <2>1. /\ r.rec.codes \subseteq Codes(batches')
        /\ r.code[2] # None => r.code \in Codes(batches')
        /\ r.rec.codes \subseteq Codes(batches')
    BY <1>1, <2>0 DEF CodesBounded
  <2>2. CASE q = r \/ Continues(r, q)
    BY <2>0, <2>1, <2>2 DEF Continues
  <2>3. CASE Finds(r, q)
    BY <1>1, <2>0, <2>1, <2>3 DEF Finds, CodesBounded
  <2>4. CASE Spends(r, q)
    BY <2>0, <2>1, <2>4 DEF Spends
  <2>5. CASE Enables(r, q)
    BY <1>0, <2>0, <2>1, <2>5 DEF Enables, Codes
  <2>6. CASE Reads(q)
    BY <1>1, <2>0, <2>6 DEF Reads, CodesBounded
  <2>7. CASE Creates(a, q)
    BY <2>0, <2>7 DEF Creates
  <2>8. CASE q = NoRequest \/ Begins(q)
    <3>1. q.rec = NoUser /\ q.code[2] = None
      BY <2>8 DEF Begins, NoRequest
    <3> QED
      BY <2>0, <3>1 DEF NoUser
  <2> QED
    BY <2>0, <2>2, <2>3, <2>4, <2>5, <2>6, <2>7, <2>8, CallMoves
<1> QED
  BY <1>1, <1>2, <1>3, <1>4 DEF CodesBounded

\* A step leaves a batch with the call that owns it.
LEMMA OwnBatchStep ==
    ASSUME AuthShape, AuthShape', CodesBounded, [AuthNext]_authVars,
           NEW a \in Actor, NEW n \in 1..batches, OwnBatch(a, n), req'[a] = req[a], req[a].at = "putUser"
    PROVE  OwnBatch(a, n)'
<1>0. batches \in Nat
  BY DEF AuthShape, BatchesOK
<1>1. ASSUME NEW b \in Actor, PutUser(b)
      PROVE  b # a
  <2>1. req'[b] = AfterPutUser(req[b]) /\ req[b] \in Request /\ ReqOK(req[b]) /\ req[b].at = "putUser"
    BY <1>1 DEF PutUser, Go, AuthShape
  <2>2. req'[b].at # "putUser"
    BY <2>1, AfterPutUserFields
  <2> QED
    BY <2>1, <2>2
<1>2. ASSUME NEW u \in User
      PROVE  users'[u].codes \cap Batch(n) = {}
  <2>1. ASSUME NEW b \in Actor, PutUser(b)
        PROVE  users'[u].codes \cap Batch(n) = {}
    BY <1>1, <2>1, PutUserFacts DEF OwnBatch
  <2> QED
    BY <2>1, UsersChange DEF OwnBatch
<1>3. ASSUME NEW b \in Actor \ {a}
      PROVE  /\ req'[b].rec.codes \cap Batch(n) = {}
             /\ req'[b].code[2] # None => req'[b].code[1] # n
  <2>0. PICK r, q : r = req[b] /\ q = req'[b]
    OBVIOUS
  <2>1. r.rec.codes \cap Batch(n) = {} /\ (r.code[2] # None => r.code[1] # n)
        /\ r.rec.codes \subseteq Codes(batches)
    BY <2>0 DEF OwnBatch, CodesBounded
  <2>2. CASE q = r \/ Continues(r, q)
    BY <2>0, <2>1, <2>2 DEF Continues
  <2>3. CASE Finds(r, q)
    BY <2>0, <2>1, <2>3 DEF Finds, OwnBatch
  <2>4. CASE Spends(r, q)
    <3>1. q.code \in r.rec.codes /\ q.rec.codes \subseteq r.rec.codes
      BY <2>4 DEF Spends
    <3>2. q.code \in Codes(batches) /\ q.code \notin Batch(n)
      BY <2>1, <3>1
    <3>3. q.code[1] # n
      BY <3>2 DEF Codes, Batch
    <3> QED
      BY <2>0, <2>1, <3>1, <3>3
  <2>5. CASE Enables(r, q)
    <3>1. q.rec.codes = {batches + 1} \X Code /\ q.code = r.code
      BY <2>5 DEF Enables
    <3>2. q.rec.codes \cap Batch(n) = {}
      BY <1>0, <3>1 DEF Batch
    <3> QED
      BY <2>0, <2>1, <3>1, <3>2
  <2>6. CASE Reads(q)
    BY <2>0, <2>6 DEF Reads, OwnBatch
  <2>7. CASE Creates(b, q)
    BY <2>0, <2>7 DEF Creates
  <2>8. CASE q = NoRequest \/ Begins(q)
    <3>1. q.rec = NoUser /\ q.code[2] = None
      BY <2>8 DEF Begins, NoRequest
    <3> QED
      BY <2>0, <3>1 DEF NoUser
  <2> QED
    BY <2>0, <2>2, <2>3, <2>4, <2>5, <2>6, <2>7, <2>8, CallMoves
<1>4. ASSUME NEW x \in spent'
      PROVE  x[2][1] # n
  <2>1. ASSUME NEW b \in Actor, PutSession(b), x \notin spent
        PROVE  x[2][1] # n
    <3>1. req[b].at = "putSession" /\ req[b].code[2] # None /\ x = <<req[b].u, req[b].code>>
      BY <1>4, <2>1, AcceptedCode
    <3>2. b # a
      BY <3>1
    <3> QED
      BY <3>1, <3>2 DEF OwnBatch
  <2>2. CASE x \in spent
    BY <2>2 DEF OwnBatch
  <2> QED
    BY <1>4, <2>1, <2>2, CodesChange
<1>5. req'[a].rec.codes = Batch(n)
  BY DEF OwnBatch
<1> QED
  BY <1>2, <1>3, <1>4, <1>5 DEF OwnBatch

LEMMA CodeStep ==
    ASSUME AuthShape, AuthShape', CodeInv, [AuthNext]_authVars
    PROVE  CodeInv'
<1>0. CodesBounded /\ CodesBounded' /\ batches \in Nat /\ batches' \in Nat /\ batches <= batches'
  BY CodesBoundedStep, CodesChange DEF CodeInv, AuthShape, BatchesOK
<1>1. ASSUME NEW a \in Actor, req'[a].at = "putUser", req'[a].op = "enableMfa"
      PROVE  \E n \in 1..batches' : OwnBatch(a, n)'
  <2>0. PICK r, q : r = req[a] /\ q = req'[a]
    OBVIOUS
  <2>1. CASE q = r
    <3>1. PICK n \in 1..batches : OwnBatch(a, n)
      BY <1>1, <2>0, <2>1 DEF CodeInv
    <3>2. OwnBatch(a, n)'
      BY <1>0, <1>1, <2>0, <2>1, <3>1, OwnBatchStep
    <3> QED
      BY <1>0, <3>1, <3>2
  <2>2. CASE Enables(r, q)
    <3>1. PICK n : n = batches + 1
      OBVIOUS
    <3>2. r # q /\ batches' = n /\ q.rec.codes = Batch(n) /\ n \in 1..batches'
      BY <1>0, <2>2, <3>1 DEF Enables, Batch
    <3>3. \A b \in Actor : AuthCalls(b) \/ AuthStep(b) => b = a
      BY <2>0, <3>2, OneCallSteps
    <3>4. \A b \in Actor \ {a} : req'[b] = req[b]
      BY <2>0, <3>2, <3>3, OneCallSteps DEF AuthNext, AuthTime, authVars
    <3>5. ~PutUser(a) /\ ~PutSession(a)
      BY <2>0, <2>2 DEF Enables, PutUser, PutSession
    <3>6. users' = users /\ spent' = spent
      BY <3>3, <3>5, UsersChange, CodesChange DEF AuthStep
    <3>7. \A x \in Codes(batches) : x[1] # n /\ x \notin Batch(n)
      BY <1>0, <3>1 DEF Codes, Batch
    <3>8. /\ \A u \in User : users'[u].codes \cap Batch(n) = {}
          /\ \A b \in Actor \ {a} : /\ req'[b].rec.codes \cap Batch(n) = {}
                                    /\ req'[b].code[2] # None => req'[b].code[1] # n
          /\ \A x \in spent' : x[2][1] # n
      BY <1>0, <3>4, <3>6, <3>7 DEF CodesBounded
    <3>9. OwnBatch(a, n)'
      BY <2>0, <3>2, <3>8 DEF OwnBatch
    <3> QED
      BY <3>2, <3>9
  <2>3. q = r \/ Enables(r, q)
    <3>1. ~Continues(r, q) /\ ~Finds(r, q) /\ ~Spends(r, q) /\ ~Creates(a, q) /\ ~Reads(q) /\ ~Begins(q)
      BY <1>1, <2>0 DEF Continues, Finds, Spends, Creates, Creators, Reads, Begins
    <3>2. q # NoRequest
      BY <1>1, <2>0, NoRequestOK
    <3> QED
      BY <2>0, <3>1, <3>2, CallMoves
  <2> QED
    BY <2>1, <2>2, <2>3
\* What is stored over the record of a user brings no accepted code back.
<1>2. ASSUME NEW u \in User, u \notin staleUsers', NEW c \in Codes(batches), c \notin users[u].codes,
             \A a \in Actor, n \in 1..batches : OwnBatch(a, n) /\ req[a].at = "putUser" /\ PutUser(a) => c[1] # n
      PROVE  c \notin users'[u].codes /\ u \notin staleUsers
  <2>1. ASSUME NEW a \in Actor, PutUser(a)
        PROVE  c \notin users'[u].codes /\ u \notin staleUsers
    <3>1. PICK r : r = req[a]
      OBVIOUS
    <3>2. /\ Kept(r) /\ r.u \in User /\ r.at = "putUser"
          /\ \A v \in User : users'[v] = IF v = r.u THEN r.rec ELSE users[v]
      BY <2>1, <3>1, PutUserFacts
    <3>3. u \notin staleUsers /\ (u = r.u => users[u] = r.base)
      BY <1>2, <2>1, <3>1 DEF PutUser
    <3>4. CASE u = r.u /\ r.op = "enableMfa"
      <4>1. PICK n \in 1..batches : OwnBatch(a, n)
        BY <3>1, <3>2, <3>4 DEF CodeInv
      <4>2. c[1] # n /\ r.rec.codes = Batch(n)
        BY <1>2, <2>1, <3>1, <3>2, <4>1 DEF OwnBatch
      <4>3. c \notin Batch(n)
        BY <4>2 DEF Batch
      <4> QED
        BY <3>2, <3>3, <3>4, <4>2, <4>3
    <3>5. CASE u = r.u /\ r.op # "enableMfa"
      BY <1>2, <3>2, <3>3, <3>5 DEF Kept
    <3> QED
      BY <1>2, <3>2, <3>3, <3>4, <3>5
  <2> QED
    BY <1>2, <2>1, UsersChange
<1>3. ASSUME NEW u \in User, u \notin staleUsers', NEW c \in Codes(batches), <<u, c>> \in spent,
             c \in (0..MaxCalls) \X Code
      PROVE  c \notin users'[u].codes
  <2>1. \A a \in Actor, n \in 1..batches : OwnBatch(a, n) => c[1] # n
    BY <1>3 DEF OwnBatch
  <2>2. c \notin users[u].codes
    <3>1. u \notin staleUsers
      BY <1>3, UsersChange DEF PutUser
    <3> QED
      BY <1>3, <3>1 DEF CodeInv, CodesSingleUse
  <2> QED
    BY <1>2, <1>3, <2>1, <2>2
<1>4. CodesSingleUse'
  <2> SUFFICES ASSUME NEW u \in User, u \notin staleUsers', NEW n \in 0..MaxCalls, NEW k \in Code,
                      <<u, <<n, k>>>> \in spent'
               PROVE  <<n, k>> \notin users'[u].codes
    BY DEF CodesSingleUse
  <2>1. CASE <<u, <<n, k>>>> \in spent
    <3>1. <<n, k>> \in Codes(batches)
      BY <1>0, <2>1 DEF CodesBounded
    <3> QED
      BY <1>3, <2>1, <3>1
  <2>2. ASSUME NEW a \in Actor, PutSession(a), <<u, <<n, k>>>> \notin spent
        PROVE  <<n, k>> \notin users'[u].codes
    <3>1. /\ u = req[a].u /\ <<n, k>> = req[a].code /\ req[a].code[2] # None
          /\ req[a].at = "putSession" /\ UNCHANGED <<users, staleUsers>>
      BY <2>2, AcceptedCode
    <3> QED
      BY <3>1 DEF CodeInv
  <2> QED
    BY <2>1, <2>2, CodesChange
<1>5. ASSUME NEW a \in Actor, req'[a].at = "putSession", req'[a].code[2] # None,
             req'[a].u \notin staleUsers'
      PROVE  req'[a].code \notin users'[req'[a].u].codes
  <2>0. PICK r, q : r = req[a] /\ q = req'[a]
    OBVIOUS
  <2>1. CASE q = r
    <3>1. r.at = "putSession" /\ r.code[2] # None /\ r.code \in Codes(batches) /\ r.u \in User
      BY <1>0, <1>5, <2>0, <2>1 DEF CodesBounded, AuthShape, ReqOK, SessionKept
    <3>2. r.u \notin staleUsers
      BY <1>5, <2>0, <2>1, UsersChange DEF PutUser
    <3>3. r.code \notin users[r.u].codes
      BY <2>0, <3>1, <3>2 DEF CodeInv
    <3>4. \A b \in Actor, n \in 1..batches : OwnBatch(b, n) /\ req[b].at = "putUser" => r.code[1] # n
      BY <2>0, <3>1 DEF OwnBatch
    <3> QED
      BY <1>2, <1>5, <2>0, <2>1, <3>1, <3>3, <3>4
  <2>2. CASE Continues(r, q)
    <3>1. /\ r.at = "putUser" /\ q.u = r.u /\ users'[r.u] = r.rec
          /\ q.code = r.code /\ r.code[2] # None
      BY <1>5, <2>0, <2>2 DEF Continues
    <3>2. r.code \notin r.rec.codes
      BY <2>0, <3>1 DEF AuthShape, ReqOK, Kept
    <3> QED
      BY <2>0, <3>1, <3>2
  <2>3. q = r \/ Continues(r, q)
    <3>1. ~Enables(r, q) /\ ~Finds(r, q) /\ ~Spends(r, q) /\ ~Creates(a, q) /\ ~Reads(q) /\ ~Begins(q)
      BY <1>5, <2>0 DEF Enables, Finds, Spends, Creates, Creators, Reads, Begins
    <3>2. q # NoRequest
      BY <1>5, <2>0, NoRequestOK
    <3> QED
      BY <2>0, <3>1, <3>2, CallMoves
  <2> QED
    BY <2>1, <2>2, <2>3
<1> QED
  BY <1>0, <1>1, <1>4, <1>5 DEF CodeInv

-----------------------------------------------------------------------------
\* The accounts of the Studio: all of it together.
AuthInv ==
    /\ AuthShape /\ HistoryOK
    /\ ActiveOwnerRemains /\ LockInv /\ FactorInv /\ EndInv /\ SeedInv /\ EmailInv /\ CodeInv

LEMMA AuthInvInit ==
    ASSUME AuthInit
    PROVE  AuthInv
<1> USE AuthConstants, LockoutConstants, NoRequestOK
<1>1. PICK w \in Worlds : users = w.users /\ seeds = {u \in User : w.users[u].mfa}
  BY DEF AuthInit
<1>2. AuthShape /\ HistoryOK
  BY InitShape DEF AuthInit, HistoryOK
<1>3. ActiveOwnerRemains
  BY <1>1, WorldsConstants DEF ActiveOwnerRemains, ActiveOwners
<1>4. LockInv
  <2>1. \A u \in User : users[u].failed = 0 /\ fails[u] = 0
    BY <1>1, WorldsConstants DEF AuthInit
  <2> QED
    BY <2>1 DEF LockInv
<1>5. FactorInv /\ EndInv
  BY DEF AuthInit, FactorInv, EndInv
<1>6. \A a \in Actor : req[a] = NoRequest
  BY DEF AuthInit
<1>7. SeedInv
  <2>1. EnabledHasSeed
    BY <1>1 DEF EnabledHasSeed
  <2> QED
    BY <1>6, <2>1 DEF SeedInv
<1>8. EmailInv
  <2>1. EmailsUnique
    BY <1>1, WorldsConstants DEF EmailsUnique, Exists
  <2>2. NoRequest.base.status = "none"
    BY DEF NoRequest, NoUser
  <2> QED
    BY <1>6, <2>1, <2>2 DEF EmailInv, CreatingAt
<1>9. CodeInv
  <2>1. spent = {} /\ batches = 0
    BY DEF AuthInit
  <2>2. \A u \in User : users[u].codes \subseteq Codes(batches)
    BY <1>1, <2>1, WorldsConstants DEF Codes
  <2>3. NoRequest.rec.codes = {} /\ NoRequest.code[2] = None
    BY DEF NoRequest, NoUser
  <2>4. CodesBounded
    BY <1>6, <2>1, <2>2, <2>3 DEF CodesBounded
  <2> QED
    BY <1>6, <2>1, <2>4 DEF CodeInv, CodesSingleUse
<1> QED
  BY <1>2, <1>3, <1>4, <1>5, <1>7, <1>8, <1>9 DEF AuthInv

LEMMA AuthInvNext ==
    ASSUME AuthInv, [AuthNext]_authVars
    PROVE  AuthInv'
<1>1. AuthShape' /\ HistoryOK'
  BY NextShape, HistoryStep DEF AuthInv
<1>2. ActiveOwnerRemains' /\ LockInv' /\ FactorInv' /\ EndInv'
  BY OwnerStep, LockStep, FactorStep, EndStep DEF AuthInv
<1>3. SeedInv' /\ EmailInv' /\ CodeInv'
  BY <1>1, SeedStep, EmailStep, CodeStep DEF AuthInv
<1> QED
  BY <1>1, <1>2, <1>3 DEF AuthInv

LEMMA AuthInvariant == AuthSpec => []AuthInv
BY AuthInvNext, AuthInvInit, PTL DEF AuthSpec

\* "an install can never be locked out of administration" (service.ts:163): whatever
\* updates, passwords and enrolments interleave, an active owner remains, unless a
\* record was stored over one that had changed since it was read or the owners had
\* changed since an update counted them.
THEOREM OwnerRemains == AuthSpec => []ActiveOwnerRemains
<1>1. AuthInv => ActiveOwnerRemains
  BY DEF AuthInv
<1> QED
  BY <1>1, AuthInvariant, PTL

\* "the lock escalates" (service.ts:421): an account whose record no outdated copy has
\* overwritten is locked for the time its wrong passwords since the last right one ask
\* for, counted from the last of them, however many logins run at once.
THEOREM LocksEscalate == AuthSpec => []LockEscalates
<1>1. AuthInv => LockEscalates
  BY LockHolds DEF AuthInv
<1> QED
  BY <1>1, AuthInvariant, PTL

-----------------------------------------------------------------------------
\* What a member's call carries from one step to the next.

Purposes == {"verify", "magic", "reset"}
MemberOps == {"none", "register", "login", "profile", "status", "request", "logout", "delete"} \cup Purposes
MemberStages == {"none", "putAccount", "putToken", "mail", "issue", "useToken", "account", "prune", "revoke",
                 "drop", "open", "tokens", "dropTokens"}
VisitRecord == [op : MemberOps, at : MemberStages, m : Member \cup {Nobody}, base : MemberRecord,
                rec : MemberRecord, k : {0} \cup TokenId, token : TokenRecord, l : {0},
                todo : SUBSET (Login \cup TokenId)]

\* What an account about to be stored owes to the copy the call has read.
KeptOfMember(r) ==
    /\ r.op \in {"register", "login", "profile", "status"} \cup Purposes
    /\ r.op = "register" => r.base = NoMember
    /\ r.op \in Purposes => r.rec.verified = TRUE
    /\ r.op # "register" /\ r.base.verified = TRUE => r.rec.verified = TRUE
    /\ r.op = "login" /\ r.rec.failed = 0 => r.rec.verified = TRUE

VisitOK(r) ==
    /\ r.at = "none" => r = NoVisit
    /\ r.at # "none" /\ r.op # "logout" => r.m \in Member
    /\ r.op = "logout" => r.at = "drop" /\ r.m = Nobody
    /\ r.op = "delete" => r.at \in {"revoke", "drop", "tokens", "dropTokens"}
    /\ r.at = "putAccount" => KeptOfMember(r)
    /\ r.op = "register" \/ r.at \in {"issue", "putToken"} => r.token.type \in TokenTypes
    /\ r.at = "issue" => r.op = "request"
    /\ r.at \in {"putToken", "mail"} => r.op \in {"register", "request"}
    /\ r.at \in {"mail", "useToken"} => r.k \in TokenId
    /\ r.at = "useToken" => r.token.used = TRUE /\ r.token.member = r.m /\ r.token.type \in TokenTypes
    /\ r.at \in {"useToken", "account"} => r.op \in Purposes
    /\ r.at \in {"prune", "open"} => r.op \in {"login", "magic"}
    /\ r.at = "revoke" => r.op \in {"status", "delete"}
    /\ r.at = "drop" => r.op \in {"login", "magic", "status", "delete", "logout"} /\ r.todo \subseteq Login
    /\ r.at \in {"tokens", "dropTokens"} => r.op = "delete"
    /\ r.at = "dropTokens" => r.todo \subseteq TokenId

\* A token named by a call has been issued.
Issued(r) == r.at \in {"mail", "useToken"} => r.k <= issued

MemberStoreOK ==
    /\ MembersTypeOK
    /\ \A k \in TokenId : tokens[k] = NoToken \/ (tokens[k].member \in Member /\ tokens[k].type \in TokenTypes)
    /\ \A l \in Login : logins[l] = NoLogin \/ logins[l].member \in Member
    /\ uses \in [TokenId -> Nat] /\ bans \in [Member -> Nat] /\ since \in [Login -> Nat]
    /\ deleted \subseteq Member /\ now \in Nat

MembersShape ==
    /\ MemberStoreOK
    /\ visit \in [Visitor -> VisitRecord]
    /\ \A v \in Visitor : VisitOK(visit[v]) /\ Issued(visit[v])

LEMMA NothingOK ==
    /\ NoVisit \in VisitRecord /\ VisitOK(NoVisit)
    /\ NoMember \in MemberRecord /\ NoLogin \in LoginRecord /\ NoToken \in TokenRecord
    /\ NoVisit.op = "none" /\ NoVisit.at = "none" /\ NoVisit.m = Nobody
    /\ NoLogin.member = Nobody /\ NoToken.member = Nobody /\ NoMember.status = "none"
    /\ Nobody \notin Member
<1> USE MemberConstants
<1>1. NoMember \in MemberRecord
  BY DEF NoMember, MemberRecord
<1>2. NoLogin \in LoginRecord /\ NoToken \in TokenRecord
  BY DEF NoLogin, LoginRecord, NoToken, TokenRecord
<1>3. NoVisit \in VisitRecord
  BY <1>1, <1>2 DEF NoVisit, VisitRecord, MemberOps, MemberStages
<1>4. NoVisit.op = "none" /\ NoVisit.at = "none" /\ NoVisit.m = Nobody
  BY DEF NoVisit
<1>5. VisitOK(NoVisit)
  BY <1>4 DEF VisitOK, Purposes
<1>6. NoLogin.member = Nobody /\ NoToken.member = Nobody /\ NoMember.status = "none"
  BY DEF NoLogin, NoToken, NoMember
<1> QED
  BY <1>1, <1>2, <1>3, <1>4, <1>5, <1>6

LEMMA InitMembersShape == MembersInit => MembersShape
<1> SUFFICES ASSUME MembersInit PROVE MembersShape
  OBVIOUS
<1> USE MemberConstants, NothingOK
<1>1. accounts \in [Member -> MemberRecord]
  BY SitesConstants DEF MembersInit
<1>2. /\ logins \in [Login -> LoginRecord] /\ tokens \in [TokenId -> TokenRecord]
      /\ mailed \subseteq 1..issued /\ issued \in 0..MaxTokens
      /\ opened \in 0..MaxLogins /\ visits \in 0..MaxVisits
  BY DEF MembersInit
<1>3. MemberStoreOK
  BY <1>1, <1>2 DEF MembersInit, MemberStoreOK, MembersTypeOK
<1>4. visit \in [Visitor -> VisitRecord] /\ \A v \in Visitor : visit[v] = NoVisit
  BY DEF MembersInit
<1> QED
  BY <1>3, <1>4 DEF MembersShape, Issued

\* A call made or gone on with, over stores that are what they should be.
LEMMA MoveShape ==
    ASSUME MembersShape, NEW v \in Visitor, NEW q, q \in VisitRecord, VisitOK(q),
           q.at \in {"mail", "useToken"} => q.k <= issued',
           visit' = [visit EXCEPT ![v] = q], MemberStoreOK', issued' >= issued
    PROVE  MembersShape'
<1>1. visit' \in [Visitor -> VisitRecord]
  BY DEF MembersShape
<1>2. ASSUME NEW w \in Visitor PROVE VisitOK(visit'[w]) /\ Issued(visit[w])'
  <2>1. CASE w = v
    BY <2>1 DEF MembersShape, Issued
  <2>2. CASE w # v
    <3>1. visit'[w] = visit[w] /\ visit[w] \in VisitRecord /\ VisitOK(visit[w]) /\ Issued(visit[w])
      BY <2>2 DEF MembersShape
    <3>2. visit[w].k \in Nat /\ issued \in Nat /\ issued' \in Nat
      BY <3>1 DEF VisitRecord, TokenId, MembersShape, MemberStoreOK, MembersTypeOK
    <3> QED
      BY <3>1, <3>2 DEF Issued
  <2> QED
    BY <2>1, <2>2
<1> QED
  BY <1>1, <1>2 DEF MembersShape

\* The call leaves the stores alone, and the counts of the history.
Quiet == UNCHANGED <<now, accounts, logins, tokens, issued, opened, uses, bans, since, deleted, staleAccounts, contended>>

LEMMA QuietStore ==
    ASSUME MembersShape, Quiet, mailed' \subseteq 1..issued, visits' \in 0..MaxVisits
    PROVE  MemberStoreOK'
BY DEF MembersShape, MemberStoreOK, MembersTypeOK, Quiet

-----------------------------------------------------------------------------
\* Steps that store nothing about members.

Entering(r) == r.op \in {"login", "magic"} /\ r.at \in {"account", "prune", "drop", "open"}
Deleting(r) == r.op = "delete"
MetAt(m) == \E w \in Visitor : visit[w].m = m

\* What such a step may make of the call r it finds.
Onward(r, q) ==
    /\ q.at = "useToken" => tokens[q.k].used # TRUE /\ tokens[q.k] # NoToken
    /\ r.op = "status" /\ r.at = "revoke" =>
          q.op = "status" /\ q.m = r.m /\ q.at = "drop" /\ q.todo = LoginsOf(r.m)
    /\ r.op = "status" /\ r.at = "drop" => r.todo = {}
    /\ Entering(q) => /\ Entering(r) /\ q.m = r.m
                      /\ q.at # "account" => r.at # "account" \/ accounts[q.m].verified = TRUE
    /\ Deleting(q) =>
          \/ q.at = "revoke" /\ Registered(q.m) /\ (MetAt(q.m) => q.m \in haunted')
          \/ Deleting(r) /\ q.m = r.m /\ r.at = "revoke" /\ q.at = "drop" /\ q.todo = LoginsOf(q.m)
          \/ Deleting(r) /\ q.m = r.m /\ r.at = "drop" /\ r.todo = {} /\ q.at = "tokens"
          \/ Deleting(r) /\ q.m = r.m /\ r.at = "tokens" /\ q.at = "dropTokens" /\ q.todo = TokensOf(q.m)

QuietMove(v) ==
    /\ Quiet /\ haunted \subseteq haunted'
    /\ \A w \in Visitor \ {v} : visit'[w] = visit[w]
    /\ Onward(visit[v], visit'[v])

\* A call made.
LEMMA CallMade ==
    ASSUME MembersShape, NEW v \in Visitor, NEW q, q \in VisitRecord, VisitOK(q), Visit(v, q),
           UNCHANGED memberStore, UNCHANGED <<staleAccounts, contended, uses, deleted, bans, since>>,
           haunted \subseteq haunted', q.at # "mail", q.at = "useToken" => q.k <= issued,
           Onward(NoVisit, q)
    PROVE  MembersShape' /\ QuietMove(v)
<1>1. /\ visit[v] = NoVisit /\ visit' = [visit EXCEPT ![v] = q] /\ now' = now
      /\ visits' = visits + 1 /\ visits < MaxVisits
  BY DEF Visit
<1>2. Quiet /\ UNCHANGED mailed
  BY <1>1 DEF Quiet, memberStore
<1>3. visits' \in 0..MaxVisits /\ mailed \subseteq 1..issued /\ issued \in Nat
  BY <1>1, MemberConstants DEF MembersShape, MemberStoreOK, MembersTypeOK
<1>4. MemberStoreOK'
  BY <1>2, <1>3, QuietStore
<1>5. MembersShape'
  <2>1. issued' >= issued /\ (q.at \in {"mail", "useToken"} => q.k <= issued')
    BY <1>2, <1>3 DEF Quiet
  <2> QED
    BY <1>1, <1>4, <2>1, MoveShape
<1>6. visit'[v] = q /\ \A w \in Visitor \ {v} : visit'[w] = visit[w]
  BY <1>1 DEF MembersShape
<1> QED
  BY <1>1, <1>2, <1>5, <1>6 DEF QuietMove

\* A step of a call that is under way.
LEMMA GoneOn ==
    ASSUME MembersShape, NEW v \in Visitor, NEW q, q \in VisitRecord, VisitOK(q), Then(v, q),
           UNCHANGED <<accounts, logins, tokens, issued, opened, memberHistory>>,
           mailed' \subseteq 1..issued, q.at \notin {"mail", "useToken"}, Onward(visit[v], q)
    PROVE  MembersShape' /\ QuietMove(v)
<1>1. visit' = [visit EXCEPT ![v] = q] /\ now' = now /\ visits' = visits
  BY DEF Then
<1>2. Quiet /\ haunted \subseteq haunted'
  BY <1>1 DEF Quiet, memberHistory
<1>3. visits' \in 0..MaxVisits /\ issued \in Nat
  BY <1>1 DEF MembersShape, MemberStoreOK, MembersTypeOK
<1>4. MemberStoreOK'
  BY <1>2, <1>3, QuietStore
<1>5. MembersShape'
  <2>1. issued' >= issued /\ (q.at \in {"mail", "useToken"} => q.k <= issued')
    BY <1>2, <1>3 DEF Quiet
  <2> QED
    BY <1>1, <1>4, <2>1, MoveShape
<1>6. visit'[v] = q /\ \A w \in Visitor \ {v} : visit'[w] = visit[w]
  BY <1>1 DEF MembersShape
<1> QED
  BY <1>2, <1>5, <1>6 DEF QuietMove

\* A counted failure is an account again, verified if it was.
LEMMA CountMemberFailure ==
    ASSUME NEW r \in MemberRecord, NEW t \in Nat
    PROVE  LET x == CountFailure(r, t) IN
           x \in MemberRecord /\ x.failed = r.failed + 1 /\ x.verified = r.verified
<1> USE LockoutConstants
<1>1. r.failed + 1 \in Nat
  BY DEF MemberRecord
<1>2. CASE r.failed + 1 >= MaxAttempts
  <2>1. t + Backoff(r.failed + 1) \in Nat
    BY <1>1, <1>2, BackoffIsNat
  <2> QED
    BY <1>1, <1>2, <2>1 DEF CountFailure, MemberRecord
<1>3. CASE ~(r.failed + 1 >= MaxAttempts)
  BY <1>1, <1>3 DEF CountFailure, MemberRecord
<1> QED
  BY <1>2, <1>3

\* The calls that store an account.
LEMMA KeepingOps ==
    /\ {"register", "verify", "magic", "reset", "login", "profile", "status"} \subseteq MemberOps
    /\ Purposes = {"verify", "magic", "reset"}
BY DEF MemberOps, Purposes

LEMMA KeepingFields ==
    ASSUME MembersShape, NEW op \in MemberOps, NEW m \in Member, NEW rec \in MemberRecord,
           NEW q, q = Keeping(op, m, rec)
    PROVE  /\ q \in VisitRecord /\ q.op = op /\ q.at = "putAccount" /\ q.m = m
           /\ q.base = accounts[m] /\ q.rec = rec /\ accounts[m] \in MemberRecord
<1>1. accounts[m] \in MemberRecord
  BY DEF MembersShape, MemberStoreOK, MembersTypeOK
<1>2. q \in VisitRecord
  BY <1>1, NothingOK DEF Keeping, VisitRecord, MemberStages
<1> QED
  BY <1>1, <1>2 DEF Keeping, NoVisit

\* A call that has read an account and will store another is what VisitOK asks for.
LEMMA KeepingOK ==
    ASSUME NEW q, q.at = "putAccount", q.m \in Member, KeptOfMember(q), q.op # "register"
    PROVE  VisitOK(q) /\ ~Entering(q) /\ ~Deleting(q)
BY DEF VisitOK, KeptOfMember, Purposes, Entering, Deleting

LEMMA OnwardCall ==
    ASSUME NEW q, q.at # "useToken", ~Entering(q), ~Deleting(q)
    PROVE  Onward(NoVisit, q)
BY NothingOK DEF Onward

\* The calls of a visitor: each reads, and nothing is stored yet.
LEMMA QuietCalls ==
    ASSUME MembersShape, NEW v \in Visitor, MemberCalls(v)
    PROVE  MembersShape' /\ QuietMove(v)
<1> USE NothingOK
<1>a. ASSUME NEW m \in Member PROVE accounts[m] \in MemberRecord
  BY DEF MembersShape, MemberStoreOK, MembersTypeOK
<1>t. now \in Nat /\ visits \in 0..MaxVisits
  BY DEF MembersShape, MemberStoreOK, MembersTypeOK
<1>h. ASSUME UNCHANGED memberHistory
      PROVE  UNCHANGED <<staleAccounts, contended, uses, deleted, bans, since>> /\ haunted' = haunted
  BY <1>h DEF memberHistory
<1>k. ASSUME NEW q, q \in VisitRecord, q.at = "putAccount", q.m \in Member, KeptOfMember(q), q.op # "register",
             Visit(v, q), UNCHANGED <<memberStore, memberHistory>>
      PROVE  MembersShape' /\ QuietMove(v)
  <2>1. VisitOK(q) /\ Onward(NoVisit, q)
    BY <1>k, KeepingOK, OnwardCall
  <2> QED
    BY <1>k, <1>h, <2>1, CallMade
<1>1. ASSUME NEW m \in Member, NEW e \in Address, NEW s \in Secret, Register(v, m, e, s)
      PROVE  MembersShape' /\ QuietMove(v)
  <2>1. PICK rec : rec = NewMember(e, s)
    OBVIOUS
  <2>2. rec \in MemberRecord
    BY <2>1 DEF NewMember, NoMember, MemberRecord
  <2>3. PICK x : x = Keeping("register", m, rec)
    OBVIOUS
  <2>4. /\ x \in VisitRecord /\ x.op = "register" /\ x.at = "putAccount" /\ x.m = m
        /\ x.base = accounts[m] /\ x.rec = rec
    BY <2>2, <2>3, KeepingFields, KeepingOps
  <2>5. PICK q, token : token = [NoToken EXCEPT !.type = "email_verify"] /\ q = [x EXCEPT !.token = token]
    OBVIOUS
  <2>6. token \in TokenRecord /\ token.type = "email_verify"
    BY <2>5 DEF TokenRecord, TokenTypes, NoToken
  <2>7. /\ q \in VisitRecord /\ q.op = "register" /\ q.at = "putAccount" /\ q.m = m
        /\ q.base = accounts[m] /\ q.rec = rec /\ q.token = token
    BY <2>4, <2>5, <2>6 DEF VisitRecord
  <2>8. accounts[m] = NoMember
    BY <1>1 DEF Register, Unassigned, Registered
  <2>9. VisitOK(q) /\ Onward(NoVisit, q)
    <3>1. KeptOfMember(q)
      BY <2>7, <2>8 DEF KeptOfMember, Purposes
    <3>2. VisitOK(q)
      BY <2>6, <2>7, <3>1 DEF VisitOK, TokenTypes
    <3>3. ~Entering(q) /\ ~Deleting(q) /\ q.at # "useToken"
      BY <2>7 DEF Entering, Deleting
    <3> QED
      BY <3>2, <3>3, OnwardCall
  <2>10. /\ Visit(v, q) /\ UNCHANGED memberStore /\ haunted' = haunted
         /\ UNCHANGED <<staleAccounts, contended, uses, deleted, bans, since>>
    BY <1>1, <2>1, <2>3, <2>5 DEF Register
  <2> QED
    BY <2>7, <2>9, <2>10, CallMade
<1>2. ASSUME NEW m \in Member, NEW s \in Secret, Authenticate(v, m, s)
      PROVE  MembersShape' /\ QuietMove(v)
  <2>1. ASSUME Visit(v, Keeping("login", m, CountFailure(accounts[m], now)))
        PROVE  MembersShape' /\ QuietMove(v)
    <3>1. PICK rec, q : rec = CountFailure(accounts[m], now) /\ q = Keeping("login", m, rec)
      OBVIOUS
    <3>2. rec \in MemberRecord /\ rec.failed = accounts[m].failed + 1 /\ rec.verified = accounts[m].verified
      BY <1>a, <1>t, <3>1, CountMemberFailure
    <3>3. rec.failed # 0
      BY <1>a, <3>2 DEF MemberRecord
    <3>4. /\ q \in VisitRecord /\ q.op = "login" /\ q.at = "putAccount" /\ q.m = m
          /\ q.base = accounts[m] /\ q.rec = rec
      BY <3>1, <3>2, KeepingFields, KeepingOps
    <3>5. KeptOfMember(q)
      BY <3>2, <3>3, <3>4 DEF KeptOfMember, Purposes
    <3> QED
      BY <1>2, <1>k, <2>1, <3>1, <3>4, <3>5 DEF Authenticate
  <2>2. ASSUME accounts[m].verified, Visit(v, Keeping("login", m, Unlocked(accounts[m])))
        PROVE  MembersShape' /\ QuietMove(v)
    <3>1. PICK rec, q : rec = Unlocked(accounts[m]) /\ q = Keeping("login", m, rec)
      OBVIOUS
    <3>2. rec \in MemberRecord /\ rec.verified = accounts[m].verified
      BY <1>a, <3>1 DEF Unlocked, MemberRecord
    <3>3. accounts[m].verified = TRUE
      BY <1>a, <2>2 DEF MemberRecord
    <3>4. /\ q \in VisitRecord /\ q.op = "login" /\ q.at = "putAccount" /\ q.m = m
          /\ q.base = accounts[m] /\ q.rec = rec
      BY <3>1, <3>2, KeepingFields, KeepingOps
    <3>5. KeptOfMember(q)
      BY <3>2, <3>3, <3>4 DEF KeptOfMember, Purposes
    <3> QED
      BY <1>2, <1>k, <2>2, <3>1, <3>4, <3>5 DEF Authenticate
  <2> QED
    BY <1>2, <2>1, <2>2 DEF Authenticate
<1>3. ASSUME NEW m \in Member, NEW type \in {"magic_link", "pw_reset"}, RequestMail(v, m, type)
      PROVE  MembersShape' /\ QuietMove(v)
  <2>1. PICK q, token : /\ token = [NoToken EXCEPT !.type = type]
                        /\ q = [NoVisit EXCEPT !.op = "request", !.at = "issue", !.m = m, !.token = token]
    OBVIOUS
  <2>2. token \in TokenRecord /\ token.type \in TokenTypes
    BY <2>1 DEF TokenRecord, TokenTypes, NoToken
  <2>3. q \in VisitRecord /\ q.op = "request" /\ q.at = "issue" /\ q.m = m /\ q.token = token
    BY <2>1, <2>2 DEF VisitRecord, MemberOps, MemberStages, NoVisit
  <2>4. VisitOK(q) /\ ~Entering(q) /\ ~Deleting(q) /\ Onward(NoVisit, q)
    BY <2>2, <2>3, OnwardCall DEF VisitOK, Entering, Deleting
  <2>5. Visit(v, q) /\ UNCHANGED <<memberStore, memberHistory>>
    BY <1>3, <2>1 DEF RequestMail
  <2> QED
    BY <1>h, <2>3, <2>4, <2>5, CallMade
<1>4. ASSUME NEW k \in TokenId, FindToken(v, k)
      PROVE  MembersShape' /\ QuietMove(v)
  <2>1. PICK q, token : /\ token = [tokens[k] EXCEPT !.used = TRUE]
                        /\ q = [NoVisit EXCEPT !.op = Purpose(tokens[k].type), !.at = "useToken",
                                   !.m = tokens[k].member, !.k = k, !.token = token]
    OBVIOUS
  <2>2. /\ tokens[k] \in TokenRecord /\ tokens[k] # NoToken /\ tokens[k].member \in Member
        /\ tokens[k].type \in TokenTypes
    BY <1>4 DEF FindToken, MembersShape, MemberStoreOK, MembersTypeOK
  <2>3. Purpose(tokens[k].type) \in Purposes
    BY <2>2 DEF Purpose, TokenTypes, Purposes
  <2>4. /\ token \in TokenRecord /\ token.used = TRUE /\ token.member = tokens[k].member
        /\ token.type = tokens[k].type
    BY <2>1, <2>2 DEF TokenRecord
  <2>5. q \in VisitRecord /\ q.at = "useToken" /\ q.m = tokens[k].member /\ q.k = k /\ q.token = token
    BY <2>1, <2>2, <2>3, <2>4 DEF VisitRecord, MemberOps, MemberStages, NoVisit
  <2>6. q.op \in Purposes
    BY <2>1, <2>3 DEF NoVisit
  <2>7. VisitOK(q) /\ ~Entering(q) /\ ~Deleting(q)
    BY <2>2, <2>4, <2>5, <2>6 DEF VisitOK, Entering, Deleting, Purposes
  <2>8. tokens[k].used # TRUE
    BY <1>4 DEF FindToken
  <2>9. Onward(NoVisit, q)
    BY <2>2, <2>5, <2>7, <2>8 DEF Onward
  <2>10. Visit(v, q) /\ UNCHANGED <<memberStore, memberHistory>>
    BY <1>4, <2>1 DEF FindToken
  <2>11. k <= issued
    BY <1>4 DEF FindToken, MembersShape, MemberStoreOK, MembersTypeOK
  <2> QED
    BY <1>h, <2>5, <2>7, <2>9, <2>10, <2>11, CallMade
<1>5. ASSUME NEW l \in Login, EndSession(v, l)
      PROVE  MembersShape' /\ QuietMove(v)
  <2>1. PICK q : q = [NoVisit EXCEPT !.op = "logout", !.at = "drop", !.todo = {l}]
    OBVIOUS
  <2>2. q \in VisitRecord /\ q.op = "logout" /\ q.at = "drop" /\ q.m = Nobody /\ q.todo = {l}
    BY <2>1 DEF VisitRecord, MemberOps, MemberStages, NoVisit
  <2>3. VisitOK(q) /\ ~Entering(q) /\ ~Deleting(q) /\ Onward(NoVisit, q)
    BY <2>2, OnwardCall DEF VisitOK, Entering, Deleting
  <2>4. Visit(v, q) /\ UNCHANGED <<memberStore, memberHistory>>
    BY <1>5, <2>1 DEF EndSession
  <2> QED
    BY <1>h, <2>2, <2>3, <2>4, CallMade
<1>6. ASSUME NEW l \in Login, UpdateProfile(v, l)
      PROVE  MembersShape' /\ QuietMove(v)
  <2>1. PICK m, rec, q : /\ m = logins[l].member
                         /\ rec = [accounts[m] EXCEPT !.profile = visits + 1]
                         /\ q = Keeping("profile", m, rec)
    OBVIOUS
  <2>2. m \in Member
    BY <1>6, <2>1 DEF UpdateProfile, MembersShape, MemberStoreOK
  <2>3. visits + 1 \in 0..MaxVisits
    <3>1. visits < MaxVisits
      BY <1>6 DEF UpdateProfile, Visit
    <3> QED
      BY <1>t, <3>1, MemberConstants
  <2>4. rec \in MemberRecord /\ rec.verified = accounts[m].verified
    BY <1>a, <2>1, <2>2, <2>3 DEF MemberRecord
  <2>5. /\ q \in VisitRecord /\ q.op = "profile" /\ q.at = "putAccount" /\ q.m = m
        /\ q.base = accounts[m] /\ q.rec = rec
    BY <2>1, <2>2, <2>4, KeepingFields, KeepingOps
  <2>6. KeptOfMember(q)
    BY <2>4, <2>5 DEF KeptOfMember, Purposes
  <2> QED
    BY <1>6, <1>k, <2>1, <2>2, <2>5, <2>6 DEF UpdateProfile
<1>7. ASSUME NEW m \in Member, NEW status \in {"active", "suspended"}, SetMemberStatus(v, m, status)
      PROVE  MembersShape' /\ QuietMove(v)
  <2>1. PICK rec, q : rec = [accounts[m] EXCEPT !.status = status] /\ q = Keeping("status", m, rec)
    OBVIOUS
  <2>2. rec \in MemberRecord /\ rec.verified = accounts[m].verified
    BY <1>a, <2>1 DEF MemberRecord
  <2>3. /\ q \in VisitRecord /\ q.op = "status" /\ q.at = "putAccount" /\ q.m = m
        /\ q.base = accounts[m] /\ q.rec = rec
    BY <2>1, <2>2, KeepingFields, KeepingOps
  <2>4. KeptOfMember(q)
    BY <2>2, <2>3 DEF KeptOfMember, Purposes
  <2> QED
    BY <1>7, <1>k, <2>1, <2>3, <2>4 DEF SetMemberStatus
<1>8. ASSUME NEW m \in Member, DeleteMember(v, m)
      PROVE  MembersShape' /\ QuietMove(v)
  <2>1. PICK q : q = [NoVisit EXCEPT !.op = "delete", !.at = "revoke", !.m = m]
    OBVIOUS
  <2>2. q \in VisitRecord /\ q.op = "delete" /\ q.at = "revoke" /\ q.m = m
    BY <2>1 DEF VisitRecord, MemberOps, MemberStages, NoVisit
  <2>3. VisitOK(q) /\ ~Entering(q)
    BY <2>2 DEF VisitOK, Entering
  <2>4. Registered(m) /\ (MetAt(m) => m \in haunted') /\ haunted \subseteq haunted'
    BY <1>8 DEF DeleteMember, MetAt
  <2>5. Onward(NoVisit, q)
    BY <2>2, <2>3, <2>4 DEF Onward
  <2>6. /\ Visit(v, q) /\ UNCHANGED memberStore
        /\ UNCHANGED <<staleAccounts, contended, uses, deleted, bans, since>>
    BY <1>8, <2>1 DEF DeleteMember
  <2> QED
    BY <2>2, <2>3, <2>4, <2>5, <2>6, CallMade
<1> QED
  BY <1>1, <1>2, <1>3, <1>4, <1>5, <1>6, <1>7, <1>8 DEF MemberCalls

LEMMA OnwardStep ==
    ASSUME NEW r, NEW q, r.at \notin {"revoke", "drop"}, q.at # "useToken", ~Entering(q), ~Deleting(q)
    PROVE  Onward(r, q)
BY DEF Onward

LEMMA NothingGoesOn == ~Entering(NoVisit) /\ ~Deleting(NoVisit) /\ NoVisit.at \notin {"mail", "useToken"}
BY NothingOK DEF Entering, Deleting

\* The steps that only read, or that have nothing left to drop.
LEMMA QuietSteps ==
    ASSUME MembersShape, NEW v \in Visitor,
           \/ Mail(v) \/ IssueFor(v) \/ VerifyEmail(v) \/ VerifyMagicLink(v)
           \/ \E s \in Secret : ConfirmPasswordReset(v, s)
           \/ PruneExpiredSessions(v) \/ RevokeAllSessions(v) \/ DeleteMemberTokens(v)
           \/ DropLogin(v) /\ visit[v].todo = {}
    PROVE  MembersShape' /\ QuietMove(v)
<1> USE NothingOK, NothingGoesOn
<1>0. PICK r : r = visit[v]
  OBVIOUS
<1>1. r \in VisitRecord /\ VisitOK(r) /\ Issued(r)
  BY <1>0 DEF MembersShape
<1>a. ASSUME NEW m \in Member PROVE accounts[m] \in MemberRecord
  BY DEF MembersShape, MemberStoreOK, MembersTypeOK
<1>h. ASSUME UNCHANGED <<memberStore, memberHistory>>
      PROVE  /\ UNCHANGED <<accounts, logins, tokens, issued, opened, memberHistory>>
             /\ mailed' \subseteq 1..issued
  BY <1>h DEF memberStore, MembersShape, MemberStoreOK, MembersTypeOK
<1>l. ASSUME r.at \notin {"revoke", "drop"}, Leave(v), UNCHANGED <<memberStore, memberHistory>>
      PROVE  MembersShape' /\ QuietMove(v)
  <2>1. Then(v, NoVisit) /\ Onward(visit[v], NoVisit)
    BY <1>0, <1>l, OnwardStep DEF Leave
  <2> QED
    BY <1>l, <1>h, <2>1, GoneOn
<1>k. ASSUME NEW q, q \in VisitRecord, q.at = "putAccount", q.m \in Member, KeptOfMember(q), q.op # "register",
             r.at \notin {"revoke", "drop"}, Then(v, q), UNCHANGED <<memberStore, memberHistory>>
      PROVE  MembersShape' /\ QuietMove(v)
  <2>1. VisitOK(q) /\ ~Entering(q) /\ ~Deleting(q)
    BY <1>k, KeepingOK
  <2>2. Onward(visit[v], q)
    BY <1>0, <1>k, <2>1, OnwardStep
  <2> QED
    BY <1>k, <1>h, <2>1, <2>2, GoneOn
<1>m. ASSUME r.at = "account" PROVE r.m \in Member /\ r.op \in Purposes
  BY <1>1, <1>m DEF VisitOK, Purposes
<1>2. CASE Mail(v)
  <2>1. r.at = "mail" /\ r.k \in 1..issued
    BY <1>0, <1>1, <1>2 DEF Mail, VisitOK, Issued, TokenId
  <2>2. mailed' \subseteq 1..issued /\ Then(v, NoVisit)
    BY <1>0, <1>2, <2>1 DEF Mail, Leave, MembersShape, MemberStoreOK, MembersTypeOK
  <2>3. Onward(visit[v], NoVisit)
    BY <1>0, <2>1, OnwardStep
  <2> QED
    BY <1>2, <2>2, <2>3, GoneOn DEF Mail
<1>3. CASE IssueFor(v)
  <2>1. r.at = "issue" /\ UNCHANGED <<memberStore, memberHistory>>
    BY <1>0, <1>3 DEF IssueFor
  <2>2. CASE Then(v, [r EXCEPT !.at = "putToken"])
    <3>1. PICK q : q = [r EXCEPT !.at = "putToken"]
      OBVIOUS
    <3>2. /\ q \in VisitRecord /\ q.at = "putToken" /\ q.op = r.op /\ q.m = r.m /\ q.token = r.token
      BY <1>1, <3>1 DEF VisitRecord, MemberStages
    <3>3. VisitOK(q) /\ ~Entering(q) /\ ~Deleting(q)
      BY <1>1, <2>1, <3>2 DEF VisitOK, Entering, Deleting
    <3>4. Onward(visit[v], q)
      BY <1>0, <2>1, <3>2, <3>3, OnwardStep
    <3> QED
      BY <1>h, <2>1, <2>2, <3>1, <3>2, <3>3, <3>4, GoneOn
  <2> QED
    BY <1>0, <1>3, <1>l, <2>1, <2>2 DEF IssueFor
<1>4. CASE VerifyEmail(v)
  <2>1. r.at = "account" /\ UNCHANGED <<memberStore, memberHistory>> /\ r.m \in Member
    BY <1>0, <1>4, <1>m DEF VerifyEmail
  <2>2. PICK rec, q : rec = [accounts[r.m] EXCEPT !.verified = TRUE] /\ q = Keeping("verify", r.m, rec)
    OBVIOUS
  <2>3. rec \in MemberRecord /\ rec.verified = TRUE
    BY <1>a, <2>1, <2>2 DEF MemberRecord
  <2>4. q \in VisitRecord /\ q.op = "verify" /\ q.at = "putAccount" /\ q.m = r.m /\ q.rec = rec
    BY <2>1, <2>2, <2>3, KeepingFields, KeepingOps
  <2>5. KeptOfMember(q)
    BY <2>3, <2>4 DEF KeptOfMember, Purposes
  <2>6. Then(v, q) \/ Leave(v)
    BY <1>0, <1>4, <2>2 DEF VerifyEmail
  <2> QED
    BY <1>l, <1>k, <2>1, <2>4, <2>5, <2>6
<1>5. CASE VerifyMagicLink(v)
  <2>1. r.at = "account" /\ r.op = "magic" /\ UNCHANGED <<memberStore, memberHistory>> /\ r.m \in Member
    BY <1>0, <1>5, <1>m DEF VerifyMagicLink
  <2>2. PICK rec, q : rec = [accounts[r.m] EXCEPT !.verified = TRUE] /\ q = Keeping("magic", r.m, rec)
    OBVIOUS
  <2>3. rec \in MemberRecord /\ rec.verified = TRUE
    BY <1>a, <2>1, <2>2 DEF MemberRecord
  <2>4. q \in VisitRecord /\ q.op = "magic" /\ q.at = "putAccount" /\ q.m = r.m /\ q.rec = rec
    BY <2>1, <2>2, <2>3, KeepingFields, KeepingOps
  <2>5. KeptOfMember(q)
    BY <2>3, <2>4 DEF KeptOfMember, Purposes
  <2>6. CASE accounts[r.m].verified /\ Then(v, [r EXCEPT !.at = "prune"])
    <3>1. PICK x : x = [r EXCEPT !.at = "prune"]
      OBVIOUS
    <3>2. x \in VisitRecord /\ x.at = "prune" /\ x.op = "magic" /\ x.m = r.m
      BY <1>1, <2>1, <3>1 DEF VisitRecord, MemberStages
    <3>3. VisitOK(x) /\ Entering(r) /\ ~Deleting(x)
      BY <2>1, <3>2 DEF VisitOK, Entering, Deleting
    <3>4. accounts[r.m].verified = TRUE
      BY <1>a, <2>1, <2>6 DEF MemberRecord
    <3>5. Onward(visit[v], x)
      BY <1>0, <2>1, <3>2, <3>3, <3>4 DEF Onward
    <3> QED
      BY <1>h, <2>1, <2>6, <3>1, <3>2, <3>3, <3>5, GoneOn
  <2>7. \/ Leave(v) \/ Then(v, q)
        \/ accounts[r.m].verified /\ Then(v, [r EXCEPT !.at = "prune"])
    <3>1. CASE ~Registered(r.m) \/ accounts[r.m].status = "suspended"
      BY <1>0, <1>5, <3>1 DEF VerifyMagicLink
    <3>2. CASE Registered(r.m) /\ accounts[r.m].status # "suspended" /\ accounts[r.m].verified
      BY <1>0, <1>5, <3>2 DEF VerifyMagicLink
    <3>3. CASE Registered(r.m) /\ accounts[r.m].status # "suspended" /\ ~accounts[r.m].verified
      BY <1>0, <1>5, <2>2, <3>3 DEF VerifyMagicLink
    <3> QED
      BY <3>1, <3>2, <3>3
  <2> QED
    BY <1>l, <1>k, <2>1, <2>4, <2>5, <2>6, <2>7
<1>6. ASSUME NEW s \in Secret, ConfirmPasswordReset(v, s) PROVE MembersShape' /\ QuietMove(v)
  <2>1. r.at = "account" /\ UNCHANGED <<memberStore, memberHistory>> /\ r.m \in Member
    BY <1>0, <1>6, <1>m DEF ConfirmPasswordReset
  <2>2. PICK rec, q : /\ rec = [Unlocked(accounts[r.m]) EXCEPT !.password = s, !.verified = TRUE]
                      /\ q = Keeping("reset", r.m, rec)
    OBVIOUS
  <2>3. rec \in MemberRecord /\ rec.verified = TRUE
    BY <1>a, <2>1, <2>2 DEF MemberRecord, Unlocked
  <2>4. q \in VisitRecord /\ q.op = "reset" /\ q.at = "putAccount" /\ q.m = r.m /\ q.rec = rec
    BY <2>1, <2>2, <2>3, KeepingFields, KeepingOps
  <2>5. KeptOfMember(q)
    BY <2>3, <2>4 DEF KeptOfMember, Purposes
  <2>6. Then(v, q) \/ Leave(v)
    BY <1>0, <1>6, <2>2 DEF ConfirmPasswordReset
  <2> QED
    BY <1>l, <1>k, <2>1, <2>4, <2>5, <2>6
<1>7. CASE PruneExpiredSessions(v)
  <2>1. r.at = "prune" /\ r.op \in {"login", "magic"} /\ r.m \in Member
    BY <1>0, <1>1, <1>7 DEF PruneExpiredSessions, VisitOK
  <2>2. PICK todo, q : /\ todo = {l \in LoginsOf(r.m) : logins[l].expires <= now}
                       /\ q = [r EXCEPT !.at = "drop", !.todo = todo]
    OBVIOUS
  <2>3. todo \subseteq Login
    BY <2>2 DEF LoginsOf
  <2>4. q \in VisitRecord /\ q.at = "drop" /\ q.op = r.op /\ q.m = r.m /\ q.todo = todo
    BY <1>1, <2>2, <2>3 DEF VisitRecord, MemberStages
  <2>5. VisitOK(q) /\ Entering(r) /\ ~Deleting(q)
    BY <2>1, <2>3, <2>4 DEF VisitOK, Entering, Deleting
  <2>6. Onward(visit[v], q)
    BY <1>0, <2>1, <2>4, <2>5 DEF Onward
  <2>7. Then(v, q) /\ UNCHANGED <<memberStore, memberHistory>>
    BY <1>0, <1>7, <2>2 DEF PruneExpiredSessions
  <2> QED
    BY <1>h, <2>4, <2>5, <2>6, <2>7, GoneOn
<1>8. CASE RevokeAllSessions(v)
  <2>1. r.at = "revoke" /\ r.op \in {"status", "delete"} /\ r.m \in Member
    BY <1>0, <1>1, <1>8 DEF RevokeAllSessions, VisitOK
  <2>2. PICK todo, q : /\ todo = LoginsOf(r.m) /\ q = [r EXCEPT !.at = "drop", !.todo = todo]
    OBVIOUS
  <2>3. todo \subseteq Login
    BY <2>2 DEF LoginsOf
  <2>4. q \in VisitRecord /\ q.at = "drop" /\ q.op = r.op /\ q.m = r.m /\ q.todo = todo
    BY <1>1, <2>2, <2>3 DEF VisitRecord, MemberStages
  <2>5. VisitOK(q) /\ ~Entering(q)
    BY <2>1, <2>3, <2>4 DEF VisitOK, Entering
  <2>6. Onward(visit[v], q)
    BY <1>0, <2>1, <2>2, <2>4, <2>5 DEF Onward, Deleting
  <2>7. Then(v, q) /\ UNCHANGED <<memberStore, memberHistory>>
    BY <1>0, <1>8, <2>2 DEF RevokeAllSessions
  <2> QED
    BY <1>h, <2>4, <2>5, <2>6, <2>7, GoneOn
<1>9. CASE DeleteMemberTokens(v)
  <2>1. r.at = "tokens" /\ r.op = "delete" /\ r.m \in Member
    BY <1>0, <1>1, <1>9 DEF DeleteMemberTokens, VisitOK
  <2>2. PICK todo, q : /\ todo = TokensOf(r.m) /\ q = [r EXCEPT !.at = "dropTokens", !.todo = todo]
    OBVIOUS
  <2>3. todo \subseteq TokenId
    BY <2>2 DEF TokensOf
  <2>4. q \in VisitRecord /\ q.at = "dropTokens" /\ q.op = r.op /\ q.m = r.m /\ q.todo = todo
    BY <1>1, <2>2, <2>3 DEF VisitRecord, MemberStages
  <2>5. VisitOK(q) /\ ~Entering(q)
    BY <2>1, <2>3, <2>4 DEF VisitOK, Entering
  <2>6. Onward(visit[v], q)
    BY <1>0, <2>1, <2>2, <2>4, <2>5 DEF Onward, Deleting
  <2>7. Then(v, q) /\ UNCHANGED <<memberStore, memberHistory>>
    BY <1>0, <1>9, <2>2 DEF DeleteMemberTokens
  <2> QED
    BY <1>h, <2>4, <2>5, <2>6, <2>7, GoneOn
<1>10. CASE DropLogin(v) /\ visit[v].todo = {}
  <2>1. r.at = "drop" /\ r.todo = {} /\ r.op \in {"login", "magic", "status", "delete", "logout"}
    BY <1>0, <1>1, <1>10 DEF DropLogin, VisitOK
  <2>2. PICK q : q = AfterDrop(r)
    OBVIOUS
  <2>3. Then(v, q) /\ UNCHANGED <<accounts, logins, tokens, mailed, issued, opened, memberHistory>>
    BY <1>0, <1>10, <2>2 DEF DropLogin
  <2>4. mailed' \subseteq 1..issued
    BY <2>3 DEF MembersShape, MemberStoreOK, MembersTypeOK
  <2>5. CASE r.op \in {"login", "magic"}
    <3>1. q \in VisitRecord /\ q.at = "open" /\ q.op = r.op /\ q.m = r.m /\ r.m \in Member
      BY <1>1, <2>1, <2>2, <2>5 DEF AfterDrop, VisitRecord, MemberStages, VisitOK
    <3>2. VisitOK(q) /\ Entering(r) /\ ~Deleting(q)
      BY <2>1, <2>5, <3>1 DEF VisitOK, Entering, Deleting
    <3>3. Onward(visit[v], q)
      BY <1>0, <2>1, <2>5, <3>1, <3>2 DEF Onward
    <3> QED
      BY <2>3, <2>4, <3>1, <3>2, <3>3, GoneOn
  <2>6. CASE r.op = "delete"
    <3>1. q \in VisitRecord /\ q.at = "tokens" /\ q.op = "delete" /\ q.m = r.m /\ r.m \in Member
      BY <1>1, <2>1, <2>2, <2>6 DEF AfterDrop, VisitRecord, MemberStages, VisitOK
    <3>2. VisitOK(q) /\ ~Entering(q)
      BY <3>1 DEF VisitOK, Entering
    <3>3. Onward(visit[v], q)
      BY <1>0, <2>1, <2>6, <3>1, <3>2 DEF Onward, Deleting
    <3> QED
      BY <2>3, <2>4, <3>1, <3>2, <3>3, GoneOn
  <2>7. CASE r.op \in {"status", "logout"}
    <3>1. q = NoVisit
      BY <2>2, <2>7 DEF AfterDrop
    <3>2. Onward(visit[v], NoVisit)
      BY <1>0, <2>1, <2>7 DEF Onward
    <3> QED
      BY <2>3, <2>4, <3>1, <3>2, GoneOn
  <2> QED
    BY <2>1, <2>5, <2>6, <2>7
<1> QED
  BY <1>2, <1>3, <1>4, <1>5, <1>6, <1>7, <1>8, <1>9, <1>10

-----------------------------------------------------------------------------
\* Steps that store.

\* An account stored: what comes of the call.
AccountStored(v, r, q) ==
    /\ r \in VisitRecord /\ r.at = "putAccount" /\ r.m \in Member /\ KeptOfMember(r)
    /\ visit' = [visit EXCEPT ![v] = q] /\ q.at # "useToken" /\ ~Deleting(q) /\ ~Deleting(r)
    /\ Entering(q) => q.m = r.m /\ r.rec.verified = TRUE
    /\ r.op = "status" /\ r.rec.status = "suspended" => q.op = "status" /\ q.at = "revoke" /\ q.m = r.m

LEMMA PutAccountMove ==
    ASSUME MembersShape, NEW v \in Visitor, PutAccount(v), NEW r, NEW q, r = visit[v], q = visit'[v]
    PROVE  MembersShape' /\ AccountStored(v, r, q)
<1> USE NothingOK
<1>1. r \in VisitRecord /\ VisitOK(r) /\ r.at = "putAccount"
  BY DEF MembersShape, PutAccount
<1>2. r.m \in Member /\ KeptOfMember(r) /\ r.op # "logout" /\ ~Deleting(r)
  BY <1>1 DEF VisitOK, KeptOfMember, Deleting, Purposes
<1>3. Then(v, AfterPutAccount(r)) /\ accounts' = [accounts EXCEPT ![r.m] = r.rec]
  BY DEF PutAccount
<1>4. q = AfterPutAccount(r) /\ visit' = [visit EXCEPT ![v] = q]
  BY <1>3 DEF Then, MembersShape
<1>5. /\ q \in VisitRecord /\ VisitOK(q) /\ q.at \notin {"mail", "useToken"} /\ ~Deleting(q)
      /\ Entering(q) => q.m = r.m /\ r.rec.verified = TRUE
      /\ r.op = "status" /\ r.rec.status = "suspended" => q.op = "status" /\ q.at = "revoke" /\ q.m = r.m
  <2>1. CASE r.op = "register"
    <3>1. q = [r EXCEPT !.at = "putToken"]
      BY <1>4, <2>1 DEF AfterPutAccount
    <3>2. q \in VisitRecord /\ q.at = "putToken" /\ q.op = "register" /\ q.m = r.m /\ q.token = r.token
      BY <1>1, <2>1, <3>1 DEF VisitRecord, MemberStages
    <3>3. VisitOK(q) /\ ~Entering(q) /\ ~Deleting(q)
      BY <1>1, <1>2, <2>1, <3>2 DEF VisitOK, Entering, Deleting
    <3> QED
      BY <2>1, <3>2, <3>3
  <2>2. CASE r.op = "magic" \/ (r.op = "login" /\ r.rec.failed = 0)
    <3>1. q = [r EXCEPT !.at = "prune"]
      BY <1>4, <2>2 DEF AfterPutAccount
    <3>2. q \in VisitRecord /\ q.at = "prune" /\ q.op = r.op /\ q.m = r.m
      BY <1>1, <3>1 DEF VisitRecord, MemberStages
    <3>3. VisitOK(q) /\ ~Deleting(q)
      BY <1>2, <2>2, <3>2 DEF VisitOK, Deleting
    <3>4. r.rec.verified = TRUE
      BY <1>2, <2>2 DEF KeptOfMember, Purposes
    <3> QED
      BY <2>2, <3>2, <3>3, <3>4
  <2>3. CASE r.op = "status" /\ r.rec.status = "suspended"
    <3>1. q = [r EXCEPT !.at = "revoke"]
      BY <1>4, <2>3 DEF AfterPutAccount
    <3>2. q \in VisitRecord /\ q.at = "revoke" /\ q.op = "status" /\ q.m = r.m
      BY <1>1, <2>3, <3>1 DEF VisitRecord, MemberStages
    <3>3. VisitOK(q) /\ ~Deleting(q) /\ ~Entering(q)
      BY <1>2, <2>3, <3>2 DEF VisitOK, Deleting, Entering
    <3> QED
      BY <3>2, <3>3
  <2>4. CASE /\ r.op # "register" /\ ~(r.op = "magic" \/ (r.op = "login" /\ r.rec.failed = 0))
             /\ ~(r.op = "status" /\ r.rec.status = "suspended")
    <3>1. q = NoVisit
      BY <1>4, <2>4 DEF AfterPutAccount
    <3> QED
      BY <2>4, <3>1, NothingGoesOn
  <2> QED
    BY <2>1, <2>2, <2>3, <2>4
<1>6. accounts' \in [Member -> MemberRecord]
  BY <1>1, <1>2, <1>3 DEF VisitRecord, MembersShape, MemberStoreOK, MembersTypeOK
<1>7. bans' \in [Member -> Nat]
  <2>1. bans \in [Member -> Nat]
    BY DEF MembersShape, MemberStoreOK
  <2>2. bans' = bans \/ bans' = [bans EXCEPT ![r.m] = bans[r.m] + 1]
    BY DEF PutAccount
  <2> QED
    BY <1>2, <2>1, <2>2
<1>8. MemberStoreOK' /\ issued' = issued /\ issued \in Nat
  BY <1>3, <1>6, <1>7 DEF PutAccount, Then, MembersShape, MemberStoreOK, MembersTypeOK
<1>9. MembersShape'
  <2>1. issued' >= issued
    BY <1>8
  <2> QED
    BY <1>4, <1>5, <1>8, <2>1, MoveShape
<1> QED
  BY <1>1, <1>2, <1>4, <1>5, <1>9 DEF AccountStored

\* A token issued.
TokenIssued(v, r, q) ==
    /\ r.at = "putToken" /\ r.m \in Member /\ issued + 1 \in TokenId
    /\ visit' = [visit EXCEPT ![v] = q] /\ q.at = "mail" /\ ~Deleting(q) /\ ~Deleting(r) /\ ~Entering(q)
    /\ tokens'[issued + 1].member = r.m
    /\ \A k \in TokenId : k # issued + 1 => tokens'[k] = tokens[k]

LEMMA IssueTokenMove ==
    ASSUME MembersShape, NEW v \in Visitor, IssueToken(v), NEW r, NEW q, r = visit[v], q = visit'[v]
    PROVE  MembersShape' /\ TokenIssued(v, r, q)
<1> USE NothingOK
<1>1. /\ r \in VisitRecord /\ VisitOK(r) /\ r.at = "putToken" /\ issued < MaxTokens
      /\ issued \in 0..MaxTokens /\ tokens \in [TokenId -> TokenRecord] /\ now \in Nat
  BY DEF MembersShape, IssueToken, MemberStoreOK, MembersTypeOK
<1>2. r.m \in Member /\ r.op \in {"register", "request"} /\ r.token.type \in TokenTypes /\ ~Deleting(r)
  BY <1>1 DEF VisitOK, Deleting
<1>3. PICK n, token : /\ n = issued + 1
                      /\ token = [member |-> r.m, expires |-> now + Life(r.token.type), used |-> FALSE,
                                  type |-> r.token.type]
  OBVIOUS
<1>4. n \in TokenId /\ n \in Nat /\ n \in 0..MaxTokens
  BY <1>1, <1>3, MemberConstants DEF TokenId
<1>5. token \in TokenRecord /\ token.member = r.m /\ token.type \in TokenTypes
  <2>1. Life(r.token.type) \in Nat
    BY <1>2, MemberConstants DEF Life, TokenTypes
  <2>2. now + Life(r.token.type) \in Nat
    BY <1>1, <2>1
  <2> QED
    BY <1>2, <1>3, <2>2 DEF TokenRecord
<1>6. tokens' = [tokens EXCEPT ![n] = token] /\ issued' = n /\ Then(v, [r EXCEPT !.at = "mail", !.k = n])
  BY <1>3 DEF IssueToken
<1>7. q = [r EXCEPT !.at = "mail", !.k = n] /\ visit' = [visit EXCEPT ![v] = q]
  BY <1>6 DEF Then, MembersShape
<1>8. q \in VisitRecord /\ q.at = "mail" /\ q.k = n /\ q.op = r.op /\ q.m = r.m /\ q.token = r.token
  BY <1>1, <1>4, <1>7 DEF VisitRecord, MemberStages
<1>9. VisitOK(q) /\ ~Entering(q) /\ ~Deleting(q)
  BY <1>1, <1>2, <1>4, <1>8 DEF VisitOK, Entering, Deleting
<1>10. tokens' \in [TokenId -> TokenRecord] /\ tokens'[n] = token /\ \A k \in TokenId : k # n => tokens'[k] = tokens[k]
  BY <1>1, <1>4, <1>5, <1>6
<1>11. MemberStoreOK'
  <2>1. \A k \in TokenId : tokens'[k] = NoToken \/ (tokens'[k].member \in Member /\ tokens'[k].type \in TokenTypes)
    BY <1>2, <1>5, <1>10 DEF MembersShape, MemberStoreOK
  <2>2. ASSUME NEW k \in TokenId, k > issued' PROVE tokens'[k] = NoToken
    BY <1>1, <1>3, <1>4, <1>6, <1>10, <2>2 DEF MembersShape, MemberStoreOK, MembersTypeOK, TokenId
  <2>3. mailed' \subseteq 1..issued'
    BY <1>1, <1>3, <1>4, <1>6 DEF IssueToken, MembersShape, MemberStoreOK, MembersTypeOK
  <2> QED
    BY <1>4, <1>6, <1>10, <2>1, <2>2, <2>3 DEF IssueToken, Then, MembersShape, MemberStoreOK, MembersTypeOK
<1>12. MembersShape'
  <2>1. issued' >= issued /\ q.k <= issued'
    BY <1>1, <1>3, <1>4, <1>6, <1>8
  <2> QED
    BY <1>7, <1>8, <1>9, <1>11, <2>1, MoveShape
<1> QED
  BY <1>1, <1>2, <1>3, <1>4, <1>5, <1>7, <1>8, <1>9, <1>10, <1>12 DEF TokenIssued

\* A token stored as used.
TokenUsed(v, r, q) ==
    /\ r.at = "useToken" /\ r.m \in Member /\ r.k \in TokenId /\ r.k <= issued
    /\ visit' = [visit EXCEPT ![v] = q] /\ q.at = "account" /\ ~Deleting(q) /\ ~Deleting(r) /\ q.m = r.m
    /\ tokens'[r.k].used = TRUE /\ tokens'[r.k].member = r.m
    /\ \A k \in TokenId : k # r.k => tokens'[k] = tokens[k]

LEMMA UseTokenMove ==
    ASSUME MembersShape, NEW v \in Visitor, UseToken(v), NEW r, NEW q, r = visit[v], q = visit'[v]
    PROVE  MembersShape' /\ TokenUsed(v, r, q)
<1> USE NothingOK
<1>1. /\ r \in VisitRecord /\ VisitOK(r) /\ Issued(r) /\ r.at = "useToken"
      /\ tokens \in [TokenId -> TokenRecord] /\ issued \in Nat
  BY DEF MembersShape, UseToken, MemberStoreOK, MembersTypeOK
<1>2. /\ r.m \in Member /\ r.op \in Purposes /\ r.k \in TokenId /\ r.k <= issued /\ ~Deleting(r)
      /\ r.token.used = TRUE /\ r.token.member = r.m /\ r.token.type \in TokenTypes
  BY <1>1 DEF VisitOK, Issued, Deleting, Purposes
<1>3. tokens' = [tokens EXCEPT ![r.k] = r.token] /\ Then(v, [r EXCEPT !.at = "account"])
  BY DEF UseToken
<1>4. q = [r EXCEPT !.at = "account"] /\ visit' = [visit EXCEPT ![v] = q]
  BY <1>3 DEF Then, MembersShape
<1>5. q \in VisitRecord /\ q.at = "account" /\ q.op = r.op /\ q.m = r.m
  BY <1>1, <1>4 DEF VisitRecord, MemberStages
<1>6. VisitOK(q) /\ ~Deleting(q)
  BY <1>2, <1>5 DEF VisitOK, Deleting, Purposes
<1>7. /\ tokens' \in [TokenId -> TokenRecord] /\ tokens'[r.k] = r.token
      /\ \A k \in TokenId : k # r.k => tokens'[k] = tokens[k]
  BY <1>1, <1>2, <1>3 DEF VisitRecord
<1>8. MemberStoreOK'
  <2>1. \A k \in TokenId : tokens'[k] = NoToken \/ (tokens'[k].member \in Member /\ tokens'[k].type \in TokenTypes)
    BY <1>2, <1>7 DEF MembersShape, MemberStoreOK
  <2>2. ASSUME NEW k \in TokenId, k > issued PROVE tokens'[k] = NoToken
    BY <1>1, <1>2, <1>7, <2>2 DEF MembersShape, MemberStoreOK, MembersTypeOK, TokenId
  <2>3. uses' \in [TokenId -> Nat]
    <3>1. uses \in [TokenId -> Nat] /\ uses' = [uses EXCEPT ![r.k] = uses[r.k] + 1]
      BY DEF MembersShape, MemberStoreOK, UseToken
    <3> QED
      BY <1>2, <3>1
  <2> QED
    BY <1>7, <2>1, <2>2, <2>3 DEF UseToken, Then, MembersShape, MemberStoreOK, MembersTypeOK
<1>9. MembersShape'
  <2>1. issued' = issued /\ issued' >= issued
    BY <1>1 DEF UseToken
  <2> QED
    BY <1>4, <1>5, <1>6, <1>8, <2>1, MoveShape
<1> QED
  BY <1>1, <1>2, <1>4, <1>5, <1>6, <1>7, <1>9 DEF TokenUsed

\* The two halves of the loops that drop sessions and tokens.
DropOneLogin(v, l) ==
    /\ visit[v].at = "drop" /\ l \in visit[v].todo
    /\ logins' = [logins EXCEPT ![l] = NoLogin]
    /\ Then(v, [visit[v] EXCEPT !.todo = visit[v].todo \ {l}])
    /\ UNCHANGED <<accounts, tokens, mailed, issued, opened, memberHistory>>
DropOneToken(v, k) ==
    /\ visit[v].at = "dropTokens" /\ k \in visit[v].todo
    /\ tokens' = [tokens EXCEPT ![k] = NoToken]
    /\ Then(v, [visit[v] EXCEPT !.todo = visit[v].todo \ {k}])
    /\ UNCHANGED <<accounts, deleted>>
    /\ UNCHANGED <<logins, mailed, issued, opened, staleAccounts, contended, uses, shared, haunted, bans, since>>
EndDeletion(v) ==
    /\ visit[v].at = "dropTokens" /\ visit[v].todo = {}
    /\ accounts' = [accounts EXCEPT ![visit[v].m] = NoMember]
    /\ deleted' = deleted \cup {visit[v].m}
    /\ Leave(v)
    /\ UNCHANGED tokens
    /\ UNCHANGED <<logins, mailed, issued, opened, staleAccounts, contended, uses, shared, haunted, bans, since>>

LEMMA DropLoginSplit ==
    ASSUME NEW v \in Visitor, DropLogin(v)
    PROVE  visit[v].todo = {} \/ \E l \in visit[v].todo : DropOneLogin(v, l)
BY DEF DropLogin, DropOneLogin

LEMMA DropTokenSplit ==
    ASSUME NEW v \in Visitor, DropToken(v)
    PROVE  EndDeletion(v) \/ \E k \in visit[v].todo : DropOneToken(v, k)
BY DEF DropToken, EndDeletion, DropOneToken

\* A session dropped.
SessionDropped(v, l, r, q) ==
    /\ r.at = "drop" /\ r.op # "none" /\ l \in Login
    /\ visit' = [visit EXCEPT ![v] = q] /\ q.at = "drop" /\ q.op = r.op /\ q.m = r.m /\ q.todo = r.todo \ {l}
    /\ logins'[l] = NoLogin /\ \A k \in Login : k # l => logins'[k] = logins[k]

LEMMA DropOneLoginMove ==
    ASSUME MembersShape, NEW v \in Visitor, NEW l, DropOneLogin(v, l), NEW r, NEW q, r = visit[v], q = visit'[v]
    PROVE  MembersShape' /\ SessionDropped(v, l, r, q)
<1> USE NothingOK
<1>1. r \in VisitRecord /\ VisitOK(r) /\ r.at = "drop" /\ logins \in [Login -> LoginRecord]
  BY DEF MembersShape, DropOneLogin, MemberStoreOK, MembersTypeOK
<1>2. r.todo \subseteq Login /\ l \in Login /\ r.op \in {"login", "magic", "status", "delete", "logout"}
  BY <1>1 DEF VisitOK, DropOneLogin
<1>3. logins' = [logins EXCEPT ![l] = NoLogin] /\ Then(v, [r EXCEPT !.todo = r.todo \ {l}])
  BY DEF DropOneLogin
<1>4. q = [r EXCEPT !.todo = r.todo \ {l}] /\ visit' = [visit EXCEPT ![v] = q]
  BY <1>3 DEF Then, MembersShape
<1>5. q \in VisitRecord /\ q.at = "drop" /\ q.op = r.op /\ q.m = r.m /\ q.todo = r.todo \ {l} /\ q.token = r.token
  BY <1>1, <1>2, <1>4 DEF VisitRecord
<1>6. VisitOK(q)
  BY <1>1, <1>2, <1>5 DEF VisitOK
<1>7. /\ logins' \in [Login -> LoginRecord] /\ logins'[l] = NoLogin
      /\ \A k \in Login : k # l => logins'[k] = logins[k]
  BY <1>1, <1>2, <1>3
<1>8. MemberStoreOK'
  <2>1. \A k \in Login : logins'[k] = NoLogin \/ logins'[k].member \in Member
    BY <1>7 DEF MembersShape, MemberStoreOK
  <2>2. \A k \in Login : k > opened => logins'[k] = NoLogin
    BY <1>7 DEF MembersShape, MemberStoreOK, MembersTypeOK
  <2> QED
    BY <1>7, <2>1, <2>2 DEF DropOneLogin, Then, memberHistory, MembersShape, MemberStoreOK, MembersTypeOK
<1>9. MembersShape'
  <2>1. issued' >= issued
    BY DEF DropOneLogin, MembersShape, MemberStoreOK, MembersTypeOK
  <2> QED
    BY <1>4, <1>5, <1>6, <1>8, <2>1, MoveShape
<1> QED
  BY <1>1, <1>2, <1>4, <1>5, <1>7, <1>9 DEF SessionDropped

\* A session opened.
SessionOpened(v, r) ==
    /\ Entering(r) /\ r.at = "open" /\ r.m \in Member /\ opened + 1 \in Login
    /\ visit' = [visit EXCEPT ![v] = NoVisit]
    /\ logins'[opened + 1].member = r.m /\ since'[opened + 1] = bans[r.m]
    /\ \A k \in Login : k # opened + 1 => logins'[k] = logins[k] /\ since'[k] = since[k]

LEMMA OpenSessionMove ==
    ASSUME MembersShape, NEW v \in Visitor, OpenSession(v), NEW r, r = visit[v]
    PROVE  MembersShape' /\ SessionOpened(v, r)
<1> USE NothingOK, NothingGoesOn
<1>1. /\ r \in VisitRecord /\ VisitOK(r) /\ r.at = "open" /\ opened < MaxLogins /\ opened \in 0..MaxLogins
      /\ logins \in [Login -> LoginRecord] /\ since \in [Login -> Nat] /\ bans \in [Member -> Nat] /\ now \in Nat
  BY DEF MembersShape, OpenSession, MemberStoreOK, MembersTypeOK
<1>2. Entering(r) /\ r.m \in Member
  BY <1>1 DEF VisitOK, Entering
<1>3. PICK n, login : n = opened + 1 /\ login = [member |-> r.m, expires |-> now + SessionLife]
  OBVIOUS
<1>4. n \in Login /\ n \in 0..MaxLogins /\ n \in Nat
  BY <1>1, <1>3, MemberConstants DEF Login
<1>5. login \in LoginRecord /\ login.member = r.m
  BY <1>1, <1>2, <1>3, MemberConstants DEF LoginRecord
<1>6. /\ logins' = [logins EXCEPT ![n] = login] /\ since' = [since EXCEPT ![n] = bans[r.m]]
      /\ opened' = n /\ visit' = [visit EXCEPT ![v] = NoVisit]
  BY <1>3 DEF OpenSession, Leave, Then
<1>7. /\ logins' \in [Login -> LoginRecord] /\ logins'[n] = login /\ since'[n] = bans[r.m]
      /\ since' \in [Login -> Nat]
      /\ \A k \in Login : k # n => logins'[k] = logins[k] /\ since'[k] = since[k]
  BY <1>1, <1>2, <1>4, <1>5, <1>6
<1>8. MemberStoreOK'
  <2>1. \A k \in Login : logins'[k] = NoLogin \/ logins'[k].member \in Member
    BY <1>2, <1>5, <1>7 DEF MembersShape, MemberStoreOK
  <2>2. ASSUME NEW k \in Login, k > opened' PROVE logins'[k] = NoLogin
    BY <1>1, <1>3, <1>4, <1>6, <1>7, <2>2 DEF MembersShape, MemberStoreOK, MembersTypeOK, Login
  <2> QED
    BY <1>4, <1>6, <1>7, <2>1, <2>2
       DEF OpenSession, Leave, Then, MembersShape, MemberStoreOK, MembersTypeOK
<1>9. MembersShape'
  <2>1. issued' >= issued
    BY DEF OpenSession, MembersShape, MemberStoreOK, MembersTypeOK
  <2> QED
    BY <1>6, <1>8, <2>1, MoveShape
<1> QED
  BY <1>1, <1>2, <1>3, <1>5, <1>4, <1>6, <1>7, <1>9 DEF SessionOpened

\* A token deleted.
TokenDropped(v, k, r, q) ==
    /\ Deleting(r) /\ r.at = "dropTokens" /\ r.m \in Member /\ k \in TokenId
    /\ visit' = [visit EXCEPT ![v] = q] /\ Deleting(q) /\ q.at = "dropTokens" /\ q.m = r.m
    /\ q.todo = r.todo \ {k}
    /\ tokens'[k] = NoToken /\ \A j \in TokenId : j # k => tokens'[j] = tokens[j]

LEMMA DropOneTokenMove ==
    ASSUME MembersShape, NEW v \in Visitor, NEW k, DropOneToken(v, k), NEW r, NEW q, r = visit[v], q = visit'[v]
    PROVE  MembersShape' /\ TokenDropped(v, k, r, q)
<1> USE NothingOK
<1>1. r \in VisitRecord /\ VisitOK(r) /\ r.at = "dropTokens" /\ tokens \in [TokenId -> TokenRecord]
  BY DEF MembersShape, DropOneToken, MemberStoreOK, MembersTypeOK
<1>2. r.todo \subseteq TokenId /\ k \in TokenId /\ r.op = "delete" /\ r.m \in Member
  BY <1>1 DEF VisitOK, DropOneToken
<1>3. tokens' = [tokens EXCEPT ![k] = NoToken] /\ Then(v, [r EXCEPT !.todo = r.todo \ {k}])
  BY DEF DropOneToken
<1>4. q = [r EXCEPT !.todo = r.todo \ {k}] /\ visit' = [visit EXCEPT ![v] = q]
  BY <1>3 DEF Then, MembersShape
<1>5. q \in VisitRecord /\ q.at = "dropTokens" /\ q.op = "delete" /\ q.m = r.m /\ q.todo = r.todo \ {k}
  BY <1>1, <1>2, <1>4 DEF VisitRecord
<1>6. VisitOK(q)
  BY <1>1, <1>2, <1>5 DEF VisitOK
<1>7. /\ tokens' \in [TokenId -> TokenRecord] /\ tokens'[k] = NoToken
      /\ \A j \in TokenId : j # k => tokens'[j] = tokens[j]
  BY <1>1, <1>2, <1>3
<1>8. MemberStoreOK'
  <2>1. \A j \in TokenId : tokens'[j] = NoToken \/ (tokens'[j].member \in Member /\ tokens'[j].type \in TokenTypes)
    BY <1>7 DEF MembersShape, MemberStoreOK
  <2>2. \A j \in TokenId : j > issued => tokens'[j] = NoToken
    BY <1>7 DEF MembersShape, MemberStoreOK, MembersTypeOK
  <2> QED
    BY <1>7, <2>1, <2>2 DEF DropOneToken, Then, MembersShape, MemberStoreOK, MembersTypeOK
<1>9. MembersShape'
  <2>1. issued' >= issued
    BY DEF DropOneToken, MembersShape, MemberStoreOK, MembersTypeOK
  <2> QED
    BY <1>4, <1>5, <1>6, <1>8, <2>1, MoveShape
<1> QED
  BY <1>1, <1>2, <1>4, <1>5, <1>7, <1>9 DEF Deleting, TokenDropped

\* The account deleted, last of all.
DeletionEnded(v, r) ==
    /\ Deleting(r) /\ r.at = "dropTokens" /\ r.todo = {} /\ r.m \in Member
    /\ visit' = [visit EXCEPT ![v] = NoVisit]
    /\ accounts'[r.m] = NoMember /\ \A m \in Member : m # r.m => accounts'[m] = accounts[m]

LEMMA EndDeletionMove ==
    ASSUME MembersShape, NEW v \in Visitor, EndDeletion(v), NEW r, r = visit[v]
    PROVE  MembersShape' /\ DeletionEnded(v, r)
<1> USE NothingOK, NothingGoesOn
<1>1. r \in VisitRecord /\ VisitOK(r) /\ r.at = "dropTokens" /\ accounts \in [Member -> MemberRecord]
  BY DEF MembersShape, EndDeletion, MemberStoreOK, MembersTypeOK
<1>2. Deleting(r) /\ r.m \in Member /\ r.todo = {}
  BY <1>1 DEF VisitOK, Deleting, EndDeletion
<1>3. accounts' = [accounts EXCEPT ![r.m] = NoMember] /\ visit' = [visit EXCEPT ![v] = NoVisit]
  BY DEF EndDeletion, Leave, Then
<1>4. /\ accounts' \in [Member -> MemberRecord] /\ accounts'[r.m] = NoMember
      /\ \A m \in Member : m # r.m => accounts'[m] = accounts[m]
  BY <1>1, <1>2, <1>3
<1>5. MemberStoreOK'
  BY <1>2, <1>4 DEF EndDeletion, Leave, Then, MembersShape, MemberStoreOK, MembersTypeOK
<1>6. MembersShape'
  <2>1. issued' >= issued
    BY DEF EndDeletion, MembersShape, MemberStoreOK, MembersTypeOK
  <2> QED
    BY <1>3, <1>5, <2>1, MoveShape
<1> QED
  BY <1>1, <1>2, <1>3, <1>4, <1>6 DEF DeletionEnded

\* Time passes, or nothing happens.
Idle == UNCHANGED <<memberStore, visit, visits, memberHistory>> /\ now' \in Nat

LEMMA IdleShape == MembersShape /\ Idle => MembersShape'
BY DEF Idle, memberStore, memberHistory, MembersShape, MemberStoreOK, MembersTypeOK, Issued

MembersMove == [MembersNext]_memberVars \/ Idle

\* Whatever happens is one of these.
LEMMA MembersMoves ==
    ASSUME MembersShape, MembersMove
    PROVE  \/ Idle
           \/ \E v \in Visitor : \/ MembersShape' /\ QuietMove(v)
                                 \/ PutAccount(v) \/ IssueToken(v) \/ UseToken(v) \/ OpenSession(v)
                                 \/ \E l \in Login : DropOneLogin(v, l)
                                 \/ \E k \in TokenId : DropOneToken(v, k)
                                 \/ EndDeletion(v)
<1>1. now \in Nat
  BY DEF MembersShape, MemberStoreOK
<1>2. CASE MembersTime \/ UNCHANGED memberVars
  BY <1>1, <1>2 DEF MembersTime, PassTime, memberVars, Idle
<1>3. ASSUME NEW v \in Visitor, MemberCalls(v) PROVE MembersShape' /\ QuietMove(v)
  BY <1>3, QuietCalls
<1>4. ASSUME NEW v \in Visitor, MemberStep(v)
      PROVE  \/ MembersShape' /\ QuietMove(v)
             \/ PutAccount(v) \/ IssueToken(v) \/ UseToken(v) \/ OpenSession(v)
             \/ \E l \in Login : DropOneLogin(v, l)
             \/ \E k \in TokenId : DropOneToken(v, k)
             \/ EndDeletion(v)
  <2>1. CASE DropLogin(v) /\ visit[v].todo # {}
    <3>1. PICK l \in visit[v].todo : DropOneLogin(v, l)
      BY <2>1, DropLoginSplit
    <3>2. SessionDropped(v, l, visit[v], visit'[v])
      BY <3>1, DropOneLoginMove
    <3> QED
      BY <3>1, <3>2 DEF SessionDropped
  <2>2. CASE DropToken(v)
    <3>1. ASSUME NEW k \in visit[v].todo, DropOneToken(v, k) PROVE k \in TokenId
      <4>1. TokenDropped(v, k, visit[v], visit'[v])
        BY <3>1, DropOneTokenMove
      <4> QED
        BY <4>1 DEF TokenDropped
    <3> QED
      BY <2>2, <3>1, DropTokenSplit
  <2>3. CASE DropLogin(v) /\ visit[v].todo = {}
    BY <2>3, QuietSteps
  <2>4. CASE PutAccount(v) \/ IssueToken(v) \/ UseToken(v) \/ OpenSession(v)
    BY <2>4
  <2>5. CASE \/ Mail(v) \/ IssueFor(v) \/ VerifyEmail(v) \/ VerifyMagicLink(v)
             \/ \E s \in Secret : ConfirmPasswordReset(v, s)
             \/ PruneExpiredSessions(v) \/ RevokeAllSessions(v) \/ DeleteMemberTokens(v)
    BY <2>5, QuietSteps
  <2> QED
    BY <1>4, <2>1, <2>2, <2>3, <2>4, <2>5 DEF MemberStep
<1> QED
  BY <1>2, <1>3, <1>4 DEF MembersNext, MembersMove

-----------------------------------------------------------------------------
\* A link works once.

Using(r, k) == r.at = "useToken" /\ r.k = k

\* A token that one call consumed is stored as used, or gone, and no other call
\* still holds it as unused.
UseInv ==
    \A k \in TokenId :
        /\ k > issued => uses[k] = 0
        /\ k \notin contended => uses[k] \in {0, 1}
        /\ k \notin contended /\ uses[k] = 1 =>
              /\ tokens[k].used = TRUE \/ tokens[k] = NoToken
              /\ \A v \in Visitor : ~Using(visit[v], k)

LEMMA InitUse == MembersInit => UseInv
BY MemberConstants DEF MembersInit, UseInv

\* Nobody has found a token, and tokens are at most deleted.
LEMMA UseKept ==
    ASSUME UseInv, UNCHANGED <<uses, contended, issued>>,
           \A k \in TokenId : tokens'[k] = tokens[k] \/ tokens'[k] = NoToken,
           \A v \in Visitor : visit'[v].at = "useToken" => visit'[v] = visit[v]
    PROVE  UseInv'
BY DEF UseInv, Using

\* The call that moved is the only one that is different.
LEMMA OthersStay ==
    ASSUME MembersShape, NEW v \in Visitor, NEW q, visit' = [visit EXCEPT ![v] = q]
    PROVE  visit'[v] = q /\ \A w \in Visitor : w # v => visit'[w] = visit[w]
BY DEF MembersShape

LEMMA UseStep ==
    ASSUME MembersShape, UseInv, MembersMove
    PROVE  UseInv'
<1> USE NothingOK
<1>1. CASE Idle
  BY <1>1, UseKept DEF Idle, memberStore, memberHistory
<1>2. ASSUME NEW v \in Visitor, QuietMove(v) PROVE UseInv'
  <2>1. PICK r, q : r = visit[v] /\ q = visit'[v]
    OBVIOUS
  <2>2. /\ UNCHANGED <<uses, contended, issued, tokens>>
        /\ \A w \in Visitor \ {v} : visit'[w] = visit[w]
        /\ q.at = "useToken" => tokens[q.k].used # TRUE /\ tokens[q.k] # NoToken
    BY <1>2, <2>1 DEF QuietMove, Quiet, Onward
  <2>3. ASSUME NEW k \in TokenId, tokens[k].used = TRUE \/ tokens[k] = NoToken,
               \A w \in Visitor : ~Using(visit[w], k), NEW w \in Visitor
        PROVE  ~Using(visit'[w], k)
    BY <2>1, <2>2, <2>3 DEF Using
  <2>4. ASSUME NEW k \in TokenId
        PROVE  /\ k > issued' => uses'[k] = 0
               /\ k \notin contended' => uses'[k] \in {0, 1}
               /\ k \notin contended' /\ uses'[k] = 1 =>
                     /\ tokens'[k].used = TRUE \/ tokens'[k] = NoToken
                     /\ \A w \in Visitor : ~Using(visit'[w], k)
    BY <2>2, <2>3 DEF UseInv
  <2> QED
    BY <2>4 DEF UseInv, Using
<1>3. ASSUME NEW v \in Visitor, PutAccount(v) PROVE UseInv'
  <2>1. PICK r, q : r = visit[v] /\ q = visit'[v]
    OBVIOUS
  <2>2. visit' = [visit EXCEPT ![v] = q] /\ q.at # "useToken"
    <3>1. AccountStored(v, r, q)
      BY <1>3, <2>1, PutAccountMove
    <3> QED
      BY <3>1 DEF AccountStored
  <2>3. UNCHANGED <<uses, contended, issued, tokens>>
    BY <1>3 DEF PutAccount
  <2> QED
    BY <2>2, <2>3, OthersStay, UseKept
<1>4. ASSUME NEW v \in Visitor, IssueToken(v) PROVE UseInv'
  <2>1. PICK r, q : r = visit[v] /\ q = visit'[v]
    OBVIOUS
  <2>2. /\ visit' = [visit EXCEPT ![v] = q] /\ q.at = "mail"
        /\ \A k \in TokenId : k # issued + 1 => tokens'[k] = tokens[k]
    <3>1. TokenIssued(v, r, q)
      BY <1>4, <2>1, IssueTokenMove
    <3> QED
      BY <3>1 DEF TokenIssued
  <2>3. UNCHANGED <<uses, contended>> /\ issued' = issued + 1 /\ issued \in Nat
    BY <1>4 DEF IssueToken, MembersShape, MemberStoreOK, MembersTypeOK
  <2>4. \A w \in Visitor : visit'[w].at = "useToken" => visit'[w] = visit[w]
    BY <2>2, OthersStay
  <2>5. ASSUME NEW k \in TokenId, k = issued + 1 PROVE uses'[k] = 0
    BY <2>3, <2>5 DEF UseInv
  <2>6. ASSUME NEW k \in TokenId, k > issued' PROVE uses'[k] = 0
    <3>1. k > issued
      BY <2>3, <2>6 DEF TokenId
    <3> QED
      BY <2>3, <3>1 DEF UseInv
  <2>7. ASSUME NEW k \in TokenId, k # issued + 1, k \notin contended, uses'[k] = 1
        PROVE  (tokens'[k].used = TRUE \/ tokens'[k] = NoToken) /\ \A w \in Visitor : ~Using(visit'[w], k)
    BY <2>2, <2>3, <2>4, <2>7 DEF UseInv, Using
  <2>8. \A k \in TokenId : k \notin contended => uses'[k] \in {0, 1}
    BY <2>3 DEF UseInv
  <2>9. ASSUME NEW k \in TokenId
        PROVE  /\ k > issued' => uses'[k] = 0
               /\ k \notin contended' => uses'[k] \in {0, 1}
               /\ k \notin contended' /\ uses'[k] = 1 =>
                     /\ tokens'[k].used = TRUE \/ tokens'[k] = NoToken
                     /\ \A w \in Visitor : ~Using(visit'[w], k)
    <3>1. k \notin contended' /\ uses'[k] = 1 => k # issued + 1 /\ k \notin contended
      BY <2>3, <2>5
    <3> QED
      BY <2>3, <2>6, <2>7, <2>8, <3>1
  <2> QED
    BY <2>9 DEF UseInv, Using
<1>5. ASSUME NEW v \in Visitor, UseToken(v) PROVE UseInv'
  <2>1. PICK r, q : r = visit[v] /\ q = visit'[v]
    OBVIOUS
  <2>2. /\ visit' = [visit EXCEPT ![v] = q] /\ q.at = "account" /\ r.at = "useToken" /\ r.k \in TokenId
        /\ r.k <= issued /\ tokens'[r.k].used = TRUE
        /\ \A k \in TokenId : k # r.k => tokens'[k] = tokens[k]
    <3>1. TokenUsed(v, r, q)
      BY <1>5, <2>1, UseTokenMove
    <3> QED
      BY <3>1 DEF TokenUsed
  <2>3. /\ issued' = issued /\ uses' = [uses EXCEPT ![r.k] = uses[r.k] + 1]
        /\ contended' = IF \E w \in Visitor \ {v} : visit[w].at = "useToken" /\ visit[w].k = r.k
                        THEN contended \cup {r.k} ELSE contended
    BY <1>5, <2>1 DEF UseToken
  <2>4. uses \in [TokenId -> Nat] /\ issued \in Nat
    BY DEF MembersShape, MemberStoreOK, MembersTypeOK
  <2>5. visit'[v] = q /\ \A w \in Visitor : w # v => visit'[w] = visit[w]
    BY <2>2, OthersStay
  <2>6. ASSUME NEW k \in TokenId, k # r.k
        PROVE  /\ k > issued' => uses'[k] = 0
               /\ k \notin contended' => uses'[k] \in {0, 1}
               /\ k \notin contended' /\ uses'[k] = 1 =>
                     /\ tokens'[k].used = TRUE \/ tokens'[k] = NoToken
                     /\ \A w \in Visitor : ~Using(visit'[w], k)
    <3>1. uses'[k] = uses[k] /\ tokens'[k] = tokens[k] /\ (k \notin contended' => k \notin contended)
      BY <2>2, <2>3, <2>4, <2>6
    <3>2. ASSUME NEW w \in Visitor, Using(visit'[w], k) PROVE Using(visit[w], k)
      BY <2>2, <2>5, <3>2 DEF Using
    <3> QED
      BY <2>3, <3>1, <3>2 DEF UseInv
  <2>7. ~(r.k > issued')
    BY <2>2, <2>3, <2>4 DEF TokenId
  <2>8. ASSUME r.k \notin contended'
        PROVE  uses'[r.k] = 1 /\ \A w \in Visitor : ~Using(visit'[w], r.k)
    <3>1. r.k \notin contended /\ \A w \in Visitor \ {v} : ~(visit[w].at = "useToken" /\ visit[w].k = r.k)
      BY <2>3, <2>8
    <3>2. uses[r.k] = 0
      BY <2>1, <2>2, <3>1 DEF UseInv, Using
    <3>3. uses'[r.k] = 1
      BY <2>2, <2>3, <2>4, <3>2
    <3> QED
      BY <2>2, <2>5, <3>1, <3>3 DEF Using
  <2> QED
    BY <2>2, <2>6, <2>7, <2>8 DEF UseInv, Using
<1>6. ASSUME NEW v \in Visitor, OpenSession(v) PROVE UseInv'
  <2>1. visit' = [visit EXCEPT ![v] = NoVisit] /\ UNCHANGED <<uses, contended, issued, tokens>>
    BY <1>6 DEF OpenSession, Leave, Then
  <2> QED
    BY <2>1, OthersStay, UseKept
<1>7. ASSUME NEW v \in Visitor, NEW l \in Login, DropOneLogin(v, l) PROVE UseInv'
  <2>1. PICK r, q : r = visit[v] /\ q = visit'[v]
    OBVIOUS
  <2>2. visit' = [visit EXCEPT ![v] = q] /\ q.at = "drop"
    <3>1. SessionDropped(v, l, r, q)
      BY <1>7, <2>1, DropOneLoginMove
    <3> QED
      BY <3>1 DEF SessionDropped
  <2>3. UNCHANGED <<uses, contended, issued, tokens>>
    BY <1>7 DEF DropOneLogin, memberHistory
  <2> QED
    BY <2>2, <2>3, OthersStay, UseKept
<1>8. ASSUME NEW v \in Visitor, NEW k \in TokenId, DropOneToken(v, k) PROVE UseInv'
  <2>1. PICK r, q : r = visit[v] /\ q = visit'[v]
    OBVIOUS
  <2>2. /\ visit' = [visit EXCEPT ![v] = q] /\ q.at = "dropTokens"
        /\ tokens'[k] = NoToken /\ \A j \in TokenId : j # k => tokens'[j] = tokens[j]
    <3>1. TokenDropped(v, k, r, q)
      BY <1>8, <2>1, DropOneTokenMove
    <3> QED
      BY <3>1 DEF TokenDropped
  <2>3. UNCHANGED <<uses, contended, issued>>
    BY <1>8 DEF DropOneToken
  <2> QED
    BY <2>2, <2>3, OthersStay, UseKept
<1>9. ASSUME NEW v \in Visitor, EndDeletion(v) PROVE UseInv'
  <2>1. visit' = [visit EXCEPT ![v] = NoVisit] /\ UNCHANGED <<uses, contended, issued, tokens>>
    BY <1>9 DEF EndDeletion, Leave, Then
  <2> QED
    BY <2>1, OthersStay, UseKept
<1> QED
  BY <1>1, <1>2, <1>3, <1>4, <1>5, <1>6, <1>7, <1>8, <1>9, MembersMoves

-----------------------------------------------------------------------------
\* A suspension ends the sessions there were.

Banning(r, m, l) == r.op = "status" /\ r.m = m /\ (r.at = "revoke" \/ (r.at = "drop" /\ l \in r.todo))

\* A session from before a suspension is one that the suspension will still drop.
BanInv ==
    \A l \in Login :
        (logins[l] # NoLogin /\ since[l] < bans[logins[l].member]) =>
            \E v \in Visitor : Banning(visit[v], logins[l].member, l)

LEMMA InitBan == MembersInit => BanInv
BY DEF MembersInit, BanInv

LEMMA BanKept ==
    ASSUME BanInv, UNCHANGED <<logins, since, bans>>,
           \A v \in Visitor, m \in Member, l \in Login :
               logins[l].member = m /\ Banning(visit[v], m, l) => Banning(visit'[v], m, l),
           MembersShape
    PROVE  BanInv'
<1>1. \A l \in Login : logins[l] # NoLogin => logins[l].member \in Member
  BY DEF MembersShape, MemberStoreOK
<1> QED
  BY <1>1 DEF BanInv

LEMMA BanStep ==
    ASSUME MembersShape, BanInv, MembersMove
    PROVE  BanInv'
<1> USE NothingOK
<1>a. \A l \in Login : logins[l] # NoLogin => logins[l].member \in Member
  BY DEF MembersShape, MemberStoreOK
<1>b. ASSUME NEW v \in Visitor, NEW q, visit' = [visit EXCEPT ![v] = q], UNCHANGED <<logins, since, bans>>,
             visit[v].at \notin {"revoke", "drop"}
      PROVE  BanInv'
  <2>1. \A w \in Visitor : w # v => visit'[w] = visit[w]
    BY <1>b, OthersStay
  <2>2. ASSUME NEW w \in Visitor, NEW m \in Member, NEW l \in Login, Banning(visit[w], m, l)
        PROVE  Banning(visit'[w], m, l)
    BY <1>b, <2>1, <2>2 DEF Banning
  <2> QED
    BY <1>b, <2>2, BanKept
<1>1. CASE Idle
  BY <1>1, BanKept DEF Idle, memberStore, memberHistory
<1>2. ASSUME NEW v \in Visitor, QuietMove(v) PROVE BanInv'
  <2>1. PICK r, q : r = visit[v] /\ q = visit'[v]
    OBVIOUS
  <2>2. /\ UNCHANGED <<logins, since, bans>>
        /\ \A w \in Visitor \ {v} : visit'[w] = visit[w]
        /\ r.op = "status" /\ r.at = "revoke" =>
              q.op = "status" /\ q.m = r.m /\ q.at = "drop" /\ q.todo = LoginsOf(r.m)
        /\ r.op = "status" /\ r.at = "drop" => r.todo = {}
    BY <1>2, <2>1 DEF QuietMove, Quiet, Onward
  <2>3. ASSUME NEW w \in Visitor, NEW m \in Member, NEW l \in Login, logins[l].member = m, Banning(visit[w], m, l)
        PROVE  Banning(visit'[w], m, l)
    <3>1. CASE w # v
      BY <2>2, <2>3, <3>1
    <3>2. CASE w = v
      <4>1. r.op = "status" /\ r.m = m /\ r.at = "revoke"
        BY <2>1, <2>2, <2>3, <3>2 DEF Banning
      <4>2. l \in LoginsOf(r.m)
        BY <2>3, <4>1 DEF LoginsOf
      <4> QED
        BY <2>1, <2>2, <3>2, <4>1, <4>2 DEF Banning
    <3> QED
      BY <3>1, <3>2
  <2> QED
    BY <2>2, <2>3, BanKept
<1>3. ASSUME NEW v \in Visitor, PutAccount(v) PROVE BanInv'
  <2>1. PICK r, q : r = visit[v] /\ q = visit'[v]
    OBVIOUS
  <2>2. /\ visit' = [visit EXCEPT ![v] = q] /\ r.at = "putAccount" /\ r.m \in Member
        /\ r.op = "status" /\ r.rec.status = "suspended" => q.op = "status" /\ q.at = "revoke" /\ q.m = r.m
    <3>1. AccountStored(v, r, q)
      BY <1>3, <2>1, PutAccountMove
    <3> QED
      BY <3>1 DEF AccountStored
  <2>3. CASE r.op = "status" /\ r.rec.status = "suspended"
    <3>1. /\ bans' = [bans EXCEPT ![r.m] = bans[r.m] + 1] /\ UNCHANGED <<logins, since>>
          /\ bans \in [Member -> Nat]
      BY <1>3, <2>1, <2>3 DEF PutAccount, MembersShape, MemberStoreOK
    <3>2. visit'[v] = q /\ \A w \in Visitor : w # v => visit'[w] = visit[w]
      BY <2>2, OthersStay
    <3>3. ASSUME NEW l \in Login, logins[l] # NoLogin, since[l] < bans'[logins[l].member]
          PROVE  \E w \in Visitor : Banning(visit'[w], logins[l].member, l)
      <4>1. CASE logins[l].member = r.m
        BY <2>2, <2>3, <3>2, <4>1 DEF Banning
      <4>2. CASE logins[l].member # r.m
        <5>1. bans'[logins[l].member] = bans[logins[l].member]
          BY <1>a, <2>2, <3>1, <3>3, <4>2
        <5>2. PICK w \in Visitor : Banning(visit[w], logins[l].member, l)
          BY <3>3, <5>1 DEF BanInv
        <5>3. w # v
          BY <2>1, <2>2, <5>2 DEF Banning
        <5> QED
          BY <3>2, <5>2, <5>3
      <4> QED
        BY <4>1, <4>2
    <3> QED
      BY <3>1, <3>3 DEF BanInv
  <2>4. CASE ~(r.op = "status" /\ r.rec.status = "suspended")
    <3>1. UNCHANGED <<logins, since, bans>>
      BY <1>3, <2>1, <2>4 DEF PutAccount
    <3> QED
      BY <1>b, <2>1, <2>2, <3>1
  <2> QED
    BY <2>3, <2>4
<1>4. ASSUME NEW v \in Visitor, IssueToken(v) PROVE BanInv'
  <2>1. PICK r, q : r = visit[v] /\ q = visit'[v]
    OBVIOUS
  <2>2. visit' = [visit EXCEPT ![v] = q] /\ r.at = "putToken"
    <3>1. TokenIssued(v, r, q)
      BY <1>4, <2>1, IssueTokenMove
    <3> QED
      BY <3>1 DEF TokenIssued
  <2> QED
    BY <1>4, <1>b, <2>1, <2>2 DEF IssueToken
<1>5. ASSUME NEW v \in Visitor, UseToken(v) PROVE BanInv'
  <2>1. PICK r, q : r = visit[v] /\ q = visit'[v]
    OBVIOUS
  <2>2. visit' = [visit EXCEPT ![v] = q] /\ r.at = "useToken"
    <3>1. TokenUsed(v, r, q)
      BY <1>5, <2>1, UseTokenMove
    <3> QED
      BY <3>1 DEF TokenUsed
  <2> QED
    BY <1>5, <1>b, <2>1, <2>2 DEF UseToken
<1>6. ASSUME NEW v \in Visitor, OpenSession(v) PROVE BanInv'
  <2>1. PICK r, n : r = visit[v] /\ n = opened + 1
    OBVIOUS
  <2>2. /\ r.at = "open" /\ r.m \in Member /\ n \in Login
        /\ visit' = [visit EXCEPT ![v] = NoVisit]
        /\ logins'[n].member = r.m /\ since'[n] = bans[r.m]
        /\ \A k \in Login : k # n => logins'[k] = logins[k] /\ since'[k] = since[k]
    <3>1. SessionOpened(v, r)
      BY <1>6, <2>1, OpenSessionMove
    <3> QED
      BY <2>1, <3>1 DEF SessionOpened
  <2>3. bans' = bans /\ bans[r.m] \in Nat
    BY <1>6, <2>2 DEF OpenSession, MembersShape, MemberStoreOK
  <2>4. \A w \in Visitor : w # v => visit'[w] = visit[w]
    BY <2>2, OthersStay
  <2>5. ASSUME NEW l \in Login, logins'[l] # NoLogin, since'[l] < bans'[logins'[l].member]
        PROVE  \E w \in Visitor : Banning(visit'[w], logins'[l].member, l)
    <3>1. l # n
      BY <2>2, <2>3, <2>5
    <3>2. PICK w \in Visitor : Banning(visit[w], logins[l].member, l)
      BY <2>2, <2>3, <2>5, <3>1 DEF BanInv
    <3>3. w # v
      BY <2>1, <2>2, <3>2 DEF Banning
    <3> QED
      BY <2>2, <2>4, <3>1, <3>2, <3>3
  <2> QED
    BY <2>5 DEF BanInv
<1>7. ASSUME NEW v \in Visitor, NEW x \in Login, DropOneLogin(v, x) PROVE BanInv'
  <2>1. PICK r, q : r = visit[v] /\ q = visit'[v]
    OBVIOUS
  <2>2. /\ visit' = [visit EXCEPT ![v] = q] /\ q.at = "drop" /\ r.at = "drop" /\ q.op = r.op /\ q.m = r.m
        /\ q.todo = r.todo \ {x}
        /\ logins'[x] = NoLogin /\ \A k \in Login : k # x => logins'[k] = logins[k]
    <3>1. SessionDropped(v, x, r, q)
      BY <1>7, <2>1, DropOneLoginMove
    <3> QED
      BY <3>1 DEF SessionDropped
  <2>3. UNCHANGED <<bans, since>>
    BY <1>7 DEF DropOneLogin, memberHistory
  <2>4. visit'[v] = q /\ \A w \in Visitor : w # v => visit'[w] = visit[w]
    BY <2>2, OthersStay
  <2>5. ASSUME NEW l \in Login, logins'[l] # NoLogin, since'[l] < bans'[logins'[l].member]
        PROVE  \E w \in Visitor : Banning(visit'[w], logins'[l].member, l)
    <3>1. l # x /\ logins'[l] = logins[l]
      BY <2>2, <2>5
    <3>2. PICK w \in Visitor : Banning(visit[w], logins[l].member, l)
      BY <2>3, <2>5, <3>1 DEF BanInv
    <3>3. Banning(visit'[w], logins[l].member, l)
      BY <2>1, <2>2, <2>4, <3>1, <3>2 DEF Banning
    <3> QED
      BY <3>1, <3>3
  <2> QED
    BY <2>5 DEF BanInv
<1>8. ASSUME NEW v \in Visitor, NEW k \in TokenId, DropOneToken(v, k) PROVE BanInv'
  <2>1. PICK r, q : r = visit[v] /\ q = visit'[v]
    OBVIOUS
  <2>2. visit' = [visit EXCEPT ![v] = q] /\ r.at = "dropTokens"
    <3>1. TokenDropped(v, k, r, q)
      BY <1>8, <2>1, DropOneTokenMove
    <3> QED
      BY <3>1 DEF TokenDropped
  <2> QED
    BY <1>8, <1>b, <2>1, <2>2 DEF DropOneToken
<1>9. ASSUME NEW v \in Visitor, EndDeletion(v) PROVE BanInv'
  <2>1. visit[v].at = "dropTokens" /\ visit' = [visit EXCEPT ![v] = NoVisit] /\ UNCHANGED <<logins, since, bans>>
    BY <1>9 DEF EndDeletion, Leave, Then
  <2> QED
    BY <1>b, <2>1
<1> QED
  BY <1>1, <1>2, <1>3, <1>4, <1>5, <1>6, <1>7, <1>8, <1>9, MembersMoves

-----------------------------------------------------------------------------
\* A deletion leaves nothing.

\* Whatever else is about to begin a session of a member who is being deleted, and
\* any second deletion, marks the member.
Marked ==
    /\ \A v, w \in Visitor :
          Deleting(visit[v]) /\ v # w /\ visit[w].m = visit[v].m /\ (Deleting(visit[w]) \/ Entering(visit[w]))
             => visit[v].m \in haunted
    /\ \A w \in Visitor : Entering(visit[w]) /\ visit[w].m \in deleted => visit[w].m \in haunted

\* How far a deletion has come.
Cleared(r) ==
    /\ r.at = "drop" => LoginsOf(r.m) \subseteq r.todo
    /\ r.at \in {"tokens", "dropTokens"} => LoginsOf(r.m) = {}
    /\ r.at = "dropTokens" => TokensOf(r.m) \subseteq r.todo
Clearing == \A v \in Visitor : Deleting(visit[v]) /\ visit[v].m \notin haunted => Cleared(visit[v])

DeleteInv == Marked /\ Clearing /\ DeletionIsComplete

LEMMA InitDelete == MembersInit => DeleteInv
BY NothingGoesOn DEF MembersInit, DeleteInv, Marked, Clearing, DeletionIsComplete

LEMMA ClearedKept ==
    ASSUME NEW r, Cleared(r), LoginsOf(r.m)' \subseteq LoginsOf(r.m), TokensOf(r.m)' \subseteq TokensOf(r.m)
    PROVE  Cleared(r)'
BY DEF Cleared

\* Something stored for m by a call: whoever deletes m, or has deleted m, is told.
LEMMA DeleteStore ==
    ASSUME MembersShape, DeleteInv, NEW v \in Visitor, NEW m, NEW q,
           visit' = [visit EXCEPT ![v] = q], haunted' = haunted \cup Haunts(v, m), deleted' = deleted,
           ~Deleting(visit[v]), ~Deleting(q), Entering(q) => q.m = m,
           \A n \in Member : n # m => /\ accounts'[n] = accounts[n]
                                      /\ LoginsOf(n)' \subseteq LoginsOf(n) /\ TokensOf(n)' \subseteq TokensOf(n),
           deleted \subseteq Member
    PROVE  DeleteInv'
<1>1. visit'[v] = q /\ \A w \in Visitor : w # v => visit'[w] = visit[w]
  BY OthersStay
<1>2. haunted \subseteq haunted'
  OBVIOUS
<1>3. m \in deleted => m \in haunted'
  BY DEF Haunts
<1>4. ASSUME NEW w \in Visitor, Deleting(visit'[w])
      PROVE  w # v /\ visit'[w] = visit[w] /\ Deleting(visit[w]) /\ (visit[w].m = m => m \in haunted')
  <2>1. w # v /\ visit'[w] = visit[w] /\ Deleting(visit[w])
    BY <1>1, <1>4
  <2> QED
    BY <2>1 DEF Haunts, Deleting
<1>5. Marked'
  <2>1. ASSUME NEW x \in Visitor, NEW w \in Visitor, Deleting(visit'[x]), x # w, visit'[w].m = visit'[x].m,
               Deleting(visit'[w]) \/ Entering(visit'[w])
        PROVE  visit'[x].m \in haunted'
    <3>1. CASE w = v
      <4>1. Entering(q) /\ visit'[x].m = m
        BY <1>1, <2>1, <3>1
      <4> QED
        BY <1>4, <2>1, <4>1
    <3>2. CASE w # v
      BY <1>1, <1>2, <1>4, <2>1, <3>2 DEF DeleteInv, Marked
    <3> QED
      BY <3>1, <3>2
  <2>2. ASSUME NEW w \in Visitor, Entering(visit'[w]), visit'[w].m \in deleted' PROVE visit'[w].m \in haunted'
    BY <1>1, <1>2, <1>3, <2>2 DEF DeleteInv, Marked
  <2> QED
    BY <2>1, <2>2 DEF Marked, Deleting, Entering
<1>6. Clearing'
  <2>1. ASSUME NEW w \in Visitor, Deleting(visit'[w]), visit'[w].m \notin haunted' PROVE Cleared(visit[w])'
    <3>1. PICK r : r = visit[w]
      OBVIOUS
    <3>2. visit'[w] = r /\ Deleting(r) /\ r.m # m /\ r.m \notin haunted /\ Cleared(r)
      BY <1>2, <1>4, <2>1, <3>1 DEF DeleteInv, Clearing
    <3>3. r.m \in Member
      <4>1. r \in VisitRecord /\ VisitOK(r)
        BY <3>1 DEF MembersShape
      <4> QED
        BY <3>2, <4>1 DEF VisitOK, Deleting
    <3>4. Cleared(r)'
      BY <3>2, <3>3, ClearedKept
    <3> QED
      BY <3>2, <3>4 DEF Cleared, LoginsOf, TokensOf
  <2> QED
    BY <2>1 DEF Clearing, Deleting
<1>7. DeletionIsComplete'
  <2>1. ASSUME NEW n \in deleted, n \notin haunted'
        PROVE  accounts'[n] = NoMember /\ LoginsOf(n)' = {} /\ TokensOf(n)' = {}
    <3>1. n # m /\ n \in Member /\ n \notin haunted
      BY <1>2, <1>3, <2>1
    <3>2. accounts[n] = NoMember /\ LoginsOf(n) = {} /\ TokensOf(n) = {}
      BY <2>1, <3>1 DEF DeleteInv, DeletionIsComplete, Registered
    <3> QED
      BY <3>1, <3>2
  <2> QED
    BY <2>1 DEF DeletionIsComplete, Registered
<1> QED
  BY <1>5, <1>6, <1>7 DEF DeleteInv

\* Something dropped by a call that goes on, or goes home.
LEMMA DeleteDrop ==
    ASSUME MembersShape, DeleteInv, NEW v \in Visitor, NEW q,
           visit' = [visit EXCEPT ![v] = q], UNCHANGED <<haunted, deleted, accounts>>,
           Deleting(q) => Deleting(visit[v]), Entering(q) => Entering(visit[v]),
           Deleting(q) \/ Entering(q) => q.m = visit[v].m,
           \A n \in Member : LoginsOf(n)' \subseteq LoginsOf(n) /\ TokensOf(n)' \subseteq TokensOf(n),
           Deleting(q) /\ q.m \notin haunted => Cleared(q)', deleted \subseteq Member
    PROVE  DeleteInv'
<1>1. visit'[v] = q /\ \A w \in Visitor : w # v => visit'[w] = visit[w]
  BY OthersStay
<1>2. ASSUME NEW w \in Visitor
      PROVE  /\ Deleting(visit'[w]) => Deleting(visit[w]) /\ visit'[w].m = visit[w].m
             /\ Entering(visit'[w]) => Entering(visit[w]) /\ visit'[w].m = visit[w].m
  BY <1>1
<1>3. Marked'
  <2>1. ASSUME NEW x \in Visitor, NEW w \in Visitor, Deleting(visit'[x]), x # w, visit'[w].m = visit'[x].m,
               Deleting(visit'[w]) \/ Entering(visit'[w])
        PROVE  visit'[x].m \in haunted
    <3>1. Deleting(visit[x]) /\ visit'[x].m = visit[x].m /\ visit'[w].m = visit[w].m
      BY <1>2, <2>1
    <3>2. Deleting(visit[w]) \/ Entering(visit[w])
      BY <1>2, <2>1
    <3> QED
      BY <2>1, <3>1, <3>2 DEF DeleteInv, Marked
  <2>2. ASSUME NEW w \in Visitor, Entering(visit'[w]), visit'[w].m \in deleted PROVE visit'[w].m \in haunted
    BY <1>2, <2>2 DEF DeleteInv, Marked
  <2> QED
    BY <2>1, <2>2 DEF Marked, Deleting, Entering
<1>4. Clearing'
  <2>1. ASSUME NEW w \in Visitor, w # v, Deleting(visit'[w]), visit'[w].m \notin haunted PROVE Cleared(visit[w])'
    <3>1. PICK r : r = visit[w]
      OBVIOUS
    <3>2. visit'[w] = r /\ Deleting(r) /\ Cleared(r)
      BY <1>1, <2>1, <3>1 DEF DeleteInv, Clearing
    <3>3. r.m \in Member
      <4>1. r \in VisitRecord /\ VisitOK(r)
        BY <3>1 DEF MembersShape
      <4> QED
        BY <3>2, <4>1 DEF VisitOK, Deleting
    <3>4. Cleared(r)'
      BY <3>2, <3>3, ClearedKept
    <3> QED
      BY <3>2, <3>4 DEF Cleared, LoginsOf, TokensOf
  <2>2. ASSUME Deleting(visit'[v]), visit'[v].m \notin haunted PROVE Cleared(visit[v])'
    BY <1>1, <2>2 DEF Cleared, LoginsOf, TokensOf
  <2> QED
    BY <2>1, <2>2 DEF Clearing, Deleting
<1>5. DeletionIsComplete'
  <2>1. ASSUME NEW n \in deleted, n \notin haunted
        PROVE  accounts'[n] = NoMember /\ LoginsOf(n)' = {} /\ TokensOf(n)' = {}
    <3>1. accounts[n] = NoMember /\ LoginsOf(n) = {} /\ TokensOf(n) = {}
      BY <2>1 DEF DeleteInv, DeletionIsComplete, Registered
    <3> QED
      BY <2>1, <3>1
  <2> QED
    BY <2>1 DEF DeletionIsComplete, Registered
<1> QED
  BY <1>3, <1>4, <1>5 DEF DeleteInv

LEMMA DeleteStep ==
    ASSUME MembersShape, DeleteInv, MembersMove
    PROVE  DeleteInv'
<1> USE NothingOK
<1>d. deleted \subseteq Member
  BY DEF MembersShape, MemberStoreOK
<1>1. CASE Idle
  <2>1. UNCHANGED <<visit, accounts, logins, tokens, haunted, deleted>>
    BY <1>1 DEF Idle, memberStore, memberHistory
  <2> QED
    BY <2>1 DEF DeleteInv, Marked, Clearing, Cleared, DeletionIsComplete, Registered, LoginsOf, TokensOf,
                Deleting, Entering
<1>2. ASSUME NEW v \in Visitor, QuietMove(v) PROVE DeleteInv'
  <2>1. PICK r, q : r = visit[v] /\ q = visit'[v]
    OBVIOUS
  <2>2. /\ UNCHANGED <<accounts, logins, tokens, deleted>> /\ haunted \subseteq haunted'
        /\ \A w \in Visitor : w # v => visit'[w] = visit[w]
        /\ Onward(r, q)
    BY <1>2, <2>1 DEF QuietMove, Quiet
  <2>3. /\ Entering(q) => Entering(r) /\ q.m = r.m
        /\ Deleting(q) => \/ q.at = "revoke" /\ (MetAt(q.m) => q.m \in haunted')
                          \/ Deleting(r) /\ q.m = r.m
    BY <2>2 DEF Onward
  <2>4. ASSUME NEW x \in Visitor, NEW w \in Visitor, Deleting(visit'[x]), x # w, visit'[w].m = visit'[x].m,
               Deleting(visit'[w]) \/ Entering(visit'[w])
        PROVE  visit'[x].m \in haunted'
    <3>1. CASE x # v /\ w # v
      BY <2>2, <2>4, <3>1 DEF DeleteInv, Marked
    <3>2. CASE x = v
      <4>1. w # v /\ visit'[w] = visit[w] /\ visit'[x] = q /\ visit[x] = r
        BY <2>1, <2>2, <2>4, <3>2
      <4>2. CASE MetAt(q.m) => q.m \in haunted'
        BY <2>4, <4>1, <4>2 DEF MetAt
      <4>3. CASE Deleting(r) /\ q.m = r.m
        BY <2>2, <2>4, <4>1, <4>3 DEF DeleteInv, Marked
      <4> QED
        BY <2>3, <2>4, <4>1, <4>2, <4>3
    <3>3. CASE w = v
      <4>1. x # v /\ visit'[x] = visit[x] /\ visit'[w] = q /\ visit[w] = r
        BY <2>1, <2>2, <2>4, <3>3
      <4>2. CASE Deleting(q) /\ (MetAt(q.m) => q.m \in haunted')
        BY <2>4, <4>1, <4>2 DEF MetAt
      <4>3. CASE (Deleting(r) \/ Entering(r)) /\ q.m = r.m
        BY <2>2, <2>4, <4>1, <4>3 DEF DeleteInv, Marked
      <4> QED
        BY <2>3, <2>4, <4>1, <4>2, <4>3
    <3> QED
      BY <3>1, <3>2, <3>3
  <2>5. ASSUME NEW w \in Visitor, Entering(visit'[w]), visit'[w].m \in deleted PROVE visit'[w].m \in haunted'
    <3>1. Entering(visit[w]) /\ visit'[w].m = visit[w].m
      BY <2>1, <2>2, <2>3, <2>5
    <3> QED
      BY <2>2, <2>5, <3>1 DEF DeleteInv, Marked
  <2>6. Marked'
    BY <2>2, <2>4, <2>5 DEF Marked, Deleting, Entering
  <2>7. Clearing'
    <3>1. ASSUME NEW w \in Visitor, w # v, Deleting(visit'[w]), visit'[w].m \notin haunted' PROVE Cleared(visit[w])'
      <4>1. Cleared(visit[w]) /\ visit'[w] = visit[w]
        BY <2>2, <3>1 DEF DeleteInv, Clearing
      <4> QED
        BY <2>2, <4>1 DEF Cleared, LoginsOf, TokensOf
    <3>2. ASSUME Deleting(q), q.m \notin haunted' PROVE Cleared(q)
      <4>1. CASE q.at = "revoke"
        BY <4>1 DEF Cleared
      <4>2. CASE q.at # "revoke"
        <5>1. /\ Deleting(r) /\ q.m = r.m
              /\ \/ q.at = "drop" /\ q.todo = LoginsOf(q.m)
                 \/ r.at = "drop" /\ r.todo = {} /\ q.at = "tokens"
                 \/ r.at = "tokens" /\ q.at = "dropTokens" /\ q.todo = TokensOf(q.m)
          BY <2>2, <3>2, <4>2 DEF Onward
        <5>2. Cleared(r)
          BY <2>1, <2>2, <3>2, <5>1 DEF DeleteInv, Clearing
        <5> QED
          BY <5>1, <5>2 DEF Cleared
      <4> QED
        BY <4>1, <4>2
    <3>3. ASSUME Deleting(visit'[v]), visit'[v].m \notin haunted' PROVE Cleared(visit[v])'
      <4>1. Cleared(q)
        BY <2>1, <3>2, <3>3
      <4> QED
        BY <2>1, <2>2, <4>1 DEF Cleared, LoginsOf, TokensOf
    <3> QED
      BY <3>1, <3>3 DEF Clearing, Deleting
  <2>8. DeletionIsComplete'
    BY <2>2 DEF DeleteInv, DeletionIsComplete, Registered, LoginsOf, TokensOf
  <2> QED
    BY <2>6, <2>7, <2>8 DEF DeleteInv
<1>3. ASSUME NEW v \in Visitor, PutAccount(v) PROVE DeleteInv'
  <2>1. PICK r, q : r = visit[v] /\ q = visit'[v]
    OBVIOUS
  <2>2. /\ visit' = [visit EXCEPT ![v] = q] /\ ~Deleting(q) /\ ~Deleting(r)
        /\ Entering(q) => q.m = r.m
    <3>1. AccountStored(v, r, q)
      BY <1>3, <2>1, PutAccountMove
    <3> QED
      BY <3>1 DEF AccountStored
  <2>3. /\ accounts' = [accounts EXCEPT ![r.m] = r.rec] /\ haunted' = haunted \cup Haunts(v, r.m)
        /\ UNCHANGED <<deleted, logins, tokens>>
    BY <1>3, <2>1 DEF PutAccount
  <2>4. \A n \in Member : n # r.m => /\ accounts'[n] = accounts[n]
                                     /\ LoginsOf(n)' \subseteq LoginsOf(n) /\ TokensOf(n)' \subseteq TokensOf(n)
    BY <2>3 DEF LoginsOf, TokensOf, MembersShape, MemberStoreOK, MembersTypeOK
  <2> QED
    BY <1>d, <2>1, <2>2, <2>3, <2>4, DeleteStore
<1>4. ASSUME NEW v \in Visitor, IssueToken(v) PROVE DeleteInv'
  <2>1. PICK r, q : r = visit[v] /\ q = visit'[v]
    OBVIOUS
  <2>2. /\ visit' = [visit EXCEPT ![v] = q] /\ ~Deleting(q) /\ ~Deleting(r) /\ ~Entering(q)
        /\ tokens'[issued + 1].member = r.m
        /\ \A k \in TokenId : k # issued + 1 => tokens'[k] = tokens[k]
    <3>1. TokenIssued(v, r, q)
      BY <1>4, <2>1, IssueTokenMove
    <3> QED
      BY <3>1 DEF TokenIssued
  <2>3. haunted' = haunted \cup Haunts(v, r.m) /\ UNCHANGED <<deleted, logins, accounts>>
    BY <1>4, <2>1 DEF IssueToken
  <2>4. \A n \in Member : n # r.m => /\ accounts'[n] = accounts[n]
                                     /\ LoginsOf(n)' \subseteq LoginsOf(n) /\ TokensOf(n)' \subseteq TokensOf(n)
    BY <2>2, <2>3 DEF LoginsOf, TokensOf
  <2> QED
    BY <1>d, <2>1, <2>2, <2>3, <2>4, DeleteStore
<1>5. ASSUME NEW v \in Visitor, UseToken(v) PROVE DeleteInv'
  <2>1. PICK r, q : r = visit[v] /\ q = visit'[v]
    OBVIOUS
  <2>2. /\ visit' = [visit EXCEPT ![v] = q] /\ ~Deleting(q) /\ ~Deleting(r) /\ q.m = r.m
        /\ tokens'[r.k].member = r.m
        /\ \A k \in TokenId : k # r.k => tokens'[k] = tokens[k]
    <3>1. TokenUsed(v, r, q)
      BY <1>5, <2>1, UseTokenMove
    <3> QED
      BY <3>1 DEF TokenUsed
  <2>3. haunted' = haunted \cup Haunts(v, r.m) /\ UNCHANGED <<deleted, logins, accounts>>
    BY <1>5, <2>1 DEF UseToken
  <2>4. \A n \in Member : n # r.m => /\ accounts'[n] = accounts[n]
                                     /\ LoginsOf(n)' \subseteq LoginsOf(n) /\ TokensOf(n)' \subseteq TokensOf(n)
    BY <2>2, <2>3 DEF LoginsOf, TokensOf
  <2> QED
    BY <1>d, <2>1, <2>2, <2>3, <2>4, DeleteStore
<1>6. ASSUME NEW v \in Visitor, OpenSession(v) PROVE DeleteInv'
  <2>1. PICK r : r = visit[v]
    OBVIOUS
  <2>2. /\ visit' = [visit EXCEPT ![v] = NoVisit] /\ Entering(r)
        /\ logins'[opened + 1].member = r.m
        /\ \A k \in Login : k # opened + 1 => logins'[k] = logins[k]
    <3>1. SessionOpened(v, r)
      BY <1>6, <2>1, OpenSessionMove
    <3> QED
      BY <3>1 DEF SessionOpened
  <2>3. haunted' = haunted \cup Haunts(v, r.m) /\ UNCHANGED <<deleted, tokens, accounts>>
    BY <1>6, <2>1 DEF OpenSession
  <2>4. \A n \in Member : n # r.m => /\ accounts'[n] = accounts[n]
                                     /\ LoginsOf(n)' \subseteq LoginsOf(n) /\ TokensOf(n)' \subseteq TokensOf(n)
    BY <2>2, <2>3 DEF LoginsOf, TokensOf
  <2>5. ~Deleting(r)
    BY <2>2 DEF Entering, Deleting
  <2> QED
    BY <1>d, <2>1, <2>2, <2>3, <2>4, <2>5, DeleteStore, NothingGoesOn
<1>7. ASSUME NEW v \in Visitor, NEW l \in Login, DropOneLogin(v, l) PROVE DeleteInv'
  <2>1. PICK r, q : r = visit[v] /\ q = visit'[v]
    OBVIOUS
  <2>2. /\ r.at = "drop" /\ visit' = [visit EXCEPT ![v] = q] /\ q.at = "drop" /\ q.op = r.op /\ q.m = r.m
        /\ q.todo = r.todo \ {l}
        /\ logins'[l] = NoLogin /\ \A k \in Login : k # l => logins'[k] = logins[k]
    <3>1. SessionDropped(v, l, r, q)
      BY <1>7, <2>1, DropOneLoginMove
    <3> QED
      BY <3>1 DEF SessionDropped
  <2>3. UNCHANGED <<haunted, deleted, tokens, accounts>>
    BY <1>7 DEF DropOneLogin, memberHistory
  <2>4. \A n \in Member : LoginsOf(n)' \subseteq LoginsOf(n) \ {l} /\ TokensOf(n)' \subseteq TokensOf(n)
    BY <2>2, <2>3 DEF LoginsOf, TokensOf
  <2>5. ASSUME Deleting(q), q.m \notin haunted PROVE Cleared(q)'
    <3>1. r.m \in Member
      <4>1. r \in VisitRecord /\ VisitOK(r)
        BY <2>1 DEF MembersShape
      <4> QED
        BY <2>2, <2>5, <4>1 DEF VisitOK, Deleting
    <3>2. Cleared(r)
      BY <2>1, <2>2, <2>5 DEF DeleteInv, Clearing, Deleting
    <3> QED
      BY <2>2, <2>4, <3>1, <3>2 DEF Cleared
  <2>6. (Deleting(q) => Deleting(r)) /\ (Entering(q) => Entering(r))
    BY <2>2 DEF Deleting, Entering
  <2> QED
    BY <1>d, <2>1, <2>2, <2>3, <2>4, <2>5, <2>6, DeleteDrop
<1>8. ASSUME NEW v \in Visitor, NEW k \in TokenId, DropOneToken(v, k) PROVE DeleteInv'
  <2>1. PICK r, q : r = visit[v] /\ q = visit'[v]
    OBVIOUS
  <2>2. /\ Deleting(r) /\ r.at = "dropTokens" /\ r.m \in Member
        /\ visit' = [visit EXCEPT ![v] = q] /\ Deleting(q) /\ q.at = "dropTokens" /\ q.m = r.m
        /\ q.todo = r.todo \ {k}
        /\ tokens'[k] = NoToken /\ \A j \in TokenId : j # k => tokens'[j] = tokens[j]
    <3>1. TokenDropped(v, k, r, q)
      BY <1>8, <2>1, DropOneTokenMove
    <3> QED
      BY <3>1 DEF TokenDropped
  <2>3. UNCHANGED <<haunted, deleted, logins, accounts>>
    BY <1>8 DEF DropOneToken
  <2>4. \A n \in Member : LoginsOf(n)' \subseteq LoginsOf(n) /\ TokensOf(n)' \subseteq TokensOf(n) \ {k}
    BY <2>2, <2>3 DEF LoginsOf, TokensOf
  <2>5. ASSUME q.m \notin haunted PROVE Cleared(q)'
    <3>1. Cleared(r)
      BY <2>1, <2>2, <2>5 DEF DeleteInv, Clearing
    <3> QED
      BY <2>2, <2>4, <3>1 DEF Cleared
  <2>6. ~Entering(q)
    BY <2>2 DEF Entering
  <2> QED
    BY <1>d, <2>1, <2>2, <2>3, <2>4, <2>5, <2>6, DeleteDrop
<1>9. ASSUME NEW v \in Visitor, EndDeletion(v) PROVE DeleteInv'
  <2>1. PICK r : r = visit[v]
    OBVIOUS
  <2>2. /\ Deleting(r) /\ r.at = "dropTokens" /\ r.todo = {} /\ r.m \in Member
        /\ visit' = [visit EXCEPT ![v] = NoVisit]
        /\ accounts'[r.m] = NoMember /\ \A m \in Member : m # r.m => accounts'[m] = accounts[m]
    <3>1. DeletionEnded(v, r)
      BY <1>9, <2>1, EndDeletionMove
    <3> QED
      BY <3>1 DEF DeletionEnded
  <2>3. UNCHANGED <<haunted, logins, tokens>> /\ deleted' = deleted \cup {r.m}
    BY <1>9, <2>1 DEF EndDeletion
  <2>4. visit'[v] = NoVisit /\ \A w \in Visitor : w # v => visit'[w] = visit[w]
    BY <2>2, OthersStay
  <2>5. \A w \in Visitor : Deleting(visit'[w]) \/ Entering(visit'[w]) => w # v
    BY <2>4, NothingGoesOn
  <2>6. Marked'
    <3>1. ASSUME NEW x \in Visitor, NEW w \in Visitor, Deleting(visit'[x]), x # w, visit'[w].m = visit'[x].m,
                 Deleting(visit'[w]) \/ Entering(visit'[w])
          PROVE  visit'[x].m \in haunted
      <4>1. visit'[x] = visit[x] /\ visit'[w] = visit[w]
        BY <2>4, <2>5, <3>1
      <4> QED
        BY <3>1, <4>1 DEF DeleteInv, Marked
    <3>2. ASSUME NEW w \in Visitor, Entering(visit'[w]), visit'[w].m \in deleted' PROVE visit'[w].m \in haunted
      <4>1. w # v /\ visit'[w] = visit[w]
        BY <2>4, <2>5, <3>2
      <4>2. CASE visit[w].m = r.m
        BY <2>1, <2>2, <3>2, <4>1, <4>2 DEF DeleteInv, Marked
      <4>3. CASE visit[w].m \in deleted
        BY <3>2, <4>1, <4>3 DEF DeleteInv, Marked
      <4> QED
        BY <2>3, <3>2, <4>1, <4>2, <4>3
    <3> QED
      BY <2>3, <3>1, <3>2 DEF Marked, Deleting, Entering
  <2>7. Clearing'
    <3>1. ASSUME NEW w \in Visitor, Deleting(visit'[w]), visit'[w].m \notin haunted' PROVE Cleared(visit[w])'
      <4>1. visit'[w] = visit[w] /\ Cleared(visit[w])
        BY <2>3, <2>4, <2>5, <3>1 DEF DeleteInv, Clearing
      <4> QED
        BY <2>3, <4>1 DEF Cleared, LoginsOf, TokensOf
    <3> QED
      BY <3>1 DEF Clearing, Deleting
  <2>8. DeletionIsComplete'
    <3>1. ASSUME NEW n \in deleted', n \notin haunted
          PROVE  accounts'[n] = NoMember /\ LoginsOf(n) = {} /\ TokensOf(n) = {}
      <4>1. CASE n = r.m
        <5>1. Cleared(r)
          BY <2>1, <2>2, <3>1, <4>1 DEF DeleteInv, Clearing
        <5> QED
          BY <2>2, <4>1, <5>1 DEF Cleared
      <4>2. CASE n # r.m
        BY <1>d, <2>2, <2>3, <3>1, <4>2 DEF DeleteInv, DeletionIsComplete, Registered
      <4> QED
        BY <4>1, <4>2
    <3> QED
      BY <2>3, <3>1 DEF DeletionIsComplete, Registered, LoginsOf, TokensOf
  <2> QED
    BY <2>6, <2>7, <2>8 DEF DeleteInv
<1> QED
  BY <1>1, <1>2, <1>3, <1>4, <1>5, <1>6, <1>7, <1>8, <1>9, MembersMoves

-----------------------------------------------------------------------------
\* Sessions are those of verified members.

Vouched(m) == m \in staleAccounts \cup haunted \/ accounts[m].verified = TRUE
PastProof(r) == Entering(r) /\ r.at # "account"

\* Whoever is about to get a session is verified as well.
VerifiedInv ==
    /\ \A l \in Login : logins[l] # NoLogin => Vouched(logins[l].member)
    /\ \A w \in Visitor : PastProof(visit[w]) => Vouched(visit[w].m)

LEMMA InitVerified == MembersInit => VerifiedInv
BY NothingGoesOn DEF MembersInit, VerifiedInv, PastProof

LEMMA VerifiedKept ==
    ASSUME MembersShape, VerifiedInv,
           \A m \in Member : Vouched(m) => Vouched(m)',
           \A l \in Login : logins'[l] = logins[l] \/ logins'[l] = NoLogin,
           \A w \in Visitor : PastProof(visit'[w]) =>
               \/ PastProof(visit[w]) /\ visit'[w].m = visit[w].m
               \/ visit'[w].m \in Member /\ Vouched(visit[w].m)'
    PROVE  VerifiedInv'
<1>1. ASSUME NEW l \in Login, logins'[l] # NoLogin PROVE Vouched(logins[l].member)'
  <2>1. PICK m : m = logins[l].member
    OBVIOUS
  <2>2. logins'[l] = logins[l] /\ logins'[l].member = m /\ m \in Member /\ Vouched(m)
    BY <1>1, <2>1 DEF VerifiedInv, MembersShape, MemberStoreOK
  <2>3. Vouched(m)'
    BY <2>2
  <2> QED
    BY <2>2, <2>3 DEF Vouched
<1>2. ASSUME NEW w \in Visitor, PastProof(visit'[w]) PROVE Vouched(visit[w].m)'
  <2>1. PICK r : r = visit[w]
    OBVIOUS
  <2>2. CASE PastProof(r) /\ visit'[w].m = r.m
    <3>1. r \in VisitRecord /\ VisitOK(r)
      BY <2>1 DEF MembersShape
    <3>2. r.m \in Member /\ Vouched(r.m)
      BY <2>1, <2>2, <3>1 DEF VerifiedInv, VisitOK, PastProof, Entering
    <3>3. Vouched(r.m)'
      BY <3>2
    <3> QED
      BY <2>2, <3>3 DEF Vouched
  <2> QED
    BY <1>2, <2>1, <2>2
<1> QED
  BY <1>1, <1>2 DEF VerifiedInv, PastProof, Entering, Vouched

LEMMA VerifiedStep ==
    ASSUME MembersShape, DeleteInv, VerifiedInv, MembersMove
    PROVE  VerifiedInv'
<1> USE NothingOK
<1>s. ASSUME NEW v \in Visitor, NEW q, visit' = [visit EXCEPT ![v] = q], UNCHANGED <<accounts, staleAccounts>>,
             haunted \subseteq haunted', \A l \in Login : logins'[l] = logins[l] \/ logins'[l] = NoLogin,
             PastProof(q) => PastProof(visit[v]) /\ q.m = visit[v].m
      PROVE  VerifiedInv'
  <2>1. visit'[v] = q /\ \A w \in Visitor : w # v => visit'[w] = visit[w]
    BY <1>s, OthersStay
  <2>2. \A m \in Member : Vouched(m) => Vouched(m)'
    BY <1>s DEF Vouched
  <2>3. \A w \in Visitor : PastProof(visit'[w]) => PastProof(visit[w]) /\ visit'[w].m = visit[w].m
    BY <1>s, <2>1
  <2> QED
    BY <1>s, <2>2, <2>3, VerifiedKept
<1>1. CASE Idle
  <2>1. UNCHANGED <<visit, accounts, logins, haunted, staleAccounts>>
    BY <1>1 DEF Idle, memberStore, memberHistory
  <2> QED
    BY <2>1 DEF VerifiedInv, Vouched, PastProof, Entering
<1>2. ASSUME NEW v \in Visitor, QuietMove(v) PROVE VerifiedInv'
  <2>1. PICK r, q : r = visit[v] /\ q = visit'[v]
    OBVIOUS
  <2>2. /\ UNCHANGED <<accounts, logins, staleAccounts>> /\ haunted \subseteq haunted'
        /\ \A w \in Visitor : w # v => visit'[w] = visit[w]
        /\ Entering(q) => /\ Entering(r) /\ q.m = r.m
                          /\ q.at # "account" => r.at # "account" \/ accounts[q.m].verified = TRUE
    BY <1>2, <2>1 DEF QuietMove, Quiet, Onward
  <2>3. \A m \in Member : Vouched(m) => Vouched(m)'
    BY <2>2 DEF Vouched
  <2>4. ASSUME NEW w \in Visitor, PastProof(visit'[w])
        PROVE  \/ PastProof(visit[w]) /\ visit'[w].m = visit[w].m
               \/ visit'[w].m \in Member /\ Vouched(visit[w].m)'
    <3>1. CASE w # v
      BY <2>2, <2>4, <3>1
    <3>2. CASE w = v
      <4>1. Entering(q) /\ q.at # "account" /\ Entering(r) /\ q.m = r.m
        BY <2>1, <2>2, <2>4, <3>2 DEF PastProof
      <4>2. CASE r.at # "account"
        BY <2>1, <3>2, <4>1, <4>2 DEF PastProof
      <4>3. CASE accounts[q.m].verified = TRUE
        <5>1. r \in VisitRecord /\ VisitOK(r)
          BY <2>1 DEF MembersShape
        <5>2. q.m \in Member
          BY <4>1, <5>1 DEF VisitOK, Entering
        <5>3. Vouched(visit[w].m)'
          BY <2>1, <2>2, <3>2, <4>3 DEF Vouched
        <5> QED
          BY <2>1, <3>2, <5>2, <5>3
      <4> QED
        BY <2>2, <4>1, <4>2, <4>3
    <3> QED
      BY <3>1, <3>2
  <2> QED
    BY <2>2, <2>3, <2>4, VerifiedKept
<1>3. ASSUME NEW v \in Visitor, PutAccount(v) PROVE VerifiedInv'
  <2>1. PICK r, q : r = visit[v] /\ q = visit'[v]
    OBVIOUS
  <2>2. AccountStored(v, r, q)
    BY <1>3, <2>1, PutAccountMove
  <2>3. /\ accounts' = [accounts EXCEPT ![r.m] = r.rec] /\ logins' = logins /\ haunted \subseteq haunted'
        /\ staleAccounts \subseteq staleAccounts' /\ (accounts[r.m] # r.base => r.m \in staleAccounts')
    BY <1>3, <2>1 DEF PutAccount
  <2>4. /\ accounts \in [Member -> MemberRecord] /\ r.m \in Member /\ KeptOfMember(r)
        /\ visit' = [visit EXCEPT ![v] = q]
        /\ Entering(q) => q.m = r.m /\ r.rec.verified = TRUE
    BY <2>2 DEF AccountStored, MembersShape, MemberStoreOK, MembersTypeOK
  <2>5. visit'[v] = q /\ \A w \in Visitor : w # v => visit'[w] = visit[w]
    BY <2>4, OthersStay
  <2>6. ASSUME NEW m \in Member, Vouched(m) PROVE Vouched(m)'
    <3>1. CASE m # r.m
      BY <2>3, <2>4, <2>6, <3>1 DEF Vouched
    <3>2. CASE m = r.m /\ (accounts[m] # r.base \/ m \in staleAccounts \cup haunted)
      BY <2>3, <3>2 DEF Vouched
    <3>3. CASE m = r.m /\ accounts[m] = r.base /\ accounts[m].verified = TRUE
      <4>1. r.op # "register"
        <5>1. NoMember.verified = FALSE
          BY DEF NoMember
        <5> QED
          BY <2>4, <3>3, <5>1 DEF KeptOfMember
      <4>2. r.rec.verified = TRUE
        BY <2>4, <3>3, <4>1 DEF KeptOfMember
      <4>3. accounts'[m] = r.rec
        BY <2>3, <2>4, <3>3
      <4> QED
        BY <4>2, <4>3 DEF Vouched
    <3> QED
      BY <2>6, <3>1, <3>2, <3>3 DEF Vouched
  <2>7. ASSUME NEW w \in Visitor, PastProof(visit'[w])
        PROVE  \/ PastProof(visit[w]) /\ visit'[w].m = visit[w].m
               \/ visit'[w].m \in Member /\ Vouched(visit[w].m)'
    <3>1. CASE w # v
      BY <2>5, <2>7, <3>1
    <3>2. CASE w = v
      <4>1. q.m = r.m /\ r.rec.verified = TRUE
        BY <2>4, <2>5, <2>7, <3>2 DEF PastProof
      <4>2. accounts'[r.m] = r.rec
        BY <2>3, <2>4
      <4>3. Vouched(visit[w].m)'
        BY <2>5, <3>2, <4>1, <4>2 DEF Vouched
      <4> QED
        BY <2>4, <2>5, <3>2, <4>1, <4>3
    <3> QED
      BY <3>1, <3>2
  <2> QED
    BY <2>3, <2>6, <2>7, VerifiedKept
<1>4. ASSUME NEW v \in Visitor, IssueToken(v) PROVE VerifiedInv'
  <2>1. PICK r, q : r = visit[v] /\ q = visit'[v]
    OBVIOUS
  <2>2. TokenIssued(v, r, q)
    BY <1>4, <2>1, IssueTokenMove
  <2>3. visit' = [visit EXCEPT ![v] = q] /\ ~PastProof(q)
    BY <2>2 DEF TokenIssued, PastProof
  <2>4. UNCHANGED <<accounts, staleAccounts, logins>> /\ haunted \subseteq haunted'
    BY <1>4 DEF IssueToken
  <2> QED
    BY <1>s, <2>3, <2>4
<1>5. ASSUME NEW v \in Visitor, UseToken(v) PROVE VerifiedInv'
  <2>1. PICK r, q : r = visit[v] /\ q = visit'[v]
    OBVIOUS
  <2>2. TokenUsed(v, r, q)
    BY <1>5, <2>1, UseTokenMove
  <2>3. visit' = [visit EXCEPT ![v] = q] /\ ~PastProof(q)
    BY <2>2 DEF TokenUsed, PastProof
  <2>4. UNCHANGED <<accounts, staleAccounts, logins>> /\ haunted \subseteq haunted'
    BY <1>5 DEF UseToken
  <2> QED
    BY <1>s, <2>3, <2>4
<1>6. ASSUME NEW v \in Visitor, OpenSession(v) PROVE VerifiedInv'
  <2>1. PICK r, n : r = visit[v] /\ n = opened + 1
    OBVIOUS
  <2>2. SessionOpened(v, r)
    BY <1>6, <2>1, OpenSessionMove
  <2>3. /\ PastProof(r) /\ r.m \in Member /\ visit' = [visit EXCEPT ![v] = NoVisit]
        /\ logins'[n].member = r.m
        /\ \A k \in Login : k # n => logins'[k] = logins[k]
    BY <2>1, <2>2 DEF SessionOpened, PastProof
  <2>4. UNCHANGED <<accounts, staleAccounts>> /\ haunted \subseteq haunted'
    BY <1>6 DEF OpenSession
  <2>5. \A m : Vouched(m) => Vouched(m)'
    BY <2>4 DEF Vouched
  <2>6. visit'[v] = NoVisit /\ \A w \in Visitor : w # v => visit'[w] = visit[w]
    BY <2>3, OthersStay
  <2>7. ASSUME NEW l \in Login, logins'[l] # NoLogin PROVE Vouched(logins[l].member)'
    <3>1. PICK m : m = logins'[l].member
      OBVIOUS
    <3>2. Vouched(m)
      BY <2>1, <2>3, <2>7, <3>1 DEF VerifiedInv
    <3>3. Vouched(m)'
      BY <2>5, <3>2
    <3> QED
      BY <3>1, <3>3 DEF Vouched
  <2>8. ASSUME NEW w \in Visitor, PastProof(visit'[w]) PROVE Vouched(visit[w].m)'
    <3>1. visit'[w] = visit[w]
      BY <2>6, <2>8, NothingGoesOn DEF PastProof
    <3>2. PICK m : m = visit[w].m
      OBVIOUS
    <3>3. Vouched(m)'
      BY <2>5, <2>8, <3>1, <3>2 DEF VerifiedInv
    <3> QED
      BY <3>1, <3>2, <3>3 DEF Vouched
  <2> QED
    BY <2>7, <2>8 DEF VerifiedInv, PastProof, Entering, Vouched
<1>7. ASSUME NEW v \in Visitor, NEW l \in Login, DropOneLogin(v, l) PROVE VerifiedInv'
  <2>1. PICK r, q : r = visit[v] /\ q = visit'[v]
    OBVIOUS
  <2>2. SessionDropped(v, l, r, q)
    BY <1>7, <2>1, DropOneLoginMove
  <2>3. /\ visit' = [visit EXCEPT ![v] = q] /\ (PastProof(q) => PastProof(r) /\ q.m = r.m)
        /\ \A k \in Login : logins'[k] = logins[k] \/ logins'[k] = NoLogin
    BY <2>2 DEF SessionDropped, PastProof, Entering
  <2>4. UNCHANGED <<accounts, staleAccounts>> /\ haunted \subseteq haunted'
    BY <1>7 DEF DropOneLogin, memberHistory
  <2> QED
    BY <1>s, <2>1, <2>3, <2>4
<1>8. ASSUME NEW v \in Visitor, NEW k \in TokenId, DropOneToken(v, k) PROVE VerifiedInv'
  <2>1. PICK r, q : r = visit[v] /\ q = visit'[v]
    OBVIOUS
  <2>2. TokenDropped(v, k, r, q)
    BY <1>8, <2>1, DropOneTokenMove
  <2>3. visit' = [visit EXCEPT ![v] = q] /\ ~PastProof(q)
    BY <2>2 DEF TokenDropped, PastProof, Entering
  <2>4. UNCHANGED <<accounts, staleAccounts, logins>> /\ haunted \subseteq haunted'
    BY <1>8 DEF DropOneToken
  <2> QED
    BY <1>s, <2>3, <2>4
<1>9. ASSUME NEW v \in Visitor, EndDeletion(v) PROVE VerifiedInv'
  <2>1. PICK r : r = visit[v]
    OBVIOUS
  <2>2. DeletionEnded(v, r)
    BY <1>9, <2>1, EndDeletionMove
  <2>3. /\ Deleting(r) /\ r.at = "dropTokens" /\ r.m \in Member
        /\ visit' = [visit EXCEPT ![v] = NoVisit]
        /\ \A m \in Member : m # r.m => accounts'[m] = accounts[m]
    BY <2>2 DEF DeletionEnded
  <2>4. UNCHANGED <<haunted, logins, staleAccounts>>
    BY <1>9 DEF EndDeletion
  <2>5. visit'[v] = NoVisit /\ \A w \in Visitor : w # v => visit'[w] = visit[w]
    BY <2>3, OthersStay
  <2>6. ASSUME NEW m \in Member, Vouched(m), m = r.m => m \in haunted PROVE Vouched(m)'
    BY <2>3, <2>4, <2>6 DEF Vouched
  <2>7. ASSUME NEW l \in Login, logins[l] # NoLogin PROVE Vouched(logins[l].member)'
    <3>1. PICK m : m = logins[l].member
      OBVIOUS
    <3>2. m \in Member /\ Vouched(m)
      BY <2>7, <3>1 DEF VerifiedInv, MembersShape, MemberStoreOK
    <3>3. ASSUME m = r.m, m \notin haunted PROVE FALSE
      <4>1. Cleared(r)
        BY <2>1, <2>3, <3>3 DEF DeleteInv, Clearing
      <4>2. l \in LoginsOf(r.m)
        BY <3>1, <3>3 DEF LoginsOf
      <4> QED
        BY <2>3, <4>1, <4>2 DEF Cleared
    <3>4. Vouched(m)'
      BY <2>6, <3>2, <3>3
    <3> QED
      BY <2>4, <3>1, <3>4 DEF Vouched
  <2>8. ASSUME NEW w \in Visitor, PastProof(visit'[w]) PROVE Vouched(visit[w].m)'
    <3>1. PICK x : x = visit[w]
      OBVIOUS
    <3>2. visit'[w] = x /\ w # v /\ PastProof(x)
      BY <2>5, <2>8, <3>1, NothingGoesOn DEF PastProof
    <3>3. x \in VisitRecord /\ VisitOK(x)
      BY <3>1 DEF MembersShape
    <3>4. x.m \in Member /\ Vouched(x.m)
      BY <3>1, <3>2, <3>3 DEF VerifiedInv, VisitOK, PastProof, Entering
    <3>5. x.m = r.m => x.m \in haunted
      BY <2>1, <2>3, <3>1, <3>2 DEF DeleteInv, Marked, PastProof
    <3>6. Vouched(x.m)'
      BY <2>6, <3>4, <3>5
    <3> QED
      BY <3>2, <3>6 DEF Vouched
  <2> QED
    BY <2>4, <2>7, <2>8 DEF VerifiedInv, PastProof, Entering, Vouched
<1> QED
  BY <1>1, <1>2, <1>3, <1>4, <1>5, <1>6, <1>7, <1>8, <1>9, MembersMoves

-----------------------------------------------------------------------------
\* The members: all of it together.

LEMMA NextMembersShape ==
    ASSUME MembersShape, MembersMove
    PROVE  MembersShape'
<1>1. ASSUME NEW v \in Visitor, PutAccount(v) PROVE MembersShape'
  BY <1>1, PutAccountMove
<1>2. ASSUME NEW v \in Visitor, IssueToken(v) PROVE MembersShape'
  BY <1>2, IssueTokenMove
<1>3. ASSUME NEW v \in Visitor, UseToken(v) PROVE MembersShape'
  BY <1>3, UseTokenMove
<1>4. ASSUME NEW v \in Visitor, OpenSession(v) PROVE MembersShape'
  BY <1>4, OpenSessionMove
<1>5. ASSUME NEW v \in Visitor, NEW l \in Login, DropOneLogin(v, l) PROVE MembersShape'
  BY <1>5, DropOneLoginMove
<1>6. ASSUME NEW v \in Visitor, NEW k \in TokenId, DropOneToken(v, k) PROVE MembersShape'
  BY <1>6, DropOneTokenMove
<1>7. ASSUME NEW v \in Visitor, EndDeletion(v) PROVE MembersShape'
  BY <1>7, EndDeletionMove
<1> QED
  BY <1>1, <1>2, <1>3, <1>4, <1>5, <1>6, <1>7, IdleShape, MembersMoves

MembersInv == MembersShape /\ UseInv /\ BanInv /\ DeleteInv /\ VerifiedInv

LEMMA InitMembers == MembersInit => MembersInv
BY InitMembersShape, InitUse, InitBan, InitDelete, InitVerified DEF MembersInv

LEMMA MembersStep ==
    ASSUME MembersInv, MembersMove
    PROVE  MembersInv'
BY NextMembersShape, UseStep, BanStep, DeleteStep, VerifiedStep DEF MembersInv

\* What the inductive invariant says of the properties that the runs check.
LEMMA MembersHold ==
    ASSUME MembersInv
    PROVE  MembersTypeOK /\ TokensSingleUse /\ BansEndSessions /\ DeletionIsComplete /\ SessionsAreVerified
<1>1. MembersTypeOK
  BY DEF MembersInv, MembersShape, MemberStoreOK
<1>2. TokensSingleUse
  <2>1. ASSUME NEW k \in TokenId, k \notin contended PROVE uses[k] <= 1
    <3>1. uses[k] \in {0, 1}
      BY <2>1 DEF MembersInv, UseInv
    <3> QED
      BY <3>1
  <2> QED
    BY <2>1 DEF TokensSingleUse
<1>3. BansEndSessions
  BY DEF MembersInv, BanInv, BansEndSessions, Banning
<1>4. DeletionIsComplete
  BY DEF MembersInv, DeleteInv
<1>5. SessionsAreVerified
  <2>1. ASSUME NEW l \in Login, logins[l] # NoLogin, logins[l].member \notin staleAccounts \cup haunted
        PROVE  accounts[logins[l].member].verified
    <3>1. accounts[logins[l].member].verified = TRUE
      BY <2>1 DEF MembersInv, VerifiedInv, Vouched
    <3> QED
      BY <3>1
  <2> QED
    BY <2>1 DEF SessionsAreVerified
<1> QED
  BY <1>1, <1>2, <1>3, <1>4, <1>5

LEMMA AuthHolds ==
    ASSUME AuthInv
    PROVE  /\ AuthTypeOK /\ EmailsUnique /\ EnabledHasSeed
           /\ SecondFactorNeeded /\ CodesSingleUse /\ PrivilegeChangeEndsSessions
BY ShapeIsTyped, FactorHolds, EndHolds DEF AuthInv, SeedInv, EmailInv, CodeInv

-----------------------------------------------------------------------------
\* Both sides together: a step of one is a passing of time, or nothing, to the other.

LEMMA MembersKeepTime ==
    ASSUME MembersNext
    PROVE  now' = now \/ PassTime
<1>1. ASSUME NEW v \in Visitor, MemberCalls(v) PROVE now' = now
  BY <1>1 DEF MemberCalls, Register, Authenticate, RequestMail, FindToken, EndSession, UpdateProfile,
              SetMemberStatus, DeleteMember, Visit
<1>2. ASSUME NEW v \in Visitor, MemberStep(v) PROVE now' = now
  <2>1. CASE PutAccount(v) \/ IssueToken(v) \/ Mail(v) \/ IssueFor(v) \/ UseToken(v)
    BY <2>1 DEF PutAccount, IssueToken, Mail, IssueFor, UseToken, Leave, Then
  <2>2. CASE VerifyEmail(v) \/ VerifyMagicLink(v) \/ \E s \in Secret : ConfirmPasswordReset(v, s)
    <3>1. ASSUME NEW q, Then(v, q) PROVE now' = now
      BY <3>1 DEF Then
    <3>2. CASE VerifyEmail(v) \/ \E s \in Secret : ConfirmPasswordReset(v, s)
      BY <3>1, <3>2 DEF VerifyEmail, ConfirmPasswordReset, Leave
    <3>3. CASE VerifyMagicLink(v)
      <4>1. CASE ~Registered(visit[v].m) \/ accounts[visit[v].m].status = "suspended"
        BY <3>1, <3>3, <4>1 DEF VerifyMagicLink, Leave
      <4>2. CASE /\ Registered(visit[v].m) /\ accounts[visit[v].m].status # "suspended"
                 /\ accounts[visit[v].m].verified
        BY <3>1, <3>3, <4>2 DEF VerifyMagicLink
      <4>3. CASE /\ Registered(visit[v].m) /\ accounts[visit[v].m].status # "suspended"
                 /\ ~accounts[visit[v].m].verified
        BY <3>1, <3>3, <4>3 DEF VerifyMagicLink
      <4> QED
        BY <4>1, <4>2, <4>3
    <3> QED
      BY <2>2, <3>2, <3>3
  <2>3. CASE \/ PruneExpiredSessions(v) \/ RevokeAllSessions(v) \/ DropLogin(v) \/ OpenSession(v)
             \/ DeleteMemberTokens(v) \/ DropToken(v)
    BY <2>3 DEF PruneExpiredSessions, RevokeAllSessions, DropLogin, OpenSession, DeleteMemberTokens,
                DropToken, Leave, Then
  <2> QED
    BY <1>2, <2>1, <2>2, <2>3 DEF MemberStep
<1> QED
  BY <1>1, <1>2 DEF MembersNext, MembersTime

PersonsInv == AuthInv /\ MembersInv

LEMMA PersonsInvariant == PersonsSpec => []PersonsInv
<1>1. PersonsInit => PersonsInv
  BY AuthInvInit, InitMembers DEF PersonsInit, PersonsInv
<1>2. ASSUME PersonsInv, [PersonsNext]_<<about, authVars, memberVars, privacyVars>>
      PROVE  PersonsInv'
  <2>1. CASE UNCHANGED <<about, authVars, memberVars, privacyVars>>
    <3>1. [AuthNext]_authVars /\ [MembersNext]_memberVars
      BY <2>1
    <3> QED
      BY <1>2, <3>1, AuthInvNext, MembersStep DEF PersonsInv, MembersMove
  <2>2. CASE AuthNext /\ RestOfMembers
    <3>1. AuthInv'
      BY <1>2, <2>2, AuthInvNext DEF PersonsInv
    <3>2. Idle
      <4>1. now' \in Nat
        BY <3>1 DEF AuthInv, AuthShape
      <4> QED
        BY <2>2, <4>1 DEF RestOfMembers, Idle
    <3> QED
      BY <1>2, <3>1, <3>2, MembersStep DEF PersonsInv, MembersMove
  <2>3. CASE MembersNext /\ RestOfAuth
    <3>1. [AuthNext]_authVars
      <4>1. CASE now' = now
        BY <2>3, <4>1 DEF RestOfAuth, authVars
      <4>2. CASE PassTime
        BY <2>3, <4>2 DEF RestOfAuth, AuthTime, AuthNext
      <4> QED
        BY <2>3, <4>1, <4>2, MembersKeepTime
    <3> QED
      BY <1>2, <2>3, <3>1, AuthInvNext, MembersStep DEF PersonsInv, MembersMove
  <2>4. CASE RestOfMembers /\ RestOfAuth /\ UNCHANGED now
    <3>1. [AuthNext]_authVars /\ [MembersNext]_memberVars
      BY <2>4 DEF RestOfMembers, RestOfAuth, authVars, memberVars
    <3> QED
      BY <1>2, <3>1, AuthInvNext, MembersStep DEF PersonsInv, MembersMove
  <2> QED
    BY <1>2, <2>1, <2>2, <2>3, <2>4 DEF PersonsNext
<1> QED
  BY <1>1, <1>2, PTL DEF PersonsSpec

\* Whatever calls of the Studio and of the site interleave, both stores hold records
\* of the shape the code writes, an email names one user ("email already in use",
\* service.ts), unless two creations had looked it up at once, and an enabled second
\* factor has its seed.
THEOREM StoresAreConsistent == PersonsSpec => []RecordsConsistent
<1>1. PersonsInv => RecordsConsistent
  BY AuthHolds, MembersHold DEF PersonsInv, RecordsConsistent
<1> QED
  BY <1>1, PersonsInvariant, PTL

\* A session is what was proved for it: the code where the login met a second factor
\* (service.ts), the mailbox where it is a member's (members.ts); and a recovery code
\* and the link of a mail work once.
THEOREM SignInsEarned == PersonsSpec => []SignInsAreEarned
<1>1. PersonsInv => SignInsAreEarned
  BY AuthHolds, MembersHold DEF PersonsInv, SignInsAreEarned
<1> QED
  BY <1>1, PersonsInvariant, PTL

\* "A privilege change must take effect immediately" (service.ts:670), "a ban must take
\* effect immediately" (members.ts:476), and a deletion takes the "account, sessions, and
\* tokens" (members.ts:153) of a member for whom nothing else was under way.
THEOREM RevocationsTakeEffect == PersonsSpec => []RevocationsHold
<1>1. PersonsInv => RevocationsHold
  BY AuthHolds, MembersHold DEF PersonsInv, RevocationsHold
<1> QED
  BY <1>1, PersonsInvariant, PTL

=============================================================================
