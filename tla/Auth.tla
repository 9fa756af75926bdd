-------------------------------- MODULE Auth --------------------------------
(***************************************************************************)
(* The accounts of the Studio (packages/core/src/auth/service.ts): users,  *)
(* sessions, the second factor, invitations.                               *)
(*                                                                         *)
(* A call reads a record, awaits (a password hash takes long) and writes   *)
(* the whole record back; nothing locks a record.  A call that its input   *)
(* checks refuse changes nothing and is left out, as are audit entries.    *)
(* Passwords, recovery codes and tokens are values that nobody guesses; a  *)
(* TOTP code is right or wrong, and right only against a stored seed.      *)
(***************************************************************************)
EXTENDS Lockout

CONSTANTS
    Actor,          \* concurrent calls
    User, Email, Password, Code, Invite,
    None,
    SessionTime, ChallengeTime, InviteTime,
    MaxCodeTries,
    MaxCalls,       \* bound: calls made
    MaxSessions,    \* bound: sessions issued
    Worlds          \* bound: calls allowed together, and the users they start from

ASSUME AuthConstants ==
    /\ None \notin User \cup Email \cup Password \cup Invite
    /\ SessionTime \in Nat /\ ChallengeTime \in Nat /\ InviteTime \in Nat
    /\ MaxCodeTries \in Nat /\ MaxCalls \in Nat /\ MaxSessions \in Nat

VARIABLES
    menu,           \* the calls allowed
    users, sessions, invites,
    seeds,          \* users with a TOTP seed in the vault
    minted,         \* sessions issued so far
    batches,        \* sets of recovery codes generated so far
    req,            \* each actor's call and its locals
    calls,
    staleUsers, staleSessions,  \* history: records written from an outdated copy
    raced,          \* history: the owners changed under an update
    crowded,        \* history: emails for which two creations overlapped
    unseeded,       \* history: users enabled while a disabling dropped their seed
    spent,          \* history: recovery codes accepted
    factors,        \* history: what each session was issued for
    changes, born,  \* history: privilege changes of each user, and before each session
    fails, lastFail \* history: failed passwords since the last right one

authStore == <<users, sessions, invites, seeds, minted, batches>>
authHistory == <<staleUsers, staleSessions, raced, crowded, unseeded, spent, factors,
                 changes, born, fails, lastFail>>
authVars == <<now, menu, authStore, req, calls, authHistory>>

Token == 1..MaxSessions
Roles == {"owner", "editor"}

NoUser == [email |-> None, password |-> None, role |-> "none", status |-> "none",
           mfa |-> FALSE, codes |-> {}, failed |-> 0, lockedUntil |-> 0, mustChange |-> FALSE]
NoSession == [user |-> None, pending |-> FALSE, tries |-> 0, expires |-> 0, revoked |-> FALSE]
NoInvite == [email |-> None, role |-> "none", expires |-> 0, consumed |-> FALSE]
NoRequest == [op |-> "none", at |-> "none", t |-> 0, u |-> None, base |-> NoUser, rec |-> NoUser,
              owners |-> {}, s |-> 0, baseSession |-> NoSession, session |-> NoSession,
              code |-> <<0, None>>, i |-> None, invite |-> NoInvite, todo |-> {}]

Exists(u) == users[u] # NoUser
ActiveOwners == {u \in User : users[u].status = "active" /\ users[u].role = "owner"}
SessionsOf(u) == {s \in Token : sessions[s].user = u}

UserRecord == [email : Email \cup {None}, password : Password \cup {None},
               role : Roles \cup {"none"}, status : {"active", "disabled", "none"}, mfa : BOOLEAN,
               codes : SUBSET ((0..MaxCalls) \X Code), failed : Nat, lockedUntil : Nat, mustChange : BOOLEAN]
SessionRecord == [user : User \cup {None}, pending : BOOLEAN, tries : 0..MaxCodeTries,
                  expires : Nat, revoked : BOOLEAN]
InviteRecord == [email : Email \cup {None}, role : Roles \cup {"none"}, expires : Nat, consumed : BOOLEAN]

\* The users a site starts from: an active owner is one of them, every email is
\* of one user, nobody has failed to log in, recovery codes are of batch 0.
ASSUME WorldsConstants ==
    \A w \in Worlds :
        /\ w.users \in [User -> UserRecord]
        /\ \E u \in User : w.users[u].status = "active" /\ w.users[u].role = "owner"
        /\ \A u \in User : /\ w.users[u].status = "none" => w.users[u] = NoUser
                           /\ w.users[u].failed = 0 /\ w.users[u].lockedUntil = 0
                           /\ w.users[u].codes \subseteq {0} \X Code
        /\ \A u, v \in User : w.users[u].email = w.users[v].email
                              => u = v \/ w.users[u].status = "none"

AuthTypeOK ==
    /\ users \in [User -> UserRecord]
    /\ sessions \in [Token -> SessionRecord]
    /\ invites \in [Invite -> InviteRecord]
    /\ seeds \subseteq User
    /\ minted \in 0..MaxSessions /\ batches \in 0..MaxCalls /\ calls \in 0..MaxCalls
    /\ \A s \in Token : s > minted => sessions[s] = NoSession

AuthInit ==
    /\ now = 0
    /\ \E w \in Worlds : /\ menu = w.ops /\ users = w.users
                         /\ seeds = {u \in User : w.users[u].mfa}
    /\ sessions = [s \in Token |-> NoSession]
    /\ invites = [i \in Invite |-> NoInvite]
    /\ minted = 0 /\ batches = 0 /\ calls = 0
    /\ req = [a \in Actor |-> NoRequest]
    /\ staleUsers = {} /\ staleSessions = {} /\ raced = FALSE /\ crowded = {} /\ unseeded = {}
    /\ spent = {} /\ factors = [s \in Token |-> {}]
    /\ changes = [u \in User |-> 0] /\ born = [s \in Token |-> 0]
    /\ fails = [u \in User |-> 0] /\ lastFail = [u \in User |-> 0]

-----------------------------------------------------------------------------
Ask(a, r) ==
    /\ req[a] = NoRequest /\ r.op \in menu /\ calls < MaxCalls
    /\ calls' = calls + 1
    /\ req' = [req EXCEPT ![a] = r]
    /\ UNCHANGED <<now, menu>>

Go(a, r) == req' = [req EXCEPT ![a] = r] /\ UNCHANGED <<now, menu, calls>>
End(a) == Go(a, NoRequest)

\* A call that read u's record as it is now and will store rec.
Storing(op, u, rec) ==
    [NoRequest EXCEPT !.op = op, !.at = "putUser", !.t = now, !.u = u, !.base = users[u], !.rec = rec]

-----------------------------------------------------------------------------
\* authenticate.  The outcome is decided by the record as it was read; a locked
\* account, an unknown one and a disabled one are refused without a trace.

AuthenticateRead(a, u, password) ==
    /\ Exists(u) /\ ~IsLocked(users[u], now) /\ users[u].status # "disabled"
    /\ IF users[u].password = password
       THEN Ask(a, Storing("login", u, Unlocked(users[u])))
       ELSE Ask(a, Storing("login", u, CountFailure(users[u], now)))
    /\ UNCHANGED <<authStore, authHistory>>

Refused(r) == r.op = "login" /\ r.rec.failed > 0

PruneUserSessions(a) ==
    /\ req[a].at = "prune"
    /\ Go(a, [req[a] EXCEPT !.at = "drop",
                 !.todo = {s \in SessionsOf(req[a].u) : sessions[s].revoked \/ sessions[s].expires <= now}])
    /\ UNCHANGED <<authStore, authHistory>>

\* Mutant: only the sessions that have expired are dropped.
RevokeOnlyExpired(a) ==
    /\ req[a].at = "revoke"
    /\ Go(a, [req[a] EXCEPT !.at = "drop",
                 !.todo = {s \in SessionsOf(req[a].u) : sessions[s].expires <= now}])
    /\ UNCHANGED <<authStore, authHistory>>

RevokeUserSessions(a) ==
    /\ req[a].at = "revoke"
    /\ Go(a, [req[a] EXCEPT !.at = "drop", !.todo = SessionsOf(req[a].u)])
    /\ UNCHANGED <<authStore, authHistory>>

DropSession(a) ==
    /\ req[a].at = "drop"
    /\ \/ \E s \in req[a].todo :
             /\ sessions' = [sessions EXCEPT ![s] = NoSession]
             /\ Go(a, [req[a] EXCEPT !.todo = @ \ {s}])
       \/ /\ req[a].todo = {}
          /\ IF req[a].op = "login" THEN Go(a, [req[a] EXCEPT !.at = "issue"]) ELSE End(a)
          /\ UNCHANGED sessions
    /\ UNCHANGED <<users, invites, seeds, minted, batches, authHistory>>

\* Mutant: a password is enough.
IssueFull(a) ==
    /\ req[a].at = "issue" /\ minted < MaxSessions
    /\ minted' = minted + 1
    /\ sessions' = [sessions EXCEPT ![minted + 1] =
                      [user |-> req[a].u, pending |-> FALSE, tries |-> 0,
                       expires |-> now + SessionTime, revoked |-> FALSE]]
    /\ factors' = [factors EXCEPT ![minted + 1] = IF req[a].rec.mfa THEN {"mfa"} ELSE {}]
    /\ born' = [born EXCEPT ![minted + 1] = changes[req[a].u]]
    /\ End(a)
    /\ UNCHANGED <<users, invites, seeds, batches, staleUsers, staleSessions, raced, crowded,
                   unseeded, spent, changes, fails, lastFail>>

\* A session, or a short-lived challenge when the record read has a second factor.
IssueSession(a) ==
    /\ req[a].at = "issue" /\ minted < MaxSessions
    /\ minted' = minted + 1
    /\ LET mfa == req[a].rec.mfa IN
         /\ sessions' = [sessions EXCEPT ![minted + 1] =
                           [user |-> req[a].u, pending |-> mfa, tries |-> 0, revoked |-> FALSE,
                            expires |-> now + IF mfa THEN ChallengeTime ELSE SessionTime]]
         /\ factors' = [factors EXCEPT ![minted + 1] = IF mfa THEN {"mfa"} ELSE {}]
    /\ born' = [born EXCEPT ![minted + 1] = changes[req[a].u]]
    /\ End(a)
    /\ UNCHANGED <<users, invites, seeds, batches, staleUsers, staleSessions, raced, crowded,
                   unseeded, spent, changes, fails, lastFail>>

-----------------------------------------------------------------------------
\* Every record is stored by one of these two.

AfterPutUser(r) ==
    CASE Refused(r) -> NoRequest
      [] r.op = "login" /\ ~Refused(r) -> [r EXCEPT !.at = "prune"]
      [] r.op = "verify" -> [r EXCEPT !.at = "putSession"]
      [] r.op = "disableMfa" -> [r EXCEPT !.at = "dropSeed"]
      [] r.op = "update" /\ r.rec # r.base -> [r EXCEPT !.at = "revoke"]
      [] r.op = "accept" -> [r EXCEPT !.at = "consume"]
      [] OTHER -> NoRequest

PutUser(a) ==
    /\ req[a].at = "putUser"
    /\ LET r == req[a]
           u == r.u
           outdated == users[u] # r.base
       IN
       /\ users' = [users EXCEPT ![u] = r.rec]
       /\ staleUsers' = IF outdated THEN staleUsers \cup {u} ELSE staleUsers
       /\ raced' = (raced \/ outdated \/ (r.op = "update" /\ r.owners # ActiveOwners))
       /\ unseeded' = IF r.rec.mfa /\ r.op = "enableMfa" /\ \E b \in Actor : req[b].u = u /\ req[b].at = "dropSeed"
                      THEN unseeded \cup {u} ELSE unseeded
       /\ changes' = IF r.op = "update" /\ r.rec # r.base
                     THEN [changes EXCEPT ![u] = @ + 1] ELSE changes
       /\ fails' = [fails EXCEPT ![u] = IF Refused(r) THEN @ + 1 ELSE IF r.op = "login" THEN 0 ELSE @]
       /\ lastFail' = [lastFail EXCEPT ![u] = IF Refused(r) THEN r.t ELSE @]
       /\ Go(a, AfterPutUser(r))
    /\ UNCHANGED <<sessions, invites, seeds, minted, batches, staleSessions, crowded, spent, factors, born>>

PutSession(a) ==
    /\ req[a].at = "putSession"
    /\ LET r == req[a] IN
         /\ sessions' = [sessions EXCEPT ![r.s] = r.session]
         /\ staleSessions' = IF sessions[r.s] # r.baseSession THEN staleSessions \cup {r.s} ELSE staleSessions
         /\ spent' = IF r.code[2] # None THEN spent \cup {<<r.u, r.code>>} ELSE spent
         /\ factors' = IF r.op = "verify" /\ ~r.session.pending
                       THEN [factors EXCEPT ![r.s] = @ \cup {"code"}] ELSE factors
    /\ End(a)
    /\ UNCHANGED <<users, invites, seeds, minted, batches, staleUsers, raced, crowded, unseeded,
                   changes, born, fails, lastFail>>

-----------------------------------------------------------------------------
\* verifyMfaLogin: the challenge, then its user, then the code.

VerifyRead(a, s) ==
    /\ sessions[s].pending /\ ~sessions[s].revoked /\ sessions[s].expires > now
    /\ Ask(a, [NoRequest EXCEPT !.op = "verify", !.at = "account", !.t = now, !.u = sessions[s].user,
                  !.s = s, !.baseSession = sessions[s], !.session = sessions[s]])
    /\ UNCHANGED <<authStore, authHistory>>

VerifyAccount(a) ==
    /\ req[a].at = "account"
    /\ LET r == req[a]
           account == users[r.u]
       IN IF account.status = "disabled" \/ r.session.tries >= MaxCodeTries
          THEN /\ sessions' = [sessions EXCEPT ![r.s] = NoSession]
               /\ End(a)
          ELSE /\ Go(a, [r EXCEPT !.at = "code", !.base = account, !.rec = account])
               /\ UNCHANGED sessions
    /\ UNCHANGED <<users, invites, seeds, minted, batches, authHistory>>

Promoted(r) == [r.session EXCEPT !.pending = FALSE, !.tries = 0, !.expires = r.t + SessionTime]

VerifyWrong(a) ==
    /\ req[a].at = "code"
    /\ Go(a, [req[a] EXCEPT !.at = "putSession", !.session.tries = @ + 1])
    /\ UNCHANGED <<authStore, authHistory>>

VerifyTotp(a) ==
    /\ req[a].at = "code" /\ req[a].u \in seeds
    /\ Go(a, [req[a] EXCEPT !.at = "putSession", !.session = Promoted(req[a])])
    /\ UNCHANGED <<authStore, authHistory>>

\* Mutant: the record without the code is not stored.
VerifyRecoveryKeepsCode(a, code) ==
    /\ req[a].at = "code" /\ code \in req[a].rec.codes
    /\ Go(a, [req[a] EXCEPT !.at = "putSession", !.code = code, !.session = Promoted(req[a])])
    /\ UNCHANGED <<authStore, authHistory>>

\* The record without the code is stored before the session.
VerifyRecovery(a, code) ==
    /\ req[a].at = "code" /\ code \in req[a].rec.codes
    /\ Go(a, [req[a] EXCEPT !.at = "putUser", !.code = code, !.rec.codes = @ \ {code},
                            !.session = Promoted(req[a])])
    /\ UNCHANGED <<authStore, authHistory>>

-----------------------------------------------------------------------------
\* The second factor: begin stores a seed, confirm enables it with a right code
\* and new recovery codes, disable stores the record and then drops the seed.

BeginMfaEnrollment(a, u) ==
    /\ Exists(u)
    /\ Ask(a, [NoRequest EXCEPT !.op = "beginMfa", !.at = "setSeed", !.u = u])
    /\ UNCHANGED <<authStore, authHistory>>

SetSeed(a) ==
    /\ req[a].at = "setSeed"
    /\ seeds' = seeds \cup {req[a].u}
    /\ End(a)
    /\ UNCHANGED <<users, sessions, invites, minted, batches, authHistory>>

ConfirmMfaRead(a, u) ==
    /\ Exists(u)
    /\ Ask(a, [Storing("enableMfa", u, users[u]) EXCEPT !.at = "confirm"])
    /\ UNCHANGED <<authStore, authHistory>>

\* Mutant: the code is checked against no seed.
ConfirmMfaBlind(a) ==
    /\ req[a].at = "confirm"
    /\ batches' = batches + 1
    /\ Go(a, [req[a] EXCEPT !.at = "putUser",
                !.rec.mfa = TRUE, !.rec.codes = {batches + 1} \X Code])
    /\ UNCHANGED <<users, sessions, invites, seeds, minted, authHistory>>

ConfirmMfa(a) ==
    /\ req[a].at = "confirm"
    /\ IF req[a].u \in seeds
       THEN /\ batches' = batches + 1
            /\ Go(a, [req[a] EXCEPT !.at = "putUser",
                        !.rec.mfa = TRUE, !.rec.codes = {batches + 1} \X Code])
       ELSE End(a) /\ UNCHANGED batches
    /\ UNCHANGED <<users, sessions, invites, seeds, minted, authHistory>>

DisableMfa(a, u) ==
    /\ users[u].mfa /\ (u \in seeds \/ users[u].codes # {})
    /\ Ask(a, Storing("disableMfa", u, [users[u] EXCEPT !.mfa = FALSE, !.codes = {}]))
    /\ UNCHANGED <<authStore, authHistory>>

DropSeed(a) ==
    /\ req[a].at = "dropSeed"
    /\ seeds' = seeds \ {req[a].u}
    /\ unseeded' = IF \E b \in Actor : req[b].op = "enableMfa" /\ req[b].u = req[a].u /\ req[b].at = "putUser"
                   THEN unseeded \cup {req[a].u} ELSE unseeded
    /\ End(a)
    /\ UNCHANGED <<users, sessions, invites, minted, batches, staleUsers, staleSessions, raced,
                   crowded, spent, factors, changes, born, fails, lastFail>>

-----------------------------------------------------------------------------
Logout(a, s) ==
    /\ sessions[s] # NoSession
    /\ Ask(a, [NoRequest EXCEPT !.op = "logout", !.at = "putSession", !.s = s,
                  !.baseSession = sessions[s], !.session = [sessions[s] EXCEPT !.revoked = TRUE]])
    /\ UNCHANGED <<authStore, authHistory>>

\* Mutant: the guard looks at the status only.
IsLastActiveOwnerByStatus(u) == users[u].status = "active" /\ Cardinality({v \in User : users[v].status = "active"}) <= 1

IsLastActiveOwner(u) == u \in ActiveOwners /\ Cardinality(ActiveOwners) <= 1

UpdateUser(a, u, role, status) ==
    /\ Exists(u)
    /\ ~(role = "owner" /\ status = "active") => ~IsLastActiveOwner(u)
    /\ Ask(a, [Storing("update", u, [users[u] EXCEPT !.role = role, !.status = status])
                  EXCEPT !.owners = ActiveOwners])
    /\ UNCHANGED <<authStore, authHistory>>

ChangePassword(a, u, password) ==
    /\ Exists(u)
    /\ Ask(a, Storing("password", u, [users[u] EXCEPT !.password = password, !.mustChange = FALSE]))
    /\ UNCHANGED <<authStore, authHistory>>

-----------------------------------------------------------------------------
\* New users: created by an administrator with a temporary password, or by
\* accepting an invitation.  #insertUser looks the email up, hashes, stores.

Creating(e) == {a \in Actor : req[a].at = "putUser" /\ req[a].base = NoUser /\ req[a].rec.email = e}
Unused(u) == ~Exists(u) /\ \A a \in Actor : req[a].u # u
Fresh(u) == Unused(u) /\ u = CHOOSE v \in User : Unused(v)
NewUser(e, role, password, temporary) ==
    [NoUser EXCEPT !.email = e, !.role = role, !.password = password,
                   !.status = "active", !.mustChange = temporary]

\* Mutant: the email is not looked up.
EmailFreeAlways(e) == TRUE

EmailFree(e) == \A u \in User : users[u].email # e

CreateUser(a, u, e, role, password) ==
    /\ EmailFree(e) /\ Fresh(u)
    /\ Ask(a, Storing("create", u, NewUser(e, role, password, TRUE)))
    /\ crowded' = IF Creating(e) # {} THEN crowded \cup {e} ELSE crowded
    /\ UNCHANGED <<authStore, staleUsers, staleSessions, raced, unseeded, spent, factors, changes, born,
                   fails, lastFail>>

CreateInvite(a, i, e, role) ==
    /\ EmailFree(e)
    /\ invites[i] = NoInvite /\ \A b \in Actor : req[b].i # i
    /\ Ask(a, [NoRequest EXCEPT !.op = "invite", !.at = "putInvite", !.i = i,
                  !.invite = [email |-> e, role |-> role, expires |-> now + InviteTime, consumed |-> FALSE]])
    /\ UNCHANGED <<authStore, authHistory>>

RevokeInvite(a, i) ==
    /\ invites[i] # NoInvite
    /\ Ask(a, [NoRequest EXCEPT !.op = "revokeInvite", !.at = "putInvite", !.i = i])
    /\ UNCHANGED <<authStore, authHistory>>

PutInvite(a) ==
    /\ req[a].at \in {"putInvite", "consume"}
    /\ invites' = [invites EXCEPT ![req[a].i] = req[a].invite]
    /\ IF req[a].op = "accept" THEN Go(a, [req[a] EXCEPT !.at = "issue"]) ELSE End(a)
    /\ UNCHANGED <<users, sessions, seeds, minted, batches, authHistory>>

AcceptInvite(a, i) ==
    /\ invites[i] # NoInvite /\ ~invites[i].consumed /\ invites[i].expires > now
    /\ Ask(a, [NoRequest EXCEPT !.op = "accept", !.at = "insert", !.i = i,
                  !.invite = [invites[i] EXCEPT !.consumed = TRUE]])
    /\ UNCHANGED <<authStore, authHistory>>

InsertInvited(a, u, password) ==
    /\ req[a].at = "insert"
    /\ LET e == req[a].invite.email IN
         IF EmailFree(e)
         THEN /\ Fresh(u)
              /\ Go(a, [req[a] EXCEPT !.at = "putUser", !.u = u,
                          !.rec = NewUser(e, req[a].invite.role, password, FALSE)])
              /\ crowded' = IF Creating(e) # {} THEN crowded \cup {e} ELSE crowded
         ELSE End(a) /\ UNCHANGED crowded
    /\ UNCHANGED <<authStore, staleUsers, staleSessions, raced, unseeded, spent, factors, changes, born,
                   fails, lastFail>>

-----------------------------------------------------------------------------
AuthCalls(a) ==
    \/ \E u \in User, p \in Password : AuthenticateRead(a, u, p) \/ ChangePassword(a, u, p)
    \/ \E s \in Token : VerifyRead(a, s) \/ Logout(a, s)
    \/ \E u \in User : BeginMfaEnrollment(a, u) \/ ConfirmMfaRead(a, u) \/ DisableMfa(a, u)
    \/ \E u \in User, role \in Roles, status \in {"active", "disabled"} : UpdateUser(a, u, role, status)
    \/ \E u \in User, e \in Email, role \in Roles, p \in Password : CreateUser(a, u, e, role, p)
    \/ \E i \in Invite, e \in Email, role \in Roles : CreateInvite(a, i, e, role)
    \/ \E i \in Invite : RevokeInvite(a, i) \/ AcceptInvite(a, i)

AuthStep(a) ==
    \/ PutUser(a) \/ PruneUserSessions(a) \/ RevokeUserSessions(a) \/ DropSession(a)
    \/ IssueSession(a) \/ PutSession(a)
    \/ VerifyAccount(a) \/ VerifyWrong(a) \/ VerifyTotp(a)
    \/ \E n \in 0..MaxCalls, c \in Code : VerifyRecovery(a, <<n, c>>)
    \/ SetSeed(a) \/ ConfirmMfa(a) \/ DropSeed(a) \/ PutInvite(a)
    \/ \E u \in User, p \in Password : InsertInvited(a, u, p)

AuthTime == PassTime /\ UNCHANGED <<menu, authStore, req, calls, authHistory>>

AuthNext == AuthTime \/ \E a \in Actor : AuthCalls(a) \/ AuthStep(a)

AuthSpec == AuthInit /\ [][AuthNext]_authVars

-----------------------------------------------------------------------------
\* validateSession: a pending session is no session, a disabled user has none.
ValidateSession(s) ==
    /\ sessions[s] # NoSession /\ ~sessions[s].revoked /\ ~sessions[s].pending
    /\ sessions[s].expires > now
    /\ users[sessions[s].user].status # "disabled"

\* "an install can never be locked out of administration" (service.ts:163): some
\* active owner remains, unless an update was decided on owners, or a record
\* written from a copy, that had changed since.
ActiveOwnerRemains == raced \/ ActiveOwners # {}

\* The same without the exception.
ActiveOwnerAlways == ActiveOwners # {}

\* A session of a login that met a second factor is valid only once a code was
\* accepted for it, whatever verifications, logouts and revocations run at once.
SecondFactorNeeded ==
    \A s \in Token : ValidateSession(s) /\ "mfa" \in factors[s] => "code" \in factors[s]

\* "single-use recovery codes" (service.ts:37): an accepted code is in no record any
\* more, unless the record was written from an outdated copy.
CodesSingleUse ==
    \A u \in User \ staleUsers, n \in 0..MaxCalls, c \in Code :
        <<u, <<n, c>>>> \in spent => <<n, c>> \notin users[u].codes

\* "A privilege change must take effect immediately" (service.ts:670): a session
\* from before it is gone, or its revocation is still running, unless a verification
\* or a logout wrote it back from an outdated copy.
PrivilegeChangeEndsSessions ==
    \A s \in Token \ staleSessions :
        LET u == sessions[s].user IN
        (sessions[s] # NoSession /\ born[s] < changes[u]) =>
            \E a \in Actor : req[a].op = "update" /\ req[a].u = u /\ req[a].at \in {"revoke", "drop"}

\* "the lock escalates instead of handing the attacker a fresh batch of attempts
\* every window" (service.ts:421): the lock follows the last wrong password by what
\* the number of wrong ones since the last right one asks for.
LockEscalates ==
    \A u \in User \ staleUsers :
        fails[u] >= MaxAttempts => users[u].lockedUntil >= lastFail[u] + Backoff(fails[u])

\* One user per email, unless two creations looked the email up before either
\* stored its user: an invitation accepted twice creates one user.
EmailsUnique ==
    \A u, v \in User :
        Exists(u) /\ Exists(v) /\ u # v /\ users[u].email = users[v].email => users[u].email \in crowded

\* A user with the second factor enabled has a seed to check codes against, unless
\* it was enabled while a disabling was dropping the seed.
EnabledHasSeed == \A u \in User \ (staleUsers \cup unseeded) : users[u].mfa => u \in seeds
=============================================================================
