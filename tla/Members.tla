------------------------------ MODULE Members ------------------------------
(***************************************************************************)
(* The members of the public site: the service of                          *)
(* packages/core/src/members.ts and the routes of                          *)
(* apps/site/src/members.ts that call it.                                  *)
(*                                                                         *)
(* A call reads a record, awaits and writes the whole record back; nothing *)
(* locks one.  A visitor knows a token only when it was mailed.  Calls     *)
(* that the input checks or the rate limit refuse change nothing and are   *)
(* left out, as are the audit entries.                                     *)
(***************************************************************************)
EXTENDS Lockout

CONSTANTS
    Visitor,         \* concurrent calls
    Member, Address, Secret,
    Nobody,
    SessionLife, VerifyLife, MagicLife, ResetLife,
    MaxVisits,       \* bound: calls made
    MaxTokens,       \* bound: tokens issued
    MaxLogins,       \* bound: sessions issued
    Sites            \* bound: calls allowed together, and the members they start from

ASSUME MemberConstants ==
    /\ Nobody \notin Member \cup Address \cup Secret
    /\ {SessionLife, VerifyLife, MagicLife, ResetLife, MaxVisits, MaxTokens, MaxLogins} \subseteq Nat

VARIABLES
    routes,          \* the calls allowed
    accounts, logins, tokens,
    mailed,          \* tokens that reached their inbox
    issued, opened,  \* tokens and sessions issued so far
    visit,           \* each visitor's call and its locals
    visits,
    staleAccounts,   \* history: accounts written from an outdated copy
    contended,       \* history: tokens that two calls consumed at once
    uses,            \* history: how often each token was consumed
    shared,          \* history: addresses for which two registrations overlapped
    haunted,         \* history: members for whom something was stored during or after their deletion
    deleted,         \* history: members whose deletion has returned
    bans, since      \* history: suspensions of each member, and before each session

memberStore == <<accounts, logins, tokens, mailed, issued, opened>>
memberHistory == <<staleAccounts, contended, uses, shared, haunted, deleted, bans, since>>
memberVars == <<now, routes, memberStore, visit, visits, memberHistory>>

Login == 1..MaxLogins
TokenId == 1..MaxTokens
TokenTypes == {"email_verify", "magic_link", "pw_reset"}
Life(type) == CASE type = "email_verify" -> VerifyLife
                [] type = "magic_link" -> MagicLife
                [] type = "pw_reset" -> ResetLife

NoMember == [email |-> Nobody, password |-> Nobody, verified |-> FALSE, status |-> "none",
             failed |-> 0, lockedUntil |-> 0, profile |-> 0]
NoLogin == [member |-> Nobody, expires |-> 0]
NoToken == [member |-> Nobody, type |-> "none", expires |-> 0, used |-> FALSE]
NoVisit == [op |-> "none", at |-> "none", m |-> Nobody, base |-> NoMember, rec |-> NoMember,
            k |-> 0, token |-> NoToken, l |-> 0, todo |-> {}]

Registered(m) == accounts[m] # NoMember
LoginsOf(m) == {l \in Login : logins[l].member = m}
TokensOf(m) == {k \in TokenId : tokens[k].member = m}

MemberRecord == [email : Address \cup {Nobody}, password : Secret \cup {Nobody}, verified : BOOLEAN,
                 status : {"active", "suspended", "none"}, failed : Nat, lockedUntil : Nat, profile : 0..MaxVisits]
LoginRecord == [member : Member \cup {Nobody}, expires : Nat]
TokenRecord == [member : Member \cup {Nobody}, type : TokenTypes \cup {"none"}, expires : Nat, used : BOOLEAN]

\* The members a site starts from are records of the shape the code writes.
ASSUME SitesConstants == \A w \in Sites : w.accounts \in [Member -> MemberRecord]

MembersTypeOK ==
    /\ accounts \in [Member -> MemberRecord]
    /\ logins \in [Login -> LoginRecord]
    /\ tokens \in [TokenId -> TokenRecord]
    /\ mailed \subseteq 1..issued
    /\ issued \in 0..MaxTokens /\ opened \in 0..MaxLogins /\ visits \in 0..MaxVisits
    /\ \A l \in Login : l > opened => logins[l] = NoLogin
    /\ \A k \in TokenId : k > issued => tokens[k] = NoToken

MembersInit ==
    /\ now = 0
    /\ \E w \in Sites : routes = w.ops /\ accounts = w.accounts
    /\ logins = [l \in Login |-> NoLogin]
    /\ tokens = [k \in TokenId |-> NoToken]
    /\ mailed = {} /\ issued = 0 /\ opened = 0 /\ visits = 0
    /\ visit = [v \in Visitor |-> NoVisit]
    /\ staleAccounts = {} /\ contended = {} /\ shared = {} /\ haunted = {} /\ deleted = {}
    /\ uses = [k \in TokenId |-> 0]
    /\ bans = [m \in Member |-> 0] /\ since = [l \in Login |-> 0]

-----------------------------------------------------------------------------
Visit(v, r) ==
    /\ visit[v] = NoVisit /\ r.op \in routes /\ visits < MaxVisits
    /\ visits' = visits + 1
    /\ visit' = [visit EXCEPT ![v] = r]
    /\ UNCHANGED <<now, routes>>

Then(v, r) == visit' = [visit EXCEPT ![v] = r] /\ UNCHANGED <<now, routes, visits>>
Leave(v) == Then(v, NoVisit)

\* A call that read m's account as it is now and will store rec.
Keeping(op, m, rec) ==
    [NoVisit EXCEPT !.op = op, !.at = "putAccount", !.m = m, !.base = accounts[m], !.rec = rec]

\* Members whose deletion is running or over, seen by v about to store for m.
Haunts(v, m) ==
    IF m \in deleted \/ \E w \in Visitor \ {v} : visit[w].op = "delete" /\ visit[w].m = m
    THEN {m} ELSE {}

AfterPutAccount(r) ==
    CASE r.op = "register" -> [r EXCEPT !.at = "putToken"]
      [] r.op = "magic" -> [r EXCEPT !.at = "prune"]
      [] r.op = "login" /\ r.rec.failed = 0 -> [r EXCEPT !.at = "prune"]
      [] r.op = "status" /\ r.rec.status = "suspended" -> [r EXCEPT !.at = "revoke"]
      [] OTHER -> NoVisit

PutAccount(v) ==
    /\ visit[v].at = "putAccount"
    /\ LET r == visit[v]
           m == r.m
       IN
       /\ accounts' = [accounts EXCEPT ![m] = r.rec]
       /\ staleAccounts' = IF accounts[m] # r.base THEN staleAccounts \cup {m} ELSE staleAccounts
       /\ haunted' = haunted \cup Haunts(v, m)
       /\ bans' = IF r.op = "status" /\ r.rec.status = "suspended" THEN [bans EXCEPT ![m] = @ + 1] ELSE bans
       /\ Then(v, AfterPutAccount(r))
    /\ UNCHANGED <<logins, tokens, mailed, issued, opened, contended, uses, shared, deleted, since>>

-----------------------------------------------------------------------------
\* Tokens: issued for a member and mailed, consumed by a query and a put.

IssueToken(v) ==
    /\ visit[v].at = "putToken" /\ issued < MaxTokens
    /\ LET r == visit[v] IN
         /\ issued' = issued + 1
         /\ tokens' = [tokens EXCEPT ![issued + 1] =
                         [member |-> r.m, expires |-> now + Life(r.token.type), used |-> FALSE, type |-> r.token.type]]
         /\ haunted' = haunted \cup Haunts(v, r.m)
         /\ Then(v, [r EXCEPT !.at = "mail", !.k = issued + 1])
    /\ UNCHANGED <<accounts, logins, mailed, opened, staleAccounts, contended, uses, shared, deleted, bans, since>>

\* Mail is best-effort: a failure is swallowed and the token stays unknown.
Mail(v) ==
    /\ visit[v].at = "mail"
    /\ mailed' \in {mailed, mailed \cup {visit[v].k}}
    /\ Leave(v)
    /\ UNCHANGED <<accounts, logins, tokens, issued, opened, memberHistory>>

\* The routes that ask for a magic link or a reset look the address up first and
\* answer the same whether it is known or not.
RequestMail(v, m, type) ==
    /\ Registered(m)
    /\ Visit(v, [NoVisit EXCEPT !.op = "request", !.at = "issue", !.m = m, !.token = [NoToken EXCEPT !.type = type]])
    /\ UNCHANGED <<memberStore, memberHistory>>

IssueFor(v) ==
    /\ visit[v].at = "issue"
    /\ IF Registered(visit[v].m) THEN Then(v, [visit[v] EXCEPT !.at = "putToken"]) ELSE Leave(v)
    /\ UNCHANGED <<memberStore, memberHistory>>

Purpose(type) == CASE type = "email_verify" -> "verify" [] type = "magic_link" -> "magic" [] type = "pw_reset" -> "reset"

\* Mutant: a token that was used is accepted.
FindTokenUsed(v, k) ==
    /\ k \in mailed /\ tokens[k] # NoToken /\ tokens[k].expires > now
    /\ Visit(v, [NoVisit EXCEPT !.op = Purpose(tokens[k].type), !.at = "useToken", !.m = tokens[k].member,
                   !.k = k, !.token = [tokens[k] EXCEPT !.used = TRUE]])
    /\ UNCHANGED <<memberStore, memberHistory>>

FindToken(v, k) ==
    /\ k \in mailed /\ tokens[k] # NoToken /\ ~tokens[k].used /\ tokens[k].expires > now
    /\ Visit(v, [NoVisit EXCEPT !.op = Purpose(tokens[k].type), !.at = "useToken", !.m = tokens[k].member,
                   !.k = k, !.token = [tokens[k] EXCEPT !.used = TRUE]])
    /\ UNCHANGED <<memberStore, memberHistory>>

UseToken(v) ==
    /\ visit[v].at = "useToken"
    /\ LET r == visit[v] IN
         /\ tokens' = [tokens EXCEPT ![r.k] = r.token]
         /\ uses' = [uses EXCEPT ![r.k] = @ + 1]
         /\ contended' = IF \E w \in Visitor \ {v} : visit[w].at = "useToken" /\ visit[w].k = r.k
                         THEN contended \cup {r.k} ELSE contended
         /\ haunted' = haunted \cup Haunts(v, r.m)
         /\ Then(v, [r EXCEPT !.at = "account"])
    /\ UNCHANGED <<accounts, logins, mailed, issued, opened, staleAccounts, shared, deleted, bans, since>>

\* What the holder of a consumed token gets, from the account as it is then.
VerifyEmail(v) ==
    /\ visit[v].at = "account" /\ visit[v].op = "verify"
    /\ LET m == visit[v].m IN
         IF Registered(m) THEN Then(v, Keeping("verify", m, [accounts[m] EXCEPT !.verified = TRUE])) ELSE Leave(v)
    /\ UNCHANGED <<memberStore, memberHistory>>

VerifyMagicLink(v) ==
    /\ visit[v].at = "account" /\ visit[v].op = "magic"
    /\ LET m == visit[v].m IN
         CASE ~Registered(m) \/ accounts[m].status = "suspended" -> Leave(v)
           [] Registered(m) /\ accounts[m].status # "suspended" /\ accounts[m].verified ->
                Then(v, [visit[v] EXCEPT !.at = "prune"])
           [] OTHER -> Then(v, Keeping("magic", m, [accounts[m] EXCEPT !.verified = TRUE]))
    /\ UNCHANGED <<memberStore, memberHistory>>

ConfirmPasswordReset(v, secret) ==
    /\ visit[v].at = "account" /\ visit[v].op = "reset"
    /\ LET m == visit[v].m IN
         IF Registered(m)
         THEN Then(v, Keeping("reset", m, [Unlocked(accounts[m]) EXCEPT !.password = secret, !.verified = TRUE]))
         ELSE Leave(v)
    /\ UNCHANGED <<memberStore, memberHistory>>

-----------------------------------------------------------------------------
NewMember(e, secret) ==
    [NoMember EXCEPT !.email = e, !.password = secret, !.status = "active"]
Registering(e) == {v \in Visitor : visit[v].op = "register" /\ visit[v].at = "putAccount" /\ visit[v].rec.email = e}
Unassigned(m) == ~Registered(m) /\ m \notin deleted /\ \A v \in Visitor : visit[v].m # m

Register(v, m, e, secret) ==
    /\ \A n \in Member : accounts[n].email # e
    /\ Unassigned(m) /\ m = CHOOSE n \in Member : Unassigned(n)
    /\ Visit(v, [Keeping("register", m, NewMember(e, secret)) EXCEPT
                    !.token = [NoToken EXCEPT !.type = "email_verify"]])
    /\ shared' = IF Registering(e) # {} THEN shared \cup {e} ELSE shared
    /\ UNCHANGED <<memberStore, staleAccounts, contended, uses, haunted, deleted, bans, since>>

\* Mutant: an unverified email may log in.
AuthenticateUnverified(v, m, secret) ==
    /\ Registered(m) /\ ~IsLocked(accounts[m], now) /\ accounts[m].status # "suspended"
    /\ IF accounts[m].password # secret
       THEN Visit(v, Keeping("login", m, CountFailure(accounts[m], now)))
       ELSE Visit(v, Keeping("login", m, Unlocked(accounts[m])))
    /\ UNCHANGED <<memberStore, memberHistory>>

\* A right password of an unverified email is refused and counted as nothing.
Authenticate(v, m, secret) ==
    /\ Registered(m) /\ ~IsLocked(accounts[m], now) /\ accounts[m].status # "suspended"
    /\ \/ /\ accounts[m].password # secret
          /\ Visit(v, Keeping("login", m, CountFailure(accounts[m], now)))
       \/ /\ accounts[m].password = secret /\ accounts[m].verified
          /\ Visit(v, Keeping("login", m, Unlocked(accounts[m])))
    /\ UNCHANGED <<memberStore, memberHistory>>

PruneExpiredSessions(v) ==
    /\ visit[v].at = "prune"
    /\ Then(v, [visit[v] EXCEPT !.at = "drop", !.todo = {l \in LoginsOf(visit[v].m) : logins[l].expires <= now}])
    /\ UNCHANGED <<memberStore, memberHistory>>

\* Mutant: the sessions are left to expire.
RevokeAllSessionsLater(v) ==
    /\ visit[v].at = "revoke"
    /\ Then(v, [visit[v] EXCEPT !.at = "drop", !.todo = {l \in LoginsOf(visit[v].m) : logins[l].expires <= now}])
    /\ UNCHANGED <<memberStore, memberHistory>>

RevokeAllSessions(v) ==
    /\ visit[v].at = "revoke"
    /\ Then(v, [visit[v] EXCEPT !.at = "drop", !.todo = LoginsOf(visit[v].m)])
    /\ UNCHANGED <<memberStore, memberHistory>>

AfterDrop(r) ==
    CASE r.op \in {"login", "magic"} -> [r EXCEPT !.at = "open"]
      [] r.op = "delete" -> [r EXCEPT !.at = "tokens"]
      [] OTHER -> NoVisit

DropLogin(v) ==
    /\ visit[v].at = "drop"
    /\ \/ \E l \in visit[v].todo :
             /\ logins' = [logins EXCEPT ![l] = NoLogin]
             /\ Then(v, [visit[v] EXCEPT !.todo = @ \ {l}])
       \/ /\ visit[v].todo = {}
          /\ Then(v, AfterDrop(visit[v]))
          /\ UNCHANGED logins
    /\ UNCHANGED <<accounts, tokens, mailed, issued, opened, memberHistory>>

OpenSession(v) ==
    /\ visit[v].at = "open" /\ opened < MaxLogins
    /\ LET m == visit[v].m IN
         /\ opened' = opened + 1
         /\ logins' = [logins EXCEPT ![opened + 1] = [member |-> m, expires |-> now + SessionLife]]
         /\ since' = [since EXCEPT ![opened + 1] = bans[m]]
         /\ haunted' = haunted \cup Haunts(v, m)
    /\ Leave(v)
    /\ UNCHANGED <<accounts, tokens, mailed, issued, staleAccounts, contended, uses, shared, deleted, bans>>

EndSession(v, l) ==
    /\ logins[l] # NoLogin
    /\ Visit(v, [NoVisit EXCEPT !.op = "logout", !.at = "drop", !.todo = {l}])
    /\ UNCHANGED <<memberStore, memberHistory>>

\* The session is validated, then the profile is rewritten.
UpdateProfile(v, l) ==
    /\ logins[l] # NoLogin /\ logins[l].expires > now
    /\ LET m == logins[l].member IN
         /\ Registered(m) /\ accounts[m].status # "suspended"
         /\ Visit(v, Keeping("profile", m, [accounts[m] EXCEPT !.profile = visits + 1]))
    /\ UNCHANGED <<memberStore, memberHistory>>

SetMemberStatus(v, m, status) ==
    /\ Registered(m)
    /\ Visit(v, Keeping("status", m, [accounts[m] EXCEPT !.status = status]))
    /\ UNCHANGED <<memberStore, memberHistory>>

-----------------------------------------------------------------------------
\* deleteMember: the sessions, the tokens, the account, one delete after another.
DeleteMember(v, m) ==
    /\ Registered(m)
    /\ Visit(v, [NoVisit EXCEPT !.op = "delete", !.at = "revoke", !.m = m])
    /\ haunted' = IF \E w \in Visitor : visit[w].m = m THEN haunted \cup {m} ELSE haunted
    /\ UNCHANGED <<memberStore, staleAccounts, contended, uses, shared, deleted, bans, since>>

\* Mutant: only the unused tokens are deleted.
DeleteUnusedTokens(v) ==
    /\ visit[v].at = "tokens"
    /\ Then(v, [visit[v] EXCEPT !.at = "dropTokens", !.todo = {k \in TokensOf(visit[v].m) : ~tokens[k].used}])
    /\ UNCHANGED <<memberStore, memberHistory>>

DeleteMemberTokens(v) ==
    /\ visit[v].at = "tokens"
    /\ Then(v, [visit[v] EXCEPT !.at = "dropTokens", !.todo = TokensOf(visit[v].m)])
    /\ UNCHANGED <<memberStore, memberHistory>>

DropToken(v) ==
    /\ visit[v].at = "dropTokens"
    /\ \/ \E k \in visit[v].todo :
             /\ tokens' = [tokens EXCEPT ![k] = NoToken]
             /\ Then(v, [visit[v] EXCEPT !.todo = @ \ {k}])
             /\ UNCHANGED <<accounts, deleted>>
       \/ /\ visit[v].todo = {}
          /\ accounts' = [accounts EXCEPT ![visit[v].m] = NoMember]
          /\ deleted' = deleted \cup {visit[v].m}
          /\ Leave(v)
          /\ UNCHANGED tokens
    /\ UNCHANGED <<logins, mailed, issued, opened, staleAccounts, contended, uses, shared, haunted, bans, since>>

-----------------------------------------------------------------------------
MemberCalls(v) ==
    \/ \E m \in Member, e \in Address, s \in Secret : Register(v, m, e, s)
    \/ \E m \in Member, s \in Secret : Authenticate(v, m, s)
    \/ \E m \in Member, type \in {"magic_link", "pw_reset"} : RequestMail(v, m, type)
    \/ \E k \in TokenId : FindToken(v, k)
    \/ \E l \in Login : EndSession(v, l) \/ UpdateProfile(v, l)
    \/ \E m \in Member, status \in {"active", "suspended"} : SetMemberStatus(v, m, status)
    \/ \E m \in Member : DeleteMember(v, m)

MemberStep(v) ==
    \/ PutAccount(v) \/ IssueToken(v) \/ Mail(v) \/ IssueFor(v) \/ UseToken(v)
    \/ VerifyEmail(v) \/ VerifyMagicLink(v) \/ \E s \in Secret : ConfirmPasswordReset(v, s)
    \/ PruneExpiredSessions(v) \/ RevokeAllSessions(v) \/ DropLogin(v) \/ OpenSession(v)
    \/ DeleteMemberTokens(v) \/ DropToken(v)

MembersTime == PassTime /\ UNCHANGED <<routes, memberStore, visit, visits, memberHistory>>

MembersNext == MembersTime \/ \E v \in Visitor : MemberCalls(v) \/ MemberStep(v)

MembersSpec == MembersInit /\ [][MembersNext]_memberVars

-----------------------------------------------------------------------------
\* A link of a mail works once (members.ts:575: "Invalid or already-used token"),
\* unless two calls had both found its token unused.
TokensSingleUse == \A k \in TokenId \ contended : uses[k] <= 1

\* "A ban must take effect immediately: drop the member's live sessions"
\* (members.ts:476): no session from before a suspension is left, so that none
\* comes back to life when the member is reactivated.
BansEndSessions ==
    \A l \in Login :
        LET m == logins[l].member IN
        (logins[l] # NoLogin /\ since[l] < bans[m]) =>
            \E v \in Visitor : visit[v].op = "status" /\ visit[v].m = m /\ visit[v].at \in {"revoke", "drop"}

\* "Permanently delete a member's account, sessions, and tokens" (members.ts:153):
\* after a deletion nothing of the member is left, unless another call stored
\* something for the member while it ran or afterwards.
DeletionIsComplete ==
    \A m \in deleted \ haunted : ~Registered(m) /\ LoginsOf(m) = {} /\ TokensOf(m) = {}

\* The same without the exception.
DeletionIsFinal == \A m \in deleted : ~Registered(m) /\ LoginsOf(m) = {} /\ TokensOf(m) = {}

\* Sessions are those of members who proved that the mailbox is theirs, by any of
\* the three kinds of mail, unless the account was written from an outdated copy.
SessionsAreVerified ==
    \A l \in Login :
        LET m == logins[l].member IN
        logins[l] # NoLogin => m \in staleAccounts \cup haunted \/ accounts[m].verified
=============================================================================
