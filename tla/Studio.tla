------------------------------- MODULE Studio -------------------------------
(***************************************************************************)
(* The HTTP application of the Studio (apps/studio/src/app.ts): the        *)
(* first-run wizard, the chain of guards every request passes, the page    *)
(* that relays a plugin panel, and the media library (media.ts).           *)
(*                                                                         *)
(* A request is let in by the migration lock when it arrives, awaits the   *)
(* session and is checked against the user record read there, awaits its   *)
(* body and takes effect.  Every user has one browser.                     *)
(***************************************************************************)
EXTENDS Naturals, Sequences

CONSTANTS User, Request, Wizard, Media,
          Menus,        \* bound: sets of routes that requests of one behaviour use
          MaxSessions,  \* bound: sessions issued
          MaxCalls      \* bound: requests made

VARIABLES
    menu,
    account,        \* user -> role, or "none" for an account that is absent or disabled
    session,        \* token -> its user, or "ended" or "unissued"
    cookie, pageToken,   \* user -> token of the cookie, and token the page's CSRF token is bound to
    panelToken,     \* user -> likewise for the CSRF token a panel page asked for, or Unasked
    locked,         \* the migration lock
    req, calls,
    setupInFlight, wizard,
    record, file,   \* media: records in the store, files on disk
    effect,         \* history: the request that just took effect, and whether the lock was closed
    owners,         \* history: owners the wizard created
    cut             \* history: media of which a deletion was cut off

studioVars == <<menu, account, session, cookie, pageToken, panelToken, locked, req, calls, setupInFlight,
                wizard, record, file, effect, owners, cut>>

Token == 1..MaxSessions
NoToken == 0
Unasked == MaxSessions + 1
NoRequest == [at |-> "none", route |-> "none", by |-> "none", token |-> NoToken, csrf |-> NoToken,
              media |-> "none", roles |-> {}]
NoEffect == [of |-> NoRequest, locked |-> FALSE]

(***************************************************************************)
(* capabilities.ts and roles.ts.  A capability is a path and a scope.      *)
(***************************************************************************)
Cap(path) == [path |-> path, scope |-> "none"]
God == Cap(<<"*">>)

PathMatches(granted, required) ==
    LET Same(i) == i <= Len(required) /\ granted[i] \in {"*", required[i]} IN
    \/ \E i \in DOMAIN granted : granted[i] = "**" /\ \A j \in 1..(i - 1) : Same(j)
    \/ Len(granted) = Len(required) /\ \A i \in DOMAIN granted : Same(i)

ScopeMatches(granted, required) == granted = "*" \/ granted = required

CapabilityMatches(granted, required) ==
    \/ granted = God
    \/ PathMatches(granted.path, required.path) /\ ScopeMatches(granted.scope, required.scope)

Manages(areas) == {Cap(<<area, "manage">>) : area \in areas}
AuthorCapabilities == {Cap(<<"content", verb>>) : verb \in {"create", "read", "update", "submit"}} \cup
                      {Cap(<<"media", "write">>), Cap(<<"media", "read">>)}

RoleCapabilities(role) ==
    CASE role = "owner" -> {God}
      [] role = "admin" -> Manages({"users", "plugins", "themes", "settings", "types", "menus", "forms", "gdpr",
                                    "members", "db", "backups", "redirects"}) \cup
                           {Cap(<<"content", "*">>), Cap(<<"media", "*">>), Cap(<<"audit", "read">>)}
      [] role = "editor" -> AuthorCapabilities \cup Manages({"menus", "forms"}) \cup
                            {Cap(<<"content", "reveal">>), Cap(<<"content", "publish">>)}
      [] role = "author" -> AuthorCapabilities
      [] role = "viewer" -> {Cap(<<"content", "read">>), Cap(<<"media", "read">>)}
      [] OTHER -> {}

\* Mutant: a capability for part of an area grants the area.
CheckAnyPrefix(role, required) ==
    \E g \in RoleCapabilities(role) :
        \/ CapabilityMatches(g, required)
        \/ g.path # <<>> /\ required.path # <<>> /\ g.path[1] = required.path[1]
Check(role, required) == \E g \in RoleCapabilities(role) : CapabilityMatches(g, required)

(***************************************************************************)
(* The routes, those of one kind together.                                 *)
(***************************************************************************)
\* What a session is enough for.
Anyone == Cap(<<>>)
Guarded(name, cap, csrf, locks) == [name |-> name, cap |-> cap, csrf |-> csrf, locks |-> locks]
Writing(name, area, verb) == Guarded(name, Cap(<<area, verb>>), TRUE, TRUE)
Reading(name, area, verb) == Guarded(name, Cap(<<area, verb>>), FALSE, FALSE)

\* The migration lock leaves out the user's own account and the Database Manager.
Own(name) == Guarded(name, Anyone, TRUE, FALSE)
Public(name) == Guarded(name, Anyone, FALSE, FALSE)

SessionRoutes == {Own("logout"), Own("mfa")}
MemberRoutes == {Reading("members", "members", "manage"), Writing("moderate", "members", "manage")}
BackupRoutes == {Reading("backups", "backups", "manage"), Writing("backup", "backups", "manage")}
RedirectRoutes == {Reading("redirects", "redirects", "manage"), Writing("redirect", "redirects", "manage")}
MeRoutes == {Public("me")}
TypeRoutes == {Reading("types", "content", "read"), Writing("type", "types", "manage")}
ContentRoutes == {Reading("list", "content", "read"), Writing("create", "content", "create"),
                  Writing("save", "content", "update"), Writing("submit", "content", "submit"),
                  Writing("publish", "content", "publish"), Writing("withdraw", "content", "update")}
ThemeRoutes == {Reading("theme", "content", "read"), Writing("customize", "themes", "manage"),
                Guarded("themePreview", Cap(<<"themes", "manage">>), FALSE, TRUE)}
GdprRoutes == {Writing("export", "gdpr", "manage"), Writing("erase", "gdpr", "manage")}
CveRoutes == {Reading("cve", "content", "read")}
PanelRoutes == {Public("panel")}
DesignerRoutes == {Public("library"), Guarded("preview", Anyone, FALSE, TRUE)}
MediaRoutes == {Reading("media", "media", "read"), Writing("upload", "media", "write"),
                Writing("remove", "media", "write")}
RevisionRoutes == {Reading("revisions", "content", "read"), Writing("restore", "content", "update")}
UserRoutes == {Reading("users", "users", "manage"), Writing("user", "users", "manage")}
PasswordRoutes == {Own("password")}
SettingsRoutes == {Reading("settings", "settings", "manage"), Public("locales"),
                   Writing("setting", "settings", "manage")}
DbRoutes == {Reading("db", "db", "manage"), Guarded("migrate", Cap(<<"db", "manage">>), TRUE, FALSE)}
AuditRoutes == {Reading("audit", "audit", "read")}
PluginRoutes == {Reading("plugins", "plugins", "manage"), Writing("enable", "plugins", "manage"),
                 Writing("invoke", "plugins", "manage")}

AllRoutes == SessionRoutes \cup MemberRoutes \cup BackupRoutes \cup RedirectRoutes \cup MeRoutes \cup TypeRoutes
             \cup ContentRoutes \cup ThemeRoutes \cup GdprRoutes \cup CveRoutes \cup PanelRoutes
             \cup DesignerRoutes \cup MediaRoutes \cup RevisionRoutes \cup UserRoutes \cup PasswordRoutes
             \cup SettingsRoutes \cup DbRoutes \cup AuditRoutes \cup PluginRoutes
Routes == [name \in {route.name : route \in AllRoutes} |-> CHOOSE route \in AllRoutes : route.name = name]

\* What requests use are routes; a session that is over is nobody's.
ASSUME StudioConstants ==
    /\ Menus \subseteq SUBSET DOMAIN Routes
    /\ MaxSessions \in Nat
    /\ User \cap {"ended", "unissued"} = {}

Route(r) == Routes[req[r].route]
Granted(role, route) == Routes[route].cap = Anyone \/ Check(role, Routes[route].cap)

-----------------------------------------------------------------------------
StudioInit ==
    /\ menu \in Menus
    /\ account \in {a \in [User -> {"owner", "admin", "editor", "author", "viewer", "none"}] :
                       (\E u \in User : a[u] = "owner") \/ (\A u \in User : a[u] = "none")}
    /\ session = [t \in Token |-> "unissued"]
    /\ cookie = [u \in User |-> NoToken]
    /\ pageToken = [u \in User |-> NoToken]
    /\ panelToken = [u \in User |-> Unasked]
    /\ locked = FALSE
    /\ req = [r \in Request |-> NoRequest] /\ calls = 0
    /\ setupInFlight = FALSE /\ wizard = [w \in Wizard |-> "idle"]
    /\ record = {} /\ file = {}
    /\ effect = NoEffect /\ owners = 0 /\ cut = {}

Live(t) == t # NoToken /\ session[t] \in User
RoleOf(t) == IF Live(t) THEN account[session[t]] ELSE "none"

\* History: the roles under which each request in progress was signed in since it arrived.
Witnessed(requests) ==
    [r \in Request |->
        IF requests[r].at = "none" \/ requests[r].token = NoToken \/ session'[requests[r].token] \notin User
        THEN requests[r]
        ELSE [requests[r] EXCEPT !.roles = @ \cup {account'[session'[requests[r].token]]}]]

Fresh(t) == session[t] = "unissued" /\ \A s \in Token : session[s] = "unissued" => t <= s

\* A step that is no request's effect.
Quiet == effect' = NoEffect

\* login (Auth has its steps).
Login(u) ==
    /\ account[u] # "none"
    /\ \E t \in Token : Fresh(t) /\ session' = [session EXCEPT ![t] = u] /\ cookie' = [cookie EXCEPT ![u] = t]
    /\ Quiet
    /\ UNCHANGED <<menu, account, pageToken, panelToken, locked, calls, setupInFlight, wizard, record, file,
                   owners, cut>>
    /\ req' = Witnessed(req)

(***************************************************************************)
(* Requests.                                                               *)
(***************************************************************************)
LockedOut(route) == locked /\ Routes[route].locks

\* The page sends the CSRF token it has; a panel's request goes through the bridge, which keeps the
\* first answer to its question for one, or that there was none.
TokenSent(u, route) == IF route = "invoke" THEN panelToken[u] ELSE pageToken[u]

Arrive(r, u, route, m) ==
    /\ req[r] = NoRequest /\ calls < MaxCalls /\ cookie[u] # NoToken
    /\ route = "invoke" => panelToken[u] # Unasked
    /\ ~LockedOut(route)
    /\ calls' = calls + 1
    /\ Quiet
    /\ UNCHANGED <<menu, account, session, cookie, pageToken, panelToken, locked, setupInFlight, wizard,
                   record, file, owners, cut>>
    /\ req' = Witnessed([req EXCEPT ![r] =
           [NoRequest EXCEPT !.at = "arrived", !.route = route, !.by = u, !.token = cookie[u],
                             !.csrf = TokenSent(u, route), !.media = m]])

Drop(r) == [req EXCEPT ![r] = NoRequest]

\* requireSession, requireCsrf and the capability, with the user record read here.
\* Mutant: a token of any session will do.
CsrfVerifiesAny(r) == Route(r).csrf => req[r].csrf # NoToken
CsrfVerifies(r) == Route(r).csrf => req[r].csrf = req[r].token

Admitted(r) == Live(req[r].token) /\ CsrfVerifies(r) /\ Granted(RoleOf(req[r].token), req[r].route)

Admit(r) ==
    /\ req[r].at = "arrived" /\ Admitted(r)
    /\ Quiet
    /\ UNCHANGED <<menu, account, session, cookie, pageToken, panelToken, locked, calls, setupInFlight,
                   wizard, record, file, owners, cut>>
    /\ req' = Witnessed([req EXCEPT ![r].at = IF req[r].route \in {"upload", "remove"} THEN "media" ELSE "admitted"])

\* Or its CSRF token is too old.
Refuse(r) ==
    /\ req[r].at = "arrived" /\ (Route(r).csrf \/ ~Admitted(r))
    /\ Quiet
    /\ UNCHANGED <<menu, account, session, cookie, pageToken, panelToken, locked, calls, setupInFlight,
                   wizard, record, file, owners, cut>>
    /\ req' = Witnessed(Drop(r))

\* The effect of a route other than those of the media library.
Perform(r) == LET q == req[r] IN
    /\ q.at = "admitted"
    /\ \/ q.route = "user"
          /\ \E u \in User, role \in {"admin", "viewer", "none"} :
                 /\ account[u] # role /\ account[u] # "none"
                 /\ account[u] = "owner" => \E v \in User \ {u} : account[v] = "owner"
                 /\ account' = [account EXCEPT ![u] = role]
                 /\ session' = [t \in Token |-> IF session[t] = u THEN "ended" ELSE session[t]]
          /\ UNCHANGED <<cookie, pageToken, panelToken, locked>>
       \/ q.route = "logout"
          /\ session' = [session EXCEPT ![q.token] = "ended"]
          /\ cookie' = [cookie EXCEPT ![q.by] = NoToken]
          /\ UNCHANGED <<account, pageToken, panelToken, locked>>
       \/ q.route = "me"
          /\ pageToken' = [pageToken EXCEPT ![q.by] = q.token]
          /\ UNCHANGED <<account, session, cookie, panelToken, locked>>
       \/ q.route = "panel"
          /\ \E answer \in {NoToken, q.token} :
                 panelToken' = [panelToken EXCEPT ![q.by] = IF @ = Unasked THEN answer ELSE @]
          /\ UNCHANGED <<account, session, cookie, pageToken, locked>>
       \/ q.route = "migrate"
          /\ locked' = ~locked
          /\ UNCHANGED <<account, session, cookie, pageToken, panelToken>>
       \/ q.route \notin {"user", "logout", "me", "panel", "migrate"}
          /\ UNCHANGED <<account, session, cookie, pageToken, panelToken, locked>>
    /\ effect' = [of |-> q, locked |-> locked]
    /\ UNCHANGED <<menu, calls, setupInFlight, wizard, record, file, owners, cut>>
    /\ req' = Witnessed(Drop(r))

\* The browser opens the panel page again, and its bridge asks again.
ReloadPanel(u) ==
    /\ panelToken[u] # Unasked
    /\ panelToken' = [panelToken EXCEPT ![u] = Unasked]
    /\ Quiet
    /\ UNCHANGED <<menu, account, session, cookie, pageToken, locked, req, calls, setupInFlight, wizard,
                   record, file, owners, cut>>

(***************************************************************************)
(* media.ts: the file before the record, when it is stored and when it is  *)
(* deleted.                                                                *)
(***************************************************************************)
\* Mutant: an upload stores its record first.
UploadOrderSwapped == <<"record", "file">>
UploadOrder == <<"file", "record">>

Holds(m) == [file |-> m \in file, record |-> m \in record]

Upload(r, step) == LET m == req[r].media IN
    /\ req[r].route = "upload" /\ req[r].at = IF step = 1 THEN "media" ELSE "half"
    /\ step = 1 => ~Holds(m).file /\ ~Holds(m).record /\ m \notin cut
                   /\ \A s \in Request \ {r} : ~(req[s].route = "upload" /\ req[s].media = m /\ req[s].at = "half")
    /\ IF UploadOrder[step] = "file"
       THEN file' = file \cup {m} /\ UNCHANGED record
       ELSE record' = record \cup {m} /\ UNCHANGED file
    /\ effect' = [of |-> req[r], locked |-> locked]
    /\ UNCHANGED <<menu, account, session, cookie, pageToken, panelToken, locked, calls, setupInFlight, wizard, owners, cut>>
    /\ req' = Witnessed(IF step = 1 THEN [req EXCEPT ![r].at = "half"] ELSE Drop(r))

Remove(r) == LET m == req[r].media IN
    /\ req[r].route = "remove" /\ req[r].at = "media"
    /\ UNCHANGED <<menu, account, session, cookie, pageToken, panelToken, locked, calls, setupInFlight, wizard, record,
                   owners, cut>>
    /\ \/ /\ m \in record
          /\ file' = file \ {m} /\ effect' = [of |-> req[r], locked |-> locked]
          /\ req' = Witnessed([req EXCEPT ![r].at = "half"])
       \/ /\ m \notin record
          /\ req' = Witnessed(Drop(r)) /\ Quiet /\ UNCHANGED file

RemoveRecord(r) == LET m == req[r].media IN
    /\ req[r].route = "remove" /\ req[r].at = "half"
    /\ record' = record \ {m} /\ effect' = [of |-> req[r], locked |-> locked]
    /\ UNCHANGED <<menu, account, session, cookie, pageToken, panelToken, locked, calls, setupInFlight, wizard, file, owners, cut>>
    /\ req' = Witnessed(Drop(r))

\* The upload is not of an accepted kind; or the store fails, when one step has been taken.
Fail(r) ==
    /\ req[r].at \in {"media", "half"}
    /\ cut' = IF req[r].route = "remove" /\ req[r].at = "half" THEN cut \cup {req[r].media} ELSE cut
    /\ Quiet
    /\ UNCHANGED <<menu, account, session, cookie, pageToken, panelToken, locked, calls, setupInFlight, wizard,
                   record, file, owners>>
    /\ req' = Witnessed(Drop(r))

(***************************************************************************)
(* The first-run wizard.                                                   *)
(***************************************************************************)
HasAnyUser == \E u \in User : account[u] # "none"

\* Mutant: the wizard does not serialize.
TurnAwayNobody == FALSE
TurnAway == setupInFlight \/ locked

AskSetup(w) ==
    /\ wizard[w] = "idle" /\ ~TurnAway
    /\ setupInFlight' = TRUE
    /\ wizard' = [wizard EXCEPT ![w] = "asked"]
    /\ Quiet
    /\ UNCHANGED <<menu, account, session, cookie, pageToken, panelToken, locked, req, calls, record, file,
                   owners, cut>>

\* The answer of hasAnyUser, or input that is refused.
AnswerSetup(w) ==
    /\ wizard[w] = "asked"
    /\ \/ ~HasAnyUser /\ wizard' = [wizard EXCEPT ![w] = "free"] /\ UNCHANGED setupInFlight
       \/ wizard' = [wizard EXCEPT ![w] = "done"] /\ setupInFlight' = FALSE
    /\ Quiet
    /\ UNCHANGED <<menu, account, session, cookie, pageToken, panelToken, locked, req, calls, record, file,
                   owners, cut>>

CreateOwner(w, u) ==
    /\ wizard[w] = "free" /\ account[u] = "none"
    /\ account' = [account EXCEPT ![u] = "owner"]
    /\ owners' = owners + 1
    /\ wizard' = [wizard EXCEPT ![w] = "created"]
    /\ Quiet
    /\ UNCHANGED <<menu, session, cookie, pageToken, panelToken, locked, calls, setupInFlight, record, file,
                   cut>>
    /\ req' = Witnessed(req)

\* The owner is signed in and the shipped pages are stored, or not: nothing is undone.
FinishSetup(w) ==
    /\ wizard[w] = "created"
    /\ wizard' = [wizard EXCEPT ![w] = "done"]
    /\ setupInFlight' = FALSE
    /\ Quiet
    /\ UNCHANGED <<menu, account, session, cookie, pageToken, panelToken, locked, req, calls, record, file,
                   owners, cut>>

\* The process ends and starts again: the lock, the wizard's flag and, unless its secret is
\* configured, the CSRF tokens it gave out are gone.
Restart ==
    /\ \E r \in Request : req[r] # NoRequest \/ setupInFlight
    /\ cut' = cut \cup {req[r].media : r \in {s \in Request : req[s].route = "remove" /\ req[s].at = "half"}}
    /\ req' = [r \in Request |-> NoRequest]
    /\ wizard' = [w \in Wizard |-> IF wizard[w] = "idle" THEN "idle" ELSE "done"]
    /\ locked' = FALSE /\ setupInFlight' = FALSE
    /\ \E kept \in BOOLEAN : pageToken' = IF kept THEN pageToken ELSE [u \in User |-> NoToken]
    /\ panelToken' = panelToken
    /\ Quiet
    /\ UNCHANGED <<menu, account, session, cookie, calls, record, file, owners>>

StudioNext ==
    \/ \E u \in User : Login(u) \/ ReloadPanel(u)
    \/ \E r \in Request, u \in User, route \in menu, m \in Media : Arrive(r, u, route, m)
    \/ \E r \in Request : Admit(r) \/ Refuse(r) \/ Perform(r) \/ Upload(r, 1) \/ Upload(r, 2)
                          \/ Remove(r) \/ RemoveRecord(r) \/ Fail(r)
    \/ \E w \in Wizard : AskSetup(w) \/ AnswerSetup(w) \/ FinishSetup(w) \/ \E u \in User : CreateOwner(w, u)
    \/ Restart

StudioSpec == StudioInit /\ [][StudioNext]_studioVars

(***************************************************************************)
(* Properties.                                                             *)
(***************************************************************************)
\* What each role may do, as the requirements put it (SRS FR-003: "An Author cannot publish; an
\* Editor can; a Viewer can read but not mutate"), apart from the user's own account.
Looks == {"members", "backups", "redirects", "types", "list", "theme", "cve", "media", "revisions",
          "users", "settings", "db", "audit", "plugins"}
OwnAffairs == {"me", "panel", "library", "preview", "locales", "password", "mfa", "logout"}
MayDo(role) ==
    LET viewer == OwnAffairs \cup {"types", "list", "theme", "cve", "media", "revisions"}
        author == viewer \cup {"create", "save", "withdraw", "restore", "submit", "upload", "remove"} IN
    CASE role \in {"owner", "admin"} -> DOMAIN Routes
      [] role = "editor" -> author \cup {"publish"}
      [] role = "author" -> author
      [] role = "viewer" -> viewer
      [] OTHER -> {}

\* Routes that change nothing; the panel page's answer to its bridge is the same as "me".
Harmless == Looks \cup {"me", "panel", "library", "preview", "themePreview", "locales"}

\* Whatever users, logins, restarts and the migration lock do while a request is under way
\* (requireSession, requireCsrf, requireCap of app.ts): it takes effect only if its user was signed in
\* with a role that may do it at some moment since it arrived, and, if it changes anything, never
\* without the CSRF token of its session.
EffectsAreAllowed == effect # NoEffect =>
    /\ \E role \in effect.of.roles : effect.of.route \in MayDo(role)
    /\ effect.of.route \in Harmless \/ effect.of.csrf = effect.of.token

\* The lock as its comment in app.ts (233-237) puts it: while a migration copies, nothing is written to the
\* old store.  Not so: a request the lock let in before it closed, and the user's own account.
NothingIsWrittenToTheOldStore ==
    effect.locked => effect.of.route \in Harmless \cup {"migrate", "logout"}

\* The wizard creates one owner and only on a site without users (app.ts setup), whatever requests
\* overlap and wherever the process ends.
OneOwnerIsSetUp == owners <= 1 /\ \A w \in Wizard : wizard[w] = "free" => ~HasAnyUser

\* Every file the media library lists is there, but where its deletion is under way or was cut off
\* (media.ts store, delete).
ListedFilesExist == \A m \in record \ (file \cup cut) :
    \E r \in Request : req[r].route = "remove" /\ req[r].at = "half" /\ req[r].media = m
=============================================================================
