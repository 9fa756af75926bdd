--------------------------- MODULE Studio_proofs ---------------------------
(***************************************************************************)
(* Proofs about the Studio's HTTP application for any number of users,     *)
(* requests, media, set-up wizards and sessions, and for every menu of     *)
(* routes: one owner is set up, listed files are there, and nothing takes  *)
(* effect that was not allowed.  And about the history of the designer in  *)
(* its client, for every set of layouts, every limit of the history and    *)
(* any number of edits, saves and renderings.                              *)
(***************************************************************************)
EXTENDS Studio, DesignHistory, TLAPS

(***************************************************************************)
(* The first-run wizard.                                                   *)
(***************************************************************************)
RoleName == {"owner", "admin", "editor", "author", "viewer", "none"}
Busy(w) == wizard[w] \in {"asked", "free", "created"}

\* The flag is up while a wizard is under way, so one is at a time; and once an owner is set up there
\* is an owner, whatever roles change.
WizardInv ==
    /\ account \in [User -> RoleName]
    /\ wizard \in [Wizard -> {"idle", "asked", "free", "created", "done"}]
    /\ setupInFlight \in {TRUE, FALSE}
    /\ \A w \in Wizard : Busy(w) => setupInFlight = TRUE
    /\ \A w, x \in Wizard : Busy(w) /\ Busy(x) => w = x
    /\ \A w \in Wizard : wizard[w] = "free" => \A u \in User : account[u] = "none"
    /\ owners \in {0, 1}
    /\ owners = 1 => \E u \in User : account[u] = "owner"

\* The wizard asks hasAnyUser: an account, or none.
LEMMA NobodyYet == HasAnyUser \/ \A u \in User : account[u] = "none"
BY DEF HasAnyUser

\* The wizard is let on only while its flag is down.
LEMMA TurnedAway == ASSUME ~TurnAway PROVE setupInFlight # TRUE
BY Zenon DEF TurnAway

LEMMA WizardSame ==
    ASSUME WizardInv, UNCHANGED <<account, wizard, setupInFlight, owners>> PROVE WizardInv'
BY DEF WizardInv, Busy

\* Changing a role leaves another owner, or none was set up.
LEMMA WizardOfPerform == ASSUME WizardInv, NEW r \in Request, Perform(r) PROVE WizardInv'
<1>1. UNCHANGED <<wizard, setupInFlight, owners>>
  BY DEF Perform
<1>2. CASE account' = account
  BY <1>1, <1>2, WizardSame
<1>3. ASSUME NEW u \in User, NEW role \in {"admin", "viewer", "none"}, account[u] # "none",
             account[u] = "owner" => \E v \in User \ {u} : account[v] = "owner",
             account' = [account EXCEPT ![u] = role]
      PROVE WizardInv'
  <2>1. account' \in [User -> RoleName]
    BY <1>3 DEF WizardInv, RoleName
  <2>2. \A w \in Wizard : wizard[w] # "free"
    BY <1>3 DEF WizardInv
  <2>3. owners = 1 => \E v \in User \ {u} : account[v] = "owner"
    BY <1>3 DEF WizardInv
  <2> QED BY <1>1, <1>3, <2>1, <2>2, <2>3 DEF WizardInv, Busy
<1> QED BY <1>2, <1>3 DEF Perform

LEMMA WizardStart == StudioInit => WizardInv
<1>1. ASSUME StudioInit PROVE WizardInv
  <2>1. account \in [User -> RoleName]
    BY <1>1 DEF StudioInit, RoleName
  <2>2. setupInFlight = FALSE
    BY <1>1, Zenon DEF StudioInit
  <2>3. owners = 0
    BY <1>1, Zenon DEF StudioInit
  <2>4. wizard = [w \in Wizard |-> "idle"]
    BY <1>1, Zenon DEF StudioInit
  <2>5. wizard \in [Wizard -> {"idle", "asked", "free", "created", "done"}]
    BY <2>4
  <2>6. \A w \in Wizard : wizard[w] = "idle"
    BY <2>4
  <2>7. setupInFlight \in {TRUE, FALSE}
    BY <2>2, Zenon
  <2>8. /\ \A w \in Wizard : Busy(w) => setupInFlight = TRUE
        /\ \A w, x \in Wizard : Busy(w) /\ Busy(x) => w = x
        /\ \A w \in Wizard : wizard[w] = "free" => \A u \in User : account[u] = "none"
    BY <2>6 DEF Busy
  <2>9. owners \in {0, 1} /\ (owners = 1 => \E u \in User : account[u] = "owner")
    BY <2>3
  <2> QED BY <2>1, <2>5, <2>7, <2>8, <2>9, Zenon DEF WizardInv
<1> QED BY <1>1

LEMMA WizardStep == ASSUME WizardInv, [StudioNext]_studioVars PROVE WizardInv'
<1>1. ASSUME NEW w \in Wizard, AskSetup(w) PROVE WizardInv'
  BY <1>1, TurnedAway DEF AskSetup, WizardInv, Busy
<1>2. ASSUME NEW w \in Wizard, AnswerSetup(w) PROVE WizardInv'
  BY <1>2, NobodyYet DEF AnswerSetup, WizardInv, Busy
<1>3. ASSUME NEW w \in Wizard, FinishSetup(w) PROVE WizardInv'
  BY <1>3 DEF FinishSetup, WizardInv, Busy
<1>4. ASSUME NEW w \in Wizard, NEW u \in User, CreateOwner(w, u) PROVE WizardInv'
  <2>1. /\ wizard[w] = "free" /\ wizard' = [wizard EXCEPT ![w] = "created"]
        /\ account' = [account EXCEPT ![u] = "owner"] /\ owners' = owners + 1
        /\ setupInFlight' = setupInFlight
    BY <1>4 DEF CreateOwner
  <2>2. owners = 0
    BY <2>1 DEF WizardInv
  <2>3. account' \in [User -> RoleName] /\ account'[u] = "owner"
    BY <2>1 DEF WizardInv, RoleName
  <2>4. \A x \in Wizard : wizard'[x] \in {"asked", "free", "created"} => x = w
    BY <2>1 DEF WizardInv, Busy
  <2>5. wizard'[w] = "created" /\ setupInFlight = TRUE
    BY <2>1 DEF WizardInv, Busy
  <2>6. wizard' \in [Wizard -> {"idle", "asked", "free", "created", "done"}]
    BY <2>1 DEF WizardInv
  <2> QED BY <2>1, <2>2, <2>3, <2>4, <2>5, <2>6 DEF WizardInv, Busy
<1>5. CASE Restart
  <2>1. wizard' = [w \in Wizard |-> IF wizard[w] = "idle" THEN "idle" ELSE "done"]
        /\ setupInFlight' = FALSE /\ account' = account /\ owners' = owners
    BY <1>5 DEF Restart
  <2> QED BY <2>1 DEF WizardInv, Busy
<1>6. ASSUME NEW r \in Request, Perform(r) PROVE WizardInv'
  BY <1>6, WizardOfPerform
<1>7. CASE UNCHANGED <<account, wizard, setupInFlight, owners>>
  BY <1>7, WizardSame
<1>8. ASSUME NEW r \in Request,
             Upload(r, 1) \/ Upload(r, 2) \/ Remove(r) \/ RemoveRecord(r) \/ Fail(r) \/ Admit(r) \/ Refuse(r)
      PROVE UNCHANGED <<account, wizard, setupInFlight, owners>>
  BY <1>8 DEF Upload, Remove, RemoveRecord, Fail, Admit, Refuse
<1>9. ASSUME NEW u \in User, Login(u) \/ ReloadPanel(u)
      PROVE UNCHANGED <<account, wizard, setupInFlight, owners>>
  BY <1>9 DEF Login, ReloadPanel
<1>10. ASSUME NEW r \in Request, NEW u \in User, NEW route \in menu, NEW m \in Media, Arrive(r, u, route, m)
      PROVE UNCHANGED <<account, wizard, setupInFlight, owners>>
  BY <1>10 DEF Arrive
<1>11. CASE UNCHANGED studioVars
  BY <1>11, WizardSame DEF studioVars
<1> QED BY <1>1, <1>2, <1>3, <1>4, <1>5, <1>6, <1>7, <1>8, <1>9, <1>10, <1>11 DEF StudioNext

(***************************************************************************)
(* The routes: what a role of less than an administrator is granted is in  *)
(* the table of what it may do, and what changes something wants a token.  *)
(***************************************************************************)
\* A granted capability without wildcards matches itself only.
LEMMA PlainPath ==
    ASSUME NEW a, NEW b, a \notin {"*", "**"}, b \notin {"*", "**"}, NEW c, NEW d,
           CapabilityMatches(Cap(<<a, b>>), Cap(<<c, d>>))
    PROVE a = c /\ b = d
<1>1. Cap(<<a, b>>) # God
  <2>1. Len(<<a, b>>) # Len(<<"*">>)
    OBVIOUS
  <2>2. Cap(<<a, b>>).path = <<a, b>> /\ God.path = <<"*">>
    BY DEF Cap, God
  <2> QED BY <2>1, <2>2
<1>2. PathMatches(<<a, b>>, <<c, d>>)
  BY <1>1 DEF CapabilityMatches, Cap
<1>3. \A i \in DOMAIN <<a, b>> : <<a, b>>[i] # "**"
  OBVIOUS
<1>4. \A i \in DOMAIN <<a, b>> : <<a, b>>[i] \in {"*", <<c, d>>[i]}
  BY <1>2, <1>3 DEF PathMatches
<1>5. 1 \in DOMAIN <<a, b>> /\ 2 \in DOMAIN <<a, b>>
  OBVIOUS
<1>6. <<a, b>>[1] \in {"*", <<c, d>>[1]} /\ <<a, b>>[2] \in {"*", <<c, d>>[2]}
  BY <1>4, <1>5
<1> QED BY <1>6

\* What the lesser roles are granted, as area and verb.
AuthorPairs == {<<"content", "create">>, <<"content", "read">>, <<"content", "update">>, <<"content", "submit">>,
                <<"media", "write">>, <<"media", "read">>}
EditorPairs == AuthorPairs \cup {<<"menus", "manage">>, <<"forms", "manage">>, <<"content", "reveal">>,
                                 <<"content", "publish">>}
ViewerPairs == {<<"content", "read">>, <<"media", "read">>}
Pairs(role) == IF role = "editor" THEN EditorPairs
               ELSE IF role = "author" THEN AuthorPairs
               ELSE IF role = "viewer" THEN ViewerPairs ELSE {}

LEMMA CapabilitiesArePairs ==
    ASSUME NEW role \in RoleName \ {"owner", "admin"}, NEW g \in RoleCapabilities(role)
    PROVE \E pair \in Pairs(role) : g = Cap(pair)
<1>1. ASSUME NEW h \in AuthorCapabilities PROVE \E pair \in AuthorPairs : h = Cap(pair)
  BY <1>1 DEF AuthorCapabilities, AuthorPairs
<1>2. CASE role = "editor"
  BY <1>1, <1>2 DEF RoleCapabilities, Pairs, EditorPairs, Manages
<1>3. CASE role = "author"
  BY <1>1, <1>3 DEF RoleCapabilities, Pairs
<1>4. CASE role = "viewer"
  BY <1>4 DEF RoleCapabilities, Pairs, ViewerPairs
<1>5. CASE role = "none"
  BY <1>5 DEF RoleCapabilities
<1> QED BY <1>2, <1>3, <1>4, <1>5 DEF RoleName

LEMMA PairsArePlain ==
    ASSUME NEW role, NEW pair \in Pairs(role)
    PROVE /\ pair = <<pair[1], pair[2]>>
          /\ pair[1] \notin {"*", "**"} /\ pair[2] \notin {"*", "**"}
BY DEF Pairs, EditorPairs, AuthorPairs, ViewerPairs

\* check() grants a lesser role what is in its list.
LEMMA CheckIsExact ==
    ASSUME NEW role \in RoleName \ {"owner", "admin"}, NEW c, NEW d, Check(role, Cap(<<c, d>>))
    PROVE <<c, d>> \in Pairs(role)
<1>1. PICK g \in RoleCapabilities(role) : CapabilityMatches(g, Cap(<<c, d>>))
  BY DEF Check
<1>2. PICK pair \in Pairs(role) : g = Cap(pair)
  BY CapabilitiesArePairs
<1>3. pair = <<pair[1], pair[2]>> /\ pair[1] \notin {"*", "**"} /\ pair[2] \notin {"*", "**"}
  BY PairsArePlain
<1>4. CapabilityMatches(Cap(<<pair[1], pair[2]>>), Cap(<<c, d>>))
  BY <1>1, <1>2, <1>3
<1>5. pair[1] = c /\ pair[2] = d
  BY <1>3, <1>4, PlainPath
<1> QED BY <1>2, <1>3, <1>5

\* A route is in order if the roles that reach it may do it and, unless it is harmless, wants a token.
Lesser == {"editor", "author", "viewer"}
MayReach(role, cap) == cap = Anyone \/ Check(role, cap)
InOrder(route) ==
    /\ \A role \in Lesser : MayReach(role, route.cap) => route.name \in MayDo(role)
    /\ route.name \in Harmless \/ route.csrf = TRUE
Suffices(name, pair) == \A role \in Lesser : pair \in Pairs(role) => name \in MayDo(role)

LEMMA PairReached ==
    ASSUME NEW role \in Lesser, NEW c, NEW d, MayReach(role, Cap(<<c, d>>))
    PROVE <<c, d>> \in Pairs(role)
<1>1. Cap(<<c, d>>) # Anyone
  <2>1. Len(<<c, d>>) # Len(<<>>)
    OBVIOUS
  <2>2. Cap(<<c, d>>).path = <<c, d>> /\ Anyone.path = <<>>
    BY DEF Cap, Anyone
  <2> QED BY <2>1, <2>2
<1> QED BY <1>1, CheckIsExact DEF MayReach, Lesser, RoleName

\* A route behind a capability is in order if whoever has the capability may do it.
LEMMA GuardedInOrder ==
    ASSUME NEW name, NEW c, NEW d, NEW csrf, NEW locks, Suffices(name, <<c, d>>), name \in Harmless \/ csrf = TRUE
    PROVE InOrder(Guarded(name, Cap(<<c, d>>), csrf, locks))
<1>1. /\ Guarded(name, Cap(<<c, d>>), csrf, locks).name = name
      /\ Guarded(name, Cap(<<c, d>>), csrf, locks).csrf = csrf
      /\ Guarded(name, Cap(<<c, d>>), csrf, locks).cap = Cap(<<c, d>>)
  BY DEF Guarded
<1> QED BY <1>1, PairReached DEF InOrder, Suffices

LEMMA WritingInOrder ==
    ASSUME NEW name, NEW c, NEW d, Suffices(name, <<c, d>>)
    PROVE InOrder(Writing(name, c, d))
BY GuardedInOrder DEF Writing

LEMMA ReadingInOrder ==
    ASSUME NEW name \in Harmless, NEW c, NEW d, Suffices(name, <<c, d>>)
    PROVE InOrder(Reading(name, c, d))
BY GuardedInOrder DEF Reading

\* So is a route of the user's own affairs, which wants a session only.
LEMMA OwnInOrder ==
    ASSUME NEW name \in OwnAffairs, NEW csrf, NEW locks, name \in Harmless \/ csrf = TRUE
    PROVE InOrder(Guarded(name, Anyone, csrf, locks))
<1>1. Guarded(name, Anyone, csrf, locks).name = name /\ Guarded(name, Anyone, csrf, locks).csrf = csrf
  BY DEF Guarded
<1>2. \A role \in Lesser : name \in MayDo(role)
  BY DEF Lesser, MayDo
<1> QED BY <1>1, <1>2 DEF InOrder

\* Each file of routes.
LEMMA GroupsInOrder == \A route \in AllRoutes : InOrder(route)
<1>1. \A route \in SessionRoutes : InOrder(route)
  <2>1. {"logout", "mfa"} \subseteq OwnAffairs
    BY DEF OwnAffairs
  <2> QED BY <2>1, OwnInOrder DEF SessionRoutes, Own
<1>2. \A route \in MemberRoutes : InOrder(route)
  <2>1. /\ Suffices("members", <<"members", "manage">>)
        /\ Suffices("moderate", <<"members", "manage">>)
    BY DEF Suffices, Pairs, EditorPairs, AuthorPairs, ViewerPairs, MayDo
  <2>2. {"members"} \subseteq Harmless
    BY DEF Harmless, Looks
  <2> QED BY <2>1, <2>2, ReadingInOrder, WritingInOrder DEF MemberRoutes
<1>3. \A route \in BackupRoutes : InOrder(route)
  <2>1. /\ Suffices("backups", <<"backups", "manage">>)
        /\ Suffices("backup", <<"backups", "manage">>)
    BY DEF Suffices, Pairs, EditorPairs, AuthorPairs, ViewerPairs, MayDo
  <2>2. {"backups"} \subseteq Harmless
    BY DEF Harmless, Looks
  <2> QED BY <2>1, <2>2, ReadingInOrder, WritingInOrder DEF BackupRoutes
<1>4. \A route \in RedirectRoutes : InOrder(route)
  <2>1. /\ Suffices("redirects", <<"redirects", "manage">>)
        /\ Suffices("redirect", <<"redirects", "manage">>)
    BY DEF Suffices, Pairs, EditorPairs, AuthorPairs, ViewerPairs, MayDo
  <2>2. {"redirects"} \subseteq Harmless
    BY DEF Harmless, Looks
  <2> QED BY <2>1, <2>2, ReadingInOrder, WritingInOrder DEF RedirectRoutes
<1>5. \A route \in MeRoutes : InOrder(route)
  <2>1. {"me"} \subseteq OwnAffairs
    BY DEF OwnAffairs
  <2>2. {"me"} \subseteq Harmless
    BY DEF Harmless, Looks
  <2> QED BY <2>1, <2>2, OwnInOrder DEF MeRoutes, Public
<1>6. \A route \in TypeRoutes : InOrder(route)
  <2>1. /\ Suffices("types", <<"content", "read">>)
        /\ Suffices("type", <<"types", "manage">>)
    BY DEF Suffices, Pairs, EditorPairs, AuthorPairs, ViewerPairs, MayDo
  <2>2. {"types"} \subseteq Harmless
    BY DEF Harmless, Looks
  <2> QED BY <2>1, <2>2, ReadingInOrder, WritingInOrder DEF TypeRoutes
<1>7. \A route \in ContentRoutes : InOrder(route)
  <2>1. /\ Suffices("list", <<"content", "read">>)
        /\ Suffices("create", <<"content", "create">>)
        /\ Suffices("save", <<"content", "update">>)
        /\ Suffices("submit", <<"content", "submit">>)
        /\ Suffices("publish", <<"content", "publish">>)
        /\ Suffices("withdraw", <<"content", "update">>)
    BY DEF Suffices, Pairs, EditorPairs, AuthorPairs, ViewerPairs, MayDo
  <2>2. {"list"} \subseteq Harmless
    BY DEF Harmless, Looks
  <2> QED BY <2>1, <2>2, ReadingInOrder, WritingInOrder DEF ContentRoutes
<1>8. \A route \in ThemeRoutes : InOrder(route)
  <2>1. /\ Suffices("theme", <<"content", "read">>)
        /\ Suffices("customize", <<"themes", "manage">>)
        /\ Suffices("themePreview", <<"themes", "manage">>)
    BY DEF Suffices, Pairs, EditorPairs, AuthorPairs, ViewerPairs, MayDo
  <2>2. {"theme", "themePreview"} \subseteq Harmless
    BY DEF Harmless, Looks
  <2> QED BY <2>1, <2>2, GuardedInOrder, ReadingInOrder, WritingInOrder DEF ThemeRoutes
<1>9. \A route \in GdprRoutes : InOrder(route)
  <2>1. /\ Suffices("export", <<"gdpr", "manage">>)
        /\ Suffices("erase", <<"gdpr", "manage">>)
    BY DEF Suffices, Pairs, EditorPairs, AuthorPairs, ViewerPairs, MayDo
  <2> QED BY <2>1, WritingInOrder DEF GdprRoutes
<1>10. \A route \in CveRoutes : InOrder(route)
  <2>1. /\ Suffices("cve", <<"content", "read">>)
    BY DEF Suffices, Pairs, EditorPairs, AuthorPairs, ViewerPairs, MayDo
  <2>2. {"cve"} \subseteq Harmless
    BY DEF Harmless, Looks
  <2> QED BY <2>1, <2>2, ReadingInOrder DEF CveRoutes
<1>11. \A route \in PanelRoutes : InOrder(route)
  <2>1. {"panel"} \subseteq OwnAffairs
    BY DEF OwnAffairs
  <2>2. {"panel"} \subseteq Harmless
    BY DEF Harmless, Looks
  <2> QED BY <2>1, <2>2, OwnInOrder DEF PanelRoutes, Public
<1>12. \A route \in DesignerRoutes : InOrder(route)
  <2>1. {"library", "preview"} \subseteq OwnAffairs
    BY DEF OwnAffairs
  <2>2. {"library", "preview"} \subseteq Harmless
    BY DEF Harmless, Looks
  <2> QED BY <2>1, <2>2, OwnInOrder DEF DesignerRoutes, Public
<1>13. \A route \in MediaRoutes : InOrder(route)
  <2>1. /\ Suffices("media", <<"media", "read">>)
        /\ Suffices("upload", <<"media", "write">>)
        /\ Suffices("remove", <<"media", "write">>)
    BY DEF Suffices, Pairs, EditorPairs, AuthorPairs, ViewerPairs, MayDo
  <2>2. {"media"} \subseteq Harmless
    BY DEF Harmless, Looks
  <2> QED BY <2>1, <2>2, ReadingInOrder, WritingInOrder DEF MediaRoutes
<1>14. \A route \in RevisionRoutes : InOrder(route)
  <2>1. /\ Suffices("revisions", <<"content", "read">>)
        /\ Suffices("restore", <<"content", "update">>)
    BY DEF Suffices, Pairs, EditorPairs, AuthorPairs, ViewerPairs, MayDo
  <2>2. {"revisions"} \subseteq Harmless
    BY DEF Harmless, Looks
  <2> QED BY <2>1, <2>2, ReadingInOrder, WritingInOrder DEF RevisionRoutes
<1>15. \A route \in UserRoutes : InOrder(route)
  <2>1. /\ Suffices("users", <<"users", "manage">>)
        /\ Suffices("user", <<"users", "manage">>)
    BY DEF Suffices, Pairs, EditorPairs, AuthorPairs, ViewerPairs, MayDo
  <2>2. {"users"} \subseteq Harmless
    BY DEF Harmless, Looks
  <2> QED BY <2>1, <2>2, ReadingInOrder, WritingInOrder DEF UserRoutes
<1>16. \A route \in PasswordRoutes : InOrder(route)
  <2>1. {"password"} \subseteq OwnAffairs
    BY DEF OwnAffairs
  <2> QED BY <2>1, OwnInOrder DEF PasswordRoutes, Own
<1>17. \A route \in SettingsRoutes : InOrder(route)
  <2>1. /\ Suffices("settings", <<"settings", "manage">>)
        /\ Suffices("setting", <<"settings", "manage">>)
    BY DEF Suffices, Pairs, EditorPairs, AuthorPairs, ViewerPairs, MayDo
  <2>2. {"locales"} \subseteq OwnAffairs
    BY DEF OwnAffairs
  <2>3. {"settings", "locales"} \subseteq Harmless
    BY DEF Harmless, Looks
  <2> QED BY <2>1, <2>2, <2>3, OwnInOrder, ReadingInOrder, WritingInOrder DEF SettingsRoutes, Public
<1>18. \A route \in DbRoutes : InOrder(route)
  <2>1. /\ Suffices("db", <<"db", "manage">>)
        /\ Suffices("migrate", <<"db", "manage">>)
    BY DEF Suffices, Pairs, EditorPairs, AuthorPairs, ViewerPairs, MayDo
  <2>2. {"db"} \subseteq Harmless
    BY DEF Harmless, Looks
  <2> QED BY <2>1, <2>2, GuardedInOrder, ReadingInOrder DEF DbRoutes
<1>19. \A route \in AuditRoutes : InOrder(route)
  <2>1. /\ Suffices("audit", <<"audit", "read">>)
    BY DEF Suffices, Pairs, EditorPairs, AuthorPairs, ViewerPairs, MayDo
  <2>2. {"audit"} \subseteq Harmless
    BY DEF Harmless, Looks
  <2> QED BY <2>1, <2>2, ReadingInOrder DEF AuditRoutes
<1>20. \A route \in PluginRoutes : InOrder(route)
  <2>1. /\ Suffices("plugins", <<"plugins", "manage">>)
        /\ Suffices("enable", <<"plugins", "manage">>)
        /\ Suffices("invoke", <<"plugins", "manage">>)
    BY DEF Suffices, Pairs, EditorPairs, AuthorPairs, ViewerPairs, MayDo
  <2>2. {"plugins"} \subseteq Harmless
    BY DEF Harmless, Looks
  <2> QED BY <2>1, <2>2, ReadingInOrder, WritingInOrder DEF PluginRoutes
<1> QED BY <1>1, <1>2, <1>3, <1>4, <1>5, <1>6, <1>7, <1>8, <1>9, <1>10,
           <1>11, <1>12, <1>13, <1>14, <1>15, <1>16, <1>17, <1>18, <1>19, <1>20
  DEF AllRoutes

\* Every route of app.ts.
LEMMA RoutesInOrder ==
    ASSUME NEW route \in DOMAIN Routes
    PROVE /\ \A role \in RoleName \ {"none"} : Granted(role, route) => route \in MayDo(role)
          /\ route \in Harmless \/ Routes[route].csrf = TRUE
<1>1. Routes[route] \in AllRoutes /\ Routes[route].name = route
  BY DEF Routes
<1>2. InOrder(Routes[route])
  BY <1>1, GroupsInOrder
<1>3. \A role \in {"owner", "admin"} : route \in MayDo(role)
  BY DEF MayDo
<1> QED BY <1>1, <1>2, <1>3 DEF InOrder, MayReach, Granted, Lesser, RoleName

(***************************************************************************)
(* Requests.  Witnessed only adds roles, so what holds of a request before *)
(* it holds after it.                                                      *)
(***************************************************************************)
\* A request, and what a step leaves as it was.
Places == {"none", "arrived", "admitted", "media", "half"}
RequestRecord == [at : Places, route : DOMAIN Routes \cup {"none"}, by : User \cup {"none"},
                  token : Token \cup {NoToken}, csrf : Nat, media : Media \cup {"none"}, roles : SUBSET RoleName]

Same(p, q) == p.at = q.at /\ p.route = q.route /\ p.token = q.token /\ p.csrf = q.csrf /\ p.media = q.media
              /\ q.roles \subseteq p.roles
LEMMA RolesAdded ==
    ASSUME NEW q \in RequestRecord, NEW role \in RoleName
    PROVE /\ [q EXCEPT !.roles = @ \cup {role}] \in RequestRecord
          /\ Same([q EXCEPT !.roles = @ \cup {role}], q)
          /\ role \in [q EXCEPT !.roles = @ \cup {role}].roles
BY DEF RequestRecord, Same

\* Witnessed adds the role of the moment.
LEMMA WitnessedKeeps ==
    ASSUME NEW q \in [Request -> RequestRecord], account' \in [User -> RoleName]
    PROVE /\ Witnessed(q) \in [Request -> RequestRecord]
          /\ \A r \in Request : Same(Witnessed(q)[r], q[r])
          /\ \A r \in Request : q[r].at # "none" /\ q[r].token # NoToken /\ session'[q[r].token] \in User =>
                 account'[session'[q[r].token]] \in Witnessed(q)[r].roles
<1> DEFINE new(r) == [q[r] EXCEPT !.roles = @ \cup {account'[session'[q[r].token]]}]
           idle(r) == q[r].at = "none" \/ q[r].token = NoToken \/ session'[q[r].token] \notin User
<1>1. Witnessed(q) = [r \in Request |-> IF idle(r) THEN q[r] ELSE new(r)]
  BY DEF Witnessed
<1>2. \A r \in Request : ~idle(r) => /\ new(r) \in RequestRecord /\ Same(new(r), q[r])
                                     /\ account'[session'[q[r].token]] \in new(r).roles
  BY RolesAdded
<1>3. \A r \in Request : Same(q[r], q[r])
  BY DEF Same
<1> HIDE DEF new
<1> QED BY <1>1, <1>2, <1>3

LEMMA MovedOn ==
    ASSUME NEW q \in [Request -> RequestRecord], NEW r \in Request, NEW at \in Places
    PROVE /\ [q EXCEPT ![r].at = at] \in [Request -> RequestRecord]
          /\ \A s \in Request \ {r} : [q EXCEPT ![r].at = at][s] = q[s]
          /\ [q EXCEPT ![r].at = at][r].at = at
          /\ [q EXCEPT ![r].at = at][r].route = q[r].route
          /\ [q EXCEPT ![r].at = at][r].token = q[r].token
          /\ [q EXCEPT ![r].at = at][r].csrf = q[r].csrf
          /\ [q EXCEPT ![r].at = at][r].media = q[r].media
          /\ [q EXCEPT ![r].at = at][r].roles = q[r].roles
BY DEF RequestRecord

\* Who is signed in has an account that is not disabled.
SessionInv ==
    /\ menu \subseteq DOMAIN Routes
    /\ session \in [Token -> User \cup {"ended", "unissued"}]
    /\ cookie \in [User -> Token \cup {NoToken}]
    /\ pageToken \in [User -> Nat] /\ panelToken \in [User -> Nat]
    /\ \A t \in Token : session[t] \in User => account[session[t]] # "none"

\* Once it is past the guards a request was allowed.
Held == {"admitted", "media", "half"}
Allowed(q) ==
    /\ \E role \in q.roles : q.route \in MayDo(role)
    /\ q.route \in Harmless \/ q.csrf = q.token
HeldIn(q) == \A r \in Request :
    /\ q[r].at # "none" => q[r].route \in DOMAIN Routes
    /\ q[r].at \in Held => Allowed(q[r])

\* A half upload has its file and no record, and is the only one of its media; what lacks a file is
\* being removed.
HalfUpload(q, r) == q[r].at = "half" /\ q[r].route = "upload"
HalfRemoval(q, r) == q[r].at = "half" /\ q[r].route = "remove"
MediaIn(q, records, files, cuts) ==
    /\ \A r \in Request : HalfUpload(q, r) => q[r].media \in files \ records
    /\ \A r, s \in Request : HalfUpload(q, r) /\ HalfUpload(q, s) /\ q[r].media = q[s].media => r = s
    /\ \A m \in records \ (files \cup cuts) : \E r \in Request : HalfRemoval(q, r) /\ q[r].media = m

Typed(q) == q \in [Request -> RequestRecord]
Sound(q, records, files, cuts) == Typed(q) /\ HeldIn(q) /\ MediaIn(q, records, files, cuts)
RequestInv == Sound(req, record, file, cut)

LEMMA TokensAreNumbers == Token \subseteq Nat /\ NoToken \in Nat /\ Unasked \in Nat
BY StudioConstants DEF Token, NoToken, Unasked

LEMMA NoRequestTyped == NoRequest \in RequestRecord
BY TokensAreNumbers DEF NoRequest, RequestRecord, Places

LEMMA AllowedGrows == ASSUME NEW p, NEW q, Same(p, q), Allowed(q) PROVE Allowed(p)
BY DEF Same, Allowed

\* Witnessed keeps it all.
LEMMA SoundWitnessed ==
    ASSUME NEW q, NEW records, NEW files, NEW cuts, Sound(q, records, files, cuts),
           account' \in [User -> RoleName]
    PROVE Sound(Witnessed(q), records, files, cuts)
<1>1. q \in [Request -> RequestRecord]
  BY DEF Sound, Typed
<1>2. /\ Typed(Witnessed(q))
      /\ \A r \in Request : Same(Witnessed(q)[r], q[r])
  BY <1>1, WitnessedKeeps DEF Typed
<1>3. \A r \in Request : /\ Witnessed(q)[r].at = q[r].at
                         /\ Witnessed(q)[r].route = q[r].route /\ Witnessed(q)[r].media = q[r].media
  BY <1>2 DEF Same
<1>4. HeldIn(Witnessed(q))
  BY <1>2, <1>3, AllowedGrows DEF Sound, HeldIn
<1>5. MediaIn(q, records, files, cuts)
  BY DEF Sound
<1>6. MediaIn(Witnessed(q), records, files, cuts)
  BY <1>3, <1>5 DEF MediaIn, HalfUpload, HalfRemoval
<1> QED BY <1>2, <1>4, <1>6 DEF Sound

\* So does the end of a request that has done nothing by half.
LEMMA SoundDropped ==
    ASSUME RequestInv, NEW r \in Request, req[r].at # "half"
    PROVE Sound(Drop(r), record, file, cut)
<1>1. Typed(Drop(r))
  BY NoRequestTyped DEF RequestInv, Sound, Typed, Drop
<1>2. Drop(r)[r].at = "none" /\ \A s \in Request \ {r} : Drop(r)[s] = req[s]
  BY DEF RequestInv, Sound, Typed, Drop, NoRequest
<1>3. HeldIn(Drop(r))
  BY <1>2 DEF RequestInv, Sound, HeldIn, Held
<1>4. MediaIn(req, record, file, cut)
  BY DEF RequestInv, Sound
<1>5. MediaIn(Drop(r), record, file, cut)
  BY <1>2, <1>4 DEF MediaIn, HalfUpload, HalfRemoval
<1> QED BY <1>1, <1>3, <1>5 DEF Sound

LEMMA RequestStart == StudioInit => SessionInv /\ RequestInv
<1> SUFFICES ASSUME StudioInit PROVE SessionInv /\ RequestInv
  OBVIOUS
<1>1. /\ menu \in Menus /\ session = [t \in Token |-> "unissued"]
      /\ cookie = [u \in User |-> NoToken] /\ pageToken = [u \in User |-> NoToken]
      /\ panelToken = [u \in User |-> Unasked] /\ req = [r \in Request |-> NoRequest] /\ record = {}
  BY DEF StudioInit
<1>2. SessionInv
  BY <1>1, TokensAreNumbers, StudioConstants DEF SessionInv
<1>3. Typed(req) /\ \A r \in Request : req[r].at = "none"
  <2>1. \A r \in Request : req[r] = NoRequest
    BY <1>1
  <2> QED BY <1>1, <2>1, NoRequestTyped DEF Typed, NoRequest
<1>4. HeldIn(req) /\ MediaIn(req, record, file, cut)
  BY <1>1, <1>3 DEF HeldIn, Held, MediaIn, HalfUpload
<1> QED BY <1>2, <1>3, <1>4 DEF RequestInv, Sound

LEMMA SessionSame ==
    ASSUME SessionInv, UNCHANGED <<menu, session, cookie, pageToken, panelToken, account>> PROVE SessionInv'
BY DEF SessionInv

LEMMA SessionOfLogin == ASSUME WizardInv, SessionInv, NEW u \in User, Login(u) PROVE SessionInv'
<1>1. PICK t \in Token : session' = [session EXCEPT ![t] = u] /\ cookie' = [cookie EXCEPT ![u] = t]
  BY DEF Login
<1>2. account[u] # "none" /\ UNCHANGED <<menu, account, pageToken, panelToken>>
  BY DEF Login
<1> QED BY <1>1, <1>2 DEF SessionInv

LEMMA SessionOfPerform ==
    ASSUME WizardInv, SessionInv, Typed(req), NEW r \in Request, Perform(r) PROVE SessionInv'
<1>1. req[r].token \in Nat /\ menu' = menu
  BY TokensAreNumbers DEF Typed, RequestRecord, Perform
<1>2. ASSUME NEW u \in User, NEW role \in {"admin", "viewer", "none"},
             account' = [account EXCEPT ![u] = role],
             session' = [t \in Token |-> IF session[t] = u THEN "ended" ELSE session[t]],
             UNCHANGED <<cookie, pageToken, panelToken>>
      PROVE SessionInv'
  BY <1>1, <1>2, StudioConstants DEF SessionInv, WizardInv
<1>3. ASSUME session' = [session EXCEPT ![req[r].token] = "ended"],
             cookie' = [cookie EXCEPT ![req[r].by] = NoToken], UNCHANGED <<account, pageToken, panelToken>>
      PROVE SessionInv'
  BY <1>1, <1>3, StudioConstants DEF SessionInv
<1>4. ASSUME pageToken' = [pageToken EXCEPT ![req[r].by] = req[r].token],
             UNCHANGED <<account, session, cookie, panelToken>>
      PROVE SessionInv'
  BY <1>1, <1>4 DEF SessionInv
<1>5. ASSUME NEW answer \in {NoToken, req[r].token},
             panelToken' = [panelToken EXCEPT ![req[r].by] = IF @ = Unasked THEN answer ELSE @],
             UNCHANGED <<account, session, cookie, pageToken>>
      PROVE SessionInv'
  BY <1>1, <1>5, TokensAreNumbers DEF SessionInv
<1>6. CASE UNCHANGED <<account, session, cookie, pageToken, panelToken>>
  BY <1>1, <1>6, SessionSame
<1> QED BY <1>2, <1>3, <1>4, <1>5, <1>6 DEF Perform

LEMMA SessionStep == ASSUME WizardInv, SessionInv, RequestInv, [StudioNext]_studioVars PROVE SessionInv'
<1>1. ASSUME NEW u \in User, Login(u) PROVE SessionInv'
  BY <1>1, SessionOfLogin
<1>2. ASSUME NEW u \in User, ReloadPanel(u) PROVE SessionInv'
  BY <1>2, TokensAreNumbers DEF ReloadPanel, SessionInv
<1>3. ASSUME NEW r \in Request, Perform(r) PROVE SessionInv'
  BY <1>3, SessionOfPerform DEF RequestInv, Sound
<1>4. ASSUME NEW w \in Wizard, NEW u \in User, CreateOwner(w, u) PROVE SessionInv'
  BY <1>4 DEF CreateOwner, SessionInv, WizardInv
<1>5. CASE Restart
  BY <1>5, TokensAreNumbers DEF Restart, SessionInv
<1>6. ASSUME NEW r \in Request,
             Upload(r, 1) \/ Upload(r, 2) \/ Remove(r) \/ RemoveRecord(r) \/ Fail(r) \/ Admit(r) \/ Refuse(r)
      PROVE SessionInv'
  BY <1>6, SessionSame DEF Upload, Remove, RemoveRecord, Fail, Admit, Refuse
<1>7. ASSUME NEW r \in Request, NEW u \in User, NEW route \in menu, NEW m \in Media, Arrive(r, u, route, m)
      PROVE SessionInv'
  BY <1>7, SessionSame DEF Arrive
<1>8. ASSUME NEW w \in Wizard, AskSetup(w) \/ AnswerSetup(w) \/ FinishSetup(w) PROVE SessionInv'
  BY <1>8, SessionSame DEF AskSetup, AnswerSetup, FinishSetup
<1>9. CASE UNCHANGED studioVars
  BY <1>9, SessionSame DEF studioVars
<1> QED BY <1>1, <1>2, <1>3, <1>4, <1>5, <1>6, <1>7, <1>8, <1>9 DEF StudioNext

\* A step that leaves sound requests leaves sound requests, witnessed.
StepTo(q) == req' = Witnessed(q) /\ Sound(q, record', file', cut')

LEMMA SoundNext == ASSUME WizardInv', NEW q, StepTo(q) PROVE RequestInv'
<1>1. account' \in [User -> RoleName]
  BY DEF WizardInv
<1>2. Sound(Witnessed(q), record', file', cut')
  BY <1>1, SoundWitnessed DEF StepTo
<1> QED BY <1>2 DEF StepTo, RequestInv, Sound, Typed, HeldIn, MediaIn, HalfUpload, HalfRemoval, Allowed

LEMMA SoundSame == ASSUME RequestInv, UNCHANGED <<req, record, file, cut>> PROVE RequestInv'
BY DEF RequestInv, Sound, Typed, HeldIn, MediaIn, HalfUpload, HalfRemoval, Allowed

LEMMA RequestOfArrive ==
    ASSUME WizardInv', SessionInv, RequestInv, NEW r \in Request, NEW u \in User, NEW route \in menu,
           NEW m \in Media, Arrive(r, u, route, m)
    PROVE RequestInv'
<1> DEFINE q == [NoRequest EXCEPT !.at = "arrived", !.route = route, !.by = u, !.token = cookie[u],
                                  !.csrf = TokenSent(u, route), !.media = m]
           qs == [req EXCEPT ![r] = q]
<1>1. req' = Witnessed(qs) /\ req[r] = NoRequest /\ UNCHANGED <<record, file, cut>>
  BY DEF Arrive
<1>2. cookie[u] \in Token \cup {NoToken} /\ TokenSent(u, route) \in Nat /\ route \in DOMAIN Routes
  BY DEF SessionInv, TokenSent
<1>3. q \in RequestRecord /\ q.at = "arrived" /\ q.route \in DOMAIN Routes
  BY <1>2, NoRequestTyped DEF RequestRecord, Places
<1> HIDE DEF q
<1>4. Typed(qs) /\ qs[r] = q /\ \A s \in Request \ {r} : qs[s] = req[s]
  BY <1>3 DEF RequestInv, Sound, Typed
<1>5. req[r].at = "none"
  BY <1>1 DEF NoRequest
<1> HIDE DEF qs
<1>6. HeldIn(qs)
  BY <1>3, <1>4 DEF RequestInv, Sound, HeldIn, Held
<1>7. MediaIn(qs, record, file, cut)
  BY <1>3, <1>4, <1>5 DEF RequestInv, Sound, MediaIn, HalfUpload, HalfRemoval
<1> QED BY <1>1, <1>4, <1>6, <1>7, SoundNext DEF Sound, StepTo

\* The guards: the role read here is one under which the request was signed in.
LEMMA RequestOfAdmit ==
    ASSUME WizardInv, WizardInv', SessionInv, RequestInv, NEW r \in Request, Admit(r) PROVE RequestInv'
<1> DEFINE at == IF req[r].route \in {"upload", "remove"} THEN "media" ELSE "admitted"
           q == [req EXCEPT ![r].at = at]
<1>1. /\ req[r].at = "arrived" /\ Admitted(r) /\ req' = Witnessed(q)
      /\ UNCHANGED <<session, account, record, file, cut>>
  BY DEF Admit
<1>2. at \in {"media", "admitted"} /\ at \in Places
  BY DEF Places
<1> HIDE DEF at
<1>3. /\ Typed(q) /\ \A s \in Request \ {r} : q[s] = req[s]
      /\ q[r].at = at /\ q[r].route = req[r].route /\ q[r].token = req[r].token /\ q[r].csrf = req[r].csrf
  BY <1>2, MovedOn DEF RequestInv, Sound, Typed
<1> HIDE DEF q
<1>4. account' \in [User -> RoleName]
  BY DEF WizardInv
<1>5. /\ Typed(req')
      /\ \A s \in Request : Same(req'[s], q[s])
      /\ q[r].at # "none" /\ q[r].token # NoToken /\ session'[q[r].token] \in User =>
             account'[session'[q[r].token]] \in req'[r].roles
  BY <1>1, <1>3, <1>4, WitnessedKeeps DEF Typed
<1>6. /\ req[r].route \in DOMAIN Routes \cup {"none"} /\ req[r].token \in Token \cup {NoToken}
  BY DEF RequestInv, Sound, Typed, RequestRecord
<1>7. PICK role \in RoleName \ {"none"} : role \in req'[r].roles /\ Granted(role, req[r].route)
  <2>1. req[r].token # NoToken /\ session[req[r].token] \in User
    BY <1>1 DEF Admitted, Live
  <2>2. RoleOf(req[r].token) = account[session[req[r].token]]
    BY <2>1 DEF RoleOf, Live
  <2>3. RoleOf(req[r].token) \in RoleName \ {"none"}
    BY <1>6, <2>1, <2>2 DEF SessionInv, WizardInv
  <2>4. q[r].at # "none" /\ q[r].token # NoToken /\ session'[q[r].token] \in User
    BY <1>1, <1>2, <1>3, <2>1
  <2>5. RoleOf(req[r].token) \in req'[r].roles
    BY <1>1, <1>3, <1>5, <2>2, <2>4
  <2> QED BY <1>1, <2>3, <2>5 DEF Admitted
<1>8. Allowed(req'[r])
  <2>1. req[r].route \in DOMAIN Routes
    BY <1>1 DEF RequestInv, Sound, HeldIn
  <2>2. req[r].route \in MayDo(role)
    BY <1>7, <2>1, RoutesInOrder
  <2>3. req[r].route \in Harmless \/ req[r].csrf = req[r].token
    BY <1>1, <2>1, RoutesInOrder DEF Admitted, CsrfVerifies, Route
  <2> QED BY <1>3, <1>5, <1>7, <2>2, <2>3 DEF Allowed, Same
<1>9. HeldIn(req')
  <2>1. ASSUME NEW s \in Request \ {r}
        PROVE (req'[s].at # "none" => req'[s].route \in DOMAIN Routes) /\ (req'[s].at \in Held => Allowed(req'[s]))
    <3>1. Same(req'[s], req[s])
      BY <1>3, <1>5
    <3> QED BY <3>1, AllowedGrows DEF RequestInv, Sound, HeldIn, Same
  <2>2. req'[r].route \in DOMAIN Routes
    BY <1>1, <1>3, <1>5 DEF RequestInv, Sound, HeldIn, Same
  <2> QED BY <1>8, <2>1, <2>2 DEF HeldIn
<1>10. MediaIn(req', record, file, cut)
  <2>1. MediaIn(req, record, file, cut)
    BY DEF RequestInv, Sound
  <2>2. /\ \A s \in Request \ {r} : /\ req'[s].at = req[s].at /\ req'[s].route = req[s].route
                                    /\ req'[s].media = req[s].media
        /\ req'[r].at \in {"media", "admitted"} /\ req[r].at = "arrived"
    BY <1>1, <1>2, <1>3, <1>5 DEF Same
  <2> QED BY <2>1, <2>2 DEF MediaIn, HalfUpload, HalfRemoval
<1> QED BY <1>1, <1>5, <1>9, <1>10 DEF RequestInv, Sound, Typed, HeldIn, MediaIn, HalfUpload, HalfRemoval, Allowed

\* A request ends.
LEMMA RequestOfDrop ==
    ASSUME WizardInv', RequestInv, NEW r \in Request, req[r].at # "half", req' = Witnessed(Drop(r)),
           UNCHANGED <<record, file, cut>>
    PROVE RequestInv'
BY SoundDropped, SoundNext DEF StepTo

\* A request ends, and its media is dealt with apart.
LEMMA Dropped ==
    ASSUME RequestInv, NEW r \in Request
    PROVE /\ Typed(Drop(r)) /\ HeldIn(Drop(r))
          /\ Drop(r)[r].at = "none" /\ \A s \in Request \ {r} : Drop(r)[s] = req[s]
<1>1. Typed(Drop(r))
  BY NoRequestTyped DEF RequestInv, Sound, Typed, Drop
<1>2. Drop(r)[r].at = "none" /\ \A s \in Request \ {r} : Drop(r)[s] = req[s]
  BY DEF RequestInv, Sound, Typed, Drop, NoRequest
<1> QED BY <1>1, <1>2 DEF RequestInv, Sound, HeldIn, Held

\* A request of the media library is half done.
LEMMA Halved ==
    ASSUME RequestInv, NEW r \in Request, req[r].at = "media"
    PROVE LET q == [req EXCEPT ![r].at = "half"] IN
          /\ Typed(q) /\ HeldIn(q)
          /\ q[r].at = "half" /\ q[r].route = req[r].route /\ q[r].media = req[r].media
          /\ \A s \in Request \ {r} : q[s] = req[s]
<1> DEFINE q == [req EXCEPT ![r].at = "half"]
<1>1. /\ Typed(q) /\ \A s \in Request \ {r} : q[s] = req[s]
      /\ q[r].at = "half" /\ q[r].route = req[r].route /\ q[r].media = req[r].media
      /\ q[r].token = req[r].token /\ q[r].csrf = req[r].csrf /\ q[r].roles = req[r].roles
  BY MovedOn DEF RequestInv, Sound, Typed, Places
<1> HIDE DEF q
<1>2. HeldIn(q)
  BY <1>1 DEF RequestInv, Sound, HeldIn, Held, Allowed
<1> QED BY <1>1, <1>2 DEF q

LEMMA RequestOfUpload ==
    ASSUME WizardInv', RequestInv, NEW r \in Request, Upload(r, 1) \/ Upload(r, 2) PROVE RequestInv'
<1>0. MediaIn(req, record, file, cut)
  BY DEF RequestInv, Sound
<1>1. CASE Upload(r, 1)
  <2> DEFINE q == [req EXCEPT ![r].at = "half"] m == req[r].media
  <2>1. /\ req[r].route = "upload" /\ req[r].at = "media" /\ req' = Witnessed(q)
        /\ m \notin file /\ m \notin record /\ m \notin cut
        /\ \A s \in Request \ {r} : ~(req[s].route = "upload" /\ req[s].media = m /\ req[s].at = "half")
        /\ record' = record /\ cut' = cut /\ file' = file \cup {m}
    BY <1>1 DEF Upload, UploadOrder, Holds
  <2>2. /\ Typed(q) /\ HeldIn(q) /\ q[r].at = "half" /\ q[r].route = req[r].route /\ q[r].media = m
        /\ \A s \in Request \ {r} : q[s] = req[s]
    BY <2>1, Halved
  <2> HIDE DEF q, m
  <2>3. MediaIn(q, record', file', cut')
    BY <1>0, <2>1, <2>2 DEF MediaIn, HalfUpload, HalfRemoval
  <2> QED BY <2>1, <2>2, <2>3, SoundNext DEF StepTo, Sound
<1>2. CASE Upload(r, 2)
  <2> DEFINE q == Drop(r) m == req[r].media
  <2>1. /\ req[r].route = "upload" /\ req[r].at = "half" /\ req' = Witnessed(q)
        /\ record' = record \cup {m} /\ cut' = cut /\ file' = file
    BY <1>2 DEF Upload, UploadOrder
  <2>2. /\ Typed(q) /\ HeldIn(q) /\ q[r].at = "none" /\ \A s \in Request \ {r} : q[s] = req[s]
    BY Dropped
  <2>3. m \in file
    BY <1>0, <2>1 DEF MediaIn, HalfUpload
  <2>4. \A s \in Request \ {r} : HalfUpload(req, s) => req[s].media # m
    BY <1>0, <2>1 DEF MediaIn, HalfUpload
  <2> HIDE DEF q, m
  <2>5. MediaIn(q, record', file', cut')
    <3>1. \A s \in Request : HalfUpload(q, s) => s # r /\ HalfUpload(req, s) /\ q[s].media = req[s].media
      BY <2>2 DEF HalfUpload
    <3>2. \A s \in Request : HalfRemoval(req, s) => HalfRemoval(q, s) /\ q[s].media = req[s].media
      BY <2>1, <2>2 DEF HalfRemoval
    <3> QED BY <1>0, <2>1, <2>3, <2>4, <3>1, <3>2 DEF MediaIn
  <2> QED BY <2>1, <2>2, <2>5, SoundNext DEF StepTo, Sound
<1> QED BY <1>1, <1>2

LEMMA RequestOfRemove ==
    ASSUME WizardInv', RequestInv, NEW r \in Request, Remove(r) PROVE RequestInv'
<1>0. MediaIn(req, record, file, cut)
  BY DEF RequestInv, Sound
<1> DEFINE q == [req EXCEPT ![r].at = "half"] m == req[r].media
<1>1. req[r].route = "remove" /\ req[r].at = "media" /\ record' = record /\ cut' = cut
  BY DEF Remove
<1>2. CASE m \in record /\ file' = file \ {m} /\ req' = Witnessed(q)
  <2>1. /\ Typed(q) /\ HeldIn(q) /\ q[r].at = "half" /\ q[r].route = req[r].route /\ q[r].media = m
        /\ \A s \in Request \ {r} : q[s] = req[s]
    BY <1>1, Halved
  <2> HIDE DEF q, m
  <2>2. \A s \in Request : HalfUpload(q, s) => s # r /\ HalfUpload(req, s) /\ q[s].media = req[s].media
    BY <1>1, <2>1 DEF HalfUpload
  <2>3. \A s \in Request : HalfRemoval(req, s) => HalfRemoval(q, s) /\ q[s].media = req[s].media
    BY <1>1, <2>1 DEF HalfRemoval
  <2>4. HalfRemoval(q, r)
    BY <1>1, <2>1 DEF HalfRemoval
  <2>5. MediaIn(q, record', file', cut')
    BY <1>0, <1>1, <1>2, <2>1, <2>2, <2>3, <2>4 DEF MediaIn
  <2> QED BY <1>2, <2>1, <2>5, SoundNext DEF StepTo, Sound
<1>3. CASE file' = file /\ req' = Witnessed(Drop(r))
  BY <1>1, <1>3, RequestOfDrop
<1> QED BY <1>2, <1>3 DEF Remove

LEMMA RequestOfRemoveRecord ==
    ASSUME WizardInv', RequestInv, NEW r \in Request, RemoveRecord(r) PROVE RequestInv'
<1>0. MediaIn(req, record, file, cut)
  BY DEF RequestInv, Sound
<1> DEFINE q == Drop(r) m == req[r].media
<1>1. /\ req[r].route = "remove" /\ req' = Witnessed(q)
      /\ record' = record \ {m} /\ cut' = cut /\ file' = file
  BY DEF RemoveRecord
<1>2. /\ Typed(q) /\ HeldIn(q) /\ q[r].at = "none" /\ \A s \in Request \ {r} : q[s] = req[s]
  BY Dropped
<1>3. \A s \in Request : HalfRemoval(req, s) /\ req[s].media # m => HalfRemoval(q, s) /\ q[s].media = req[s].media
  BY <1>2 DEF HalfRemoval
<1> HIDE DEF q, m
<1>4. \A s \in Request : HalfUpload(q, s) => HalfUpload(req, s) /\ q[s].media = req[s].media
  BY <1>2 DEF HalfUpload
<1>5. MediaIn(q, record', file', cut')
  BY <1>0, <1>1, <1>3, <1>4 DEF MediaIn
<1> QED BY <1>1, <1>2, <1>5, SoundNext DEF StepTo, Sound

LEMMA RequestOfFail ==
    ASSUME WizardInv', RequestInv, NEW r \in Request, Fail(r) PROVE RequestInv'
<1>0. MediaIn(req, record, file, cut)
  BY DEF RequestInv, Sound
<1> DEFINE q == Drop(r) m == req[r].media
<1>1. /\ cut' = IF HalfRemoval(req, r) THEN cut \cup {m} ELSE cut
      /\ req' = Witnessed(q) /\ record' = record /\ file' = file
  BY DEF Fail, HalfRemoval
<1>2. /\ Typed(q) /\ HeldIn(q) /\ q[r].at = "none" /\ \A s \in Request \ {r} : q[s] = req[s]
  BY Dropped
<1>3. m = req[r].media
  OBVIOUS
<1> HIDE DEF q, m
<1>4. \A s \in Request \ {r} : HalfRemoval(req, s) => HalfRemoval(q, s) /\ q[s].media = req[s].media
  BY <1>2 DEF HalfRemoval
<1>5. \A s \in Request : HalfUpload(q, s) => HalfUpload(req, s) /\ q[s].media = req[s].media
  BY <1>2 DEF HalfUpload
<1>6. MediaIn(q, record', file', cut')
  BY <1>0, <1>1, <1>3, <1>4, <1>5 DEF MediaIn
<1> QED BY <1>1, <1>2, <1>6, SoundNext DEF StepTo, Sound

LEMMA RequestOfRestart == ASSUME RequestInv, Restart PROVE RequestInv'
<1>1. /\ cut' = cut \cup {req[r].media : r \in {s \in Request : req[s].route = "remove" /\ req[s].at = "half"}}
      /\ req' = [r \in Request |-> NoRequest] /\ record' = record /\ file' = file
  BY DEF Restart
<1>2. \A r \in Request : req'[r] = NoRequest /\ req'[r].at = "none"
  BY <1>1 DEF NoRequest
<1>3. Typed(req')
  BY <1>1, NoRequestTyped DEF Typed
<1>4. HeldIn(req')
  BY <1>2 DEF HeldIn, Held
<1>5. MediaIn(req', record', file', cut')
  BY <1>1, <1>2 DEF RequestInv, Sound, MediaIn, HalfUpload, HalfRemoval
<1> QED BY <1>3, <1>4, <1>5 DEF RequestInv, Sound, Typed, HeldIn, MediaIn, HalfUpload, HalfRemoval, Allowed

LEMMA RequestStep ==
    ASSUME WizardInv, WizardInv', SessionInv, RequestInv, [StudioNext]_studioVars PROVE RequestInv'
<1>0. Sound(req, record, file, cut)
  BY DEF RequestInv
<1>1. ASSUME NEW u \in User, Login(u) PROVE RequestInv'
  BY <1>0, <1>1, SoundNext DEF Login, StepTo
<1>2. ASSUME NEW u \in User, ReloadPanel(u) PROVE RequestInv'
  BY <1>2, SoundSame DEF ReloadPanel
<1>3. ASSUME NEW r \in Request, NEW u \in User, NEW route \in menu, NEW m \in Media, Arrive(r, u, route, m)
      PROVE RequestInv'
  BY <1>3, RequestOfArrive
<1>4. ASSUME NEW r \in Request, Admit(r) PROVE RequestInv'
  BY <1>4, RequestOfAdmit
<1>5. ASSUME NEW r \in Request, Refuse(r) \/ Perform(r) PROVE RequestInv'
  BY <1>5, RequestOfDrop DEF Refuse, Perform
<1>6. ASSUME NEW r \in Request, Upload(r, 1) \/ Upload(r, 2) PROVE RequestInv'
  BY <1>6, RequestOfUpload
<1>7. ASSUME NEW r \in Request, Remove(r) PROVE RequestInv'
  BY <1>7, RequestOfRemove
<1>8. ASSUME NEW r \in Request, RemoveRecord(r) PROVE RequestInv'
  BY <1>8, RequestOfRemoveRecord
<1>9. ASSUME NEW r \in Request, Fail(r) PROVE RequestInv'
  BY <1>9, RequestOfFail
<1>10. ASSUME NEW w \in Wizard, AskSetup(w) \/ AnswerSetup(w) \/ FinishSetup(w) PROVE RequestInv'
  BY <1>10, SoundSame DEF AskSetup, AnswerSetup, FinishSetup
<1>11. ASSUME NEW w \in Wizard, NEW u \in User, CreateOwner(w, u) PROVE RequestInv'
  BY <1>0, <1>11, SoundNext DEF CreateOwner, StepTo
<1>12. CASE Restart
  BY <1>12, RequestOfRestart
<1>13. CASE UNCHANGED studioVars
  BY <1>13, SoundSame DEF studioVars
<1> QED BY <1>1, <1>2, <1>3, <1>4, <1>5, <1>6, <1>7, <1>8, <1>9, <1>10, <1>11, <1>12, <1>13 DEF StudioNext

(***************************************************************************)
(* Effects.                                                                *)
(***************************************************************************)
\* What just took effect was past the guards.
EffectInv == effect = NoEffect \/ Allowed(effect.of)

LEMMA EffectOfHeld ==
    ASSUME RequestInv, NEW r \in Request, req[r].at \in Held, effect' = [of |-> req[r], locked |-> locked]
    PROVE EffectInv'
<1>1. Allowed(req[r])
  BY DEF RequestInv, Sound, HeldIn
<1>2. effect'.of = req[r]
  OBVIOUS
<1> QED BY <1>1, <1>2 DEF EffectInv, Allowed

LEMMA EffectOfQuiet == ASSUME Quiet PROVE EffectInv'
BY DEF Quiet, EffectInv, NoEffect

LEMMA EffectStep == ASSUME RequestInv, EffectInv, [StudioNext]_studioVars PROVE EffectInv'
<1>1. ASSUME NEW u \in User, Login(u) \/ ReloadPanel(u) PROVE EffectInv'
  BY <1>1, EffectOfQuiet DEF Login, ReloadPanel
<1>2. ASSUME NEW r \in Request, NEW u \in User, NEW route \in menu, NEW m \in Media, Arrive(r, u, route, m)
      PROVE EffectInv'
  BY <1>2, EffectOfQuiet DEF Arrive
<1>3. ASSUME NEW r \in Request, Admit(r) \/ Refuse(r) \/ Fail(r) PROVE EffectInv'
  BY <1>3, EffectOfQuiet DEF Admit, Refuse, Fail
<1>4. ASSUME NEW r \in Request, Perform(r) PROVE EffectInv'
  BY <1>4, EffectOfHeld DEF Perform, Held
<1>5. ASSUME NEW r \in Request, Upload(r, 1) \/ Upload(r, 2) PROVE EffectInv'
  BY <1>5, EffectOfHeld DEF Upload, Held
<1>6. ASSUME NEW r \in Request, Remove(r) PROVE EffectInv'
  BY <1>6, EffectOfHeld, EffectOfQuiet DEF Remove, Held
<1>7. ASSUME NEW r \in Request, RemoveRecord(r) PROVE EffectInv'
  BY <1>7, EffectOfHeld DEF RemoveRecord, Held
<1>8. ASSUME NEW w \in Wizard, AskSetup(w) \/ AnswerSetup(w) \/ FinishSetup(w) PROVE EffectInv'
  BY <1>8, EffectOfQuiet DEF AskSetup, AnswerSetup, FinishSetup
<1>9. ASSUME NEW w \in Wizard, NEW u \in User, CreateOwner(w, u) PROVE EffectInv'
  BY <1>9, EffectOfQuiet DEF CreateOwner
<1>10. CASE Restart
  BY <1>10, EffectOfQuiet DEF Restart
<1>11. CASE UNCHANGED studioVars
  BY <1>11 DEF studioVars, EffectInv, Allowed
<1> QED BY <1>1, <1>2, <1>3, <1>4, <1>5, <1>6, <1>7, <1>8, <1>9, <1>10, <1>11 DEF StudioNext

\* The invariant.
StudioInv == WizardInv /\ SessionInv /\ RequestInv /\ EffectInv

LEMMA StudioInvariant == StudioSpec => []StudioInv
<1>1. StudioInit => EffectInv
  BY DEF StudioInit, EffectInv
<1>2. StudioInit => StudioInv
  BY <1>1, WizardStart, RequestStart DEF StudioInv
<1>3. StudioInv /\ [StudioNext]_studioVars => StudioInv'
  BY WizardStep, SessionStep, RequestStep, EffectStep DEF StudioInv
<1> QED BY <1>2, <1>3, PTL DEF StudioSpec

\* The wizard creates one owner and only on a site without users (app.ts setup): the flag it takes
\* before it asks for users, and which only the end of the process lowers for it, lets one wizard by.
THEOREM OneOwner == StudioSpec => []OneOwnerIsSetUp
<1>1. StudioInv => OneOwnerIsSetUp
  BY DEF StudioInv, WizardInv, OneOwnerIsSetUp, HasAnyUser
<1> QED BY <1>1, StudioInvariant, PTL

\* Every listed file is there, but where its deletion is under way or was cut off: media.ts stores the
\* file before its record, and an upload of fresh media meets no deletion of the same media.
THEOREM FilesAreThere == StudioSpec => []ListedFilesExist
<1>1. StudioInv => ListedFilesExist
  BY DEF StudioInv, RequestInv, Sound, MediaIn, HalfRemoval, ListedFilesExist
<1> QED BY <1>1, StudioInvariant, PTL

\* Whatever takes effect was allowed to a role its user had since it arrived and, if it changes
\* anything, carried the CSRF token of its session (requireSession, requireCsrf, requireCap of app.ts):
\* the guards read the role while the request is under way, and every route is behind the right ones.
THEOREM NothingUnallowed == StudioSpec => []EffectsAreAllowed
<1>1. StudioInv => EffectsAreAllowed
  BY DEF StudioInv, EffectInv, Allowed, EffectsAreAllowed
<1> QED BY <1>1, StudioInvariant, PTL

(***************************************************************************)
(* The history of the designer.                                            *)
(***************************************************************************)
\* A save in flight carries what is seen, unless it was changed since.
SavingIsCurrent == saving = <<>> \/ editedInFlight \/ saving[1] = layout

\* The invariant: the types that matter, the two properties, and what makes the
\* second one survive the answer to a save.
DesignInv ==
    /\ layout \in Layout
    /\ history \in Seq(Layout)
    /\ histIdx \in Nat
    /\ HistoryHoldsLayout
    /\ UnsavedIsDirty
    /\ SavingIsCurrent

\* Putting a layout on the history (pushHist, Designer.tsx:122-131) leaves a history
\* within the limit that ends with the layout, at the index.
LEMMA PushHistEnds ==
    ASSUME NEW h \in Seq(Layout), NEW i \in 1..Len(h), NEW l \in Layout,
           Len(h) <= MaxHistory, MaxHistory \in Nat \ {0},
           NEW hh, hh = PushHist(h, i, l)[1],
           NEW ii, ii = PushHist(h, i, l)[2]
    PROVE  /\ hh \in Seq(Layout) /\ ii \in 1..Len(hh)
           /\ Len(hh) <= MaxHistory /\ hh[ii] = l
<1> DEFINE kept == SubSeq(h, 1, i)
           grown == Append(kept, l)
<1>1. kept \in Seq(Layout) /\ Len(kept) = i
  OBVIOUS
<1>2. grown \in Seq(Layout) /\ Len(grown) = i + 1 /\ grown[i + 1] = l
  BY <1>1
<1>3. PushHist(h, i, l) = IF Len(grown) > MaxHistory THEN <<Tail(grown), Len(grown) - 1>> ELSE <<grown, Len(grown)>>
  BY DEF PushHist
<1> HIDE DEF grown
<1>4. CASE Len(grown) > MaxHistory
  <2>1. hh = Tail(grown) /\ ii = Len(grown) - 1
    BY <1>3, <1>4
  <2>2. Tail(grown) \in Seq(Layout) /\ Len(Tail(grown)) = i /\ Tail(grown)[i] = l
    BY <1>2
  <2> QED BY <2>1, <2>2, <1>2
<1>5. CASE ~(Len(grown) > MaxHistory)
  <2>1. hh = grown /\ ii = Len(grown)
    BY <1>3, <1>5
  <2> QED BY <2>1, <1>2, <1>5
<1> QED BY <1>4, <1>5

\* A page is opened with its layout alone on the history, and clean.
LEMMA DesignStart == ASSUME NEW l \in Layout, DesignInit(l) PROVE DesignInv
<1>1. MaxHistory \in Nat \ {0}
  BY DesignConstants
<1>2. history = <<l>> /\ histIdx = 1 /\ layout = l /\ stored = l /\ saving = <<>>
  BY DEF DesignInit
<1>3. history \in Seq(Layout) /\ Len(history) = 1 /\ history[1] = l
  BY <1>2
<1> QED BY <1>1, <1>2, <1>3 DEF DesignInv, HistoryHoldsLayout, UnsavedIsDirty, SavingIsCurrent

\* A change during a save is remembered (Designer.tsx:356-380).
LEMMA TouchMarks == ASSUME Touch PROVE SavingIsCurrent'
<1>1. saving' = saving /\ editedInFlight' = (editedInFlight \/ saving # <<>>)
  BY DEF Touch
<1>2. CASE saving = <<>>
  BY <1>1, <1>2 DEF SavingIsCurrent
<1>3. CASE saving # <<>>
  <2>1. editedInFlight'
    BY <1>1, <1>3, Zenon
  <2> QED BY <2>1 DEF SavingIsCurrent
<1> QED BY <1>2, <1>3

\* Every step of the designer keeps the invariant.
LEMMA DesignKeeps == ASSUME DesignInv, [DesignNext]_designVars PROVE DesignInv'
<1> USE DEF DesignInv, HistoryHoldsLayout, UnsavedIsDirty, SavingIsCurrent
<1>0. MaxHistory \in Nat \ {0}
  BY DesignConstants
<1>1. ASSUME NEW l \in Layout, Commit(l) PROVE DesignInv'
  <2>1. layout' = l /\ dirty' = TRUE 
        /\ history' = PushHist(history, histIdx, l)[1] /\ histIdx' = PushHist(history, histIdx, l)[2]
    BY <1>1 DEF Commit
  <2>2. /\ history' \in Seq(Layout) /\ histIdx' \in 1..Len(history')
        /\ Len(history') <= MaxHistory /\ history'[histIdx'] = l
    BY <1>0, <2>1, PushHistEnds
  <2>3. SavingIsCurrent'
    BY <1>1, TouchMarks DEF Commit
  <2> QED BY <2>1, <2>2, <2>3
<1>2. ASSUME NEW l \in Layout, PropChanged(l) PROVE DesignInv'
  BY <1>2 DEF PropChanged, Touch
<1>3. ASSUME HistTimer PROVE DesignInv'
  <2>1. layout' = layout /\ dirty' = TRUE /\ UNCHANGED <<saving, editedInFlight>>
        /\ history' = PushHist(history, histIdx, layout)[1] /\ histIdx' = PushHist(history, histIdx, layout)[2]
    BY <1>3 DEF HistTimer, saveVars
  <2>2. /\ history' \in Seq(Layout) /\ histIdx' \in 1..Len(history')
        /\ Len(history') <= MaxHistory /\ history'[histIdx'] = layout
    BY <1>0, <2>1, PushHistEnds
  <2> QED BY <2>1, <2>2
<1>4. ASSUME RenderTimer PROVE DesignInv'
  BY <1>4 DEF RenderTimer, historyVars, saveVars
<1>5. ASSUME Undo PROVE DesignInv'
  <2>1. PICK i \in 1..Len(history) : Step(i)
    BY <1>5 DEF Undo
  <2>2. SavingIsCurrent'
    BY <2>1, TouchMarks DEF Step
  <2>3. layout' = history[i] /\ histIdx' = i /\ UNCHANGED history /\ dirty' = TRUE
    BY <2>1 DEF Step
  <2> QED BY <2>2, <2>3
<1>6. ASSUME Redo PROVE DesignInv'
  <2>1. PICK i \in 1..Len(history) : Step(i)
    BY <1>6 DEF Redo
  <2>2. SavingIsCurrent'
    BY <2>1, TouchMarks DEF Step
  <2>3. layout' = history[i] /\ histIdx' = i /\ UNCHANGED history /\ dirty' = TRUE
    BY <2>1 DEF Step
  <2> QED BY <2>2, <2>3
<1>7. ASSUME Save PROVE DesignInv'
  BY <1>7 DEF Save, historyVars
<1>8. ASSUME NEW ok \in BOOLEAN, SaveAnswer(ok) PROVE DesignInv'
  <2>1. UNCHANGED <<layout, history, histIdx, histTimer, editedInFlight>> /\ saving' = <<>>
    BY <1>8 DEF SaveAnswer
  <2>2. UnsavedIsDirty'
    BY <1>8 DEF SaveAnswer
  <2> QED BY <2>1, <2>2
<1>9. ASSUME NEW i \in 1..Len(renders), NEW ok \in BOOLEAN, RenderAnswer(i, ok) PROVE DesignInv'
  BY <1>9 DEF RenderAnswer, historyVars, saveVars
<1>10. ASSUME UNCHANGED designVars PROVE DesignInv'
  BY <1>10 DEF designVars, historyVars, viewVars, saveVars
<1> QED
  BY <1>1, <1>2, <1>3, <1>4, <1>5, <1>6, <1>7, <1>8, <1>9, <1>10 DEF DesignNext, DesignStep

\* Undo steps back from what is seen, within a history of at most MaxHistory snapshots
\* (Designer.tsx:122-131, 336-354), and the server lacks what is seen only if leaving
\* asks first or a save overlapped a change (Designer.tsx:356-385).
THEOREM HistoryIsSound == DesignSpec => []HistoryKeepsUp
<1>1. ASSUME NEW l \in Layout, DesignInit(l) PROVE DesignInv
  BY <1>1, DesignStart
<1>2. (\E l \in Layout : DesignInit(l)) => DesignInv
  BY <1>1
<1>3. DesignInv /\ [DesignNext]_designVars => DesignInv'
  BY DesignKeeps
<1>4. DesignInv => HistoryKeepsUp
  BY DEF DesignInv, HistoryKeepsUp
<1> QED BY <1>2, <1>3, <1>4, PTL DEF DesignSpec

=============================================================================
