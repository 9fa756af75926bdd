----------------------------- MODULE MCPersons -----------------------------
(***************************************************************************)
(* What is kept about people, for TLC: a behaviour is one of the Studio's  *)
(* accounts, one of the site's members, or one of the data that visitors   *)
(* submit, sealed in the vault.                                            *)
(***************************************************************************)
EXTENDS Auth, Members, MCPrivacy
CONSTANTS u1, u2, u3, e1, e2, p1, p2, c1, none, m1, m2

VARIABLE about

Incidents == 3      \* bound: crashes, backups, and erasures twice, together

Account(e, role, mfa) ==
    [NoUser EXCEPT !.email = e, !.password = p1, !.role = role, !.status = "active", !.mfa = mfa,
                   !.codes = IF mfa THEN {<<0, c1>>} ELSE {}]

\* Calls that meet on the same records, with the users they start from.
MCWorlds == {
    [ops |-> {"update", "login", "logout"},
     users |-> (u1 :> Account(e1, "owner", FALSE) @@ u2 :> Account(e2, "owner", FALSE) @@ u3 :> NoUser)],
    [ops |-> {"login", "verify", "update", "logout"},
     users |-> (u1 :> Account(e1, "owner", TRUE) @@ u2 :> NoUser @@ u3 :> NoUser)],
    [ops |-> {"beginMfa", "enableMfa", "disableMfa", "verify", "login"},
     users |-> (u1 :> Account(e1, "owner", FALSE) @@ u2 :> NoUser @@ u3 :> NoUser)],
    [ops |-> {"login", "password"},
     users |-> (u1 :> Account(e1, "owner", FALSE) @@ u2 :> NoUser @@ u3 :> NoUser)],
    [ops |-> {"create", "invite", "revokeInvite", "accept"},
     users |-> (u1 :> Account(e1, "owner", FALSE) @@ u2 :> NoUser @@ u3 :> NoUser)] }

Joined(verified) ==
    [NoMember EXCEPT !.email = e1, !.password = p1, !.status = "active", !.verified = verified]

MCSites == {
    [ops |-> {"register", "verify", "login", "delete"},
     accounts |-> (m1 :> NoMember @@ m2 :> NoMember)],
    [ops |-> {"request", "magic", "status", "login", "logout"},
     accounts |-> (m1 :> Joined(FALSE) @@ m2 :> NoMember)],
    [ops |-> {"request", "reset", "delete", "login"},
     accounts |-> (m1 :> Joined(TRUE) @@ m2 :> NoMember)],
    [ops |-> {"login", "profile", "status"},
     accounts |-> (m1 :> Joined(TRUE) @@ m2 :> NoMember)] }

-----------------------------------------------------------------------------
PersonsInit ==
    /\ about \in {"studio", "site", "submissions"}
    /\ AuthInit /\ MembersInit /\ PrivacyInit
    /\ about # "studio" => menu = (CHOOSE w \in MCWorlds : TRUE).ops
    /\ about # "site" => routes = (CHOOSE w \in MCSites : TRUE).ops
    /\ about # "submissions" => records = {}

RestOfMembers == UNCHANGED <<routes, memberStore, visit, visits, memberHistory>>
RestOfAuth == UNCHANGED <<menu, authStore, req, calls, authHistory>>

PersonsNext ==
    /\ UNCHANGED about
    /\ \/ about = "studio" /\ AuthNext /\ RestOfMembers /\ UNCHANGED privacyVars
       \/ about = "site" /\ MembersNext /\ RestOfAuth /\ UNCHANGED privacyVars
       \/ about = "submissions" /\ PrivacyNext /\ RestOfMembers /\ RestOfAuth /\ UNCHANGED now
          /\ crashes' + 2 * erasures' + made' <= Incidents

PersonsSpec == PersonsInit /\ [][PersonsNext]_<<about, authVars, memberVars, privacyVars>>

\* Both stores hold records of the shape the code writes, one user has an email, and
\* an enabled second factor has the seed that its codes are checked against.
RecordsConsistent == AuthTypeOK /\ MembersTypeOK /\ EmailsUnique /\ EnabledHasSeed

\* A session is what was proved for it, a code where the login met a second factor, the
\* mailbox where it is a member's; and a recovery code or the link of a mail is accepted once.
SignInsAreEarned ==
    SecondFactorNeeded /\ SessionsAreVerified /\ CodesSingleUse /\ TokensSingleUse

\* A changed role, a disabled user and a suspended member lose the sessions they had, and a
\* deleted member leaves nothing.
RevocationsHold == PrivilegeChangeEndsSessions /\ BansEndSessions /\ DeletionIsComplete
=============================================================================
