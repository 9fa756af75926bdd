-------------------------------- MODULE Site --------------------------------
(***************************************************************************)
(* The public site (apps/site): a visitor's request for a page, from the   *)
(* maintenance guard over the header and footer, the resolver and the      *)
(* members' gate to the render cache, while the Studio, another process,   *)
(* edits what is shown.  Each step of a request is what the code does      *)
(* between two awaits.  Of a document the model keeps what it was made     *)
(* from: the revisions of the page, the header and the footer, the theme,  *)
(* the posts it lists, and where its buttons lead on each device.          *)
(***************************************************************************)
EXTENDS Integers, FiniteSets, SequencesExt, TLC

CONSTANTS Visitor,      \* visitors, each with one request at a time
          Edited,       \* the slugs that editors save and retire
          Addresses,    \* the paths that a visitor types
          MaxBytes,     \* the budget of the render cache (bound of the model: small)
          MaxEntries,   \* its cap on entries (bound of the model: small)
          MaxRevision,  \* bound on revisions of a page, and on changes of the theme
          MaxEdits,     \* bound on edits
          MaxRequests,  \* bound on requests
          MaxFaults,    \* bound on failing reads of the store
          ShippedLinks(_, _),  \* where the buttons of a shipped tree lead, given the items of its lists
          ShippedBlocks(_)     \* the types of the blocks that a shipped page is stored as

VARIABLES page,         \* page[slug]: the stored entry
          look,         \* version of what else a document is made from: theme, SEO, consent
          redirects,    \* redirects[path]: the target an operator defined
          maintenance,  \* settings.maintenanceMode in the store
          flag,         \* the copy of it that the guard keeps for three seconds
          cache,        \* the render cache
          request,      \* request[v]: the request of a visitor in flight
          seen,         \* seen[v]: what the visitor got last
          budget        \* bounds: edits, requests and faults so far

siteVars == <<page, look, redirects, maintenance, flag, cache, request, seen, budget>>

Devices == {"desktop", "phone"}
Slugs == {"home", "about", "blog", "contact", "post"}
Chrome == {"header", "footer"}
ASSUME SiteAssumption == MaxBytes \in Nat \ {0} /\ MaxEntries \in Nat \ {0} /\ Edited \subseteq Slugs \cup Chrome
Locales == {"en", "fr"}
Path(segments) == [segments |-> segments, slash |-> FALSE]
Nowhere == Path(<<"nowhere">>)

(***************************************************************************)
(* Addresses.  A path is its segments and whether it ends in a slash.      *)
(***************************************************************************)
ParsePath(path) ==
    LET s == path.segments
        foreign == s # <<>> /\ s[1] \in Locales
        rest == IF foreign THEN Tail(s) ELSE s
    IN [locale |-> IF foreign THEN s[1] ELSE "en",
        slug |-> IF rest = <<>> THEN "home" ELSE IF Len(rest) = 1 THEN rest[1] ELSE "nested"]

Rooted == "/" :> <<>> @@ "/about" :> <<"about">> @@ "/blog" :> <<"blog">> @@ "/contact" :> <<"contact">>

\* Where a browser that shows the page at a path goes for a link on it; the slug of
\* a post is a link relative to that page.
Target(href, at) ==
    IF href \in DOMAIN Rooted THEN Path(Rooted[href])
    ELSE Path((IF at.segments = <<>> THEN <<>> ELSE Front(at.segments)) \o <<href>>)

Published(path) ==
    LET r == ParsePath(path)
    IN r.slug \in DOMAIN page /\ page[r.slug].published /\ page[r.slug].locale = r.locale

(***************************************************************************)
(* The operator's redirects.                                               *)
(***************************************************************************)
NormalizeFrom(path) == Path(path.segments)
CreateRedirect(from, to) ==
    /\ NormalizeFrom(from) # to
    /\ NormalizeFrom(from) \notin DOMAIN redirects
    /\ redirects' = redirects @@ (NormalizeFrom(from) :> to)
RemoveRedirect(from) ==
    /\ from \in DOMAIN redirects
    /\ redirects' = [path \in DOMAIN redirects \ {from} |-> redirects[path]]

(***************************************************************************)
(* The render cache: for each path an entry, with its rank in the order of *)
(* use (1 is the least recent), the bytes the entries hold, and for each   *)
(* tag the paths that carry it.  A document that lists posts is larger.    *)
(***************************************************************************)
EmptyCache == [entries |-> [p \in {} |-> 0], total |-> 0, tags |-> [t \in {} |-> {}]]
Listed(html) == {s \in Slugs : \E i \in DOMAIN html.items : html.items[i] = s}
Bytes(html) == 1 + Cardinality(Listed(html))

\* The bytes that the entries of some paths occupy together.
Occupied(entries, paths) == UNION {{p} \X (1 .. Bytes(entries[p].html)) : p \in paths}
SizeOf(entries, paths) == Cardinality(Occupied(entries, paths))

\* The entries that are kept when some are dropped, in the same order.
Kept(entries, gone) ==
    [p \in DOMAIN entries \ gone |->
        [entries[p] EXCEPT !.used = @ - Cardinality({q \in gone : entries[q].used < entries[p].used})]]

\* Mutant: the tag index keeps the path of an entry that is dropped.
DropKeysKeepTags(c, gone) ==
    [entries |-> Kept(c.entries, gone), total |-> c.total - SizeOf(c.entries, gone), tags |-> c.tags]

\* Entries are dropped with their bytes and from the tag they carry; a tag that no
\* entry carries any more goes too.
DropKeys(c, gone) ==
    LET Left(t) == {p \in c.tags[t] : p \in gone => c.entries[p].tag # t}
    IN [entries |-> Kept(c.entries, gone),
        total |-> c.total - SizeOf(c.entries, gone),
        tags |-> [t \in {t \in DOMAIN c.tags : Left(t) # {}} |-> Left(t)]]

\* The entry of a path becomes the most recently used one.
Rank(entries, p, path) ==
    IF p = path THEN Cardinality(DOMAIN entries)
    ELSE IF entries[p].used > entries[path].used THEN entries[p].used - 1 ELSE entries[p].used
Touch(c, path) ==
    IF path \notin DOMAIN c.entries THEN c
    ELSE [c EXCEPT !.entries = [p \in DOMAIN @ |-> [@[p] EXCEPT !.used = Rank(c.entries, p, path)]]]

\* The least recently used entries go, one by one, until what is left fits.
Fits(c) == c.total <= MaxBytes /\ Cardinality(DOMAIN c.entries) <= MaxEntries
Oldest(c) ==
    {gone \in SUBSET DOMAIN c.entries :
        \A p \in gone, q \in DOMAIN c.entries \ gone : c.entries[p].used < c.entries[q].used}
Evict(c) ==
    LET fitting == {gone \in Oldest(c) : Fits(DropKeys(c, gone))}
    IN DropKeys(c, CHOOSE gone \in fitting : \A g \in fitting : gone \subseteq g)

CacheAdd(c, path, html, version, tag) ==
    [entries |-> [p \in DOMAIN c.entries \cup {path} |->
        IF p = path THEN [html |-> html, version |-> version, tag |-> tag, used |-> 1 + Cardinality(DOMAIN c.entries)]
        ELSE c.entries[p]],
     total |-> c.total + Bytes(html),
     tags |-> [t \in DOMAIN c.tags \cup {tag} |->
        (IF t \in DOMAIN c.tags THEN c.tags[t] ELSE {}) \cup (IF t = tag THEN {path} ELSE {})]]

CacheSet(c, path, html, version, tag) ==
    LET d == DropKeys(c, {path} \cap DOMAIN c.entries)
    IN IF Bytes(html) > MaxBytes THEN d ELSE Evict(CacheAdd(d, path, html, version, tag))

(***************************************************************************)
(* Documents.                                                              *)
(***************************************************************************)
\* The navigation and the footer that the theme draws where a fragment is missing.
DefaultNav(device) == IF device = "phone" THEN {"/"} ELSE {"/", "/about", "/blog", "/contact"}

\* The document of a page, with the fragments of the request or the theme's own.
MakeDocument(slug, revision, fragments, items) ==
    LET own == ShippedLinks(slug, items)
        head == ShippedLinks("header", <<>>)
        foot == ShippedLinks("footer", <<>>)
    IN [slug |-> slug, revision |-> revision, header |-> fragments.header, footer |-> fragments.footer,
        look |-> look, items |-> items,
        links |-> [d \in Devices |-> own[d]
                      \cup (IF fragments.header = 0 THEN DefaultNav(d) ELSE head[d])
                      \cup (IF fragments.footer = 0 THEN {} ELSE foot[d])]]

NoDocument == [slug |-> "none", revision |-> 0, header |-> 0, footer |-> 0, look |-> 0, items |-> <<>>,
               links |-> [d \in Devices |-> {}]]

\* The types that the React component for blocks knows how to draw.
BlockDrawn(type) == type \in {"paragraph", "quote", "heading", "image", "code", "html"}
BlocksDrawn(slug) == SelectSeq(ShippedBlocks(slug), BlockDrawn)

\* Mutant: the list is not limited to what is published.
ListPublishedDrafts ==
    SetToSortSeq({s \in Slugs : ~page[s].system}, LAMBDA s, t : page[s].since > page[t].since)

\* What a collection list is given: the published pages that are not the system's,
\* newest first, of any locale.
ListPublished ==
    LET posts == {s \in Slugs : page[s].published /\ ~page[s].system}
    IN SetToSortSeq(posts, LAMBDA s, t : page[s].since > page[t].since)

(***************************************************************************)
(* A request.                                                              *)
(***************************************************************************)
NoRequest == [at |-> "idle", path |-> Nowhere, from |-> "address", fragments |-> [header |-> 0, footer |-> 0],
         entry |-> [slug |-> "none", revision |-> 0], items |-> <<>>,
         floor |-> [page |-> 0, header |-> 0, footer |-> 0], failed |-> {}, open |-> TRUE, lists |-> {}]
\* What a request noted while it was in flight, for the properties.
NotesOf(c) == [from |-> c.from, floor |-> c.floor, failed |-> c.failed, open |-> c.open, lists |-> c.lists]
Nothing == [kind |-> "none", path |-> Path(<<>>), document |-> NoDocument, to |-> Nowhere, of |-> NotesOf(NoRequest)]

Respond(v, kind, document, to) ==
    /\ seen' = [seen EXCEPT ![v] = [kind |-> kind, path |-> request[v].path, document |-> document, to |-> to,
                                    of |-> NotesOf(request[v])]]
    /\ request' = [request EXCEPT ![v] = NoRequest]

Advance(v, c) == request' = [request EXCEPT ![v] = c] /\ UNCHANGED seen

Revision(slug) == IF slug \in DOMAIN page THEN page[slug].revision ELSE 0

Asking(path, from) ==
    LET slug == ParsePath(path).slug
    IN [at |-> "guard", path |-> path, from |-> from, fragments |-> NoRequest.fragments, entry |-> NoRequest.entry,
        items |-> <<>>, failed |-> {},
        floor |-> [page |-> Revision(slug), header |-> page["header"].revision, footer |-> page["footer"].revision],
        open |-> ~(Published(path) /\ page[slug].gated),
        lists |-> IF slug = "blog" THEN {ListPublished} ELSE {}]

\* A visitor asks for an address, or follows a link or a redirect of what is shown.
Ask(v, path, from) ==
    /\ request[v] = NoRequest /\ budget.requests < MaxRequests
    /\ budget' = [budget EXCEPT !.requests = @ + 1]
    /\ Advance(v, Asking(path, from))
    /\ UNCHANGED <<page, look, redirects, maintenance, flag, cache>>

Enter(v) == \E path \in Addresses : Ask(v, path, "address")
Follow(v, device) ==
    \E href \in seen[v].document.links[device] \ {"#"} :
        seen[v].kind \in {"page", "missing", "error"} /\ Ask(v, Target(href, seen[v].path), "link")
FollowRedirect(v) == seen[v].kind = "redirect" /\ Ask(v, seen[v].to, "redirect")

\* The guard reads the flag, or takes its copy while that is younger than three
\* seconds.  The maintenance page is drawn from its blocks.
Guard(v, expired) ==
    /\ request[v].at = "guard"
    /\ flag' = IF expired \/ flag = "unread" THEN (IF maintenance THEN "on" ELSE "off") ELSE flag
    /\ IF flag' = "on"
       THEN Respond(v, "maintenance", [NoDocument EXCEPT !.items = BlocksDrawn("maintenance")], Nowhere)
       ELSE Advance(v, [request[v] EXCEPT !.at = "fragments"])
    /\ UNCHANGED <<page, look, redirects, maintenance, cache, budget>>

\* A fragment that cannot be read is left out.
RenderSystemFragments(v, failing) ==
    /\ request[v].at = "fragments"
    /\ budget.faults + Cardinality(failing) <= MaxFaults
    /\ budget' = [budget EXCEPT !.faults = @ + Cardinality(failing)]
    /\ LET of(s) == IF s \in failing THEN 0 ELSE page[s].revision
       IN Advance(v, [request[v] EXCEPT !.at = "resolve", !.failed = failing,
                                     !.fragments = [header |-> of("header"), footer |-> of("footer")]])
    /\ UNCHANGED <<page, look, redirects, maintenance, flag, cache>>

\* Mutant: the gate is passed by whoever asks for a page that is in the cache.
PassesGateCached(v, member) ==
    member \/ ~page[ParsePath(request[v].path).slug].gated \/ request[v].path \in DOMAIN cache.entries

PassesGate(v, member) == member \/ ~page[ParsePath(request[v].path).slug].gated

\* The resolver finds the page; the gate sends a visitor who is no member to log in.
ResolvePath(v, member) ==
    /\ request[v].at = "resolve"
    /\ Published(request[v].path)
    /\ LET slug == ParsePath(request[v].path).slug
       IN IF PassesGate(v, member)
          THEN Advance(v, [request[v] EXCEPT !.at = "serve", !.open = @ \/ member,
                                          !.entry = [slug |-> slug, revision |-> page[slug].revision]])
          ELSE Respond(v, "login", NoDocument, Nowhere)
    /\ UNCHANGED <<page, look, redirects, maintenance, flag, cache, budget>>

ResolveFails(v) ==
    /\ request[v].at = "resolve" /\ budget.faults < MaxFaults
    /\ budget' = [budget EXCEPT !.faults = @ + 1]
    /\ Advance(v, [request[v] EXCEPT !.at = "500"])
    /\ UNCHANGED <<page, look, redirects, maintenance, flag, cache>>

ResolveFindsNothing(v) ==
    /\ request[v].at = "resolve"
    /\ ~Published(request[v].path)
    /\ IF NormalizeFrom(request[v].path) \in DOMAIN redirects
       THEN Respond(v, "redirect", NoDocument, redirects[NormalizeFrom(request[v].path)])
       ELSE Advance(v, [request[v] EXCEPT !.at = "404"])
    /\ UNCHANGED <<page, look, redirects, maintenance, flag, cache, budget>>

\* A status page reads the fragments for itself.
RenderSystemDocument(v) ==
    /\ request[v].at \in {"404", "500"}
    /\ LET fragments == [header |-> page["header"].revision, footer |-> page["footer"].revision]
       IN Respond(v, IF request[v].at = "404" THEN "missing" ELSE "error",
                  MakeDocument(request[v].at, 1, fragments, <<>>), Nowhere)
    /\ UNCHANGED <<page, look, redirects, maintenance, flag, cache, budget>>

\* Mutant: the version does not tell which footer the document has.
VersionSansFooter(c) == <<c.entry.revision, c.fragments.header, 0>>

Version(c) == <<c.entry.revision, c.fragments.header, c.fragments.footer>>

ServeCached(v) ==
    /\ request[v].at = "serve"
    /\ request[v].path \in DOMAIN cache.entries
    /\ cache.entries[request[v].path].version = Version(request[v])
    /\ cache' = Touch(cache, request[v].path)
    /\ Respond(v, "page", cache.entries[request[v].path].html, Nowhere)
    /\ UNCHANGED <<page, look, redirects, maintenance, flag, budget>>

\* The lists of the page are read while it is rendered.
RenderBody(v) ==
    /\ request[v].at = "serve"
    /\ request[v].path \in DOMAIN cache.entries => cache.entries[request[v].path].version # Version(request[v])
    /\ cache' = Touch(cache, request[v].path)
    /\ Advance(v, [request[v] EXCEPT !.at = "finish",
                      !.items = IF request[v].entry.slug = "blog" THEN ListPublished ELSE <<>>])
    /\ UNCHANGED <<page, look, redirects, maintenance, flag, budget>>

\* Theme, SEO, consent and languages come last; the document is cached and sent.
Finish(v) ==
    /\ request[v].at = "finish"
    /\ LET c == request[v]
           html == MakeDocument(c.entry.slug, c.entry.revision, c.fragments, c.items)
       IN /\ cache' = CacheSet(cache, c.path, html, Version(c), c.entry.slug)
          /\ Respond(v, "page", html, Nowhere)
    /\ UNCHANGED <<page, look, redirects, maintenance, flag, budget>>

(***************************************************************************)
(* The Studio edits, in its own process.                                   *)
(***************************************************************************)
\* Requests in flight take note of what is public and what lists would show.
Noting(after) ==
    [v \in Visitor |-> IF request[v] = NoRequest THEN NoRequest
        ELSE [request[v] EXCEPT !.open = @ \/ (LET s == ParsePath(request[v].path).slug
                                            IN s \notin DOMAIN page \/ ~after[s].gated)]]

Edit(s, entry) ==
    /\ budget.edits < MaxEdits /\ s \in Edited
    /\ budget' = [budget EXCEPT !.edits = @ + 1]
    /\ page' = [page EXCEPT ![s] = entry]
    /\ LET posts == {t \in Slugs : page'[t].published /\ ~page'[t].system}
           list == SetToSortSeq(posts, LAMBDA t, u : page'[t].since > page'[u].since)
           noted == Noting(page')
       IN request' = [v \in Visitor |-> IF noted[v].lists = {} THEN noted[v]
                                        ELSE [noted[v] EXCEPT !.lists = @ \cup {list}]]
    /\ UNCHANGED <<look, redirects, maintenance, flag, cache, seen>>

SavePage(s) == page[s].revision < MaxRevision /\ Edit(s, [page[s] EXCEPT !.revision = @ + 1])
Publish(s) ==
    /\ ~page[s].published
    /\ Edit(s, [page[s] EXCEPT !.published = TRUE, !.since = 1 + Cardinality({t \in Slugs : page[t].published})])
Retire(s) == page[s].published /\ ~page[s].system /\ Edit(s, [page[s] EXCEPT !.published = FALSE, !.retired = TRUE])
ToggleGate(s) == ~page[s].system /\ Edit(s, [page[s] EXCEPT !.gated = ~@])

\* Consent, SEO or the theme changes what a document is made from.
UpdateSettings ==
    \/ look < MaxRevision /\ look' = look + 1 /\ UNCHANGED maintenance
    \/ maintenance' = ~maintenance /\ UNCHANGED look

Operate ==
    /\ budget.edits < MaxEdits
    /\ budget' = [budget EXCEPT !.edits = @ + 1]
    /\ \/ UpdateSettings /\ UNCHANGED redirects
       \/ \E from, to \in Addresses : CreateRedirect(from, to) /\ UNCHANGED <<look, maintenance>>
       \/ \E from \in Addresses : RemoveRedirect(from) /\ UNCHANGED <<look, maintenance>>
    /\ UNCHANGED <<page, flag, cache, request, seen>>

Entry(s, locale) ==
    [published |-> s # "post", system |-> s \in Chrome \cup {"home"}, gated |-> FALSE, revision |-> 1,
     locale |-> locale, retired |-> FALSE,
     since |-> CASE s = "about" -> 1 [] s = "blog" -> 2 [] s = "contact" -> 3 [] OTHER -> 0]

SiteInit ==
    /\ \E locale \in Locales :
          page = [s \in Slugs \cup Chrome |-> Entry(s, IF s = "post" THEN locale ELSE "en")]
    /\ look = 0 /\ redirects = <<>> /\ maintenance = FALSE /\ flag = "unread"
    /\ cache = EmptyCache
    /\ request = [v \in Visitor |-> NoRequest]
    /\ seen = [v \in Visitor |-> Nothing]
    /\ budget = [edits |-> 0, requests |-> 0, faults |-> 0]

RequestStep(v) ==
    \/ Enter(v) \/ FollowRedirect(v)
    \/ \E device \in Devices : Follow(v, device)
    \/ \E expired \in BOOLEAN : Guard(v, expired)
    \/ \E failing \in SUBSET Chrome : RenderSystemFragments(v, failing)
    \/ \E member \in BOOLEAN : ResolvePath(v, member)
    \/ ResolveFails(v) \/ ResolveFindsNothing(v) \/ RenderSystemDocument(v)
    \/ ServeCached(v) \/ RenderBody(v) \/ Finish(v)

Editing == \E s \in Edited : SavePage(s) \/ Publish(s) \/ Retire(s) \/ ToggleGate(s)

SiteNext == (\E v \in Visitor : RequestStep(v)) \/ Editing \/ Operate

SiteSpec == SiteInit /\ [][SiteNext]_siteVars

(***************************************************************************)
(* Properties.                                                             *)
(***************************************************************************)
Shown(v) == seen[v].document
IsPage(v) == seen[v].kind = "page"

\* An edit goes live at once: what a visitor gets is made from revisions of the page,
\* the header and the footer that are no older than the request, cached or not; only a
\* fragment that this request could not read may be missing.  (Two processes, no
\* message between them, requests that render the same page at the same time, and an
\* entry written late by the slower one.)
EditsGoLive ==
    \A v \in Visitor : IsPage(v) =>
        LET floor == seen[v].of.floor IN
        /\ Shown(v).revision >= floor.page
        /\ "header" \in seen[v].of.failed \/ Shown(v).header >= floor.header
        /\ "footer" \in seen[v].of.failed \/ Shown(v).footer >= floor.footer

\* A page for members that stays so for as long as the request lasts is shown to
\* members only, even when their document is already in the cache.
MembersOnly == \A v \in Visitor : IsPage(v) => seen[v].of.open

\* The cache accounts exactly for what it holds: its bytes are those of its entries
\* and within the budget, its entries no more than the cap, and the tag index names
\* just the paths of its entries.
CacheAccounts ==
    /\ cache.total = SizeOf(cache.entries, DOMAIN cache.entries)
    /\ Fits(cache)
    /\ \A p \in DOMAIN cache.entries :
          cache.entries[p].tag \in DOMAIN cache.tags /\ p \in cache.tags[cache.entries[p].tag]
    /\ \A t \in DOMAIN cache.tags : cache.tags[t] # {} /\ \A p \in cache.tags[t] :
          p \in DOMAIN cache.entries /\ cache.entries[p].tag = t

\* Nobody is lost: from every document, a page or a status page, on a desktop and on a
\* phone (where the header hides its links), the four main pages are one click away,
\* unless the footer could not be read; and then the start page still is.
NobodyIsLost ==
    \A v \in Visitor, d \in Devices : seen[v].kind \in {"page", "missing", "error"} =>
        /\ Path(<<>>) \in {Target(h, seen[v].path) : h \in Shown(v).links[d] \ {"#"}}
        /\ Shown(v).footer # 0 => DOMAIN Rooted \subseteq Shown(v).links[d]

\* A link of the site leads to a page, unless that page has been retired, or it is a
\* post in another language than the list that names it.
LinksLead ==
    \A v \in Visitor :
        seen[v].kind = "missing" /\ seen[v].of.from = "link" =>
            LET s == ParsePath(seen[v].path).slug
            IN s \in DOMAIN page /\ (page[s].retired \/ page[s].locale # ParsePath(seen[v].path).locale)

\* Every way on leads on.
WaysLeadOn == NobodyIsLost /\ LinksLead

\* What the preset and the cache promise of a list of posts: it is "auto-updating", and
\* cached pages are purged "the instant their content changes".  A list that a visitor
\* is shown is thus one that was true at some time during the request.
ListsAreCurrent ==
    \A v \in Visitor : IsPage(v) /\ Shown(v).slug = "blog" => Shown(v).items \in seen[v].of.lists

\* What the Site promises of the maintenance window: it serves the maintenance page
\* of the operator, so there is something on it.
MaintenancePageShows ==
    \A v \in Visitor : seen[v].kind = "maintenance" => seen[v].document.items # <<>>
=============================================================================
