------------------------------ MODULE Layouts ------------------------------
(***************************************************************************)
(* The pages that PresSH ships (packages/engine/src/primitives): the       *)
(* header and the footer of every page, the home, about, blog and contact  *)
(* pages, the three status pages, and the presets that the designer drops  *)
(* into a page; how renderTree turns a tree into what a visitor sees, and   *)
(* the check that bounds a tree.  Of a node the model keeps its type, the  *)
(* one property that matters for it (where a button leads, which icon, the *)
(* level of a heading, the target of a form, the source of an image), the  *)
(* field it is bound to, and whether it is hidden on a phone.  Colours,    *)
(* sizes and wording are left out; an empty wording is kept, because it    *)
(* shows as nothing.                                                       *)
(***************************************************************************)
EXTENDS Naturals, Sequences, FiniteSets, SequencesExt, Primitives

(***************************************************************************)
(* Builders.                                                               *)
(***************************************************************************)
Node(type, about, kids) == [type |-> type, about |-> about, field |-> "", kids |-> kids, hidden |-> FALSE]
Leaf(type, about) == Node(type, about, <<>>)
Box(type, kids) == Node(type, "", kids)
HiddenOnPhone(node) == [node EXCEPT !.hidden = TRUE]
Bound(node, field) == [node EXCEPT !.field = field]
Times(n, node) == [i \in 1..n |-> node]

ContainerOf(kids) == Box("container", kids)
SectionOf(kids) == Box("section", <<ContainerOf(kids)>>)
Heading(level) == Leaf("heading", level)
Body == Leaf("text", "some")
PrimaryBtn(href) == Leaf("button", href)
GhostBtn(href) == Leaf("button", href)
Icon(name) == Leaf("icon", name)
FeatureCard(icon) == Box("column", <<Box("column", <<Icon(icon)>>), Heading("3"), Body>>)
Step == Box("column", <<Box("column", <<Body>>), Heading("3"), Body>>)
CheckRow == Box("row", <<Icon("check-circle"), Body>>)
SectionHeading == Box("column", <<Body, Heading("2"), Body>>)
Opening(kids) == SectionOf(<<Box("column", kids)>>)

(***************************************************************************)
(* Header and footer.                                                      *)
(***************************************************************************)
BuildHeader == <<SectionOf(<<Box("row", <<
    GhostBtn("/"),
    HiddenOnPhone(Box("row", <<GhostBtn("/"), GhostBtn("/about"), GhostBtn("/blog"),
                               GhostBtn("/contact"), PrimaryBtn("/contact")>>))>>)>>)>>

FooterLinkGroup(links) == Box("column", <<Body>> \o [i \in DOMAIN links |-> GhostBtn(links[i])])

\* Mutant: on a phone the grid of links is not shown.
BuildFooterBare == <<SectionOf(<<
    HiddenOnPhone(Box("grid", <<FooterLinkGroup(<<"/", "/blog", "/about">>)>>)),
    Leaf("divider", ""),
    Box("row", <<Body, Box("row", <<GhostBtn("#"), GhostBtn("/contact")>>)>>)>>)>>

BuildFooter == <<SectionOf(<<
    Box("grid", <<Box("column", <<Heading("2"), Body>>),
                  FooterLinkGroup(<<"/", "/blog", "/about">>),
                  FooterLinkGroup(<<"/about", "/contact">>),
                  FooterLinkGroup(<<"#", "#">>)>>),
    Leaf("divider", ""),
    Box("row", <<Body, Box("row", <<GhostBtn("#"), GhostBtn("/contact")>>)>>)>>)>>

(***************************************************************************)
(* Home.                                                                   *)
(***************************************************************************)
HomeHero == Opening(<<Body, Heading("1"), Body, Box("row", <<PrimaryBtn("/contact"), GhostBtn("/about")>>)>>)
HomeStats == SectionOf(<<Box("grid", Times(4, Box("column", <<Heading("3"), Body>>)))>>)
HomeFeatures == SectionOf(<<SectionHeading,
    Box("grid", <<FeatureCard("shield"), FeatureCard("lock"), FeatureCard("zap"),
                  FeatureCard("globe"), FeatureCard("settings"), FeatureCard("check-circle")>>)>>)
HomeGetStarted == SectionOf(<<SectionHeading, Box("grid", Times(3, Step)), Box("row", <<PrimaryBtn("/blog")>>)>>)
HomeCapabilities == SectionOf(<<Box("grid", <<Box("column", <<Body, Heading("2"), Body>>),
                                              Box("column", Times(6, CheckRow))>>)>>)
HomeCta == Opening(<<Heading("2"), Body, Box("row", <<PrimaryBtn("/contact"), GhostBtn("/contact")>>)>>)
BuildHome == <<HomeHero, HomeStats, HomeFeatures, HomeGetStarted, HomeCapabilities, HomeCta>>

(***************************************************************************)
(* Status pages: not found, server error, maintenance.  The last has no    *)
(* code and no way on: its top heading is empty.                           *)
(***************************************************************************)
BuildStatusPage(top, icon, cta) == <<Opening(
    <<Icon(icon), Heading(top), Heading("2"), Body>>
    \o (IF cta = "" THEN <<>> ELSE <<Box("row", <<PrimaryBtn(cta)>>)>>))>>

(***************************************************************************)
(* About, blog and contact.                                                *)
(***************************************************************************)
AboutHero == Opening(<<Body, Heading("1"), Body>>)
AboutMission == Opening(<<Heading("2"), Body, Body>>)
AboutValues == SectionOf(<<SectionHeading,
    Box("grid", <<FeatureCard("shield"), FeatureCard("check-circle"), FeatureCard("globe")>>)>>)
AboutCta == Opening(<<Heading("2"), Body, Box("row", <<PrimaryBtn("/blog"), GhostBtn("/contact")>>)>>)
BuildAbout == <<AboutHero, AboutMission, AboutValues, AboutCta>>

PostCard == Box("column", <<Bound(Heading("3"), "title"), Bound(Leaf("button", "#"), "slug")>>)
BlogHero == Opening(<<Heading("1"), Body>>)
BlogPosts == SectionOf(<<Heading("2"), Node("collectionList", "6", <<PostCard>>)>>)
BlogWhy == Opening(<<Heading("2"), Body>>)
BuildBlog == <<BlogHero, BlogPosts, BlogWhy>>

ContactHero == Opening(<<Heading("1"), Body>>)
MessageForm(target) == Node("form", target, <<Leaf("input", "name"), Leaf("input", "email"),
                                              Leaf("textarea", "message"), Leaf("submit", "some")>>)
ContactGrid == SectionOf(<<Box("grid", <<
    Box("column", <<Heading("2"), Box("row", <<Icon("mail"), Body>>), Box("row", <<Icon("github"), Body>>), Body>>),
    Box("column", <<MessageForm("#")>>)>>)>>)
BuildContact == <<ContactHero, ContactGrid>>

PrebuiltSlugs == {"header", "footer", "home", "404", "500", "maintenance", "about", "blog", "contact"}
GetPrebuiltPage(slug) ==
    CASE slug = "header" -> BuildHeader
      [] slug = "footer" -> BuildFooter
      [] slug = "home" -> BuildHome
      [] slug = "404" -> BuildStatusPage("1", "search", "/")
      [] slug = "500" -> BuildStatusPage("1", "settings", "/")
      [] slug = "maintenance" -> BuildStatusPage("1-empty", "clock", "")
      [] slug = "about" -> BuildAbout
      [] slug = "blog" -> BuildBlog
      [] slug = "contact" -> BuildContact

(***************************************************************************)
(* Presets of the designer.                                                *)
(***************************************************************************)
Captioned == <<Heading("2"), Body>>
IconCard(icon) == Box("column", <<Icon(icon), Heading("3"), Body>>)
HeroPreset == Opening(<<Body, Heading("1"), Body, Box("row", <<PrimaryBtn("#"), PrimaryBtn("#")>>)>>)
FeatureGridPreset == SectionOf(<<Box("column", Captioned), Box("grid", <<IconCard("zap"), IconCard("shield"), IconCard("globe")>>)>>)
ColumnsPreset == SectionOf(<<Box("grid", <<IconCard("zap"), IconCard("shield")>>)>>)
TwoColPreset == SectionOf(<<Box("row", <<Box("column", Captioned \o <<PrimaryBtn("#")>>), Leaf("image", "https")>>)>>)
CtaPreset == Opening(Captioned \o <<PrimaryBtn("#")>>)
TestimonialPreset == Opening(<<Body, Body>>)
PricingPreset == SectionOf(<<Box("column", Captioned), Box("grid", Times(3, Box("column",
    <<Heading("3"), Heading("4"), Box("list", Times(3, Leaf("listItem", "some"))), PrimaryBtn("#")>>)))>>)
FaqPreset == SectionOf(<<Heading("2"), Box("column", Times(3, Box("column", <<Heading("3"), Body>>)))>>)
StatsPreset == SectionOf(<<Box("grid", Times(4, Box("column", <<Heading("3"), Body>>)))>>)
TeamPreset == SectionOf(<<Heading("2"), Box("grid", Times(4, Box("column", <<Leaf("image", "https"), Heading("3"), Body>>)))>>)
LogoPreset == SectionOf(<<Body, Box("row", Times(5, Leaf("image", "https")))>>)
QuotePreset == SectionOf(<<Body>>)
IconListPreset == Opening(Times(4, CheckRow))
GalleryPreset == SectionOf(<<Box("grid", Times(6, Leaf("image", "https")))>>)
ImagePreset == Opening(<<Leaf("image", "https"), Body>>)
TextPreset == Opening(Captioned)
VideoPreset == SectionOf(<<Leaf("video", "https")>>)
NavPreset == SectionOf(<<Box("row", <<Heading("1"),
    Box("row", <<PrimaryBtn("/"), PrimaryBtn("/about"), PrimaryBtn("/contact"), PrimaryBtn("#")>>)>>)>>)
FooterPreset == SectionOf(<<Box("row", <<Body, Box("row", Times(3, PrimaryBtn("#")))>>)>>)
BannerPreset == Box("section", <<Body>>)
RecentPostsPreset == SectionOf(<<Heading("2"), Node("collectionList", "6", <<PostCard>>)>>)
ContactFormPreset == Opening(<<Box("column", Captioned), MessageForm("#")>>)
NewsletterPreset == Opening(Captioned \o <<Node("form", "#", <<Leaf("input", "email"), Leaf("submit", "some")>>)>>)
Presets == <<HeroPreset, FeatureGridPreset, ColumnsPreset, TwoColPreset, CtaPreset, TestimonialPreset,
    PricingPreset, FaqPreset, StatsPreset, TeamPreset, LogoPreset, QuotePreset, IconListPreset,
    GalleryPreset, ImagePreset, TextPreset, VideoPreset, NavPreset, FooterPreset, BannerPreset,
    RecentPostsPreset, ContactFormPreset, NewsletterPreset>>

(***************************************************************************)
(* Rendering for the public.  An item is a published page in the scope of  *)
(* a collection list; a node outside of one shows its own property, a      *)
(* bound one inside shows the item's field.  An element that is hidden     *)
(* takes its children with it.  The result is the sequence of the leaves   *)
(* that a visitor of that device finds: [type, about].                     *)
(***************************************************************************)
Icons == {"arrow-right", "arrow-left", "chevron-right", "chevron-down", "check", "check-circle", "x",
    "star", "heart", "mail", "phone", "map-pin", "globe", "menu", "search", "user", "settings", "zap",
    "shield", "lock", "clock", "calendar", "plus", "download", "external-link", "github", "twitter"}
NoItem == ""

ResolveValue(node, item) ==
    IF node.field = "slug" /\ item # NoItem THEN item ELSE node.about

IsBlank(node) == \/ node.type = "icon" /\ node.about \notin Icons
                 \/ node.type \in {"image", "video"} /\ node.about # "https"

RECURSIVE RenderNode(_, _, _, _)
RenderList(nodes, device, items, item) ==
    FlattenSeq([i \in DOMAIN nodes |-> RenderNode(nodes[i], device, items, item)])

RenderNode(node, device, items, item) ==
    IF (device = "phone" /\ node.hidden) \/ IsBlank(node) \/ ~(node.type \in PrimitiveTypes) THEN <<>>
    ELSE IF node.type = "collectionList"
    THEN IF items = <<>> THEN <<[type |-> "empty", about |-> ""]>>
         ELSE FlattenSeq([i \in DOMAIN items |-> RenderList(node.kids, device, items, items[i])])
    ELSE IF RendersChildren(node.type) /\ node.kids # <<>>
    THEN RenderList(node.kids, device, items, item)
         \o (IF node.type = "form" THEN <<[type |-> "form", about |-> ResolveValue(node, item)]>> ELSE <<>>)
    ELSE <<[type |-> node.type, about |-> ResolveValue(node, item)]>>

RenderTree(nodes, device, items) == RenderList(nodes, device, items, NoItem)

\* Where the buttons of a rendering lead.
LinksIn(html) == {html[i].about : i \in {j \in DOMAIN html : html[j].type = "button"}}
LinksOf(nodes, items) == [d \in {"desktop", "phone"} |-> LinksIn(RenderTree(nodes, d, items))]
LayoutLinks(slug, items) == LinksOf(IF slug \in PrebuiltSlugs THEN GetPrebuiltPage(slug) ELSE <<>>, items)

\* The types of the blocks that a shipped page is stored as.
PrebuiltLayoutBlocks(slug) == IF slug \in PrebuiltSlugs THEN <<"designer-layout">> ELSE <<>>
=============================================================================
