------------------------------- MODULE Styles -------------------------------
(***************************************************************************)
(* From the styles of a node to what the browser shows (primitives/css.ts):*)
(* the rules compiled for a node, the defaults of its type, the responsive *)
(* defaults that are added, and the cascade that picks among them.         *)
(*                                                                         *)
(* A node is restyled one value at a time; the properties are about every  *)
(* style sheet that can come of it.  Values are classes of values: a grid  *)
(* is one, two or many equal columns or another list of tracks, a font is  *)
(* small or large, bad is a value its validator rejects.                   *)
(***************************************************************************)
EXTENDS Primitives

CONSTANTS
    Nodes,         \* the nodes styled: [type, parent, kids: the types below it]
    Followed,      \* the sets of properties styled together
    MaxStyles      \* bound: values set

VARIABLES
    node,          \* the node, as Nodes has it
    followed,      \* the properties that are styled
    styles         \* breakpoint, state and property -> value

styleVars == <<node, followed, styles>>

Breakpoints == <<"base", "tablet", "mobile">>
States == <<"default", "hover">>
NotSet == "unset"

\* The values of a property the model tells apart; all others have set and bad.
Valid(prop) ==
    CASE prop = "gridTemplateColumns" -> {"one", "two", "many", "tracks"}
      [] prop = "fontSize" -> {"small", "large"}
      [] prop = "display" -> {"none", "flex"}
      [] prop = "flexDirection" -> {"row", "column"}
      [] OTHER -> {"set"}
Rejected == "bad"

NoStyles == [bp \in {"base", "tablet", "mobile"} |-> [st \in {"default", "hover"} |-> <<>>]]
Get(s, bp, st, prop) == IF prop \in DOMAIN s[bp][st] THEN s[bp][st][prop] ELSE NotSet
Put(s, bp, prop, v) ==
    [s EXCEPT ![bp]["default"] = [p \in DOMAIN @ \cup {prop} |-> IF p = prop THEN v ELSE @[p]]]

-----------------------------------------------------------------------------
(* What is added to the styles of a node.                                  *)

\* Mutant: two columns count as few enough.
CollapseGridColsFew(cols) ==
    CASE cols = "many" -> [tablet |-> "two", mobile |-> "one"]
      [] cols = "tracks" -> [tablet |-> NotSet, mobile |-> "one"]
      [] OTHER -> [tablet |-> NotSet, mobile |-> NotSet]

\* Fewer columns on narrow screens, for a grid of equal ones.
CollapseGridCols(cols) ==
    CASE cols = "many" -> [tablet |-> "two", mobile |-> "one"]
      [] cols \in {"two", "tracks"} -> [tablet |-> NotSet, mobile |-> "one"]
      [] OTHER -> [tablet |-> NotSet, mobile |-> NotSet]

FluidFontSize(size) == IF size = "large" THEN "fluid" ELSE NotSet

\* Mutant: the narrow columns replace those of the designer.
FillOver(s, bp, prop, v) == IF v = NotSet THEN s ELSE Put(s, bp, prop, v)

\* A value is added where the designer has none.
Fill(s, bp, prop, v) ==
    IF v = NotSet \/ Get(s, bp, "default", prop) # NotSet THEN s ELSE Put(s, bp, prop, v)

SynthesizeResponsive(type, s) ==
    LET cols == Get(s, "base", "default", "gridTemplateColumns")
        adds == IF type \in {"grid", "collectionList"}
                THEN CollapseGridCols(IF cols = NotSet THEN "many" ELSE cols)
                ELSE CollapseGridCols("one")
        scaled == \E bp \in {"tablet", "mobile"} : Get(s, bp, "default", "fontSize") # NotSet
        fluid == IF scaled THEN NotSet ELSE FluidFontSize(Get(s, "base", "default", "fontSize"))
        grid == Fill(Fill(s, "tablet", "gridTemplateColumns", adds.tablet), "mobile", "gridTemplateColumns", adds.mobile)
    IN  IF fluid = NotSet THEN grid ELSE Put(grid, "base", "fontSize", fluid)

-----------------------------------------------------------------------------
(* The rules, in the order of the style sheet.                             *)

Rule(media, state, weight, decls) == [media |-> media, state |-> state, weight |-> weight, decls |-> decls]

\* Rejected values do not become declarations.
CompileDeclarations(block) ==
    [p \in {q \in DOMAIN block : block[q] # Rejected} |-> block[p]]

\* A column with a width does not share its row.
WithFlex(type, decls) ==
    IF type = "column" /\ "width" \in DOMAIN decls
    THEN [p \in DOMAIN decls \cup {"flex"} |-> IF p = "flex" THEN "fixed" ELSE decls[p]] ELSE decls

\* A container with a height lets the blocks in it grow.
Fills(type, kids, s) ==
    /\ type \in {"section", "container", "column"}
    /\ \E p \in {"height", "minHeight"} : Get(s, "base", "default", p) # NotSet
    /\ kids # <<>>
    /\ ~(Len(kids) > 1 /\ \A i \in DOMAIN kids : kids[i] = "column")
    /\ \A p \in {"display", "flexDirection"} : Get(s, "base", "default", p) = NotSet

HeightFillRules(type, kids, s) ==
    IF Fills(type, kids, s) /\ type # "column"
    THEN <<Rule("base", "default", 2, [display |-> "flex", flexDirection |-> "column"])>> ELSE <<>>

\* Mutant: one class in the selector of a node.
CompileNodeCssLight(type, kids, s) ==
    LET full == SynthesizeResponsive(type, s)
        of(b, t) == Rule(Breakpoints[b], States[t], t, WithFlex(type, CompileDeclarations(full[Breakpoints[b]][States[t]])))
    IN  <<of(1, 1), of(1, 2), of(2, 1), of(2, 2), of(3, 1), of(3, 2)>> \o HeightFillRules(type, kids, s)

\* The rules of a node: its class twice, and once more for hover; the rules of the
\* height come after those of every breakpoint.
CompileNodeCss(type, kids, s) ==
    LET full == SynthesizeResponsive(type, s)
        of(b, t) == Rule(Breakpoints[b], States[t], 1 + t, WithFlex(type, CompileDeclarations(full[Breakpoints[b]][States[t]])))
    IN  <<of(1, 1), of(1, 2), of(2, 1), of(2, 2), of(3, 1), of(3, 2)>> \o HeightFillRules(type, kids, s)

\* The defaults of a type, of what can be styled here.
BaseCss(type) ==
    CASE type \in {"row", "column", "form"} ->
             [display |-> "flex", flexDirection |-> IF type = "row" THEN "row" ELSE "column"]
      [] type \in {"grid", "collectionList"} -> [display |-> "grid", gridTemplateColumns |-> "many"]
      [] type \in {"section", "spacer", "image", "commerce"} -> [display |-> "block"]
      [] type \in {"button", "icon", "submit", "addToCart"} -> [display |-> "inline-flex"]
      [] type \in FieldTypes -> [display |-> "flex", flexDirection |-> "column"]
      [] OTHER -> <<>>

IsColumnFlow(type, kids) ==
    /\ type \in {"section", "container", "column"}
    /\ Len(kids) > 1 /\ \A i \in DOMAIN kids : kids[i] = "column"

\* A block of columns lies in a row, which is a column on a phone, and its columns share it.
FlowRules(n) ==
    (IF IsColumnFlow(n.type, n.kids)
     THEN <<Rule("base", "default", 1, [display |-> "flex", flexDirection |-> "row"])>> ELSE <<>>)
    \o (IF n.type = "column" /\ n.parent \in {"row", "flow"}
        THEN <<Rule("base", "default", 0, [flex |-> "share"])>> ELSE <<>>)

ResponsiveBaseCss(n) ==
    IF n.type = "row" \/ IsColumnFlow(n.type, n.kids)
    THEN <<Rule("mobile", "default", 1, [flexDirection |-> "column"])>> ELSE <<>>

CompileTreeCss(n, s) ==
    <<Rule("base", "default", 1, BaseCss(n.type))>> \o FlowRules(n) \o ResponsiveBaseCss(n)
    \o CompileNodeCss(n.type, n.kids, s)

-----------------------------------------------------------------------------
(* The browser.                                                            *)

\* Media queries are upper limits: a phone is also at most as wide as a tablet.
Applies(rule, width, hovered) ==
    /\ rule.media = "base" \/ rule.media = width \/ (rule.media = "tablet" /\ width = "mobile")
    /\ rule.state = "hover" => hovered

\* The value of the heaviest rule, of equals the last.
Computed(rules, width, hovered, prop) ==
    LET on == {i \in DOMAIN rules : Applies(rules[i], width, hovered) /\ prop \in DOMAIN rules[i].decls}
    IN  IF on = {} THEN NotSet
        ELSE rules[CHOOSE i \in on : \A j \in on :
                       rules[j].weight < rules[i].weight \/ (rules[j].weight = rules[i].weight /\ j <= i)].decls[prop]

-----------------------------------------------------------------------------
StylesInit ==
    /\ node \in Nodes /\ followed \in Followed /\ styles = NoStyles

StyleCount == {<<bp, st, p>> \in {"base", "tablet", "mobile"} \X {"default", "hover"} \X followed : Get(styles, bp, st, p) # NotSet}

SetStyle(bp, st, prop, v) ==
    /\ Get(styles, bp, st, prop) # v
    /\ Cardinality(StyleCount) < MaxStyles
    /\ styles' = [styles EXCEPT ![bp][st] = [p \in DOMAIN @ \cup {prop} |-> IF p = prop THEN v ELSE @[p]]]
    /\ UNCHANGED <<node, followed>>

StylesNext ==
    \E bp \in {"base", "tablet", "mobile"}, st \in {"default", "hover"}, prop \in followed :
        \E v \in Valid(prop) \cup {Rejected} : SetStyle(bp, st, prop, v)

StylesSpec == StylesInit /\ [][StylesNext]_styleVars

-----------------------------------------------------------------------------
Shown(width, hovered, prop) == Computed(CompileTreeCss(node, styles), width, hovered, prop)

\* "A designer's explicit per-breakpoint value always wins" (css.ts:224-227): what is
\* set for a width is shown at that width, a large base font as the fluid one, but for
\* the display and direction that a container with a height is given after, and with
\* the weight of, what the designer set for a narrow screen; and what is set for the
\* pointer above the node holds while it is there.
ExplicitValueWinsBesidesFill ==
    \A i \in 1..3, prop \in followed, hovered \in BOOLEAN :
        LET bp == Breakpoints[i]
            v == Get(styles, bp, IF hovered THEN "hover" ELSE "default", prop)
        IN  v \in Valid(prop) =>
              \/ Shown(bp, hovered, prop) = v
              \/ ~hovered /\ bp = "base" /\ v = "large" /\ Shown(bp, hovered, prop) = "fluid"
              \/ ~hovered /\ prop \in {"display", "flexDirection"} /\ i > 1 /\ Fills(node.type, node.kids, styles)

\* "Make any layout adapt across desktop/tablet/mobile with zero manual work"
\* (css.ts:224-225): many equal columns that nobody set for a narrow screen are fewer
\* there, unless the columns set are no valid value; a large font is never left fixed;
\* a row without a direction of its own stacks on a phone.
AdaptsByItself ==
    LET unset(bp, prop) == Get(styles, bp, "default", prop) = NotSet
        narrow(prop) == unset("tablet", prop) /\ unset("mobile", prop)
    IN  /\ node.type = "grid" /\ "gridTemplateColumns" \in followed /\ narrow("gridTemplateColumns")
           /\ Get(styles, "base", "default", "gridTemplateColumns") # Rejected =>
             /\ Shown("tablet", FALSE, "gridTemplateColumns") # "many"
             /\ Shown("mobile", FALSE, "gridTemplateColumns") = "one"
        /\ "fontSize" \in followed /\ narrow("fontSize") =>
             \A bp \in {"base", "tablet", "mobile"} : Shown(bp, FALSE, "fontSize") # "large"
        /\ node.type = "row" /\ (\A bp \in {"base", "tablet", "mobile"} : unset(bp, "flexDirection")) =>
             Shown("mobile", FALSE, "flexDirection") = "column"

\* What the browser computes is what was designed: the values set, and the adaptation to the rest.
StylesShow == ExplicitValueWinsBesidesFill /\ AdaptsByItself
=============================================================================
