------------------------------ MODULE Designer ------------------------------
(***************************************************************************)
(* The page designer of the Studio (components/designer): its tree of      *)
(* primitives, the canvas, the palette, the layers and the properties.     *)
(*                                                                         *)
(* A layout is a forest over the ids of its nodes: the children of each    *)
(* node and of Root, the type of each node, the values of its fields.      *)
(* Clicks and drops on the canvas name the nodes of the layout that the    *)
(* canvas SHOWS, which need not be the layout edited.                      *)
(***************************************************************************)
EXTENDS DesignHistory, Primitives, SequencesExt, TLC

CONSTANTS
    MaxNode,        \* bound: ids handed out
    Palette,        \* the templates of the palette, see Template
    Fields,         \* the fields of a node that are followed
    Root, None,
    First           \* the layouts a page is opened with

VARIABLES
    nextId,         \* ids below are used up
    selected,
    drag,           \* None or the template dragged from the palette
    dragNode,       \* None or the node dragged in the layers
    propTab,
    panel           \* the fields shown for the selected node

gestureVars == <<drag, dragNode>>
treeVars == <<nextId, selected, gestureVars, propTab, panel>>

Node == 1..MaxNode
Unset == "unset"
Values == {"unset", "typed"}
NoPanel == [of |-> None]

\* A template of the palette: the roots, children, types and values of nodes 1..size.
Leaf(type) == [size |-> 1, roots |-> <<1>>, kids |-> <<<<>>>>, type |-> <<type>>]
Around(type, inner) ==
    [size |-> 2, roots |-> <<1>>, kids |-> <<<<2>>, <<>>>>, type |-> <<type, inner>>]

EmptyLayout ==
    [kids |-> [n \in Node \cup {Root} |-> <<>>],
     type |-> [n \in Node |-> None],
     value |-> [n \in Node |-> [f \in Fields |-> Unset]]]

Layouts ==
    [kids : [Node \cup {Root} -> Seq(Node)], type : [Node -> PaletteTypes \cup {None}],
     value : [Node -> [Fields -> Values]]]

-----------------------------------------------------------------------------
(* The tree (tree.ts).                                                     *)

Live(l, n) == n \in Node /\ l.type[n] # None
ParentOf(l, n) == CHOOSE p \in DOMAIN l.kids : Contains(l.kids[p], n)
IndexOf(l, n) == CHOOSE i \in DOMAIN l.kids[ParentOf(l, n)] : l.kids[ParentOf(l, n)][i] = n

\* The nodes below those of S.
RECURSIVE Below(_, _)
Below(l, S) ==
    LET kids == UNION {ToSet(l.kids[n]) : n \in S}
    IN  IF kids \subseteq S THEN S ELSE Below(l, S \cup kids)

IsDescendant(l, a, n) == a \in Node /\ n \in Below(l, ToSet(l.kids[a]))
Placed(l) == Below(l, ToSet(l.kids[Root]))

Detach(l, n) == [l EXCEPT !.kids[ParentOf(l, n)] = RemoveAt(@, IndexOf(l, n))]
AttachLast(l, p, n) == [l EXCEPT !.kids[p] = Append(@, n)]

\* Whose children a node dropped on, or added at, n joins.
ChildrenOf(l, n) ==
    CASE ~Live(l, n) -> Root
      [] Live(l, n) /\ IsContainer(l.type[n]) -> n
      [] OTHER -> ParentOf(l, n)

\* The copy of the nodes of S with the ids from next on, put beside the layout.
CopyOf(S, next, n) == next + Cardinality({m \in S : m < n})
CloneTree(l, S, next) ==
    LET from(c) == CHOOSE n \in S : CopyOf(S, next, n) = c
        copies == {CopyOf(S, next, n) : n \in S}
    IN  [kids |-> [c \in Node \cup {Root} |->
                     IF c \in copies THEN [i \in DOMAIN l.kids[from(c)] |-> CopyOf(S, next, l.kids[from(c)][i])]
                     ELSE l.kids[c]],
         type |-> [c \in Node |-> IF c \in copies THEN l.type[from(c)] ELSE l.type[c]],
         value |-> [c \in Node |-> IF c \in copies THEN l.value[from(c)] ELSE l.value[c]]]

\* The nodes of a template with fresh ids, beside the layout.
Instantiate(l, t) ==
    [kids |-> [c \in Node \cup {Root} |->
                 IF c \in nextId..(nextId + t.size - 1)
                 THEN [i \in DOMAIN t.kids[c - nextId + 1] |-> t.kids[c - nextId + 1][i] + nextId - 1]
                 ELSE l.kids[c]],
     type |-> [c \in Node |->
                 IF c \in nextId..(nextId + t.size - 1) THEN t.type[c - nextId + 1] ELSE l.type[c]],
     value |-> l.value]

Forget(l, S) ==
    [kids |-> [n \in Node \cup {Root} |-> IF n \in S THEN <<>> ELSE l.kids[n]],
     type |-> [n \in Node |-> IF n \in S THEN None ELSE l.type[n]],
     value |-> [n \in Node |-> IF n \in S THEN [f \in Fields |-> Unset] ELSE l.value[n]]]

-----------------------------------------------------------------------------
(* What is on the screen.                                                  *)

\* The elements the canvas carries an id for: the renderer descends into the types
\* that hold children.
RECURSIVE ShownBelow(_, _)
ShownBelow(l, p) ==
    ToSet(l.kids[p]) \cup UNION {ShownBelow(l, n) : n \in {m \in ToSet(l.kids[p]) : RendersChildren(l.type[m])}}
OnCanvas == ShownBelow(canvas, Root)

TabFields(type, tab) ==
    IF tab = "content" THEN ContentFields(type) \cup TextStyles ELSE LayoutStyles(type)

Mounted(l, n, tab) ==
    [of |-> n, tab |-> tab, stepped |-> FALSE,
     shows |-> [f \in Fields \cap TabFields(l.type[n], tab) |-> l.value[n][f]]]

\* Mutant: the panel of one node is kept for the next (no key).
PanelAfterKept(l, sel, tab) ==
    IF ~Live(l, sel) THEN NoPanel
    ELSE IF panel # NoPanel /\ panel.tab = tab THEN [panel EXCEPT !.of = sel]
    ELSE Mounted(l, sel, tab)

\* The panel is mounted for a node and a tab, and reads the values of the node then.
PanelAfter(l, sel, tab) ==
    IF ~Live(l, sel) THEN NoPanel
    ELSE IF panel # NoPanel /\ panel.of = sel /\ panel.tab = tab THEN panel
    ELSE Mounted(l, sel, tab)

\* The end of a structural change.
Changed(l, sel) ==
    /\ Commit(l)
    /\ selected' = sel
    /\ panel' = PanelAfter(l, sel, propTab)
    /\ UNCHANGED propTab

-----------------------------------------------------------------------------
(* The operations on the tree.                                             *)

AddFromPalette(t, parent) ==
    /\ nextId + t.size - 1 <= MaxNode
    /\ nextId' = nextId + t.size
    /\ LET roots == [i \in DOMAIN t.roots |-> t.roots[i] + nextId - 1] IN
         Changed([Instantiate(layout, t) EXCEPT !.kids[parent] = @ \o roots], roots[1])

\* A click on the palette: a preset goes to the end of the page, a primitive to what
\* is selected.
ClickPalette(t) ==
    /\ AddFromPalette(t, IF t.size > 1 THEN Root ELSE ChildrenOf(layout, selected))
    /\ UNCHANGED gestureVars

\* Not onto itself nor to a node below it.
MayMove(n, to) == n # to /\ Live(layout, n) /\ ~IsDescendant(layout, n, to)

\* Mutant: the place is looked up, and the node put there, before it is taken out.
MoveIntoFirst(n, c) ==
    /\ MayMove(n, c)
    /\ Changed(AttachLast(layout, ChildrenOf(layout, c), n), n)

\* A node joins the children of another, or of the page when c is None.
MoveInto(n, c) ==
    /\ MayMove(n, c)
    /\ LET rest == Detach(layout, n) IN Changed(AttachLast(rest, ChildrenOf(rest, c), n), n)

MoveAfter(n, t) ==
    /\ MayMove(n, t)
    /\ LET rest == Detach(layout, n) IN
         Changed(IF Live(rest, t) THEN [rest EXCEPT !.kids[ParentOf(rest, t)] = InsertAt(@, IndexOf(rest, t) + 1, n)]
                 ELSE AttachLast(rest, Root, n), n)

\* Up and down: among its siblings.
MoveNode(dir) ==
    /\ Live(layout, selected)
    /\ LET p == ParentOf(layout, selected)
           i == IndexOf(layout, selected)
       IN  /\ i + dir \in DOMAIN layout.kids[p]
           /\ Changed([layout EXCEPT !.kids[p] = [@ EXCEPT ![i] = layout.kids[p][i + dir], ![i + dir] = selected]],
                      selected)
    /\ UNCHANGED <<nextId, gestureVars>>

DuplicateNode ==
    /\ Live(layout, selected)
    /\ LET S == Below(layout, {selected})
           copy == CopyOf(S, nextId, selected)
       IN  /\ nextId + Cardinality(S) - 1 <= MaxNode
           /\ nextId' = nextId + Cardinality(S)
           /\ Changed([CloneTree(layout, S, nextId) EXCEPT
                         !.kids[ParentOf(layout, selected)] = InsertAt(@, IndexOf(layout, selected) + 1, copy)], copy)
    /\ UNCHANGED gestureVars

\* Removing selects the parent; the key does the same as the button.
RemoveNode ==
    /\ Live(layout, selected)
    /\ LET p == ParentOf(layout, selected) IN
         Changed(Forget(Detach(layout, selected), Below(layout, {selected})), IF p = Root THEN None ELSE p)
    /\ UNCHANGED <<nextId, gestureVars>>

-----------------------------------------------------------------------------
(* Selecting, dragging and dropping.                                       *)

SelectNode(n) ==
    /\ n # selected
    /\ selected' = n
    /\ panel' = PanelAfter(layout, n, propTab)
    /\ UNCHANGED <<nextId, gestureVars, propTab, designVars>>

\* A click on the canvas or on a row, Escape, or the button to the parent.
Select ==
    \/ \E n \in OnCanvas \cup Placed(layout) \cup {None} : SelectNode(n)
    \/ /\ Live(layout, selected) /\ ParentOf(layout, selected) # Root
       /\ SelectNode(ParentOf(layout, selected))

SwitchTab ==
    /\ propTab' = IF propTab = "content" THEN "layout" ELSE "content"
    /\ panel' = PanelAfter(layout, selected, propTab')
    /\ UNCHANGED <<nextId, selected, gestureVars, designVars>>

\* Only the palette hears of the end of a drag.
DragStart(t) == drag = None /\ drag' = t /\ UNCHANGED dragNode
DragEnd == drag # None /\ drag' = None /\ UNCHANGED dragNode
DragRow(n) == dragNode # n /\ dragNode' = n /\ UNCHANGED drag

Drag ==
    /\ \/ \E t \in Palette : DragStart(t)
       \/ DragEnd
       \/ \E n \in Placed(layout) : DragRow(n)
    /\ UNCHANGED <<nextId, selected, propTab, panel, designVars>>

\* The nearest element around e on the canvas that is a container of the layout.
RECURSIVE DropTargetFor(_)
DropTargetFor(e) ==
    CASE e = Root -> None
      [] e # Root /\ Live(layout, e) /\ IsContainer(layout.type[e]) -> e
      [] OTHER -> DropTargetFor(ParentOf(canvas, e))

\* A drop on the canvas: a row that was dragged last, even if it was dropped elsewhere,
\* goes before what is dragged from the palette.
DropOnCanvas(e) ==
    LET target == DropTargetFor(e) IN
    \/ /\ dragNode # None
       /\ dragNode' = None /\ UNCHANGED <<drag, nextId>>
       /\ \/ MoveInto(dragNode, target)
          \/ ~MayMove(dragNode, target) /\ UNCHANGED <<selected, propTab, panel, designVars>>
    \/ /\ dragNode = None /\ drag # None
       /\ drag' = None /\ UNCHANGED dragNode
       /\ AddFromPalette(drag, ChildrenOf(layout, target))

\* A drop on a row of the layers.
DropOnRow(n) ==
    /\ dragNode # None
    /\ dragNode' = None /\ UNCHANGED <<drag, nextId>>
    /\ \/ IsContainer(layout.type[n]) /\ MoveInto(dragNode, n)
       \/ ~IsContainer(layout.type[n]) /\ MoveAfter(dragNode, n)
       \/ ~MayMove(dragNode, n) /\ UNCHANGED <<selected, propTab, panel, designVars>>

-----------------------------------------------------------------------------
(* The properties.                                                         *)

\* A field of the panel changes to v, and the node with it.
Write(f, v) ==
    /\ panel.shows[f] # v
    /\ panel' = [panel EXCEPT !.shows[f] = v]
    /\ PropChanged([layout EXCEPT !.value[selected][f] = v])
    /\ UNCHANGED <<nextId, selected, gestureVars, propTab>>

\* A blank content field stays blank, a blank style is taken away: Unset both.
WriteContent(f, v) ==
    /\ panel # NoPanel /\ f \in DOMAIN panel.shows \cap ContentFields(layout.type[selected])
    /\ Write(f, v)
WriteStyle(f, v) ==
    /\ panel # NoPanel /\ f \in DOMAIN panel.shows \ ContentFields(layout.type[selected])
    /\ Write(f, v)

\* Undo and redo: the panel of a node that is still there is not mounted again.
StepTo(i) ==
    /\ i \in DOMAIN history
    /\ LET sel == IF Live(history[i], selected) THEN selected ELSE None
           p == PanelAfter(history[i], sel, propTab)
       IN  /\ selected' = sel
           /\ panel' = IF p # NoPanel /\ p = panel THEN [p EXCEPT !.stepped = TRUE] ELSE p
    /\ UNCHANGED <<nextId, gestureVars, propTab>>

-----------------------------------------------------------------------------
DesignerInit ==
    /\ \E l \in First : DesignInit(l)
    /\ nextId = 1 + Cardinality(Placed(layout))
    /\ selected = None /\ drag = None /\ dragNode = None
    /\ propTab = "content" /\ panel = NoPanel

DesignerNext ==
    \/ \E t \in Palette : ClickPalette(t)
    \/ MoveNode(-1) \/ MoveNode(1) \/ DuplicateNode \/ RemoveNode
    \/ Select \/ SwitchTab \/ Drag
    \/ \E e \in OnCanvas \cup {Root} : DropOnCanvas(e)
    \/ \E n \in Placed(layout) : DropOnRow(n)
    \/ \E f \in Fields, v \in Values : WriteContent(f, v) \/ WriteStyle(f, v)
    \/ Undo /\ StepTo(histIdx - 1)
    \/ Redo /\ StepTo(histIdx + 1)
    \/ (HistTimer \/ RenderTimer \/ Save) /\ UNCHANGED treeVars
    \/ \E ok \in BOOLEAN : SaveAnswer(ok) /\ UNCHANGED treeVars
    \/ \E i \in 1..Len(renders), ok \in BOOLEAN : RenderAnswer(i, ok) /\ UNCHANGED treeVars

DesignerSpec == DesignerInit /\ [][DesignerNext]_<<designVars, treeVars>>

-----------------------------------------------------------------------------
\* Whatever is moved, duplicated, removed and undone, every node of the layout has
\* one place in the tree (Designer.tsx:177-226), under a primitive that renders what
\* is put into it (defs.ts isContainer against renderNode): nothing that was built is
\* lost, shown twice or out of reach on the canvas.
TreeHolds ==
    LET places(n) == {<<p, i>> \in (Node \cup {Root}) \X (1..MaxNode) : i <= Len(layout.kids[p]) /\ layout.kids[p][i] = n}
    IN  /\ Placed(layout) = {n \in Node : layout.type[n] # None}
        /\ \A n \in Placed(layout) : Cardinality(places(n)) = 1
        /\ ShownBelow(layout, Root) = Placed(layout)

\* The fields of the selected node show its values, unless an undo or a redo went past
\* a panel that stayed mounted (Designer.tsx:336-354, 735).
PanelShowsNode ==
    panel = NoPanel \/ panel.stepped
    \/ /\ panel.of = selected
       /\ \A f \in DOMAIN panel.shows : panel.shows[f] = layout.value[selected][f]

\* What the designer shows of the layout beside it: the canvas and the panel.
ScreenShowsLayout == CanvasShowsLayout /\ PanelShowsNode
=============================================================================
