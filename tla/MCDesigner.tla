----------------------------- MODULE MCDesigner -----------------------------
(***************************************************************************)
(* The designer for TLC: a behaviour is about the tree and the gestures on *)
(* it, about the properties and the history, about saving, or about what   *)
(* the browser makes of the styles.                                        *)
(***************************************************************************)
EXTENDS Designer, MCStyles

VARIABLE focus

MCPalette == {Leaf("heading"), Around("section", "text"), Leaf("list")}
MCFirst ==
    {EmptyLayout,
     [EmptyLayout EXCEPT !.kids[Root] = <<1>>, !.kids[1] = <<2>>, !.type[1] = "list", !.type[2] = "listItem"]}

InFocus ==
    CASE focus = "tree" -> saving' = <<>> /\ histTimer' = FALSE /\ propTab' = propTab /\ Len(renders') <= 1 /\ ~overtaken'
                           /\ (drag' = None \/ dragNode' = None \/ selected' = None)
                           /\ (edits' = MaxEdits => gestureVars' = <<None, None>>)
      [] focus = "panel" -> saving' = <<>> /\ gestureVars' = gestureVars /\ nextId' = nextId /\ Len(renders') <= 1 /\ ~overtaken'
      [] focus = "save" -> (saving' = <<>> \/ Len(renders') <= 1) /\ (edits' = MaxEdits => Len(renders') <= 1) /\ gestureVars' = gestureVars /\ nextId' <= 2 /\ propTab' = propTab /\ selected' \in {None, 1}

MCDesignerInit ==
    /\ focus \in {"tree", "panel", "save", "styles"}
    /\ DesignerInit /\ StylesInit
    /\ focus \in {"save", "styles"} => layout = EmptyLayout
    /\ focus = "panel" => layout # EmptyLayout
    /\ focus # "styles" =>
          node = (CHOOSE n \in MCNodes : TRUE) /\ followed = (CHOOSE f \in MCFollowed : TRUE)

MCDesignerNext ==
    /\ UNCHANGED focus
    /\ \/ focus # "styles" /\ DesignerNext /\ InFocus /\ UNCHANGED styleVars
       \/ focus = "styles" /\ StylesNext /\ UNCHANGED <<designVars, treeVars>>

MCDesignerSpec == MCDesignerInit /\ [][MCDesignerNext]_<<designVars, treeVars, styleVars, focus>>
=============================================================================
