----------------------------- MODULE Primitives -----------------------------
(***************************************************************************)
(* The vocabulary of a page (packages/engine/src/primitives): the types of *)
(* primitives, which of them the designer's palette knows and lets hold    *)
(* children, and which of them the renderer descends into.                 *)
(***************************************************************************)
EXTENDS Naturals, Sequences, FiniteSets

LayoutTypes == {"section", "container", "row", "column", "grid"}
FieldTypes == {"input", "textarea"}
LeafTypes == {"spacer", "divider", "heading", "text", "button", "image", "icon", "video", "submit"} \cup FieldTypes
DataTypes == {"list", "listItem", "collectionList", "form"}
CommerceTypes == {"addToCart", "commerce"}
PrimitiveTypes == LayoutTypes \cup LeafTypes \cup DataTypes \cup CommerceTypes

\* The definitions of the palette.
PaletteTypes == LayoutTypes \cup LeafTypes \cup DataTypes
IsContainer(type) == type \in LayoutTypes \cup DataTypes

\* Mutant: the items of a list are rendered as text only.
RendersChildrenButItems(type) == type \in (LayoutTypes \cup DataTypes) \ {"listItem"}

\* Types whose children renderNode renders; a list item with children renders
\* these and not its text.
RendersChildren(type) == type \in LayoutTypes \cup DataTypes

\* What the editor renders for a public page to leave out: nothing carries an id of
\* the tree, an empty container has no placeholder, an image without a source, a
\* video without an https address and an icon of no known name are nothing at all.
HiddenWhenBlank == {"image", "video", "icon"}

\* The content fields that the panel of a selected node edits.
ContentFields(type) ==
    CASE type = "heading" -> {"text", "level"}
      [] type \in {"text", "listItem"} -> {"text"}
      [] type = "button" -> {"label", "href"}
      [] type = "image" -> {"src", "alt"}
      [] type = "icon" -> {"name"}
      [] type = "video" -> {"url", "title"}
      [] type = "list" -> {"ordered"}
      [] type = "collectionList" -> {"limit", "order", "emptyText"}
      [] type = "form" -> {"action"}
      [] type = "input" -> {"label", "name", "inputType", "placeholder", "required"}
      [] type = "textarea" -> {"label", "name", "placeholder", "rows"}
      [] type = "submit" -> {"label"}
      [] OTHER -> {}

\* The style fields of the layout tab; those of the content tab are the same for
\* every type.
Sides == {"Top", "Right", "Bottom", "Left"}
TextStyles == {"color", "fontSize", "fontWeight", "textAlign", "lineHeight", "fontFamily"}
LayoutStyles(type) ==
    {"width", "maxWidth", "height", "minHeight", "maxHeight", "background",
     "borderWidth", "borderStyle", "borderColor", "borderRadius"}
    \cup {"padding" \o s : s \in Sides} \cup {"margin" \o s : s \in Sides}
    \cup (IF IsContainer(type) THEN {"justifyContent", "alignItems", "gap"} ELSE {})
    \cup (IF type \in {"row", "column", "grid", "form"} THEN {"flexDirection"} ELSE {})
=============================================================================
