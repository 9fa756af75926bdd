--------------------------- MODULE DesignHistory ---------------------------
(***************************************************************************)
(* What the designer of the Studio (Designer.tsx) does with a layout,      *)
(* whatever a layout is: it keeps it with a history to undo and redo,      *)
(* shows it on a canvas that the server renders, and saves it.             *)
(*                                                                         *)
(* A structural change commits at once.  A change of a property or a style *)
(* writes the layout and starts two timers: one renders, one puts the      *)
(* layout on the history.  Rendering and saving are requests whose answers *)
(* come in any order.                                                      *)
(***************************************************************************)
EXTENDS Naturals, Sequences

CONSTANTS
    Layout,        \* the layouts there are
    NoLayout,      \* the empty one
    MaxHistory,    \* snapshots kept
    MaxEdits,      \* bound: changes made
    MaxRequests    \* bound: renderings in flight

ASSUME DesignConstants ==
    /\ NoLayout \in Layout
    /\ MaxHistory \in Nat \ {0} /\ MaxEdits \in Nat /\ MaxRequests \in Nat

VARIABLES
    layout, history, histIdx, dirty,
    histTimer, renderTimer,   \* the timers that run
    canvas,                   \* the layout the canvas shows
    renders,                  \* renderings the server has not answered
    saving,                   \* <<>> or the layout of a save in flight
    stored,                   \* the layout the server has
    edits,
    overtaken,                \* history: an answer overtook a later one, or failed
    editedInFlight            \* history: the layout changed while a save was in flight

viewVars == <<canvas, renders, renderTimer, overtaken>>
saveVars == <<saving, stored, editedInFlight>>
historyVars == <<layout, history, histIdx, dirty, histTimer, edits>>
designVars == <<historyVars, viewVars, saveVars>>

DesignInit(first) ==
    /\ layout = first /\ stored = first
    /\ history = <<first>> /\ histIdx = 1
    /\ dirty = FALSE /\ histTimer = FALSE /\ renderTimer = FALSE
    /\ canvas = NoLayout /\ renders = IF first = NoLayout THEN <<>> ELSE <<first>>
    /\ saving = <<>> /\ edits = 0
    /\ overtaken = FALSE /\ editedInFlight = FALSE

-----------------------------------------------------------------------------
\* Mutant: dropping the oldest snapshot leaves the index where it was.
PushHistShifts(h, i, l) ==
    LET grown == Append(SubSeq(h, 1, i), l) IN
    IF Len(grown) > MaxHistory THEN <<Tail(grown), Len(grown)>> ELSE <<grown, Len(grown)>>

\* The history after h with the index at i, and the index, when l is put on it.
PushHist(h, i, l) ==
    LET grown == Append(SubSeq(h, 1, i), l) IN
    IF Len(grown) > MaxHistory THEN <<Tail(grown), Len(grown) - 1>> ELSE <<grown, Len(grown)>>

\* Mutant: without a layout there is nothing to render.
RenderCanvasKeeps(l) ==
    IF l = NoLayout
    THEN UNCHANGED <<canvas, renders, overtaken>>
    ELSE /\ Len(renders) < MaxRequests
         /\ renders' = Append(renders, l)
         /\ UNCHANGED <<canvas, overtaken>>

\* renderCanvas: an empty layout is shown without the server.
RenderCanvas(l) ==
    IF l = NoLayout
    THEN /\ canvas' = NoLayout
         /\ overtaken' = (overtaken \/ renders # <<>>)
         /\ UNCHANGED renders
    ELSE /\ Len(renders) < MaxRequests
         /\ renders' = Append(renders, l)
         /\ UNCHANGED <<canvas, overtaken>>

Touch == editedInFlight' = (editedInFlight \/ saving # <<>>) /\ UNCHANGED <<saving, stored>>

\* A structural change.
Commit(l) ==
    /\ edits < MaxEdits /\ edits' = edits + 1
    /\ layout' = l
    /\ LET pushed == PushHist(history, histIdx, l) IN
         history' = pushed[1] /\ histIdx' = pushed[2]
    /\ dirty' = TRUE
    /\ RenderCanvas(l)
    /\ Touch
    /\ UNCHANGED <<histTimer, renderTimer>>

\* A change of a property or a style; a running timer starts again.
PropChanged(l) ==
    /\ edits < MaxEdits /\ edits' = edits + 1
    /\ layout' = l
    /\ dirty' = TRUE /\ histTimer' = TRUE /\ renderTimer' = TRUE
    /\ Touch
    /\ UNCHANGED <<history, histIdx, canvas, renders, overtaken>>

HistTimer ==
    /\ histTimer /\ histTimer' = FALSE
    /\ LET pushed == PushHist(history, histIdx, layout) IN
         history' = pushed[1] /\ histIdx' = pushed[2]
    /\ dirty' = TRUE
    /\ UNCHANGED <<layout, edits, viewVars, saveVars>>

RenderTimer ==
    /\ renderTimer /\ renderTimer' = FALSE
    /\ RenderCanvas(layout)
    /\ UNCHANGED <<historyVars, saveVars>>

\* Undo and redo take a snapshot as it is; a running history timer goes on.
Step(i) ==
    /\ histIdx' = i /\ layout' = history[i]
    /\ dirty' = TRUE
    /\ RenderCanvas(history[i])
    /\ Touch
    /\ UNCHANGED <<history, histTimer, renderTimer, edits>>

Undo == histIdx > 1 /\ Step(histIdx - 1)
Redo == histIdx < Len(history) /\ Step(histIdx + 1)

-----------------------------------------------------------------------------
\* The canvas shows whatever answer arrived last; a failed one shows a message.
RenderAnswer(i, ok) ==
    /\ canvas' = IF ok THEN renders[i] ELSE NoLayout
    /\ renders' = SubSeq(renders, 1, i - 1) \o SubSeq(renders, i + 1, Len(renders))
    /\ overtaken' = (overtaken \/ ~ok \/ i > 1)
    /\ UNCHANGED <<renderTimer, historyVars, saveVars>>

\* The buttons are disabled while a save is in flight.
Save ==
    /\ saving = <<>>
    /\ saving' = <<layout>>
    /\ UNCHANGED <<stored, editedInFlight, historyVars, viewVars>>

\* Mutant: a refused save makes the page clean as well.
SaveAnswerClean(ok) ==
    /\ saving # <<>> /\ saving' = <<>>
    /\ stored' = IF ok THEN saving[1] ELSE stored
    /\ dirty' = FALSE
    /\ UNCHANGED <<editedInFlight, layout, history, histIdx, histTimer, edits, viewVars>>

\* A refused save leaves the page dirty; an accepted one makes it clean, whatever
\* was changed meanwhile.
SaveAnswer(ok) ==
    /\ saving # <<>> /\ saving' = <<>>
    /\ stored' = IF ok THEN saving[1] ELSE stored
    /\ dirty' = (dirty /\ ~ok)
    /\ UNCHANGED <<editedInFlight, layout, history, histIdx, histTimer, edits, viewVars>>

\* What the designer does by itself, and with the whole of a layout.
DesignStep ==
    \/ HistTimer \/ RenderTimer \/ Undo \/ Redo \/ Save
    \/ \E ok \in BOOLEAN : SaveAnswer(ok)
    \/ \E i \in 1..Len(renders), ok \in BOOLEAN : RenderAnswer(i, ok)

DesignNext == DesignStep \/ \E l \in Layout : Commit(l) \/ PropChanged(l)

DesignSpec == (\E l \in Layout : DesignInit(l)) /\ [][DesignNext]_designVars

-----------------------------------------------------------------------------
DesignTypeOK ==
    /\ layout \in Layout /\ canvas \in Layout /\ stored \in Layout
    /\ history \in Seq(Layout) /\ renders \in Seq(Layout)
    /\ histIdx \in Nat /\ edits \in 0..MaxEdits
    /\ saving \in {<<>>} \cup {<<l>> : l \in Layout}
    /\ {dirty, histTimer, renderTimer, overtaken, editedInFlight} \subseteq BOOLEAN

\* The index stays on the history and the history within its limit of 80 snapshots
\* (Designer.tsx:122-131), and unless a property change waits for its timer the
\* snapshot at the index is the layout: undo steps back from what is seen.
HistoryHoldsLayout ==
    /\ Len(history) \in 1..MaxHistory
    /\ histIdx \in 1..Len(history)
    /\ histTimer \/ layout = history[histIdx]

\* "You have unsaved changes. Leave the designer and discard them?" (Designer.tsx:383)
\* is asked whenever the server lacks what is seen, unless it was changed while a
\* save was in flight.
UnsavedIsDirty == dirty \/ editedInFlight \/ layout = stored

\* What the undo history, and the question before leaving, know of the layout.
HistoryKeepsUp == HistoryHoldsLayout /\ UnsavedIsDirty

\* When every answer has arrived, the last one last and none a failure, and no timer
\* runs, the canvas shows the layout.
CanvasShowsLayout ==
    renders = <<>> /\ ~renderTimer /\ ~overtaken => canvas = layout
=============================================================================
