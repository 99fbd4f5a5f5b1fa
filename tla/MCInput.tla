--------------------------- MODULE MCInput ---------------------------
(* Model checking of what a document hears and shows: contacts, who has    *)
(* the pointer, what is dragged in, its nodes and text, and the devices it *)
(* may use.  The components share no state, so a behaviour exercises one   *)
(* of them, chosen by its first state.                                     *)
EXTENDS PointerInput, WindowModes, DragDrop, NodeTree, TextControls,
        DeviceAccess

VARIABLE under   \* the component this behaviour exercises

vars == <<under, pointerVars, modesVars, dragVars, domVars, textVars,
          accessVars>>

Init ==
    /\ under \in {"pointer", "modes", "drag", "dom", "text", "access"}
    /\ PointerInit /\ ModesInit /\ DragInit /\ NodeInit /\ TextInit
    /\ AccessInit

\* A step of one part leaves the others as they were.
Only(part) ==
    /\ under = part /\ UNCHANGED under
    /\ IF part = "pointer" THEN TRUE ELSE UNCHANGED pointerVars
    /\ IF part = "modes" THEN TRUE ELSE UNCHANGED modesVars
    /\ IF part = "drag" THEN TRUE ELSE UNCHANGED dragVars
    /\ IF part = "dom" THEN TRUE ELSE UNCHANGED domVars
    /\ IF part = "text" THEN TRUE ELSE UNCHANGED textVars
    /\ IF part = "access" THEN TRUE ELSE UNCHANGED accessVars

Next ==
    \/ Only("pointer") /\ PointerNext
    \/ Only("modes") /\ ModesNext
    \/ Only("drag") /\ DragNext
    \/ Only("dom") /\ NodeNext
    \/ Only("text") /\ TextNext
    \/ Only("access") /\ AccessNext

Spec == Init /\ [][Next]_vars /\ ModesFairness
=============================================================================
