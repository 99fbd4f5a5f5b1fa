---------------------------- MODULE TextControls -----------------------------
(***************************************************************************)
(* One text control: its default, the value assigned to it, the renderer's *)
(* editor, the composition of an input method and the undo history.        *)
(*                                                                         *)
(* The editor exists from the first layout of the control on; before that  *)
(* an assigned value is pending.  Every edit asks the page first, and a    *)
(* listener may do anything a script does before the edit is applied.      *)
(* Texts are short sequences of letters, the caret is at the end and the   *)
(* marked range of a composition is the last letters of the text; key      *)
(* names, motions, selections and the size in code units of a history are  *)
(* left out.  What the listeners of a cancelled composition do is what a   *)
(* script does after it.                                                   *)
(*                                                                         *)
(* External: the renderer writes the `value` attribute straight to its     *)
(* editor, which drops the marked range; an input method takes the keys    *)
(* while it composes, except the shortcuts.                                *)
(***************************************************************************)
EXTENDS Naturals, Sequences, SequencesExt

CONSTANTS Letters,        \* what is typed and composed
          Pasted,         \* what a script or an attribute sets
          MaxText,        \* bound: length of a text
          HistoryLimit,   \* MAX_HISTORY_TRANSACTIONS
          Unset           \* no text

ASSUME TextAssumption == /\ Unset \notin Seq(Letters \cup Pasted)
                         /\ MaxText \in Nat \ {0} /\ HistoryLimit \in Nat \ {0}

VARIABLES
    defaultText,         \* the `value` attribute
    editor, marked,      \* the editor's text and how much of it is a preedit
    held, pendingText,   \* FormState.value and FormState.pending
    focused,             \* the control is the active element
    composing, baseline, \* compositionTarget and compositionBefore
    undo, redo,          \* the history of the control
    edit,                \* the default action that waits for its listeners
    rewritten            \* history: an attribute was written during a composition

valueVars == <<defaultText, editor, marked, held, pendingText>>
historyVars == <<undo, redo>>
textVars == <<valueVars, focused, composing, baseline, historyVars, edit, rewritten>>

Texts == UNION {[1..n -> Letters \cup Pasted] : n \in 0..MaxText}
Written == {<<>>} \cup {<<x>> : x \in Pasted}
NoEdit == [at |-> "idle"]

TextInit ==
    /\ defaultText = <<>> /\ editor = Unset /\ marked = 0 /\ held = Unset /\ pendingText = FALSE
    /\ focused = FALSE /\ composing = FALSE /\ baseline = Unset
    /\ undo = <<>> /\ redo = <<>> /\ edit = NoEdit /\ rewritten = FALSE

(***************************************************************************)
(* The backend's forms                                                     *)
(***************************************************************************)
HasEditor == editor # Unset
Unmarked == SubSeq(editor, 1, Len(editor) - marked)

\* form_value
Value == IF HasEditor THEN editor ELSE IF held # Unset THEN held ELSE defaultText

\* set_form_value: the value is pending while there is no editor.
Assign(v) ==
    /\ held' = v /\ pendingText' = ~HasEditor /\ marked' = 0
    /\ editor' = IF HasEditor THEN v ELSE Unset
    /\ UNCHANGED defaultText

\* edit_editor_value, finish_composition_edit: what was edited is the value.
Edited(text, mark) ==
    /\ editor' = text /\ marked' = mark /\ held' = text /\ pendingText' = FALSE
    /\ UNCHANGED defaultText
NothingEdited == UNCHANGED valueVars

\* restore_form_state: the attribute reached the editor and is undone there.
RestoreNothing(v) == editor' = IF HasEditor THEN v ELSE Unset
Restore(v) == editor' = IF ~HasEditor THEN Unset ELSE IF held # Unset THEN held ELSE v

WriteAttribute(v) ==
    /\ defaultText' = v /\ marked' = 0 /\ Restore(v)
    /\ rewritten' = (rewritten \/ composing)
    /\ UNCHANGED <<held, pendingText, focused, composing, baseline, historyVars, edit>>

\* The layout builds the editor of a control it shows, and settles what is pending.
FlushControl ==
    /\ ~HasEditor /\ editor' = IF pendingText THEN held ELSE defaultText
    /\ pendingText' = FALSE
    /\ UNCHANGED <<defaultText, marked, held, focused, composing, baseline, historyVars, edit, rewritten>>

(***************************************************************************)
(* The history                                                             *)
(***************************************************************************)
\* resetTextHistory: an edit that waits finds another history.
ResetHistory ==
    /\ undo' = <<>> /\ redo' = <<>>
    /\ edit' = IF edit = NoEdit THEN NoEdit ELSE [edit EXCEPT !.stale = TRUE]

RecordAppends(before, after) ==
    IF before = Unset \/ before = after THEN UNCHANGED historyVars
    ELSE undo' = Append(undo, [before |-> before, after |-> after]) /\ UNCHANGED redo

\* recordTextTransaction
Record(before, after) ==
    IF before = Unset \/ before = after THEN UNCHANGED historyVars
    ELSE /\ redo' = <<>>
         /\ undo' = Append(IF Len(undo) >= HistoryLimit THEN Tail(undo) ELSE undo,
                           [before |-> before, after |-> after])

(***************************************************************************)
(* Scripts                                                                 *)
(***************************************************************************)
\* setControlValue: echoing the visible text of a composition changes nothing.
SetValue(v) ==
    /\ ~(composing /\ v = Value) /\ Assign(v)
    /\ IF v = Value THEN UNCHANGED <<historyVars, baseline, edit>>
       ELSE ResetHistory /\ baseline' = IF composing THEN v ELSE baseline
    /\ UNCHANGED <<focused, composing, rewritten>>

Focus == ~focused /\ focused' = TRUE
         /\ UNCHANGED <<valueVars, composing, baseline, historyVars, edit, rewritten>>

\* clear_editor_composition
ClearMark == IF HasEditor /\ marked > 0 THEN Edited(Unmarked, 0) ELSE NothingEdited

CancelComposition == composing' = FALSE /\ baseline' = Unset /\ ClearMark

\* setFocus: a composition is cancelled before the focus moves.
Blur ==
    /\ focused /\ focused' = FALSE
    /\ IF composing THEN CancelComposition ELSE UNCHANGED <<valueVars, composing, baseline>>
    /\ UNCHANGED <<historyVars, edit, rewritten>>

(***************************************************************************)
(* Default actions: "before" waits for beforeinput, "after" for input      *)
(***************************************************************************)
Waiting(op, data) == [at |-> "before", op |-> op, data |-> data, stale |-> FALSE]

\* A printable key, or one that deletes.
KeyBegins(op) ==
    /\ edit = NoEdit /\ focused /\ ~composing
    /\ \E x \in Letters : edit' = Waiting(op, <<x>>)
    /\ UNCHANGED <<valueVars, focused, composing, baseline, historyVars, rewritten>>

KeyText(text) == IF edit.op = "insert" THEN text \o edit.data
                 ELSE IF text = <<>> THEN <<>> ELSE Front(text)

\* applyTextEdit
KeyApplies ==
    /\ edit.at = "before" /\ edit.op \in {"insert", "delete"} /\ edit' = NoEdit
    /\ IF HasEditor /\ Len(KeyText(editor)) <= MaxText
       THEN Edited(KeyText(editor), 0) /\ Record(editor, KeyText(editor))
       ELSE NothingEdited /\ UNCHANGED historyVars
    /\ UNCHANGED <<focused, composing, baseline, rewritten>>

\* A preedit, its end or its commit; the first of them starts a composition.
ImeBegins(op, data) ==
    /\ edit = NoEdit /\ IF composing THEN TRUE ELSE focused /\ op # "clear"
    /\ composing' = TRUE /\ baseline' = IF composing THEN baseline ELSE Value
    /\ edit' = Waiting(op, data)
    /\ UNCHANGED <<valueVars, focused, historyVars, rewritten>>

Composed == Unmarked \o edit.data
After == [edit EXCEPT !.at = "after"]

\* compositionInput "set": nothing if a listener ended the composition.
PreeditApplies ==
    /\ edit.at = "before" /\ edit.op = "set" /\ edit' = NoEdit
    /\ IF composing /\ HasEditor /\ Len(Composed) <= MaxText
       THEN Edited(Composed, Len(edit.data)) ELSE NothingEdited
    /\ UNCHANGED <<focused, composing, baseline, historyVars, rewritten>>

\* compositionInput "clear", after an empty preedit: no listener can refuse it.
ClearApplies ==
    /\ edit.at = "before" /\ edit.op = "clear" /\ edit' = After /\ ClearMark
    /\ UNCHANGED <<focused, composing, baseline, historyVars, rewritten>>

CommitApplies ==
    /\ edit.at = "before" /\ edit.op = "commit"
    /\ IF ~composing THEN edit' = NoEdit /\ NothingEdited /\ UNCHANGED historyVars
       ELSE /\ edit' = After
            /\ IF HasEditor /\ Len(Composed) <= MaxText
               THEN Edited(Composed, 0) /\ Record(baseline, Composed)
               ELSE NothingEdited /\ Record(baseline, Value)
    /\ UNCHANGED <<focused, composing, baseline, rewritten>>

\* The composition ends unless a listener of `input` has ended it.
CompositionEnds ==
    /\ edit.at = "after" /\ edit' = NoEdit
    /\ composing' = FALSE /\ baseline' = Unset
    /\ UNCHANGED <<valueVars, focused, historyVars, rewritten>>

\* preventDefault: a refused commit still ends the composition.
Prevented ==
    /\ edit.at = "before" /\ edit.op # "clear" /\ edit' = NoEdit
    /\ IF edit.op = "commit" /\ composing THEN CancelComposition
       ELSE UNCHANGED <<valueVars, composing, baseline>>
    /\ UNCHANGED <<focused, historyVars, rewritten>>

\* The input method is turned off.
ImeDisabled ==
    /\ edit = NoEdit /\ composing /\ CancelComposition
    /\ UNCHANGED <<focused, historyVars, edit, rewritten>>

\* applyHistoryEdit
Source(op) == IF op = "undo" THEN undo ELSE redo
HistoryBegins(op) ==
    /\ edit = NoEdit /\ focused
    /\ IF composing THEN CancelComposition /\ UNCHANGED edit
       ELSE /\ Source(op) # <<>> /\ edit' = Waiting(op, Last(Source(op)))
            /\ UNCHANGED <<valueVars, composing, baseline>>
    /\ UNCHANGED <<focused, historyVars, rewritten>>

StillIts == focused /\ ~edit.stale /\ Source(edit.op) # <<>> /\ Last(Source(edit.op)) = edit.data

HistoryApplies ==
    /\ edit.at = "before" /\ edit.op \in {"undo", "redo"} /\ edit' = NoEdit
    /\ IF ~StillIts THEN UNCHANGED <<valueVars, historyVars>>
       ELSE IF edit.op = "undo"
       THEN /\ undo' = Front(undo) /\ redo' = Append(redo, edit.data) /\ Assign(edit.data.before)
       ELSE /\ redo' = Front(redo) /\ undo' = Append(undo, edit.data) /\ Assign(edit.data.after)
    /\ UNCHANGED <<focused, composing, baseline, rewritten>>

TextNext ==
    \/ \E v \in Written : WriteAttribute(v) \/ SetValue(v)
    \/ FlushControl \/ Focus \/ Blur
    \/ \E op \in {"insert", "delete"} : KeyBegins(op)
    \/ \E x \in Letters : ImeBegins("set", <<x>>) \/ ImeBegins("commit", <<x>>)
    \/ ImeBegins("commit", <<>>) \/ ImeBegins("clear", <<>>)
    \/ (edit # NoEdit /\ (KeyApplies \/ PreeditApplies \/ ClearApplies \/ CommitApplies
                        \/ CompositionEnds \/ Prevented \/ HistoryApplies))
    \/ ImeDisabled
    \/ \E op \in {"undo", "redo"} : HistoryBegins(op)

TextSpec == TextInit /\ [][TextNext]_textVars

(***************************************************************************)
(* What was assigned or typed is what the editor shows: no attribute       *)
(* write, layout, composition or undo puts another text there              *)
(* (forms.rs:41 and :51, the dirty value flag).                            *)
(***************************************************************************)
DirtyIsShown == (HasEditor /\ held # Unset) => (editor = held /\ ~pendingText)

(***************************************************************************)
(* Undo goes back the way editing came: the newest transaction ends at the *)
(* text the control has, every earlier one where the next begins, and redo *)
(* likewise, whatever the listeners, the compositions and the assignments  *)
(* in between were; but an attribute written during a composition breaks   *)
(* it, which is PreeditKeepsItsMark's business.                            *)
(***************************************************************************)
Chained(list, from, to) ==
    \A i \in 1..Len(list) - 1 : list[i][to] = list[i + 1][from]
HistoryIsAChain ==
    (~rewritten /\ edit = NoEdit /\ ~composing) =>
        /\ Chained(undo, "before", "after") /\ Chained(redo, "after", "before")
        /\ undo # <<>> => Last(undo).after = Value
        /\ redo # <<>> => Last(redo).before = Value

\* Both: what is shown, held and remembered of an edit agree.
EditsAgree == DirtyIsShown /\ HistoryIsAChain

(***************************************************************************)
(* A visible preedit never becomes committed text while its composition    *)
(* goes on: it keeps its mark, or leaves the text (forms.js:24, "while     *)
(* composing it must not accidentally turn the same visible preedit into   *)
(* committed text").                                                       *)
(***************************************************************************)
PreeditKeepsItsMark ==
    [][(composing /\ composing' /\ marked > 0 /\ marked' = 0 /\ edit' = edit)
         => editor' # editor]_textVars
=============================================================================
