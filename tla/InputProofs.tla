----------------------------- MODULE InputProofs ----------------------------
(***************************************************************************)
(* What holds of permissions for devices, of the text of controls, of the  *)
(* modes of the window, of drags, of the listeners an event is heard by,   *)
(* of the wrappers of document nodes and of pointers, for every set of     *)
(* devices, letters, elements, zones and fingers, and for every bound.     *)
(***************************************************************************)
EXTENDS DeviceAccess, TextControls, WindowModes, DragDrop, EventDispatch,
        NodeTree, PointerInput, FiniteSetTheorems, SequenceTheorems,
        FoldTheorems, TLAPS

-----------------------------------------------------------------------------
(* DeviceAccess: a question stands until it is answered                    *)

\* Types, of what the proof needs.
AccessTyped ==
  /\ pluggedIn \subseteq UsbDevices /\ permitted \subseteq UsbDevices /\ older \subseteq UsbDevices
  /\ dialog \in [UsbDevices -> {"none", "asked", "up"}]
  /\ prompts \in [UsbDevices -> {"none", "raised", "lost", "late"}]
  /\ access \in [Interfaces -> {"closed", "scanned", "waiting", "open"}]
  /\ seenUsb \subseteq Interfaces /\ polling \subseteq Interfaces

\* A dialog is of a device that is there, and not of one already permitted.
DialogsAreLive ==
  \A u \in UsbDevices : dialog[u] # "none" => u \in pluggedIn /\ u \notin permitted

\* Until a dialog that was asked for is shown, the prompt waits with its grace, or has
\* lost the focus to another dialog that is still up.
AskedIsWaited ==
  \A u \in UsbDevices :
    dialog[u] = "asked" /\ u \notin older =>
      prompts[u] = "raised" \/ (prompts[u] = "lost" /\ ~Focused)

\* The inductive invariant of DeviceAccess.
AccessInv == AccessTyped /\ DialogsAreLive /\ AskedIsWaited /\ QuestionStands

\* Before anything is opened, the invariant holds.
LEMMA AccessInitially == AccessInit => AccessInv
  BY DEF AccessInit, AccessInv, AccessTyped, DialogsAreLive, AskedIsWaited, QuestionStands

\* What one answer to an open does to the prompts and the dialogs.
LEMMA DecideKeeps ==
  ASSUME AccessInv, NEW i \in Interfaces, Decide(i), polling' \subseteq Interfaces
  PROVE  AccessInv'
<1> DEFINE u == i[1]
<1>1. u \in UsbDevices
  BY DEF Interfaces
<1>2. UNCHANGED <<pluggedIn, permitted, older, seenUsb>>
  BY DEF Decide
<1>3. access' \in [Interfaces -> {"closed", "scanned", "waiting", "open"}]
  BY DEF Decide, Becomes, Claim, Awaiting, AccessInv, AccessTyped
<1>4. CASE UNCHANGED <<dialog, prompts>>
  BY <1>2, <1>3, <1>4
     DEF AccessInv, AccessTyped, DialogsAreLive, AskedIsWaited, QuestionStands, Focused
<1>5. CASE u \notin permitted /\ Awaiting(i)
  <2>1. CASE prompts[u] = "none" /\ Raise(u)
    <3> USE <1>1, <1>2, <1>3, <1>5, <2>1
    <3>1. AccessTyped'
      BY DEF AccessInv, AccessTyped, Raise, Prompt
    <3>2. CASE u \in pluggedIn /\ u \notin older
      BY <3>2, <3>1 DEF AccessInv, QuestionStands, Raise, Prompt, Focused, AccessTyped,
         DialogsAreLive, AskedIsWaited
    <3>3. CASE ~(u \in pluggedIn /\ u \notin older)
      BY <3>1, <3>3 DEF AccessInv, AccessTyped, DialogsAreLive, AskedIsWaited, QuestionStands,
         Raise, Prompt, Focused
    <3>4. QED BY <3>2, <3>3
  <2>2. CASE ~(prompts[u] = "none")
    BY <1>1, <1>2, <1>3, <1>5, <2>2
       DEF AccessInv, AccessTyped, DialogsAreLive, AskedIsWaited, QuestionStands, Awaiting,
           Prompt, Focused
  <2>3. QED BY <1>5, <2>1, <2>2 DEF Awaiting
<1>6. CASE u \in permitted /\ Prompt(u, "none") /\ UNCHANGED dialog
  BY <1>1, <1>2, <1>3, <1>6
     DEF AccessInv, AccessTyped, DialogsAreLive, AskedIsWaited, QuestionStands, Prompt, Focused
<1>7. QED BY <1>4, <1>5, <1>6 DEF Decide

\* Enumerating the devices raises no question and settles none.
LEMMA EnumerateKeeps ==
  ASSUME AccessInv, Enumerate, UNCHANGED <<systemVars, polling>>,
         access' \in [Interfaces -> {"closed", "scanned", "waiting", "open"}]
  PROVE  AccessInv'
  BY DEF AccessInv, AccessTyped, DialogsAreLive, AskedIsWaited, QuestionStands, Enumerate,
         systemVars, Focused, Interfaces

\* Every step keeps the invariant.
LEMMA AccessKept == AccessInv /\ [AccessNext]_accessVars => AccessInv'
<1> SUFFICES ASSUME AccessInv, [AccessNext]_accessVars PROVE AccessInv'
  OBVIOUS
<1> USE DEF AccessInv, AccessTyped, DialogsAreLive, AskedIsWaited, QuestionStands
<1>1. ASSUME NEW u \in UsbDevices, PersonAnswers(u) PROVE AccessInv'
  BY <1>1 DEF PersonAnswers, DialogsSettled
<1>2. ASSUME NEW u \in UsbDevices, Shown(u) PROVE AccessInv'
  BY <1>2 DEF Shown, Focused
<1>3. ASSUME NEW u \in UsbDevices, Unplug(u) PROVE AccessInv'
  BY <1>3 DEF Unplug, DialogsSettled, Focused
<1>4. ASSUME NEW u \in UsbDevices, Reattach(u) PROVE AccessInv'
  BY <1>4 DEF Reattach, Focused
<1>5. ASSUME NEW u \in UsbDevices, GraceEnds(u) PROVE AccessInv'
  BY <1>5 DEF GraceEnds, DialogsSettled, Prompt, systemVars, Focused
<1>6. ASSUME NEW i \in Interfaces, OpenInterface(i) PROVE AccessInv'
  BY <1>6, EnumerateKeeps DEF OpenInterface, Becomes
<1>7. ASSUME NEW i \in Interfaces, FirstAnswer(i) \/ AskAgain(i) PROVE AccessInv'
  BY <1>7, DecideKeeps DEF FirstAnswer, AskAgain
<1>8. ASSUME NEW i \in Interfaces, ReleaseInterface(i) PROVE AccessInv'
  BY <1>8 DEF ReleaseInterface, Becomes, systemVars, Focused
<1>9. CASE Scan
  BY <1>9, EnumerateKeeps DEF Scan
<1>10. CASE PollPending
  BY <1>10 DEF PollPending, systemVars, Focused
<1>11. CASE RebuildAccess
  BY <1>11 DEF RebuildAccess
<1>12. CASE UNCHANGED accessVars
  BY <1>12 DEF accessVars, systemVars, Focused
<1>13. QED BY <1>1, <1>2, <1>3, <1>4, <1>5, <1>6, <1>7, <1>8, <1>9, <1>10, <1>11, <1>12
           DEF AccessNext

\* For every set of devices and interfaces: the invariant holds throughout.
THEOREM AccessInvHolds == AccessSpec => []AccessInv
  BY AccessInitially, AccessKept, PTL DEF AccessSpec

\* QuestionStands: a dialog that is asked for or up is remembered by its prompt until the
\* person has answered, so that no second dialog is put over it.
THEOREM QuestionHolds == AccessSpec => []QuestionStands
  BY AccessInvHolds, PTL DEF AccessInv

-----------------------------------------------------------------------------
(* TextControls: value and history agree                                   *)

\* What is typed, in one piece or none, and the texts a control can hold.
Chars == Letters \cup Pasted
Text == {s \in Seq(Chars) : Len(s) <= MaxText}

\* A step of the history.
Transaction == [before : Text, after : Text]

\* What one default action inserts.
Short == {<<>>} \cup {<<x>> : x \in Letters}

\* A default action that waits for its event.
EditRecord == [at : {"before", "after"},
               op : {"insert", "delete", "set", "clear", "commit", "undo", "redo"},
               data : Short \cup Transaction, stale : BOOLEAN]

\* Types of the value, of the history and of the flags.
ValueTyped ==
  /\ defaultText \in Text /\ editor \in Text \cup {Unset} /\ held \in Text \cup {Unset}
  /\ marked \in Nat /\ (HasEditor => marked <= Len(editor))

\* The histories are lists of transactions, and a composition has a baseline.
HistoryTyped ==
  baseline \in Text \cup {Unset} /\ undo \in Seq(Transaction) /\ redo \in Seq(Transaction)

\* The flags are flags.
FlagsTyped == /\ pendingText \in BOOLEAN /\ focused \in BOOLEAN
              /\ composing \in BOOLEAN /\ rewritten \in BOOLEAN

\* The default action that waits, and what it has to say.
EditTyped ==
  \/ edit = NoEdit
  \/ /\ edit \in EditRecord
     /\ edit.op \in {"undo", "redo"} => edit.data \in Transaction
     /\ edit.op \notin {"undo", "redo"} => edit.data \in Short
     /\ edit.op \in {"insert", "delete", "undo", "redo"} => ~composing
     /\ edit.at = "after" => edit.op \in {"commit", "clear"}

\* A text assigned before there is an editor is pending, and nothing else is.
PendingIsAssigned == pendingText <=> (~HasEditor /\ held # Unset)

\* A preedit is marked only while its composition goes on.
MarkIsComposed == marked > 0 => HasEditor /\ composing /\ edit.at # "after"

\* The history is a chain that ends at v.
HistoryOf(past, future, v) ==
  /\ Chained(past, "before", "after") /\ Chained(future, "after", "before")
  /\ past # <<>> => Last(past).after = v
  /\ future # <<>> => Last(future).before = v

\* What the control shows besides its preedit.
Settled == IF HasEditor THEN Unmarked ELSE Value

\* While nobody has rewritten the value, the history ends at what the control holds: at
\* the baseline while a preedit is composed, at the value otherwise.
HistoryFits ==
  ~rewritten =>
    /\ composing /\ edit.at # "after" => baseline = Settled /\ HistoryOf(undo, redo, baseline)
    /\ ~composing \/ edit.at = "after" => HistoryOf(undo, redo, Value)
    /\ undo # <<>> \/ redo # <<>> => held # Unset
    /\ composing /\ held = Unset => baseline = Value

\* What relates the value to the editor and its default.
ValuesFit == ValueTyped /\ PendingIsAssigned /\ DirtyIsShown

\* The inductive invariant of TextControls.
TextInv == ValuesFit /\ HistoryTyped /\ FlagsTyped /\ EditTyped /\ MarkIsComposed /\ HistoryFits

\* The texts are sequences, no text is mistaken for the absence of one.
LEMMA TextIsText ==
  /\ Unset \notin Text /\ <<>> \in Text
  /\ \A s \in Text : s \in Seq(Chars) /\ Len(s) \in Nat /\ Len(s) <= MaxText
  /\ \A v \in Written : v \in Text
  /\ \A v \in Short : v \in Text /\ Len(v) <= 1
<1>1. Unset \notin Seq(Chars) /\ MaxText \in Nat /\ 1 <= MaxText
  BY TextAssumption DEF TextAssumption, Chars
<1>2. \A x \in Chars : <<x>> \in Seq(Chars) /\ Len(<<x>>) = 1
  OBVIOUS
<1>3. <<>> \in Seq(Chars) /\ Len(<<>>) = 0
  OBVIOUS
<1>4. \A x : x \in Letters \/ x \in Pasted => x \in Chars
  BY DEF Chars
<1>5. /\ \A v \in Written : v \in Seq(Chars) /\ Len(v) <= 1 /\ Len(v) \in Nat
      /\ \A v \in Short : v \in Seq(Chars) /\ Len(v) <= 1 /\ Len(v) \in Nat
  <2>1. ASSUME NEW v, v = <<>> \/ \E x \in Letters \cup Pasted : v = <<x>>
        PROVE  v \in Seq(Chars) /\ Len(v) <= 1 /\ Len(v) \in Nat
    <3>1. CASE v = <<>>
      BY <1>3, <3>1
    <3>2. CASE v # <<>>
      <4>1. PICK x \in Chars : v = <<x>>
        BY <2>1, <3>2 DEF Chars
      <4>2. QED BY <1>2, <4>1
    <3>3. QED BY <3>1, <3>2
  <2>2. /\ \A v \in Written : v = <<>> \/ \E x \in Letters \cup Pasted : v = <<x>>
        /\ \A v \in Short : v = <<>> \/ \E x \in Letters \cup Pasted : v = <<x>>
    BY DEF Written, Short
  <2>3. QED BY <2>1, <2>2
<1>6. /\ \A v \in Written : v \in Text
      /\ \A v \in Short : v \in Text
  BY <1>1, <1>5 DEF Text
<1>7. QED BY <1>1, <1>3, <1>5, <1>6 DEF Text

\* The front of a text, and what it becomes when letters are added.
LEMMA Fronted ==
  ASSUME NEW s \in Text, NEW n \in Nat, n <= Len(s)
  PROVE  /\ SubSeq(s, 1, Len(s) - n) \in Text
         /\ Len(SubSeq(s, 1, Len(s) - n)) = Len(s) - n
         /\ n = 0 => SubSeq(s, 1, Len(s) - n) = s
<1>1. s \in Seq(Chars) /\ Len(s) \in Nat /\ Len(s) <= MaxText /\ MaxText \in Nat
  BY TextIsText, TextAssumption DEF TextAssumption
<1>2. /\ SubSeq(s, 1, Len(s) - n) \in Seq(Chars)
      /\ Len(SubSeq(s, 1, Len(s) - n)) = Len(s) - n
  BY <1>1
<1>3. SubSeq(s, 1, Len(s)) = s
  BY <1>1, SubSeqFull
<1>4. n = 0 => Len(s) - n = Len(s)
  BY <1>1
<1>5. Len(s) - n <= MaxText
  BY <1>1
<1>6. QED BY <1>2, <1>3, <1>4, <1>5 DEF Text

\* Two texts joined, and the first of them again.
LEMMA Joined ==
  ASSUME NEW s \in Text, NEW t \in Text, Len(s \o t) <= MaxText
  PROVE  /\ s \o t \in Text /\ Len(s \o t) = Len(s) + Len(t)
         /\ SubSeq(s \o t, 1, Len(s \o t) - Len(t)) = s
<1>1. s \in Seq(Chars) /\ t \in Seq(Chars) /\ Len(s) \in Nat /\ Len(t) \in Nat
  BY TextIsText
<1>2. s \o t \in Seq(Chars) /\ Len(s \o t) = Len(s) + Len(t)
  BY <1>1, ConcatProperties
<1>3. /\ SubSeq(s \o t, 1, Len(s)) \in Seq(Chars)
      /\ Len(SubSeq(s \o t, 1, Len(s))) = Len(s)
      /\ \A i \in 1..Len(s) : SubSeq(s \o t, 1, Len(s))[i] = s[i]
  BY <1>1, <1>2
<1>4. SubSeq(s \o t, 1, Len(s)) = s
  BY <1>1, <1>3, SeqEqual
<1>5. Len(s \o t) - Len(t) = Len(s)
  BY <1>1, <1>2
<1>6. QED BY <1>2, <1>4, <1>5 DEF Text

\* A new control satisfies the invariant.
LEMMA TextInitially == TextInit => TextInv
<1> SUFFICES ASSUME TextInit PROVE TextInv
  OBVIOUS
<1>1. <<>> \in Text /\ Unset \notin Text
  BY TextIsText
<1>2. ValueTyped /\ HistoryTyped
  BY <1>1 DEF TextInit, ValueTyped, HistoryTyped, HasEditor
<1>3. FlagsTyped /\ EditTyped /\ PendingIsAssigned /\ MarkIsComposed /\ DirtyIsShown
  <2>1. FlagsTyped /\ EditTyped /\ PendingIsAssigned /\ DirtyIsShown
    BY <1>1 DEF TextInit, FlagsTyped, EditTyped, PendingIsAssigned, DirtyIsShown, HasEditor
  <2>2. MarkIsComposed
    BY DEF TextInit, MarkIsComposed
  <2>3. QED BY <2>1, <2>2
<1>4. HistoryFits
  BY DEF TextInit, HistoryFits, HistoryOf, Chained, NoEdit
<1>5. QED BY <1>2, <1>3, <1>4 DEF TextInv, ValuesFit

(***************************************************************************)
(* The history                                                             *)
(***************************************************************************)
LEMMA EmptyFits == ASSUME NEW v PROVE HistoryOf(<<>>, <<>>, v)
  BY DEF HistoryOf, Chained

\* A chain goes on with an entry that begins where it ends.
LEMMA ChainGrows ==
  ASSUME NEW list \in Seq(Transaction), NEW e \in Transaction, NEW from, NEW to,
         Chained(list, from, to), list # <<>> => Last(list)[to] = e[from]
  PROVE  /\ Append(list, e) \in Seq(Transaction) /\ Append(list, e) # <<>>
         /\ Chained(Append(list, e), from, to) /\ Last(Append(list, e)) = e
<1>1. /\ Append(list, e) \in Seq(Transaction) /\ Len(Append(list, e)) = Len(list) + 1
      /\ Len(list) \in Nat
      /\ \A i \in 1..Len(list) : Append(list, e)[i] = list[i]
      /\ Append(list, e)[Len(list) + 1] = e
  OBVIOUS
<1>2. list # <<>> => list[Len(list)][to] = e[from] /\ Len(list) > 0
  BY DEF Last
<1>3. ASSUME NEW i \in 1..Len(list)
      PROVE  Append(list, e)[i][to] = Append(list, e)[i + 1][from]
  BY <1>1, <1>2 DEF Chained
<1>4. QED BY <1>1, <1>3 DEF Chained, Last

\* A chain without its first or its last entry.
LEMMA ChainShrinks ==
  ASSUME NEW list \in Seq(Transaction), list # <<>>, NEW from, NEW to, Chained(list, from, to)
  PROVE  /\ Tail(list) \in Seq(Transaction) /\ Chained(Tail(list), from, to)
         /\ Tail(list) # <<>> => Last(Tail(list)) = Last(list)
         /\ Front(list) \in Seq(Transaction) /\ Chained(Front(list), from, to)
         /\ Front(list) # <<>> => Last(Front(list))[to] = Last(list)[from]
         /\ Last(list) \in Transaction
<1>1. /\ Len(list) \in Nat /\ Len(list) > 0 /\ list[Len(list)] \in Transaction
      /\ Tail(list) \in Seq(Transaction) /\ Len(Tail(list)) = Len(list) - 1
      /\ \A i \in 1..Len(list) - 1 : Tail(list)[i] = list[i + 1]
  OBVIOUS
<1>2. /\ Front(list) \in Seq(Transaction) /\ Len(Front(list)) = Len(list) - 1
      /\ \A i \in 1..Len(list) - 1 : Front(list)[i] = list[i]
  BY <1>1 DEF Front
<1>3. \A i \in 1..Len(list) - 1 : list[i][to] = list[i + 1][from]
  BY DEF Chained
<1>4. Chained(Tail(list), from, to)
  BY <1>1, <1>3 DEF Chained
<1>5. Chained(Front(list), from, to)
  BY <1>1, <1>2, <1>3 DEF Chained
<1>6. Tail(list) # <<>> => Last(Tail(list)) = Last(list)
  BY <1>1 DEF Last
<1>7. Front(list) # <<>> => Last(Front(list))[to] = Last(list)[from]
  BY <1>1, <1>2, <1>3 DEF Last
<1>8. QED BY <1>1, <1>2, <1>4, <1>5, <1>6, <1>7 DEF Last

\* What record() makes of the histories.
LEMMA Recorded ==
  ASSUME undo \in Seq(Transaction), redo \in Seq(Transaction),
         NEW b \in Text \cup {Unset}, NEW a \in Text, Record(b, a)
  PROVE  /\ undo' \in Seq(Transaction) /\ redo' \in Seq(Transaction)
         /\ b \in Text /\ HistoryOf(undo, redo, b) => HistoryOf(undo', redo', a)
         /\ b = a => UNCHANGED historyVars
<1>1. CASE b = Unset \/ b = a
  BY <1>1, TextIsText DEF Record, historyVars
<1>2. CASE ~(b = Unset \/ b = a)
  <2> DEFINE e == [before |-> b, after |-> a]
             kept == IF Len(undo) >= HistoryLimit THEN Tail(undo) ELSE undo
  <2>1. redo' = <<>> /\ undo' = Append(kept, e)
    BY <1>2 DEF Record
  <2>2. e \in Transaction /\ e.before = b /\ e.after = a
    BY <1>2 DEF Transaction
  <2> HIDE DEF e
  <2>3. kept \in Seq(Transaction)
    BY TextAssumption DEF TextAssumption
  <2>4. undo' \in Seq(Transaction) /\ redo' \in Seq(Transaction)
    BY <2>1, <2>2, <2>3
  <2>5. ASSUME HistoryOf(undo, redo, b) PROVE HistoryOf(undo', redo', a)
    <3>1. Chained(kept, "before", "after") /\ (kept # <<>> => Last(kept).after = b)
      BY <2>5, TextAssumption, ChainShrinks DEF HistoryOf, TextAssumption
    <3> HIDE DEF kept
    <3>2. /\ Append(kept, e) # <<>> /\ Chained(Append(kept, e), "before", "after")
          /\ Last(Append(kept, e)) = e
      BY <2>2, <2>3, <3>1, ChainGrows
    <3>3. QED BY <2>1, <2>2, <3>2 DEF HistoryOf, Chained
  <2>6. QED BY <1>2, <2>4, <2>5
<1>3. QED BY <1>1, <1>2

\* A transaction goes from the end of one list to the end of the other.
LEMMA GoesBack ==
  ASSUME NEW past \in Seq(Transaction), NEW future \in Seq(Transaction), past # <<>>
  PROVE  /\ Front(past) \in Seq(Transaction)
         /\ Append(future, Last(past)) \in Seq(Transaction) /\ Last(past) \in Transaction
         /\ \A from, to, v :
              /\ Chained(past, from, to) /\ Chained(future, to, from)
              /\ Last(past)[to] = v /\ (future # <<>> => Last(future)[from] = v)
              => /\ Chained(Front(past), from, to) /\ Chained(Append(future, Last(past)), to, from)
                 /\ Front(past) # <<>> => Last(Front(past))[to] = Last(past)[from]
                 /\ Last(Append(future, Last(past))) = Last(past)
<1>1. Last(past) \in Transaction /\ Front(past) \in Seq(Transaction)
  BY DEF Last, Front
<1>2. ASSUME NEW from, NEW to, NEW v, Chained(past, from, to), Chained(future, to, from),
             Last(past)[to] = v, future # <<>> => Last(future)[from] = v
      PROVE  /\ Chained(Front(past), from, to) /\ Chained(Append(future, Last(past)), to, from)
             /\ Front(past) # <<>> => Last(Front(past))[to] = Last(past)[from]
             /\ Last(Append(future, Last(past))) = Last(past)
  BY <1>2, ChainShrinks, <1>1, ChainGrows
<1>3. Append(future, Last(past)) \in Seq(Transaction)
  BY <1>1
<1>4. QED BY <1>1, <1>2, <1>3

(***************************************************************************)
(* The value                                                               *)
(***************************************************************************)
LEMMA Values ==
  ASSUME ValueTyped
  PROVE  /\ Value \in Text /\ Settled \in Text
         /\ HasEditor => Value = editor /\ editor \in Text /\ Settled = Unmarked
         /\ marked = 0 => Settled = Value
<1>1. Value \in Text /\ (HasEditor => Value = editor /\ editor \in Text /\ Settled = Unmarked)
  BY DEF ValueTyped, Value, HasEditor, Settled
<1>2. ASSUME HasEditor PROVE Unmarked \in Text /\ (marked = 0 => Unmarked = editor)
  BY <1>1, <1>2, Fronted DEF ValueTyped, Unmarked
<1>3. QED BY <1>1, <1>2 DEF Settled

\* Without a preedit, the settled text is the value.
LEMMA ValuesThen == ASSUME ValueTyped', marked' = 0 PROVE Settled' = Value'
<1>1. HasEditor' => Value' = editor' /\ editor' \in Text /\ Settled' = Unmarked'
  BY DEF ValueTyped, Value, HasEditor, Settled
<1>2. ASSUME HasEditor' PROVE Unmarked' = editor'
  BY <1>1, <1>2, Fronted, TextIsText DEF Unmarked
<1>3. QED BY <1>1, <1>2 DEF Settled

\* What an edit in the editor makes of the value.
LEMMA EditedIs ==
  ASSUME ValueTyped, NEW text \in Text, NEW mark \in Nat, mark <= Len(text), Edited(text, mark)
  PROVE  /\ ValuesFit' /\ HasEditor' /\ Value' = text /\ held' # Unset /\ marked' = mark
         /\ Settled' = SubSeq(text, 1, Len(text) - mark)
<1>1. /\ editor' = text /\ marked' = mark /\ held' = text /\ pendingText' = FALSE
      /\ UNCHANGED defaultText /\ text # Unset
  BY TextIsText DEF Edited
<1>2. HasEditor' /\ Value' = text /\ held' # Unset
  BY <1>1 DEF HasEditor, Value
<1>3. PendingIsAssigned' /\ DirtyIsShown'
  BY <1>1, <1>2 DEF PendingIsAssigned, DirtyIsShown
<1>4. ValueTyped'
  BY <1>1 DEF ValueTyped
<1>5. Settled' = SubSeq(text, 1, Len(text) - mark)
  BY <1>1, <1>2 DEF Settled, Unmarked
<1>6. QED BY <1>1, <1>2, <1>3, <1>4, <1>5 DEF ValuesFit

\* What an assignment from script makes of the value.
LEMMA AssignIs ==
  ASSUME ValueTyped, NEW v \in Text, Assign(v)
  PROVE  ValuesFit' /\ Value' = v /\ Settled' = v /\ held' # Unset /\ marked' = 0
<1>1. /\ held' = v /\ marked' = 0 /\ UNCHANGED defaultText /\ v # Unset
      /\ editor' = (IF HasEditor THEN v ELSE Unset)
  BY TextIsText DEF Assign
<1>2. (HasEditor' <=> HasEditor) /\ Value' = v
  BY <1>1 DEF HasEditor, Value
<1>3. PendingIsAssigned' /\ DirtyIsShown'
  BY <1>1, <1>2 DEF Assign, PendingIsAssigned, DirtyIsShown, HasEditor
<1>4. ValueTyped'
  BY TextIsText, <1>1 DEF ValueTyped, HasEditor
<1>5. Settled' = Value'
  BY <1>4, <1>1, ValuesThen
<1>6. QED BY <1>1, <1>2, <1>3, <1>4, <1>5 DEF ValuesFit

\* The preedit leaves the text, and with it its mark.
LEMMA ClearIs ==
  ASSUME ValuesFit, MarkIsComposed, ClearMark
  PROVE  /\ ValuesFit' /\ Value' = Settled /\ Settled' = Settled /\ marked' = 0
         /\ held # Unset => held' # Unset
         /\ held' = Unset => Value' = Value
<1>1. CASE HasEditor /\ marked > 0
  <2>1. Edited(Unmarked, 0)
    BY <1>1 DEF ClearMark
  <2>2. Unmarked \in Text /\ Settled = Unmarked
    BY <1>1, Values DEF ValuesFit
  <2>3. Len(Unmarked) \in Nat /\ SubSeq(Unmarked, 1, Len(Unmarked) - 0) = Unmarked
    BY <2>2, TextIsText, Fronted
  <2>4. ValuesFit' /\ Value' = Unmarked /\ held' # Unset /\ marked' = 0
        /\ Settled' = SubSeq(Unmarked, 1, Len(Unmarked) - 0)
    BY <2>1, <2>2, <2>3, EditedIs DEF ValuesFit
  <2>5. QED BY <2>2, <2>3, <2>4
<1>2. CASE ~(HasEditor /\ marked > 0)
  <2>1. UNCHANGED valueVars
    BY <1>2 DEF ClearMark, NothingEdited
  <2>2. marked = 0
    BY <1>2 DEF ValuesFit, ValueTyped, MarkIsComposed
  <2>3. Settled = Value
    BY <2>2, Values DEF ValuesFit
  <2>4. QED BY <2>1, <2>2, <2>3 DEF ValuesFit, ValueTyped, PendingIsAssigned, DirtyIsShown,
               HasEditor, Value, Settled, Unmarked, valueVars
<1>3. QED BY <1>1, <1>2

\* What is not edited stays.
LEMMA ValuesStay ==
  ASSUME ValuesFit, UNCHANGED valueVars
  PROVE  ValuesFit' /\ Value' = Value /\ Settled' = Settled /\ (HasEditor' <=> HasEditor)
  BY DEF ValuesFit, ValueTyped, PendingIsAssigned, DirtyIsShown, HasEditor, Value, Settled,
     Unmarked, valueVars

(***************************************************************************)
(* The steps                                                               *)
(***************************************************************************)
LEMMA AtIdle == edit = NoEdit => edit.at = "idle" /\ edit.at # "after" /\ edit.at # "before"
  BY DEF NoEdit

\* A default action whose event has been dispatched.
LEMMA AfterIs ==
  ASSUME edit \in EditRecord
  PROVE  After \in EditRecord /\ After.at = "after" /\ After.op = edit.op /\ After.data = edit.data
<1>1. After \in EditRecord
  BY DEF After, EditRecord
<1>2. After.at = "after" /\ After.op = edit.op /\ After.data = edit.data
  BY DEF After, EditRecord
<1>3. QED BY <1>1, <1>2

\* An assignment from script empties the history and makes the edit stale.
LEMMA StaleIs ==
  ASSUME EditTyped, ResetHistory
  PROVE  /\ undo' = <<>> /\ redo' = <<>>
         /\ edit'.at = "after" <=> edit.at = "after"
         /\ composing' \in BOOLEAN /\ (composing' => composing) => EditTyped'
<1>1. undo' = <<>> /\ redo' = <<>>
  BY DEF ResetHistory
<1>2. CASE edit = NoEdit
  BY <1>1, <1>2 DEF ResetHistory, EditTyped
<1>3. CASE edit # NoEdit
  BY <1>3, <1>1 DEF EditTyped, ResetHistory, EditRecord
<1>4. QED BY <1>2, <1>3

\* A default action that has just been asked for.
LEMMA WaitingIs ==
  ASSUME NEW op \in {"insert", "delete", "set", "clear", "commit", "undo", "redo"},
         NEW data \in Short \cup Transaction, edit' = Waiting(op, data)
  PROVE  edit' \in EditRecord /\ edit'.at = "before" /\ edit'.op = op /\ edit'.data = data
  BY DEF Waiting, EditRecord

\* A composition that is cancelled gives back the text it began with, unless it is over
\* already.
LEMMA CancelIs ==
  ASSUME TextInv, composing, CancelComposition, UNCHANGED <<historyVars, rewritten>>,
         edit' = edit \/ edit' = NoEdit, focused' \in BOOLEAN
  PROVE  TextInv'
<1>1. /\ composing' = FALSE /\ baseline' = Unset /\ ClearMark
      /\ UNCHANGED <<undo, redo, rewritten>>
  BY DEF CancelComposition, historyVars
<1>2. /\ ValuesFit' /\ Value' = Settled /\ marked' = 0
      /\ held # Unset => held' # Unset
  BY <1>1, ClearIs DEF TextInv
<1>3. HistoryTyped' /\ MarkIsComposed'
  BY <1>1, <1>2 DEF TextInv, HistoryTyped, MarkIsComposed
<1>4. pendingText' \in BOOLEAN
  BY <1>1 DEF ClearMark, Edited, NothingEdited, valueVars, TextInv, FlagsTyped
<1>5. HistoryFits'
  BY Values, <1>1, <1>2 DEF TextInv, MarkIsComposed, ValuesFit, ValueTyped, HistoryFits,
     HistoryOf
<1>6. EditTyped'
  BY <1>1 DEF TextInv, EditTyped
<1>7. FlagsTyped'
  BY <1>1, <1>4 DEF TextInv, FlagsTyped
<1>8. QED BY <1>2, <1>3, <1>5, <1>6, <1>7 DEF TextInv

\* Every step keeps the invariant.
LEMMA TextKept == TextInv /\ [TextNext]_textVars => TextInv'
<1> SUFFICES ASSUME TextInv, [TextNext]_textVars PROVE TextInv'
  OBVIOUS
<1>0. /\ ValuesFit /\ ValueTyped /\ HistoryTyped /\ FlagsTyped /\ EditTyped /\ MarkIsComposed
      /\ HistoryFits
      /\ Value \in Text /\ Settled \in Text /\ (marked = 0 => Settled = Value)
      /\ HasEditor => Value = editor /\ editor \in Text /\ Settled = Unmarked
  BY Values DEF TextInv, ValuesFit
\* An edit that ends, or a step without one, that cancels no composition.
<1>1. ASSUME NEW v \in Written, WriteAttribute(v) PROVE TextInv'
  <2>1. /\ defaultText' = v /\ marked' = 0 /\ rewritten' = (rewritten \/ composing)
        /\ editor' = (IF ~HasEditor THEN Unset ELSE IF held # Unset THEN held ELSE v)
        /\ UNCHANGED <<held, pendingText, focused, composing, baseline, undo, redo, edit>>
    BY <1>1 DEF WriteAttribute, Restore, historyVars
  <2>2. v \in Text /\ v # Unset
    BY TextIsText
  <2>3. (HasEditor' <=> HasEditor) /\ (held # Unset => Value' = Value)
    BY <1>0, <2>1, <2>2 DEF HasEditor, Value, ValuesFit, DirtyIsShown
  <2>4. ValueTyped'
    BY <1>0, <2>1, <2>2, TextIsText DEF ValueTyped, HasEditor
  <2>5. PendingIsAssigned' /\ DirtyIsShown'
    BY <1>0, <2>1, <2>3 DEF ValuesFit, PendingIsAssigned, DirtyIsShown, HasEditor
  <2>6. HistoryTyped' /\ FlagsTyped' /\ EditTyped'
    BY <1>0, <2>1 DEF HistoryTyped, FlagsTyped, EditTyped
  <2>7. MarkIsComposed'
    BY <2>1 DEF MarkIsComposed
  <2>8. HistoryFits'
    BY <2>1, EmptyFits, <1>0, <2>3 DEF HistoryFits, HistoryOf
  <2>9. QED BY <2>4, <2>5, <2>6, <2>7, <2>8 DEF TextInv, ValuesFit
<1>2. ASSUME NEW v \in Written, SetValue(v) PROVE TextInv'
  <2>1. Assign(v) /\ UNCHANGED <<focused, composing, rewritten>> /\ v \in Text
    BY <1>2, TextIsText DEF SetValue
  <2>2. ValuesFit' /\ Value' = v /\ Settled' = v /\ held' # Unset /\ marked' = 0
    BY <1>0, <2>1, AssignIs
  <2>3. FlagsTyped' /\ MarkIsComposed'
    BY <2>1, <1>0, <2>2 DEF Assign, FlagsTyped, MarkIsComposed
  <2>4. CASE v = Value
    BY <1>2, <2>4, <1>0, <2>1, <2>2, <2>3 DEF SetValue, historyVars, HistoryFits, HistoryOf,
       HistoryTyped, EditTyped, TextInv
  <2>5. CASE v # Value
    BY <1>2, <2>5, <1>0, <2>1, StaleIs, <2>2, EmptyFits, <2>3 DEF SetValue, FlagsTyped,
       HistoryTyped, HistoryFits, TextInv
  <2>6. QED BY <2>4, <2>5
<1>3. CASE FlushControl
  <2>1. /\ ~HasEditor /\ editor' = (IF pendingText THEN held ELSE defaultText)
        /\ pendingText' = FALSE
        /\ UNCHANGED <<defaultText, marked, held, focused, composing, baseline, undo, redo, edit,
                       rewritten>>
    BY <1>3 DEF FlushControl, historyVars
  <2>2. editor' \in Text /\ HasEditor' /\ Value' = Value /\ editor' = Value
    BY <1>0, <2>1, TextIsText DEF ValueTyped, HasEditor, Value, ValuesFit, PendingIsAssigned
  <2>3. marked = 0 /\ Settled = Value
    BY <1>0, <2>1 DEF MarkIsComposed, ValueTyped
  <2>4. ValueTyped'
    BY <1>0, <2>1, <2>2, <2>3, TextIsText DEF ValueTyped
  <2>5. Settled' = Value'
    BY <2>1, <2>3, <2>4, ValuesThen
  <2>6. PendingIsAssigned' /\ DirtyIsShown'
    BY <1>0, <2>1, <2>2 DEF PendingIsAssigned, DirtyIsShown, HasEditor, Value
  <2>7. HistoryTyped' /\ FlagsTyped' /\ EditTyped'
    BY <1>0, <2>1 DEF HistoryTyped, FlagsTyped, EditTyped
  <2>8. MarkIsComposed'
    BY <2>1, <2>3 DEF MarkIsComposed
  <2>9. HistoryFits'
    BY <1>0, <2>1, <2>2, <2>3, <2>5 DEF HistoryFits, HistoryOf
  <2>10. QED BY <2>4, <2>6, <2>7, <2>8, <2>9 DEF TextInv, ValuesFit
\* A step that leaves the values and the history as they are.
<1>4. ASSUME UNCHANGED <<valueVars, historyVars, composing, baseline, rewritten>>,
             focused' \in BOOLEAN, EditTyped',
             edit'.at # "after", composing => edit.at # "after"
      PROVE  TextInv'
  BY <1>0, <1>4, ValuesStay DEF HistoryTyped, FlagsTyped, historyVars, valueVars, MarkIsComposed,
     HistoryFits, HistoryOf, TextInv
<1>5. CASE Focus
  <2>1. /\ UNCHANGED <<valueVars, composing, baseline, undo, redo, edit, rewritten>>
        /\ focused' \in BOOLEAN
    BY <1>5 DEF Focus, historyVars
  <2>2. ValuesFit' /\ Value' = Value /\ Settled' = Settled /\ (HasEditor' <=> HasEditor)
    BY <1>0, <2>1, ValuesStay
  <2>3. HistoryTyped' /\ FlagsTyped' /\ EditTyped'
    BY <1>0, <2>1 DEF HistoryTyped, FlagsTyped, EditTyped, valueVars
  <2>4. MarkIsComposed'
    BY <1>0, <2>1, <2>2 DEF MarkIsComposed, valueVars
  <2>5. HistoryFits'
    BY <1>0, <2>1, <2>2 DEF HistoryFits, HistoryOf, valueVars
  <2>6. QED BY <2>2, <2>3, <2>4, <2>5 DEF TextInv
<1>6. CASE Blur
  <2>1. CASE composing
    BY <1>6, <2>1, CancelIs DEF Blur
  <2>2. CASE ~composing
    <3>1. /\ UNCHANGED <<valueVars, composing, baseline, undo, redo, edit, rewritten>>
          /\ focused' \in BOOLEAN
      BY <1>6, <2>2 DEF Blur, historyVars
    <3>2. ValuesFit' /\ Value' = Value /\ Settled' = Settled /\ (HasEditor' <=> HasEditor)
      BY <1>0, <3>1, ValuesStay
    <3>3. HistoryTyped' /\ FlagsTyped' /\ EditTyped'
      BY <1>0, <3>1 DEF HistoryTyped, FlagsTyped, EditTyped, valueVars
    <3>4. MarkIsComposed'
      BY <1>0, <3>1, <3>2 DEF MarkIsComposed, valueVars
    <3>5. HistoryFits'
      BY <1>0, <3>1, <3>2 DEF HistoryFits, HistoryOf, valueVars
    <3>6. QED BY <3>2, <3>3, <3>4, <3>5 DEF TextInv
  <2>3. QED BY <2>1, <2>2
<1>7. ASSUME NEW op \in {"insert", "delete"}, KeyBegins(op) PROVE TextInv'
  <2>1. PICK x \in Letters : edit' = Waiting(op, <<x>>)
    BY <1>7 DEF KeyBegins
  <2>2. edit' \in EditRecord /\ edit'.at = "before" /\ edit'.op = op /\ edit'.data \in Short
    BY <2>1, WaitingIs DEF Short
  <2>3. /\ edit = NoEdit /\ ~composing /\ focused' \in BOOLEAN
        /\ UNCHANGED <<valueVars, historyVars, composing, baseline, rewritten>>
    BY <1>0, <1>7 DEF KeyBegins, FlagsTyped
  <2>4. EditTyped'
    BY <2>2, <2>3 DEF EditTyped
  <2>5. QED BY <1>4, <2>2, <2>3, <2>4
<1>8. ASSUME NEW op \in {"set", "commit", "clear"}, NEW data \in Short, ImeBegins(op, data)
      PROVE  TextInv'
  <2>1. /\ edit = NoEdit /\ composing' = TRUE
        /\ baseline' = (IF composing THEN baseline ELSE Value)
        /\ edit' = Waiting(op, data) /\ UNCHANGED <<valueVars, focused, undo, redo, rewritten>>
    BY <1>8 DEF ImeBegins, historyVars
  <2>2. edit' \in EditRecord /\ edit'.at = "before" /\ edit'.op = op /\ edit'.data \in Short
    BY <2>1, WaitingIs
  <2>3. ValuesFit' /\ Value' = Value /\ Settled' = Settled /\ (HasEditor' <=> HasEditor)
    BY <1>0, <2>1, ValuesStay
  <2>4. HistoryTyped'
    BY <1>0, <2>1 DEF HistoryTyped
  <2>5. FlagsTyped'
    BY <1>0, <2>1 DEF FlagsTyped, valueVars
  <2>6. EditTyped'
    BY <2>2 DEF EditTyped
  <2>7. MarkIsComposed' /\ (~composing => marked = 0)
    BY <1>0, <2>1, <2>2, <2>3 DEF MarkIsComposed, ValueTyped, valueVars
  <2>8. HistoryFits'
    BY <1>0, <2>1, <2>2, <2>3, <2>7, AtIdle DEF HistoryFits, HistoryOf, valueVars
  <2>9. QED BY <2>3, <2>4, <2>5, <2>6, <2>7, <2>8 DEF TextInv
<1>9. CASE edit # NoEdit /\ KeyApplies
  <2>1. /\ edit.at = "before" /\ edit.op \in {"insert", "delete"} /\ edit' = NoEdit
        /\ UNCHANGED <<focused, composing, baseline, rewritten>>
    BY <1>9 DEF KeyApplies
  <2>2. ~composing /\ edit.data \in Short /\ marked = 0 /\ EditTyped'
    BY <1>0, <1>9, <2>1 DEF EditTyped, MarkIsComposed, ValueTyped
  <2>3. CASE HasEditor /\ Len(KeyText(editor)) <= MaxText
    <3> DEFINE text == KeyText(editor)
    <3>1. Edited(text, 0) /\ Record(editor, text)
      BY <1>9, <2>3 DEF KeyApplies
    <3>2. text \in Text
      <4>1. CASE edit.op = "insert"
        BY <1>0, <2>2, <2>3, <4>1, Joined, TextIsText DEF KeyText
      <4>2. CASE edit.op # "insert" /\ editor = <<>>
        BY <1>0, <2>3, <4>2, TextIsText DEF KeyText
      <4>3. CASE edit.op # "insert" /\ editor # <<>>
        BY <1>0, <2>3, <4>3, TextIsText, Fronted DEF KeyText, Front
      <4>4. QED BY <4>1, <4>2, <4>3
    <3> HIDE DEF text
    <3>3. Len(text) \in Nat /\ SubSeq(text, 1, Len(text) - 0) = text
      BY <3>2, TextIsText, Fronted
    <3>4. /\ ValuesFit' /\ HasEditor' /\ Value' = text /\ held' # Unset /\ marked' = 0
          /\ pendingText' = FALSE
      <4>1. ValuesFit' /\ HasEditor' /\ Value' = text /\ held' # Unset /\ marked' = 0
        BY <1>0, <3>1, <3>2, <3>3, EditedIs
      <4>2. pendingText' = FALSE
        BY <3>1 DEF Edited
      <4>3. QED BY <4>1, <4>2
    <3>5. /\ undo' \in Seq(Transaction) /\ redo' \in Seq(Transaction)
          /\ HistoryOf(undo, redo, editor) => HistoryOf(undo', redo', text)
      BY <1>0, <2>3, <3>1, <3>2, Recorded DEF HistoryTyped
    <3>6. HistoryTyped' /\ MarkIsComposed'
      BY <1>0, <2>1, <3>4, <3>5 DEF HistoryTyped, MarkIsComposed
    <3>7. FlagsTyped'
      BY <1>0, <2>1, <3>4 DEF FlagsTyped
    <3>8. HistoryFits'
      BY <1>0, <2>1, <2>2, <2>3, <3>4, <3>5 DEF HistoryFits, HistoryOf
    <3>9. QED BY <2>2, <3>4, <3>6, <3>7, <3>8 DEF TextInv
  <2>4. CASE ~(HasEditor /\ Len(KeyText(editor)) <= MaxText)
    BY <1>9, <2>4, <1>0, <1>4, <2>1, <2>2, AtIdle DEF KeyApplies, NothingEdited, FlagsTyped,
       NoEdit
  <2>5. QED BY <2>3, <2>4
<1>10. CASE edit # NoEdit /\ PreeditApplies
  <2>1. /\ edit.at = "before" /\ edit.op = "set" /\ edit' = NoEdit
        /\ UNCHANGED <<focused, composing, baseline, undo, redo, rewritten>>
    BY <1>10 DEF PreeditApplies, historyVars
  <2>2. edit.data \in Short /\ edit.data \in Text /\ Len(edit.data) \in Nat
        /\ EditTyped' /\ edit'.at # "after"
    BY <1>0, <1>10, <2>1, TextIsText, AtIdle DEF EditTyped, NoEdit
  <2>3. CASE composing /\ HasEditor /\ Len(Composed) <= MaxText
    <3>1. Edited(Composed, Len(edit.data))
      BY <1>10, <2>3 DEF PreeditApplies
    <3>2. /\ Composed \in Text /\ Len(Composed) = Len(Unmarked) + Len(edit.data)
          /\ SubSeq(Composed, 1, Len(Composed) - Len(edit.data)) = Unmarked
      BY <1>0, <2>2, <2>3, Joined DEF Composed
    <3>3. Len(edit.data) <= Len(Composed)
      BY <1>0, <2>2, <2>3, <3>2, TextIsText
    <3>4. /\ ValuesFit' /\ HasEditor' /\ held' # Unset /\ pendingText' = FALSE
          /\ Settled' = SubSeq(Composed, 1, Len(Composed) - Len(edit.data))
      BY <1>0, <2>2, <3>1, <3>2, <3>3, EditedIs DEF Edited
    <3>5. Settled' = Settled
      BY <1>0, <2>3, <3>2, <3>4
    <3>6. HistoryTyped' /\ MarkIsComposed'
      BY <1>0, <2>1, <2>2, <2>3, <3>4 DEF HistoryTyped, MarkIsComposed
    <3>7. FlagsTyped'
      BY <1>0, <2>1, <3>4 DEF FlagsTyped
    <3>8. HistoryFits'
      BY <1>0, <2>1, <2>2, <2>3, <3>4, <3>5 DEF HistoryFits, HistoryOf
    <3>9. QED BY <2>2, <3>4, <3>6, <3>7, <3>8 DEF TextInv
  <2>4. CASE ~(composing /\ HasEditor /\ Len(Composed) <= MaxText)
    BY <1>10, <2>4, <1>0, <1>4, <2>1, <2>2 DEF PreeditApplies, NothingEdited, FlagsTyped
  <2>5. QED BY <2>3, <2>4
<1>11. CASE edit # NoEdit /\ ClearApplies
  <2>1. /\ edit.at = "before" /\ edit.op = "clear" /\ edit' = After /\ ClearMark
        /\ UNCHANGED <<focused, composing, baseline, undo, redo, rewritten>>
    BY <1>11 DEF ClearApplies, historyVars
  <2>2. /\ edit' \in EditRecord /\ edit'.at = "after" /\ edit'.op = "clear"
        /\ edit'.data = edit.data /\ edit.data \in Short
    BY <1>0, <1>11, <2>1, AfterIs DEF EditTyped
  <2>3. /\ ValuesFit' /\ Value' = Settled /\ marked' = 0
        /\ held # Unset => held' # Unset
        /\ held' = Unset => Value' = Value
    BY <1>0, <2>1, ClearIs
  <2>4. HistoryTyped' /\ MarkIsComposed' /\ EditTyped'
    BY <1>0, <2>1, <2>2, <2>3 DEF HistoryTyped, MarkIsComposed, EditTyped
  <2>5. FlagsTyped'
    BY <1>0, <2>1 DEF ClearMark, Edited, NothingEdited, valueVars, FlagsTyped
  <2>6. ~composing => Settled = Value
    BY <1>0 DEF MarkIsComposed, ValueTyped
  <2>7. HistoryFits'
    BY <1>0, <2>1, <2>2, <2>3, <2>6 DEF HistoryFits, HistoryOf
  <2>8. QED BY <2>3, <2>4, <2>5, <2>7 DEF TextInv
<1>12. CASE edit # NoEdit /\ CommitApplies /\ ~composing
  BY <1>12, AtIdle, <1>0, <1>4 DEF CommitApplies, NothingEdited, EditTyped, NoEdit, FlagsTyped
<1>13. CASE edit # NoEdit /\ CommitApplies /\ composing
  <2>1. /\ edit.at = "before" /\ edit.op = "commit" /\ edit' = After
        /\ UNCHANGED <<focused, composing, baseline, rewritten>>
    BY <1>13 DEF CommitApplies
  <2>2. /\ edit' \in EditRecord /\ edit'.at = "after" /\ edit'.op = "commit"
        /\ edit'.data = edit.data /\ edit.data \in Short
        /\ edit.data \in Text /\ Len(edit.data) \in Nat /\ Len(edit.data) <= 1
    BY <1>0, <1>13, <2>1, AfterIs, TextIsText DEF EditTyped
  <2>3. EditTyped'
    BY <2>2 DEF EditTyped
  <2>4. CASE HasEditor /\ Len(Composed) <= MaxText
    <3>1. Edited(Composed, 0) /\ Record(baseline, Composed)
      BY <1>13, <2>4 DEF CommitApplies
    <3>2. Composed \in Text
      BY <1>0, <2>2, <2>4, Joined DEF Composed
    <3>3. Len(Composed) \in Nat
      BY <3>2, TextIsText
    <3>4. ValuesFit' /\ HasEditor' /\ Value' = Composed /\ held' # Unset /\ marked' = 0
      BY <1>0, <3>1, <3>2, <3>3, EditedIs
    <3>5. /\ undo' \in Seq(Transaction) /\ redo' \in Seq(Transaction)
          /\ baseline \in Text /\ HistoryOf(undo, redo, baseline)
               => HistoryOf(undo', redo', Composed)
      BY <1>0, <3>1, <3>2, Recorded DEF HistoryTyped
    <3>6. HistoryTyped' /\ MarkIsComposed'
      BY <1>0, <2>1, <3>4, <3>5 DEF HistoryTyped, MarkIsComposed
    <3>7. FlagsTyped'
      BY <3>1, <1>0, <2>1 DEF Edited, FlagsTyped
    <3>8. ~rewritten => baseline = Settled /\ HistoryOf(undo, redo, baseline)
      BY <1>0, <1>13, <2>1 DEF HistoryFits
    <3>9. ~rewritten => HistoryOf(undo', redo', Composed)
      BY <1>0, <3>5, <3>8
    <3>10. HistoryFits'
      BY <2>1, <2>2, <3>4, <3>9 DEF HistoryFits, HistoryOf
    <3>11. QED BY <2>3, <3>4, <3>6, <3>7, <3>10 DEF TextInv
  <2>5. CASE ~(HasEditor /\ Len(Composed) <= MaxText)
    <3>1. UNCHANGED valueVars /\ Record(baseline, Value)
      BY <1>13, <2>5 DEF CommitApplies, NothingEdited
    <3>2. ValuesFit' /\ Value' = Value /\ (HasEditor' <=> HasEditor)
      BY <1>0, <3>1, ValuesStay
    <3>3. marked = 0
      <4>1. CASE ~HasEditor
        BY <1>0, <4>1 DEF MarkIsComposed, ValueTyped
      <4>2. CASE HasEditor
        <5>1. /\ Unmarked \in Seq(Chars) /\ edit.data \in Seq(Chars) /\ marked \in Nat
              /\ Len(editor) \in Nat /\ Len(editor) <= MaxText /\ marked <= Len(editor)
              /\ Len(Unmarked) = Len(editor) - marked
          BY <1>0, <2>2, <4>2, TextIsText, Fronted DEF ValueTyped, Unmarked
        <5>2. Len(Composed) = Len(editor) - marked + Len(edit.data)
          BY <5>1, ConcatProperties DEF Composed
        <5>3. ~(Len(Composed) <= MaxText)
          BY <2>5, <4>2
        <5>4. MaxText \in Nat
          BY TextAssumption DEF TextAssumption
        <5>5. QED BY <2>2, <5>1, <5>2, <5>3, <5>4
      <4>3. QED BY <4>1, <4>2
    <3>4. /\ undo' \in Seq(Transaction) /\ redo' \in Seq(Transaction)
          /\ baseline \in Text /\ HistoryOf(undo, redo, baseline) => HistoryOf(undo', redo', Value)
          /\ baseline = Value => UNCHANGED historyVars
      BY <1>0, <3>1, Recorded DEF HistoryTyped
    <3>5. HistoryTyped' /\ MarkIsComposed'
      BY <1>0, <2>1, <3>1, <3>3, <3>4 DEF HistoryTyped, MarkIsComposed, valueVars
    <3>6. FlagsTyped'
      BY <1>0, <2>1, <3>1 DEF FlagsTyped, valueVars
    <3>7. ~rewritten => /\ baseline = Settled /\ HistoryOf(undo, redo, baseline)
                        /\ held = Unset => baseline = Value
                        /\ undo # <<>> \/ redo # <<>> => held # Unset
      BY <1>0, <1>13, <2>1 DEF HistoryFits
    <3>8. ~rewritten => /\ HistoryOf(undo', redo', Value)
                        /\ undo' # <<>> \/ redo' # <<>> => held # Unset
      BY <1>0, <3>4, <3>7 DEF historyVars
    <3>9. HistoryFits'
      BY <2>1, <2>2, <3>1, <3>2, <3>7, <3>8 DEF HistoryFits, HistoryOf, valueVars
    <3>10. QED BY <2>3, <3>2, <3>5, <3>6, <3>9 DEF TextInv
  <2>6. QED BY <2>4, <2>5
<1>14. CASE edit # NoEdit /\ CompositionEnds
  <2>1. /\ edit.at = "after" /\ edit' = NoEdit /\ composing' = FALSE /\ baseline' = Unset
        /\ UNCHANGED <<valueVars, focused, undo, redo, rewritten>>
    BY <1>14 DEF CompositionEnds, historyVars
  <2>2. ValuesFit' /\ Value' = Value
    BY <1>0, <2>1, ValuesStay
  <2>3. HistoryTyped' /\ EditTyped'
    BY <1>0, <2>1 DEF HistoryTyped, EditTyped
  <2>4. FlagsTyped'
    BY <1>0, <2>1 DEF FlagsTyped, valueVars
  <2>5. MarkIsComposed'
    BY <1>0, <2>1 DEF MarkIsComposed, ValueTyped, valueVars
  <2>6. HistoryFits'
    BY <1>0, <2>1, <2>2 DEF HistoryFits, HistoryOf, valueVars
  <2>7. QED BY <2>2, <2>3, <2>4, <2>5, <2>6 DEF TextInv
<1>15. CASE edit # NoEdit /\ Prevented
  BY <1>15, <1>0, CancelIs, AtIdle, <1>4 DEF Prevented, FlagsTyped, EditTyped, NoEdit
<1>16. CASE ImeDisabled
  BY <1>0, <1>16, CancelIs DEF ImeDisabled, FlagsTyped
<1>17. ASSUME NEW op \in {"undo", "redo"}, HistoryBegins(op) PROVE TextInv'
  BY <1>17, <1>0, CancelIs, GoesBack, WaitingIs, <1>4 DEF HistoryBegins, FlagsTyped,
     HistoryTyped, Source, EditTyped
<1>18. CASE edit # NoEdit /\ HistoryApplies
  <2>1. /\ edit.at = "before" /\ edit.op \in {"undo", "redo"} /\ edit' = NoEdit
        /\ UNCHANGED <<focused, composing, baseline, rewritten>>
    BY <1>18 DEF HistoryApplies
  <2>2. ~composing /\ edit.data \in Transaction /\ EditTyped' /\ edit'.at # "after"
    BY <1>0, <1>18, <2>1, AtIdle DEF EditTyped, NoEdit
  <2>3. CASE ~StillIts
    BY <1>18, <2>3, <1>0, <1>4, <2>1, <2>2 DEF HistoryApplies, FlagsTyped
  <2>4. CASE StillIts
    <3>1. edit.data.before \in Text /\ edit.data.after \in Text
      BY <2>2 DEF Transaction
    <3>2. undo \in Seq(Transaction) /\ redo \in Seq(Transaction)
      BY <1>0 DEF HistoryTyped
    <3>3. ~rewritten => HistoryOf(undo, redo, Value)
      BY <1>0, <2>2 DEF HistoryFits
    <3>4. ASSUME NEW v \in Text, Assign(v), undo' \in Seq(Transaction), redo' \in Seq(Transaction),
                 ~rewritten => HistoryOf(undo', redo', v)
          PROVE  TextInv'
      BY <1>0, <3>4, AssignIs, <2>1, <2>2 DEF HistoryTyped, MarkIsComposed, Assign, FlagsTyped,
         HistoryFits, HistoryOf, TextInv
    <3>5. CASE edit.op = "undo"
      <4>1. /\ undo # <<>> /\ Last(undo) = edit.data
            /\ undo' = Front(undo) /\ redo' = Append(redo, edit.data)
            /\ Assign(edit.data.before)
        BY <1>18, <2>4, <3>5 DEF HistoryApplies, StillIts, Source
      <4>2. undo' \in Seq(Transaction) /\ redo' \in Seq(Transaction)
        BY <3>2, <4>1, GoesBack
      <4>3. ~rewritten => HistoryOf(undo', redo', edit.data.before)
        BY <3>2, <3>3, <4>1, GoesBack DEF HistoryOf
      <4>4. QED BY <3>1, <3>4, <4>1, <4>2, <4>3
    <3>6. CASE edit.op = "redo"
      <4>1. /\ redo # <<>> /\ Last(redo) = edit.data
            /\ redo' = Front(redo) /\ undo' = Append(undo, edit.data)
            /\ Assign(edit.data.after)
        BY <1>18, <2>4, <3>6 DEF HistoryApplies, StillIts, Source
      <4>2. undo' \in Seq(Transaction) /\ redo' \in Seq(Transaction)
        BY <3>2, <4>1, GoesBack
      <4>3. ~rewritten => HistoryOf(undo', redo', edit.data.after)
        BY <3>2, <3>3, <4>1, GoesBack DEF HistoryOf
      <4>4. QED BY <3>1, <3>4, <4>1, <4>2, <4>3
    <3>7. QED BY <2>1, <3>5, <3>6
  <2>5. QED BY <2>3, <2>4
<1>19. CASE UNCHANGED textVars
  <2>1. /\ UNCHANGED <<valueVars, composing, baseline, undo, redo, edit, rewritten>>
        /\ focused' \in BOOLEAN
    BY <1>0, <1>19 DEF textVars, historyVars, FlagsTyped
  <2>2. ValuesFit' /\ Value' = Value /\ Settled' = Settled /\ (HasEditor' <=> HasEditor)
    BY <1>0, <2>1, ValuesStay
  <2>3. HistoryTyped' /\ FlagsTyped' /\ EditTyped'
    BY <1>0, <2>1 DEF HistoryTyped, FlagsTyped, EditTyped, valueVars
  <2>4. MarkIsComposed'
    BY <1>0, <2>1, <2>2 DEF MarkIsComposed, valueVars
  <2>5. HistoryFits'
    BY <1>0, <2>1, <2>2 DEF HistoryFits, HistoryOf, valueVars
  <2>6. QED BY <2>2, <2>3, <2>4, <2>5 DEF TextInv
<1>20. /\ <<>> \in Short /\ \A x \in Letters : <<x>> \in Short
  BY DEF Short
<1>21. QED BY <1>1, <1>2, <1>3, <1>5, <1>6, <1>7, <1>8, <1>9, <1>10, <1>11, <1>12, <1>13, <1>14,
              <1>15, <1>16, <1>17, <1>18, <1>19, <1>20 DEF TextNext

\* For every alphabet, length of text and limit of the history: the invariant holds.
THEOREM TextInvHolds == TextSpec => []TextInv
<1>1. QED BY TextInitially, TextKept, PTL DEF TextSpec

\* EditsAgree: what a control shows is what is held of it, and undo and redo are chains
\* that begin and end at that value, whatever listeners, compositions and scripts did.
THEOREM EditsHold == TextSpec => []EditsAgree
<1>1. TextInv => EditsAgree
  BY AtIdle DEF TextInv, ValuesFit, HistoryFits, HistoryOf, EditsAgree, HistoryIsAChain
<1>2. QED BY <1>1, TextInvHolds, PTL

-----------------------------------------------------------------------------
(* WindowModes: page, host and application agree on every mode             *)

\* Types of what the host keeps.
WindowTyped ==
  /\ web \in [Modes -> BOOLEAN] /\ want \in [Modes -> {"off", "on"}]
  /\ applied \in [Modes -> {"off", "on", "web"}] /\ keys \in Seq(Key)
  /\ failed \in BOOLEAN

\* A task of the page: a commit is of a request.
ModeTask == [do : {"commit"}, mode : Modes, req : Nat \ {0}]
            \cup [do : {"ended"}, mode : Modes, req : Nat]

\* Types of what the page keeps.
PageTyped ==
  /\ attached \subseteq Targets /\ act \in BOOLEAN
  /\ elem \in [Modes -> Targets \cup {NoTarget}]
  /\ reqs \in Seq([mode : Modes, on : Targets])
  /\ pend \in [Modes -> 0 .. Len(reqs)] /\ tasks \in Seq(ModeTask)
  /\ entries \in Nat /\ granted \in Nat

\* The target of a request that waits is in the document: one that leaves it takes its
\* request along.
PendingIsAttached == \A m \in Modes : pend[m] # 0 => reqs[pend[m]].on \in attached

\* The inductive invariant of WindowModes.
ModesInv ==
  /\ WindowTyped /\ PageTyped /\ PendingIsAttached
  /\ ModeIsBacked /\ BaselineIsReturned /\ EntriesArePaidFor

\* At the start nobody has a mode.
LEMMA ModesInvInit == ModesInit => ModesInv
<1> SUFFICES ASSUME ModesInit PROVE ModesInv
  OBVIOUS
<1> USE ModesAssumption DEF ModesInit, Modes
<1>1. WindowTyped
  <2>1. web \in [Modes -> BOOLEAN] /\ failed \in BOOLEAN
    BY Zenon
  <2>2. want \in [Modes -> {"off", "on"}] /\ applied \in [Modes -> {"off", "on", "web"}]
    OBVIOUS
  <2>3. <<>> \in Seq(Key)
    OBVIOUS
  <2> QED
    BY <2>1, <2>2, <2>3 DEF WindowTyped
<1>2. PageTyped
  <2>1. /\ <<>> \in Seq(ModeTask) /\ <<>> \in Seq([mode : Modes, on : Targets])
        /\ Len(reqs) = 0
    OBVIOUS
  <2>2. pend \in [Modes -> 0 .. Len(reqs)]
    BY <2>1
  <2>3. elem \in [Modes -> Targets \cup {NoTarget}]
    OBVIOUS
  <2>4. act \in BOOLEAN
    BY Zenon
  <2>5. entries \in Nat /\ granted \in Nat
    OBVIOUS
  <2> QED
    BY <2>1, <2>2, <2>3, <2>4, <2>5 DEF PageTyped
<1>3. PendingIsAttached /\ ModeIsBacked /\ BaselineIsReturned /\ EntriesArePaidFor
  BY DEF PendingIsAttached, ModeIsBacked, Held, BaselineIsReturned, EntriesArePaidFor
<1> QED
  BY <1>1, <1>2, <1>3 DEF ModesInv

\* The end of some modes keeps the window's types and gives each its baseline.
LEMMA RestoredKeeps ==
  ASSUME WindowTyped, BaselineIsReturned, NEW S, Restored(S), want' = want
  PROVE  /\ web' \in [Modes -> BOOLEAN] /\ applied' \in [Modes -> {"off", "on", "web"}]
         /\ \A m \in Modes : web'[m] = (web[m] /\ m \notin S)
         /\ BaselineIsReturned'
<1>1. \A m \in Modes : web'[m] = (web[m] /\ m \notin S)
  BY DEF Restored
<1>2. \A m \in Modes : applied'[m] = IF m \in S THEN want[m] ELSE applied[m]
  BY DEF Restored
<1>3. BaselineIsReturned'
  BY <1>1, <1>2 DEF BaselineIsReturned
<1>4. web' \in [Modes -> BOOLEAN]
  BY DEF Restored
<1>5. applied' \in [Modes -> {"off", "on", "web"}]
  BY DEF WindowTyped, Restored
<1> QED
  BY <1>1, <1>3, <1>4, <1>5

\* The tasks that announce ended modes are tasks.
LEMMA EndedAreTasks == ASSUME PageTyped, NEW S PROVE EndedTasks(S) \in Seq(ModeTask)
<1> DEFINE ended(m) == IF m \in S THEN <<[do |-> "ended", mode |-> m, req |-> pend[m]]>> ELSE <<>>
<1>1. \A m \in Modes : ended(m) \in Seq(ModeTask)
  <2> SUFFICES ASSUME NEW m \in Modes PROVE ended(m) \in Seq(ModeTask)
    OBVIOUS
  <2>1. pend[m] \in Nat
    BY DEF PageTyped
  <2>2. [do |-> "ended", mode |-> m, req |-> pend[m]] \in ModeTask
    BY <2>1 DEF ModeTask
  <2> QED
    BY <2>2
<1>2. EndedTasks(S) = ended("lock") \o ended("full")
  BY DEF EndedTasks
<1> HIDE DEF ended
<1> QED
  BY <1>1, <1>2 DEF Modes

\* What a release of some modes leaves of each.
LEMMA ReleasesKeep ==
  ASSUME ModesInv, NEW S \in SUBSET Modes, NEW already \in BOOLEAN, Releases(S, already),
         UNCHANGED <<want, failed, reqs, entries>>, granted' \in Nat,
         keys' \in Seq(Key), act' \in BOOLEAN, attached' \subseteq Targets
  PROVE  /\ WindowTyped' /\ PageTyped' /\ BaselineIsReturned'
         /\ \A m \in Modes : Held(m)' => Held(m) /\ m \notin S /\ web'[m] = web[m]
         /\ \A m \in Modes : pend'[m] # 0 => m \notin S /\ pend'[m] = pend[m]
<1> USE DEF ModesInv
<1> DEFINE theirs == {m \in S : Held(m)}
<1>1. /\ IF already THEN UNCHANGED <<web, applied>> ELSE Restored(theirs)
      /\ pend' = [m \in Modes |-> IF m \in theirs THEN 0 ELSE pend[m]]
      /\ elem' = [m \in Modes |-> IF m \in theirs THEN NoTarget ELSE elem[m]]
      /\ tasks' = tasks \o EndedTasks(theirs)
  BY DEF Releases
<1>2. \A m \in Modes : m \in theirs <=> m \in S /\ Held(m)
  OBVIOUS
<1> HIDE DEF theirs
<1>3. /\ web' \in [Modes -> BOOLEAN] /\ applied' \in [Modes -> {"off", "on", "web"}]
      /\ \A m \in Modes : m \notin theirs => web'[m] = web[m]
      /\ BaselineIsReturned'
  BY <1>1, RestoredKeeps DEF WindowTyped, BaselineIsReturned
<1>4. WindowTyped'
  BY <1>3 DEF WindowTyped
<1>5. /\ \A m \in Modes : pend'[m] = IF m \in theirs THEN 0 ELSE pend[m]
      /\ \A m \in Modes : elem'[m] = IF m \in theirs THEN NoTarget ELSE elem[m]
  BY <1>1
<1>6. \A m \in Modes : Held(m)' => Held(m) /\ m \notin theirs
  BY <1>5 DEF Held
<1>7. PageTyped'
  <2>1. tasks' \in Seq(ModeTask)
    BY <1>1, EndedAreTasks DEF PageTyped
  <2>2. Len(reqs) \in Nat
    BY DEF PageTyped
  <2>3. \A m \in Modes : (IF m \in theirs THEN 0 ELSE pend[m]) \in 0 .. Len(reqs)
    BY <2>2 DEF PageTyped
  <2>4. pend' \in [Modes -> 0 .. Len(reqs)]
    BY <1>1, <2>3
  <2>5. elem' \in [Modes -> Targets \cup {NoTarget}]
    BY <1>1 DEF PageTyped
  <2> QED
    BY <2>1, <2>4, <2>5 DEF PageTyped
<1>8. \A m \in Modes : m \in S /\ m \notin theirs => pend[m] = 0
  BY <1>2 DEF Held
<1> QED
  BY <1>2, <1>3, <1>4, <1>5, <1>6, <1>7, <1>8

\* A release that tells nobody keeps the invariant.
LEMMA ReleasedKeeps ==
  ASSUME ModesInv, NEW S \in SUBSET Modes, Releases(S, FALSE),
         UNCHANGED <<want, keys, failed, attached, reqs, act, entries, granted>>
  PROVE  ModesInv'
<1> USE DEF ModesInv
<1>1. /\ WindowTyped' /\ PageTyped' /\ BaselineIsReturned'
      /\ \A m \in Modes : Held(m)' => Held(m) /\ m \notin S /\ web'[m] = web[m]
      /\ \A m \in Modes : pend'[m] # 0 => m \notin S /\ pend'[m] = pend[m]
  BY ReleasesKeep DEF WindowTyped, PageTyped
<1>2. PendingIsAttached' /\ EntriesArePaidFor'
  BY <1>1 DEF PendingIsAttached, EntriesArePaidFor
<1>3. ModeIsBacked'
  BY <1>1 DEF ModeIsBacked, ReleaseQueued
<1> QED
  BY <1>1, <1>2, <1>3

\* A step that leaves both halves alone keeps the invariant.
LEMMA ModesRest ==
  ASSUME ModesInv, UNCHANGED <<web, want, applied, keys, failed, attached, elem, pend, reqs>>,
         tasks' \in Seq(ModeTask), act' \in BOOLEAN, entries' = entries, granted' \in Nat,
         EntriesArePaidFor'
  PROVE  ModesInv'
<1> USE DEF ModesInv
<1>1. WindowTyped' /\ PageTyped'
  BY DEF WindowTyped, PageTyped
<1>2. PendingIsAttached' /\ BaselineIsReturned'
  BY DEF PendingIsAttached, BaselineIsReturned
<1>3. ModeIsBacked'
  BY DEF ModeIsBacked, Held, ReleaseQueued
<1> QED
  BY <1>1, <1>2, <1>3

\* What the application wants of its window waits for the page to leave it.
LEMMA NativeWantsModes ==
  ASSUME ModesInv, NEW m \in Modes, NEW v \in {"off", "on"}, NativeWants(m, v)
  PROVE  ModesInv'
<1> USE DEF ModesInv, NativeWants, domModeVars
<1>1. WindowTyped'
  BY DEF WindowTyped
<1>2. PageTyped' /\ PendingIsAttached' /\ EntriesArePaidFor'
  BY DEF PageTyped, PendingIsAttached, EntriesArePaidFor
<1>3. ModeIsBacked'
  BY DEF ModeIsBacked, Held, ReleaseQueued
<1>4. BaselineIsReturned'
  BY DEF BaselineIsReturned, WindowTyped
<1> QED
  BY <1>1, <1>2, <1>3, <1>4

\* What waits in the queue of keyboard input still waits behind one more.
LEMMA QueuedStays ==
  ASSUME keys \in Seq(Key), NEW k \in Key, keys' = Append(keys, k)
  PROVE  /\ keys' \in Seq(Key)
         /\ \A m \in Modes : ReleaseQueued(m) => ReleaseQueued(m)'
         /\ \A m \in Modes : k.is = "release" /\ m \in k.modes => ReleaseQueued(m)'
<1>1. keys' \in Seq(Key)
  OBVIOUS
<1>2. /\ Len(keys) \in Nat /\ Len(keys') = Len(keys) + 1 /\ keys'[Len(keys) + 1] = k
      /\ \A i \in 1 .. Len(keys) : keys'[i] = keys[i]
  OBVIOUS
<1>3. \A m \in Modes : ReleaseQueued(m) => ReleaseQueued(m)'
  BY <1>2 DEF ReleaseQueued
<1>4. \A m \in Modes : k.is = "release" /\ m \in k.modes => ReleaseQueued(m)'
  BY <1>2 DEF ReleaseQueued
<1> QED
  BY <1>1, <1>3, <1>4

\* A mode the host takes away is announced behind whatever input waits.
LEMMA HostReleasesModes ==
  ASSUME ModesInv, HostReleases,
         UNCHANGED <<want, failed, domModeVars, reqs, granted, entries>>
  PROVE  ModesInv'
<1> USE DEF ModesInv, domModeVars
<1> DEFINE theirs == {m \in Modes : web[m]}
<1>1. /\ Restored(theirs)
      /\ IF theirs = {} THEN keys' = keys
         ELSE keys' = Append(keys, [is |-> "release", modes |-> theirs])
  BY DEF HostReleases
<1>2. theirs \in SUBSET Modes /\ \A m \in Modes : web[m] <=> m \in theirs
  OBVIOUS
<1> HIDE DEF theirs
<1>3. /\ web' \in [Modes -> BOOLEAN] /\ applied' \in [Modes -> {"off", "on", "web"}]
      /\ BaselineIsReturned'
  BY <1>1, RestoredKeeps
<1>4. /\ keys' \in Seq(Key)
      /\ \A m \in Modes : ReleaseQueued(m) => ReleaseQueued(m)'
      /\ \A m \in theirs : ReleaseQueued(m)'
  <2>1. CASE theirs = {}
    BY <1>1, <2>1 DEF WindowTyped, ReleaseQueued
  <2>2. CASE theirs # {}
    <3> DEFINE k == [is |-> "release", modes |-> theirs]
    <3>1. k \in Key /\ k.is = "release" /\ k.modes = theirs
      BY <1>2 DEF Key
    <3>2. keys' = Append(keys, k) /\ keys \in Seq(Key)
      BY <1>1, <2>2 DEF WindowTyped
    <3> HIDE DEF k
    <3> QED
      BY <3>1, <3>2, <1>2, QueuedStays
  <2> QED
    BY <2>1, <2>2
<1>5. WindowTyped' /\ PageTyped' /\ PendingIsAttached' /\ EntriesArePaidFor'
  BY <1>3, <1>4 DEF WindowTyped, PageTyped, PendingIsAttached, EntriesArePaidFor
<1>6. ModeIsBacked'
  BY <1>2, <1>4 DEF ModeIsBacked, Held
<1> QED
  BY <1>3, <1>5, <1>6

\* A key waits behind whatever input does.
LEMMA PressKeyModes ==
  ASSUME ModesInv, NEW k \in {"press", "escape"}, PressKey(k) PROVE ModesInv'
<1> USE DEF ModesInv, PressKey, domModeVars
<1>1. [is |-> k] \in Key
  BY DEF Key
<1>2. keys \in Seq(Key) /\ keys' = Append(keys, [is |-> k])
  BY DEF WindowTyped
<1>3. keys' \in Seq(Key) /\ \A m \in Modes : ReleaseQueued(m) => ReleaseQueued(m)'
  BY <1>1, <1>2, QueuedStays
<1>4. WindowTyped'
  BY <1>3 DEF WindowTyped
<1>5. PageTyped'
  BY DEF PageTyped
<1>6. PendingIsAttached' /\ EntriesArePaidFor' /\ BaselineIsReturned'
  BY DEF PendingIsAttached, EntriesArePaidFor, BaselineIsReturned
<1>7. ModeIsBacked'
  BY <1>3 DEF ModeIsBacked, Held
<1> QED
  BY <1>4, <1>5, <1>6, <1>7

\* A parked error ends the application: nobody is left to be told.
LEMMA DispatchFailsModes == ASSUME ModesInv, DispatchFails PROVE ModesInv'
<1> USE DEF ModesInv, DispatchFails, domModeVars, modesHist
<1>1. keys' \in Seq(Key)
  BY DEF WindowTyped
<1>2. failed' = TRUE
  OBVIOUS
<1>3. WindowTyped'
  BY <1>1, <1>2 DEF WindowTyped
<1>4. PageTyped'
  BY DEF PageTyped
<1>5. PendingIsAttached' /\ EntriesArePaidFor' /\ BaselineIsReturned'
  BY DEF PendingIsAttached, EntriesArePaidFor, BaselineIsReturned
<1>6. ModeIsBacked'
  BY <1>2, Zenon DEF ModeIsBacked
<1> QED
  BY <1>3, <1>4, <1>5, <1>6

\* Steps that leave both halves alone.
LEMMA IdleModes ==
  ASSUME ModesInv,
         Motion \/ Click \/ Redraw \/ NextQueue \/ HearClick \/ Expire \/ Waits
           \/ \E e \in Targets : Refused(e)
  PROVE  ModesInv'
<1> USE DEF domModeVars, modesHist, windowVars, modesVars
<1>1. UNCHANGED <<web, want, applied, keys, failed, attached, elem, pend, reqs>>
  BY DEF Motion, Click, Redraw, NextQueue, HearClick, Expire, Waits, Refused
<1>2. tasks' = tasks /\ entries' = entries
  BY DEF Motion, Click, Redraw, NextQueue, HearClick, Expire, Waits, Refused
<1>3. tasks' \in Seq(ModeTask)
  BY <1>2 DEF ModesInv, PageTyped
<1>4. act \in BOOLEAN /\ entries \in Nat /\ granted \in Nat /\ EntriesArePaidFor
  BY DEF ModesInv, PageTyped
<1>5. \/ granted' = granted /\ (act' => act)
      \/ granted' = granted + 1
  BY DEF Motion, Click, Redraw, NextQueue, HearClick, Expire, Waits, Refused, Asks
<1>6. act' \in BOOLEAN
  BY <1>4 DEF Motion, Click, Redraw, NextQueue, HearClick, Expire, Waits, Refused, Asks
<1>7. granted' \in Nat
  BY <1>4, <1>5
<1>8. EntriesArePaidFor'
  BY <1>2, <1>4, <1>5 DEF EntriesArePaidFor
<1> QED
  BY <1>1, <1>2, <1>3, <1>6, <1>7, <1>8, ModesRest

\* A movement for an element that has left the document releases the lock.
LEMMA HearMotionModes == ASSUME ModesInv, HearMotion PROVE ModesInv'
<1> USE DEF HearMotion, modesHist
<1>1. CASE Releases({"lock"}, FALSE)
  BY <1>1, ReleasedKeeps DEF Modes
<1>2. CASE UNCHANGED <<web, applied, pend, elem, tasks>>
  BY <1>2, ModesRest DEF ModesInv, PageTyped, EntriesArePaidFor
<1> QED
  BY <1>1, <1>2

\* The application leaves a mode.
LEMMA ExitModes == ASSUME ModesInv, NEW m \in Modes, Exit(m) PROVE ModesInv'
  BY ReleasedKeeps DEF Exit, modesHist

\* One item of keyboard input: only the news of a release leaves the queue for good,
\* and the page has followed it.
LEMMA HearKeyModes == ASSUME ModesInv, HearKey PROVE ModesInv'
<1> USE DEF ModesInv, modesHist
<1> DEFINE k == Head(keys)
<1>1. /\ keys # <<>> /\ keys' = Tail(keys) /\ act' = (act \/ k.is = "press")
      /\ granted' = IF k.is = "press" THEN granted + 1 ELSE granted
      /\ UNCHANGED <<want, failed, attached, reqs, entries>>
  BY DEF HearKey
<1>2. \/ k.is = "press" /\ UNCHANGED <<web, applied, pend, elem, tasks>>
      \/ k.is = "escape" /\ Releases(Modes, FALSE)
      \/ k.is = "release" /\ Releases(k.modes, TRUE)
  <2>1. k.is \in {"press", "escape", "release"}
    BY <1>1 DEF WindowTyped, Key
  <2>2. CASE k.is = "press"
    BY <2>2 DEF HearKey
  <2>3. CASE k.is = "escape"
    BY <2>3 DEF HearKey
  <2>4. CASE k.is = "release"
    BY <2>4 DEF HearKey
  <2> QED
    BY <2>1, <2>2, <2>3, <2>4
<1>3. keys' \in Seq(Key) /\ k \in Key
  BY <1>1 DEF WindowTyped
<1>4. \A m \in Modes :
        ReleaseQueued(m) => ReleaseQueued(m)' \/ (k.is = "release" /\ m \in k.modes)
  <2> SUFFICES ASSUME NEW m \in Modes, ReleaseQueued(m),
                      ~(k.is = "release" /\ m \in k.modes)
               PROVE  ReleaseQueued(m)'
    OBVIOUS
  <2>1. PICK i \in 1 .. Len(keys) : keys[i].is = "release" /\ m \in keys[i].modes
    BY DEF ReleaseQueued
  <2>2. k = keys[1] /\ Len(keys) \in Nat /\ Len(keys') = Len(keys) - 1
        /\ \A j \in 1 .. Len(keys) - 1 : keys'[j] = keys[j + 1]
    BY <1>1 DEF WindowTyped
  <2>3. i # 1
    BY <2>1, <2>2
  <2>4. i - 1 \in 1 .. Len(keys') /\ keys'[i - 1] = keys[i]
    BY <2>2, <2>3
  <2> HIDE DEF k
  <2> QED
    BY <2>1, <2>4 DEF ReleaseQueued
<1>5. act \in BOOLEAN /\ act' \in BOOLEAN
  <2>1. (act \/ k.is = "press") \in BOOLEAN
    BY Zenon
  <2> QED
    BY <1>1, <2>1, Zenon DEF PageTyped
<1>6. granted' \in Nat /\ EntriesArePaidFor'
  <2>1. entries \in Nat /\ granted \in Nat /\ entries' = entries
    BY <1>1 DEF PageTyped
  <2>2. (IF act' THEN 1 ELSE 0) \in {0, 1} /\ (IF act THEN 1 ELSE 0) \in {0, 1}
    OBVIOUS
  <2>3. CASE k.is = "press"
    <3>1. granted' = granted + 1
      BY <1>1, <2>3
    <3> HIDE DEF k
    <3> QED
      BY <2>1, <2>2, <3>1 DEF EntriesArePaidFor
  <2>4. CASE k.is # "press"
    <3>1. granted' = granted /\ act' = act
      BY <1>1, <1>5, <2>4
    <3> HIDE DEF k
    <3> QED
      BY <2>1, <3>1 DEF EntriesArePaidFor
  <2> QED
    BY <2>3, <2>4
<1>7. attached' \subseteq Targets
  BY <1>1 DEF PageTyped
<1>8. CASE k.is = "press" /\ UNCHANGED <<web, applied, pend, elem, tasks>>
  BY <1>1, <1>3, <1>8, <1>5, <1>6, <1>4 DEF WindowTyped, PageTyped, PendingIsAttached,
     BaselineIsReturned, ModeIsBacked, Held
<1>9. ASSUME NEW S \in SUBSET Modes, NEW already \in BOOLEAN, Releases(S, already),
             \A m \in Modes : ReleaseQueued(m) => ReleaseQueued(m)' \/ m \in S
      PROVE  ModesInv'
  <2> HIDE DEF k
  <2>1. /\ WindowTyped' /\ PageTyped' /\ BaselineIsReturned'
        /\ \A m \in Modes : Held(m)' => Held(m) /\ m \notin S /\ web'[m] = web[m]
        /\ \A m \in Modes : pend'[m] # 0 => m \notin S /\ pend'[m] = pend[m]
    BY <1>1, <1>3, <1>5, <1>6, <1>7, <1>9, ReleasesKeep
  <2>2. PendingIsAttached'
    BY <1>1, <2>1 DEF PendingIsAttached
  <2>3. ModeIsBacked'
    BY <1>1, <1>9, <2>1 DEF ModeIsBacked
  <2> QED
    BY <2>1, <2>2, <2>3, <1>6
<1>10. CASE k.is = "escape" /\ Releases(Modes, FALSE)
  BY <1>9, <1>10, <1>4
<1>11. CASE k.is = "release" /\ Releases(k.modes, TRUE)
  <2>1. k.modes \in SUBSET Modes
    BY <1>3, <1>11 DEF Key
  <2> HIDE DEF k
  <2> QED
    BY <2>1, <1>9, <1>11, <1>4
<1> QED
  BY <1>2, <1>8, <1>10, <1>11

\* A target that leaves the document takes the mode it asked for or has along.
LEMMA DisconnectModes == ASSUME ModesInv, NEW e \in Targets, Disconnect(e) PROVE ModesInv'
<1> USE DEF ModesInv, modesHist
<1> DEFINE S == {m \in Modes : Watched(m) \notin attached' \cup {NoTarget}}
<1>1. /\ attached' = attached \ {e} /\ Releases(S, FALSE)
      /\ UNCHANGED <<want, keys, failed, act, reqs, entries, granted>>
  BY DEF Disconnect
<1>2. S \in SUBSET Modes
  OBVIOUS
<1>3. \A m \in Modes : m \notin S => Watched(m) \in attached' \cup {NoTarget}
  OBVIOUS
<1> HIDE DEF S
<1>4. /\ WindowTyped' /\ PageTyped' /\ BaselineIsReturned'
      /\ \A m \in Modes : Held(m)' => Held(m) /\ m \notin S /\ web'[m] = web[m]
      /\ \A m \in Modes : pend'[m] # 0 => m \notin S /\ pend'[m] = pend[m]
  BY <1>1, <1>2, ReleasesKeep DEF PageTyped, WindowTyped
<1>5. PendingIsAttached'
  <2> SUFFICES ASSUME NEW m \in Modes, pend'[m] # 0 PROVE reqs[pend[m]].on \in attached'
    BY <1>1, <1>4 DEF PendingIsAttached
  <2>1. pend[m] # 0 /\ Watched(m) \in attached' \cup {NoTarget}
    BY <1>3, <1>4
  <2>2. Watched(m) = reqs[pend[m]].on
    BY <2>1 DEF Watched
  <2>3. reqs[pend[m]].on \in Targets
    BY <2>1 DEF PendingIsAttached, PageTyped
  <2> QED
    BY <2>1, <2>2, <2>3, ModesAssumption
<1>6. ModeIsBacked'
  BY <1>1, <1>4 DEF ModeIsBacked, ReleaseQueued
<1>7. EntriesArePaidFor'
  BY <1>1 DEF EntriesArePaidFor
<1> QED
  BY <1>4, <1>5, <1>6, <1>7

\* A request is for an element of the document, and takes the window with it.
LEMMA RequestModes ==
  ASSUME ModesInv, NEW m \in Modes, NEW e \in Targets, Request(m, e) PROVE ModesInv'
<1> USE DEF ModesInv
<1> DEFINE r == Len(reqs) + 1
           q == [mode |-> m, on |-> e]
           t == [do |-> "commit", mode |-> m, req |-> r]
<1>1. /\ reqs' = Append(reqs, q) /\ pend' = [pend EXCEPT ![m] = r]
      /\ tasks' = Append(tasks, t)
      /\ web' = [web EXCEPT ![m] = TRUE] /\ applied' = [applied EXCEPT ![m] = "web"]
      /\ entries' = IF m = "full" THEN entries + 1 ELSE entries
      /\ UNCHANGED <<want, keys, failed, attached, elem, granted>>
  BY DEF Request
<1>2. act /\ e \in attached /\ act' = (act /\ m = "lock")
  BY DEF Request, Asks
<1>3. reqs \in Seq([mode : Modes, on : Targets]) /\ Len(reqs) \in Nat
  BY DEF PageTyped
<1>4. q \in [mode : Modes, on : Targets] /\ q.on = e
  OBVIOUS
<1>5. r \in Nat \ {0} /\ r = Len(reqs) + 1
  BY <1>3
<1>6. t \in ModeTask
  BY <1>5 DEF ModeTask
<1> HIDE DEF r, q, t
<1>7. /\ reqs' \in Seq([mode : Modes, on : Targets]) /\ Len(reqs') = r /\ reqs'[r] = q
      /\ \A i \in 1 .. Len(reqs) : reqs'[i] = reqs[i]
  BY <1>1, <1>3, <1>4, <1>5
<1>8. \A n \in Modes : pend'[n] = IF n = m THEN r ELSE pend[n]
  BY <1>1 DEF PageTyped
<1>9. WindowTyped'
  <2>1. web' \in [Modes -> BOOLEAN]
    BY <1>1, Zenon DEF WindowTyped
  <2>2. applied' \in [Modes -> {"off", "on", "web"}]
    BY <1>1 DEF WindowTyped
  <2> QED
    BY <1>1, <2>1, <2>2 DEF WindowTyped
<1>10. PageTyped'
  <2>1. pend' \in [Modes -> 0 .. Len(reqs')]
    BY <1>1, <1>3, <1>5, <1>7, <1>8 DEF PageTyped
  <2>2. tasks' \in Seq(ModeTask)
    BY <1>1, <1>6 DEF PageTyped
  <2>3. act' \in BOOLEAN
    <3>1. (act /\ m = "lock") \in BOOLEAN
      BY Zenon
    <3> QED
      BY <1>2, <3>1, Zenon
  <2>4. entries' \in Nat
    BY <1>1 DEF PageTyped
  <2> QED
    BY <1>1, <1>7, <2>1, <2>2, <2>3, <2>4 DEF PageTyped
<1>11. PendingIsAttached'
  <2> SUFFICES ASSUME NEW n \in Modes, pend'[n] # 0 PROVE reqs'[pend'[n]].on \in attached
    BY <1>1 DEF PendingIsAttached
  <2>1. CASE n = m
    BY <2>1, <1>2, <1>4, <1>7, <1>8
  <2>2. CASE n # m
    <3>1. pend'[n] = pend[n] /\ pend[n] # 0 /\ reqs[pend[n]].on \in attached
      BY <2>2, <1>8 DEF PendingIsAttached
    <3>2. pend[n] \in 1 .. Len(reqs)
      BY <3>1, <1>3 DEF PageTyped
    <3> QED
      BY <3>1, <3>2, <1>7
  <2> QED
    BY <2>1, <2>2
<1>12. ModeIsBacked'
  <2> SUFFICES ASSUME NEW n \in Modes, Held(n)' PROVE (web[n] \/ ReleaseQueued(n) \/ failed)'
    BY DEF ModeIsBacked
  <2>1. CASE n = m
    <3>1. web'[m] = TRUE
      BY <1>1 DEF WindowTyped
    <3> QED
      BY <2>1, <3>1, Zenon
  <2>2. CASE n # m
    BY <2>2, <1>1, <1>8 DEF WindowTyped, Held, ModeIsBacked, ReleaseQueued
  <2> QED
    BY <2>1, <2>2
<1>13. BaselineIsReturned'
  <2> SUFFICES ASSUME NEW n \in Modes
               PROVE  applied'[n] = IF web'[n] THEN "web" ELSE want[n]
    BY <1>1 DEF BaselineIsReturned
  <2>1. CASE n = m
    BY <2>1, <1>1 DEF WindowTyped
  <2>2. CASE n # m
    BY <2>2, <1>1 DEF WindowTyped, BaselineIsReturned
  <2> QED
    BY <2>1, <2>2
<1>14. EntriesArePaidFor'
  <2>1. entries \in Nat /\ granted \in Nat /\ entries + 1 <= granted
    BY <1>2 DEF PageTyped, EntriesArePaidFor
  <2>2. CASE m = "full"
    <3>1. ~act' /\ entries' = entries + 1
      BY <2>2, <1>1, <1>2
    <3> QED
      BY <2>1, <3>1, <1>1 DEF EntriesArePaidFor
  <2>3. CASE m = "lock"
    BY <2>3, <1>1, <2>1 DEF EntriesArePaidFor
  <2> QED
    BY <2>2, <2>3 DEF Modes
<1> QED
  BY <1>9, <1>10, <1>11, <1>12, <1>13, <1>14

\* A request that takes effect is the one that waits, for an element of the document.
LEMMA RunTaskModes == ASSUME ModesInv, RunTask PROVE ModesInv'
<1> USE DEF ModesInv
<1> DEFINE t == Head(tasks)
<1>1. /\ tasks # <<>> /\ tasks' = Tail(tasks)
      /\ UNCHANGED <<want, keys, failed, attached, act, reqs, granted, entries>>
  BY DEF RunTask
<1>2. t \in ModeTask /\ tasks' \in Seq(ModeTask)
  BY <1>1 DEF PageTyped
<1>3. \/ /\ t.do = "commit" /\ pend[t.mode] = t.req /\ pend' = [pend EXCEPT ![t.mode] = 0]
         /\ IF reqs[t.req].on \in attached
            THEN elem' = [elem EXCEPT ![t.mode] = reqs[t.req].on] /\ UNCHANGED <<web, applied>>
            ELSE Restored({t.mode}) /\ UNCHANGED elem
      \/ UNCHANGED <<pend, elem, web, applied>>
  BY DEF RunTask
<1>4. CASE UNCHANGED <<pend, elem, web, applied>>
  <2>1. act' \in BOOLEAN /\ granted' \in Nat
    BY <1>1 DEF PageTyped
  <2>2. EntriesArePaidFor'
    BY <1>1 DEF EntriesArePaidFor
  <2> HIDE DEF t
  <2> QED
    BY <1>1, <1>2, <1>4, <2>1, <2>2, ModesRest
<1>5. CASE ~UNCHANGED <<pend, elem, web, applied>>
  <2>1. /\ t.do = "commit" /\ pend[t.mode] = t.req /\ pend' = [pend EXCEPT ![t.mode] = 0]
        /\ IF reqs[t.req].on \in attached
           THEN elem' = [elem EXCEPT ![t.mode] = reqs[t.req].on] /\ UNCHANGED <<web, applied>>
           ELSE Restored({t.mode}) /\ UNCHANGED elem
    BY <1>3, <1>5
  <2>2. t.mode \in Modes /\ t.req \in Nat \ {0}
    BY <1>2, <2>1 DEF ModeTask
  <2>3. pend[t.mode] # 0 /\ reqs[pend[t.mode]].on \in attached
    BY <2>1, <2>2 DEF PendingIsAttached
  <2> DEFINE d == reqs[pend[t.mode]].on
             m == t.mode
  <2>4. /\ elem' = [elem EXCEPT ![m] = d] /\ UNCHANGED <<web, applied>>
        /\ pend' = [pend EXCEPT ![m] = 0] /\ m \in Modes /\ d \in attached /\ pend[m] # 0
    BY <2>1, <2>2, <2>3
  <2> HIDE DEF t, d, m
  <2>5. /\ \A n \in Modes : pend'[n] = IF n = m THEN 0 ELSE pend[n]
        /\ \A n \in Modes : elem'[n] = IF n = m THEN d ELSE elem[n]
    BY <2>4 DEF PageTyped
  <2>6. WindowTyped'
    BY <1>1, <2>4 DEF WindowTyped
  <2>7. PageTyped'
    BY <2>4, <1>1, <1>2 DEF PageTyped
  <2>8. PendingIsAttached' /\ BaselineIsReturned' /\ EntriesArePaidFor'
    BY <1>1, <2>5, <2>4 DEF PendingIsAttached, BaselineIsReturned, EntriesArePaidFor
  <2>9. ModeIsBacked'
    BY <2>4, <2>5, <1>1 DEF Held, ModeIsBacked, ReleaseQueued
  <2> QED
    BY <2>6, <2>7, <2>8, <2>9
<1> QED
  BY <1>4, <1>5

\* The invariant of WindowModes holds in every reachable state.
THEOREM ModesInvHolds == ModesSpec => []ModesInv
<1>1. ModesInv /\ [ModesNext]_modesVars => ModesInv'
  <2> SUFFICES ASSUME ModesInv, [ModesNext]_modesVars PROVE ModesInv'
    OBVIOUS
  <2>1. CASE Lose
    BY <2>1, HostReleasesModes DEF Lose
  <2>2. CASE LoseSurface
    BY <2>2, HostReleasesModes DEF LoseSurface
  <2>3. CASE Motion \/ Click \/ Redraw \/ NextQueue \/ HearClick \/ Expire \/ Waits
               \/ \E e \in Targets : Refused(e)
    BY <2>3, IdleModes
  <2>4. CASE \E k \in {"press", "escape"} : PressKey(k)
    BY <2>4, PressKeyModes
  <2>5. CASE HearMotion
    BY <2>5, HearMotionModes
  <2>6. CASE HearKey
    BY <2>6, HearKeyModes
  <2>7. CASE DispatchFails
    BY <2>7, DispatchFailsModes
  <2>8. CASE RunTask
    BY <2>8, RunTaskModes
  <2>9. CASE \E m \in Modes : Exit(m)
    BY <2>9, ExitModes
  <2>10. CASE \E m \in Modes, v \in {"off", "on"} : NativeWants(m, v)
    BY <2>10, NativeWantsModes
  <2>11. CASE \E m \in Modes, e \in Targets : Request(m, e)
    BY <2>11, RequestModes
  <2>12. CASE \E e \in Targets : Disconnect(e)
    BY <2>12, DisconnectModes
  <2>13. CASE UNCHANGED modesVars
    BY <2>13, ModesRest DEF modesVars, windowVars, domModeVars, modesHist, ModesInv, PageTyped,
       EntriesArePaidFor
  <2> QED
    BY <2>1, <2>2, <2>3, <2>4, <2>5, <2>6, <2>7, <2>8, <2>9, <2>10, <2>11, <2>12, <2>13
       DEF ModesNext, HostStep
<1> QED
  BY <1>1, ModesInvInit, PTL DEF ModesSpec

\* THE WINDOW AND THE PAGE AGREE.  While an element has the pointer lock or fullscreen,
\* or asked for it, the window is in that mode or the page is about to hear that it is
\* not; a mode the page does not have shows what the application wants of its window;
\* and each entry into fullscreen was paid for by a gesture of its own: for any number
\* of elements, requests, gestures and losses.
THEOREM ModesHold == ModesSpec => [](ModeIsBacked /\ BaselineIsReturned /\ EntriesArePaidFor)
<1>1. ModesInv => ModeIsBacked /\ BaselineIsReturned /\ EntriesArePaidFor
  BY DEF ModesInv
<1> QED
  BY <1>1, ModesInvHolds, PTL

-----------------------------------------------------------------------------
(* DragDrop: a drag is told to its own zone, in its own order               *)

\* The stages a queue may hold.
Stages == {"over", "drop", "leave"}
StageItem == [stage : Stages, drag : Drags]

\* What push_drag leaves of a queue when a move comes: all but the moves, in order.
LEMMA MovesAreTaken ==
  ASSUME NEW q \in Seq(StageItem)
  PROVE  /\ WithoutMoves(q) \in Seq(StageItem)
         /\ Kept(WithoutMoves(q), q, {o \in StageItem : o.stage # "over"})
<1> DEFINE K == {o \in StageItem : o.stage # "over"}
           M == {o \in Range(q) : o.stage # "over"}
           r == ItemsIn(q, M)
<1>1. r \in Seq(StageItem) /\ Kept(r, q, M)
  BY ItemsAreKept
<1>2. \A k \in DOMAIN q : q[k] \in M <=> q[k] \in K
  BY DEF Range
<1>3. Kept(r, q, K)
  <2> HIDE DEF r, M, K
  <2>1. QED BY <1>1, <1>2 DEF Kept
<1>4. QED BY <1>1, <1>3 DEF WithoutMoves

\* After place k of a line, drag d ends.
EndsAfter(line, d, k) == \E j \in DOMAIN line : j > k /\ line[j].drag = d /\ line[j].stage # "over"

\* The lines of items in R in which each move is of a drag in L or has its end behind it,
\* and in which the drags in E end.
LinesOf(R, L, E) ==
  {line \in Seq(R) :
     /\ \A k \in DOMAIN line :
          line[k].stage = "over" => line[k].drag \in L \/ EndsAfter(line, line[k].drag, k)
     /\ \A d \in E : EndsAfter(line, d, 0)}

\* What is kept of a line of items in R are items in R.
LEMMA RestIsOfLine ==
  ASSUME NEW R \in SUBSET StageItem, NEW q \in Seq(R)
  PROVE  /\ q \in Seq(StageItem) /\ WithoutMoves(q) \in Seq(R)
         /\ \A k \in DOMAIN WithoutMoves(q) : WithoutMoves(q)[k].stage # "over"
         /\ \A d : EndsAfter(q, d, 0) => EndsAfter(WithoutMoves(q), d, 0)
<1> DEFINE K == {o \in StageItem : o.stage # "over"}
           r == WithoutMoves(q)
<1>1. q \in Seq(StageItem)
  OBVIOUS
<1>2. r \in Seq(StageItem) /\ Kept(r, q, K)
  BY <1>1, MovesAreTaken
<1> HIDE DEF r
<1>3. PICK e \in [DOMAIN r -> DOMAIN q] :
        /\ \A i \in DOMAIN r : r[i] = q[e[i]] /\ q[e[i]] \in K
        /\ \A k \in DOMAIN q : q[k] \in K => \E i \in DOMAIN r : e[i] = k
  BY <1>2 DEF Kept
<1>4. \A i \in DOMAIN r : r[i] \in R /\ r[i].stage # "over"
  BY <1>3
<1>5. r \in Seq(R)
  BY <1>2, <1>4
<1>6. ASSUME NEW d, EndsAfter(q, d, 0) PROVE EndsAfter(r, d, 0)
  <2>1. PICK j \in DOMAIN q : q[j].drag = d /\ q[j].stage # "over"
    BY <1>6 DEF EndsAfter
  <2>2. q[j] \in K
    BY <2>1, <1>1
  <2>3. PICK i \in DOMAIN r : e[i] = j
    BY <2>2, <1>3
  <2>4. i > 0 /\ r[i] = q[j]
    BY <2>3, <1>2, <1>3
  <2>5. QED BY <2>1, <2>3, <2>4 DEF EndsAfter
<1>7. QED BY <1>1, <1>4, <1>5, <1>6 DEF r

\* What joins the end of a line leaves behind each place what was there.
LEMMA LongerLine ==
  ASSUME NEW R, NEW q \in Seq(R), NEW item \in R
  PROVE  /\ Append(q, item) \in Seq(R) /\ Append(q, item) # <<>>
         /\ DOMAIN Append(q, item) = 1 .. (Len(q) + 1) /\ Len(q) \in Nat
         /\ DOMAIN q = 1 .. Len(q) /\ Len(Append(q, item)) = Len(q) + 1
         /\ \A i \in 1 .. Len(q) : Append(q, item)[i] = q[i]
         /\ Append(q, item)[Len(q) + 1] = item
         /\ \A d, k : EndsAfter(q, d, k) => EndsAfter(Append(q, item), d, k)
         /\ item.stage # "over" => \A k \in 0 .. Len(q) : EndsAfter(Append(q, item), item.drag, k)
<1> DEFINE r == Append(q, item)
<1>1. r \in Seq(R) /\ r # <<>>
  <2>1. r \in Seq(R)
    OBVIOUS
  <2>2. Len(r) = Len(q) + 1 /\ Len(q) \in Nat
    OBVIOUS
  <2>3. QED BY <2>1, <2>2
<1>2. /\ DOMAIN r = 1 .. (Len(q) + 1) /\ Len(q) \in Nat /\ DOMAIN q = 1 .. Len(q)
      /\ Len(r) = Len(q) + 1 /\ \A i \in 1 .. Len(q) : r[i] = q[i]
      /\ r[Len(q) + 1] = item
  OBVIOUS
<1> HIDE DEF r
<1>3. ASSUME NEW d, NEW k, EndsAfter(q, d, k) PROVE EndsAfter(r, d, k)
  <2>1. PICK j \in DOMAIN q : j > k /\ q[j].drag = d /\ q[j].stage # "over"
    BY <1>3 DEF EndsAfter
  <2>2. j \in DOMAIN r /\ r[j] = q[j]
    BY <1>2
  <2>3. QED BY <2>1, <2>2 DEF EndsAfter
<1>4. ASSUME item.stage # "over", NEW k \in 0 .. Len(q) PROVE EndsAfter(r, item.drag, k)
  BY <1>2, <1>4 DEF EndsAfter
<1>5. QED BY <1>1, <1>2, <1>3, <1>4 DEF r

\* A stage of a drag in L that is pushed leaves a line such a line, and is its last.
LEMMA PushStays ==
  ASSUME NEW R \in SUBSET StageItem, NEW L, NEW E, NEW q \in LinesOf(R, L, E),
         NEW item \in R, item.drag \in L
  PROVE  /\ Push(q, item) \in LinesOf(R, L, E) /\ Push(q, item) # <<>>
         /\ Push(q, item)[Len(Push(q, item))] = item
<1>1. q \in Seq(R)
  BY DEF LinesOf
<1>2. CASE item.stage = "over"
  <2> DEFINE rest == WithoutMoves(q)
             r == Append(rest, item)
  <2>1. Push(q, item) = r
    BY <1>2 DEF Push
  <2>2. /\ rest \in Seq(R) /\ \A k \in DOMAIN rest : rest[k].stage # "over"
        /\ \A d : EndsAfter(q, d, 0) => EndsAfter(rest, d, 0)
    BY <1>1, RestIsOfLine
  <2> HIDE DEF rest
  <2>3. /\ r \in Seq(R) /\ r # <<>> /\ DOMAIN r = 1 .. (Len(rest) + 1) /\ Len(rest) \in Nat
        /\ DOMAIN rest = 1 .. Len(rest) /\ Len(r) = Len(rest) + 1
        /\ \A i \in 1 .. Len(rest) : r[i] = rest[i]
        /\ r[Len(rest) + 1] = item
        /\ \A d, k : EndsAfter(rest, d, k) => EndsAfter(r, d, k)
    BY <2>2, LongerLine
  <2> HIDE DEF r
  <2>4. \A k \in DOMAIN r : k \in DOMAIN rest \/ k = Len(rest) + 1
    BY <2>3
  <2>5. \A k \in DOMAIN r : r[k].stage = "over" => r[k].drag \in L
    BY <2>2, <2>3, <2>4
  <2>6. \A d \in E : EndsAfter(r, d, 0)
    BY <2>2, <2>3 DEF LinesOf
  <2>7. r \in LinesOf(R, L, E)
    BY <2>3, <2>5, <2>6 DEF LinesOf
  <2>8. QED BY <2>1, <2>3, <2>7
<1>3. CASE item.stage # "over"
  <2> DEFINE r == Append(q, item)
  <2>1. Push(q, item) = r
    BY <1>3 DEF Push
  <2>3. /\ r \in Seq(R) /\ r # <<>> /\ DOMAIN r = 1 .. (Len(q) + 1) /\ Len(q) \in Nat
        /\ DOMAIN q = 1 .. Len(q) /\ Len(r) = Len(q) + 1
        /\ \A i \in 1 .. Len(q) : r[i] = q[i]
        /\ r[Len(q) + 1] = item
        /\ \A d, k : EndsAfter(q, d, k) => EndsAfter(r, d, k)
    BY <1>1, LongerLine
  <2> HIDE DEF r
  <2>4. \A k \in DOMAIN r : k \in DOMAIN q \/ k = Len(q) + 1
    BY <2>3
  <2>5. ASSUME NEW k \in DOMAIN r, r[k].stage = "over"
        PROVE  r[k].drag \in L \/ EndsAfter(r, r[k].drag, k)
    BY <1>3, <2>3, <2>4, <2>5 DEF LinesOf
  <2>6. \A d \in E : EndsAfter(r, d, 0)
    BY <2>3 DEF LinesOf
  <2>7. r \in LinesOf(R, L, E)
    BY <2>3, <2>5, <2>6 DEF LinesOf
  <2>8. QED BY <2>1, <2>3, <2>7
<1>4. QED BY <1>2, <1>3

\* Where a line ends with the end of d, its moves of d are followed too.
LEMMA EndIsLast ==
  ASSUME NEW R \in SUBSET StageItem, NEW L, NEW E, NEW q \in LinesOf(R, L, E), q # <<>>,
         q[Len(q)].stage # "over"
  PROVE  q \in LinesOf(R, L \ {q[Len(q)].drag}, E \cup {q[Len(q)].drag})
<1> DEFINE d == q[Len(q)].drag
<1>1. q \in Seq(R) /\ Len(q) \in DOMAIN q /\ DOMAIN q = 1 .. Len(q) /\ Len(q) > 0
  BY DEF LinesOf
<1>2. ASSUME NEW k \in DOMAIN q, q[k].stage = "over" PROVE EndsAfter(q, d, k)
  BY <1>1, <1>2 DEF EndsAfter
<1>3. EndsAfter(q, d, 0)
  BY <1>1 DEF EndsAfter
<1> HIDE DEF d
<1>4. ASSUME NEW k \in DOMAIN q, q[k].stage = "over"
      PROVE  q[k].drag \in L \ {d} \/ EndsAfter(q, q[k].drag, k)
  BY <1>2, <1>4 DEF LinesOf
<1>5. \A x \in E \cup {d} : EndsAfter(q, x, 0)
  BY <1>3 DEF LinesOf
<1>6. q \in LinesOf(R, L \ {d}, E \cup {d})
  BY <1>1, <1>4, <1>5 DEF LinesOf
<1>7. QED BY <1>6 DEF d

\* The stages of one drag, pushed in turn.
LEMMA PushedStays ==
  ASSUME NEW R \in SUBSET StageItem, NEW L, NEW E, dragQueue \in LinesOf(R, L, E),
         NEW stages \in Seq(Stages), NEW d \in L,
         \A k \in DOMAIN stages : [stage |-> stages[k], drag |-> d] \in R
  PROVE  /\ Pushed(stages, d) \in LinesOf(R, L, E)
         /\ stages = <<>> => Pushed(stages, d) = dragQueue
         /\ stages # <<>> =>
              LET line == Pushed(stages, d) IN
              line # <<>> /\ line[Len(line)] = [stage |-> stages[Len(stages)], drag |-> d]
<1> DEFINE n == Len(stages)
           D == LinesOf(R, L, E)
           base == dragQueue
           item(i) == [stage |-> stages[i], drag |-> d]
           G == [p \in D \X (1 .. n) |-> Push(p[1], item(p[2]))]
           Then(f, t) == Push(f[t \ {Max(t)}], item(Max(t)))
           c == CHOOSE f : f = [t \in SUBSET (DOMAIN stages) |-> IF t = {} THEN base ELSE Then(f, t)]
<1>1. n \in Nat /\ DOMAIN stages = 1 .. n /\ base \in D /\ \A i \in 1 .. n : item(i) \in R
  OBVIOUS
<1>2. ASSUME NEW a \in D, NEW i \in 1 .. n
      PROVE  /\ G[<<a, i>>] = Push(a, item(i)) /\ G[<<a, i>>] \in D
             /\ G[<<a, i>>] # <<>> /\ G[<<a, i>>][Len(G[<<a, i>>])] = item(i)
  <2>1. <<a, i>> \in D \X (1 .. n)
    OBVIOUS
  <2>2. G[<<a, i>>] = Push(a, item(i))
    BY <2>1
  <2>3. item(i) \in R /\ item(i).drag \in L
    BY <1>1
  <2> HIDE DEF item, G
  <2>4. QED BY <2>2, <2>3, PushStays
<1>3. G \in [D \X (1 .. n) -> D]
  <2>1. ASSUME NEW p \in D \X (1 .. n) PROVE Push(p[1], item(p[2])) \in D
    <3>1. p[1] \in D /\ p[2] \in 1 .. n /\ p = <<p[1], p[2]>>
      OBVIOUS
    <3>2. G[<<p[1], p[2]>>] = Push(p[1], item(p[2])) /\ G[<<p[1], p[2]>>] \in D
      <4> HIDE DEF G, D, item, n
      <4>1. QED BY <3>1, <1>2
    <3>3. QED BY <3>2
  <2> HIDE DEF D, item, n
  <2>2. QED BY <2>1
<1> HIDE DEF item
<1>4. PICK it \in [SUBSET (1 .. n) -> D] : Folding(it, n, base, G)
  <2> HIDE DEF G, D, n, base
  <2>1. QED BY <1>1, <1>3, FoldExists
<1>5. ASSUME NEW t \in SUBSET (1 .. n), t # {}
      PROVE  Max(t) \in 1 .. n /\ t \ {Max(t)} \in SUBSET (1 .. n)
  BY <1>1, <1>5, LargestIsIn
<1>6. it = [t \in SUBSET (DOMAIN stages) |-> IF t = {} THEN base ELSE Then(it, t)]
  <2>1. ASSUME NEW t \in SUBSET (1 .. n) PROVE it[t] = IF t = {} THEN base ELSE Then(it, t)
    <3>1. CASE t = {}
      <4> HIDE DEF G, D, base
      <4>1. QED BY <3>1, <1>4 DEF Folding
    <3>2. CASE t # {}
      <4> HIDE DEF G, D, base
      <4>1. Max(t) \in 1 .. n /\ it[t \ {Max(t)}] \in D
        BY <3>2, <1>4, <1>5
      <4>2. it[t] = G[<<it[t \ {Max(t)}], Max(t)>>]
        BY <3>2, <1>4 DEF Folding
      <4>3. QED BY <3>2, <4>1, <4>2, <1>2
    <3>3. QED BY <3>1, <3>2
  <2> HIDE DEF Then, base
  <2>2. QED BY <2>1, <1>1, <1>4
<1>7. c = [t \in SUBSET (DOMAIN stages) |-> IF t = {} THEN base ELSE Then(c, t)]
  <2> HIDE DEF Then, base
  <2>1. QED BY <1>6
<1>8. Pushed(stages, d) = c[1 .. n]
  BY <1>1 DEF Pushed, FoldLeft, MapThenFoldSet, item
<1>9. PICK h \in [0 .. n -> D] : h[n] = c[1 .. n] /\ Stepping(h, n, base, G)
  <2>1. c[{}] = base
    <3> HIDE DEF Then, c, base
    <3>1. QED BY <1>7
  <2>2. ASSUME NEW t \in SUBSET (1 .. n), t # {}, c[t \ {Max(t)}] \in D
        PROVE  c[t] = G[<<c[t \ {Max(t)}], Max(t)>>]
    <3> HIDE DEF c, base
    <3>1. c[t] = Then(c, t)
      <4> HIDE DEF Then
      <4>1. QED BY <1>1, <1>7, <2>2
    <3> HIDE DEF G, D
    <3>2. QED BY <3>1, <1>2, <1>5, <2>2
  <2> HIDE DEF G, D, n, base, c
  <2>3. FoldingIn(c, n, D, base, G)
    BY <2>1, <2>2 DEF FoldingIn
  <2>4. QED BY <1>1, <1>3, <2>3, FoldSteps
<1>10. h[n] \in D
  BY <1>1, <1>9
<1>11. ASSUME stages # <<>> PROVE h[n] # <<>> /\ h[n][Len(h[n])] = item(n)
  <2>1. n \in 1 .. n /\ n - 1 \in 0 .. n
    BY <1>11
  <2> HIDE DEF G, D, n, base, c
  <2>2. h[n - 1] \in D /\ h[n] = G[<<h[n - 1], n>>]
    BY <2>1, <1>9 DEF Stepping
  <2>3. QED BY <2>1, <2>2, <1>2
<1>12. ASSUME stages = <<>> PROVE h[n] = base
  <2>1. n = 0
    BY <1>12
  <2> HIDE DEF G, D, base, c, n
  <2>2. QED BY <2>1, <1>9 DEF Stepping
<1>13. QED BY <1>8, <1>9, <1>10, <1>11, <1>12 DEF item

\* With no stage to push, the queue is what it was.
LEMMA NothingPushed ==
  ASSUME NEW d
  PROVE  Pushed(<<>>, d) = dragQueue
<1> DEFINE Then(f, t) == Push(f[t \ {Max(t)}], [stage |-> <<>>[Max(t)], drag |-> d])
           c == CHOOSE f : f = [t \in SUBSET {} |-> IF t = {} THEN dragQueue ELSE Then(f, t)]
           it == [t \in SUBSET {} |-> dragQueue]
<1>1. DOMAIN <<>> = {} /\ SUBSET {} = {{}}
  OBVIOUS
<1>2. it = [t \in SUBSET {} |-> IF t = {} THEN dragQueue ELSE Then(it, t)]
  BY <1>1
<1>3. c = [t \in SUBSET {} |-> IF t = {} THEN dragQueue ELSE Then(c, t)]
  <2> HIDE DEF Then
  <2>1. QED BY <1>2
<1>4. c[{}] = dragQueue
  <2> HIDE DEF Then, c
  <2>1. QED BY <1>1, <1>3
<1>5. Pushed(<<>>, d) = c[{}]
  BY <1>1 DEF Pushed, FoldLeft, MapThenFoldSet
<1>6. QED BY <1>4, <1>5

\* Types, of what the proof needs.
DragSession == [id : Drags, files : {"awaiting", "known", "refused"}, held : Seq(Stages),
                unread : BOOLEAN, at : BOOLEAN, ended : BOOLEAN]
DragTyped ==
  /\ offer \in [Drags -> {"none", "files", "links", "text"}]
  /\ dragNo \in 0 .. MaxDrags /\ dragAt \in {"none", "over", "ended"}
  /\ session = NoSession \/ session \in DragSession
  /\ transfer \in 0 .. dragNo

\* The document is over an element while it holds the files of a drag, and only then.
TargetHolds == target # NoZone <=> transfer # 0

\* What is held of a drag: a move that still counts, or what goes before its drop.
HeldFits(heldBack, ended) ==
  /\ ended => heldBack = <<>> \/ heldBack[Len(heldBack)] # "over"
  /\ ~ended => \A k \in DOMAIN heldBack : heldBack[k] = "over"

\* A session is of the platform's drag, and one whose drag has ended still awaits its files.
SessionIsOurs ==
  session \in DragSession =>
    /\ session.id = dragNo
    /\ session.ended => dragAt = "ended" /\ session.files = "awaiting"
    /\ ~session.ended => dragAt = "over"
    /\ session.files = "known" => offer[session.id] = "files"
    /\ session.files = "awaiting" => HeldFits(session.held, session.ended)

\* The stages a queue may hold now: of drags that were reported, moves of files alone.
RealItems == {o \in StageItem : o.drag <= dragNo /\ (o.stage = "over" => offer[o.drag] = "files")}

\* What was queued, and what is held in the document, is of real files.
QueuedIsReal ==
  /\ dragging \in Seq(RealItems) /\ dragQueue \in Seq(RealItems)
  /\ transfer # 0 => offer[transfer] = "files"

\* The drag whose stages go straight to the queue, if there is one.
LiveDrags ==
  {d \in Drags : /\ d = dragNo /\ dragAt = "over" /\ session \in DragSession
                 /\ session.id = d /\ session.files = "known" /\ ~session.ended}

\* What is on its way to the document, and the drags it tells the end of.
DragLine == dragging \o dragQueue
EndingDrags == {d \in Drags : EndsAfter(DragLine, d, 0)}

\* Until an error, whatever moved over the document goes on or has its end behind it.
MovesAreFollowed ==
  ~dragError =>
    /\ DragLine \in LinesOf(RealItems, LiveDrags, {})
    /\ transfer # 0 => transfer \in LiveDrags \cup EndingDrags

\* The inductive invariant of DragDrop.
DragInv == DragTyped /\ TargetHolds /\ SessionIsOurs /\ QueuedIsReal /\ MovesAreFollowed

\* A document without a drag satisfies the invariant.
LEMMA DragInitially == DragInit => DragInv
<1> SUFFICES ASSUME DragInit PROVE DragInv
  OBVIOUS
<1>1. MaxDrags \in Nat
  BY DragAssumption
<1>2. ~(NoSession \in DragSession)
  BY DEF NoSession, DragSession
<1>3. DragTyped /\ TargetHolds /\ SessionIsOurs
  BY <1>1, <1>2 DEF DragInit, DragTyped, TargetHolds, SessionIsOurs
<1>4. <<>> \in Seq(RealItems) /\ <<>> \o <<>> = <<>>
  OBVIOUS
<1>5. QueuedIsReal
  BY <1>4 DEF DragInit, QueuedIsReal
<1>6. <<>> \in LinesOf(RealItems, LiveDrags, {})
  BY <1>4 DEF LinesOf
<1>7. MovesAreFollowed
  BY <1>4, <1>6 DEF DragInit, MovesAreFollowed, DragLine
<1>8. QED BY <1>3, <1>5, <1>7 DEF DragInv

\* What is queued together with what was taken: one line.
LEMMA OneLine ==
  ASSUME NEW R, NEW p \in Seq(R), NEW q \in Seq(R)
  PROVE  p \o q \in Seq(R) /\ <<>> \o q = q /\ q \o <<>> = q
  OBVIOUS

\* A line of fewer items, fewer drags and more ends is one of more, more and fewer.
LEMMA LinesWiden ==
  ASSUME NEW R, NEW L, NEW E, NEW M, NEW F, NEW S, R \subseteq S, L \subseteq M, F \subseteq E,
         NEW q \in LinesOf(R, L, E)
  PROVE  q \in LinesOf(S, M, F)
<1>1. q \in Seq(R)
  BY DEF LinesOf
<1>2. q \in Seq(S)
  BY <1>1
<1>3. QED BY <1>2 DEF LinesOf


\* What is held while the files are awaited stays what it should be.
LEMMA HeldStaysFit ==
  ASSUME NEW heldBack \in Seq(Stages)
  PROVE  /\ HeldWith(heldBack, "none") = heldBack
         /\ HeldFits(heldBack, FALSE) =>
              HeldWith(heldBack, "over") \in Seq(Stages) /\ HeldFits(HeldWith(heldBack, "over"), FALSE)
         /\ \A stage \in {"drop", "leave"} :
              HeldWith(heldBack, stage) \in Seq(Stages) /\ HeldFits(HeldWith(heldBack, stage), TRUE)
<1>1. HeldWith(heldBack, "none") = heldBack
  BY DEF HeldWith
<1>2. ASSUME NEW stage \in Stages
      PROVE  /\ Append(heldBack, stage) \in Seq(Stages) /\ Len(Append(heldBack, stage)) = Len(heldBack) + 1
             /\ DOMAIN Append(heldBack, stage) = 1 .. (Len(heldBack) + 1) /\ DOMAIN heldBack = 1 .. Len(heldBack)
             /\ \A i \in 1 .. Len(heldBack) : Append(heldBack, stage)[i] = heldBack[i]
             /\ Append(heldBack, stage)[Len(heldBack) + 1] = stage /\ Len(heldBack) \in Nat
  OBVIOUS
<1>3. ASSUME HeldFits(heldBack, FALSE)
      PROVE  HeldWith(heldBack, "over") \in Seq(Stages) /\ HeldFits(HeldWith(heldBack, "over"), FALSE)
  <2>1. CASE heldBack # <<>> /\ Last(heldBack) = "over"
    BY <2>1, <1>3 DEF HeldWith
  <2>2. CASE ~(heldBack # <<>> /\ Last(heldBack) = "over")
    <3> DEFINE r == Append(heldBack, "over")
    <3>1. HeldWith(heldBack, "over") = r
      BY <2>2 DEF HeldWith
    <3>2. /\ r \in Seq(Stages) /\ DOMAIN r = 1 .. (Len(heldBack) + 1) /\ DOMAIN heldBack = 1 .. Len(heldBack)
          /\ \A i \in 1 .. Len(heldBack) : r[i] = heldBack[i]
          /\ r[Len(heldBack) + 1] = "over" /\ Len(heldBack) \in Nat
      BY <1>2 DEF Stages
    <3> HIDE DEF r
    <3>3. ASSUME NEW k \in DOMAIN r PROVE r[k] = "over"
      BY <3>2, <1>3 DEF HeldFits
    <3>4. QED BY <3>1, <3>2, <3>3 DEF HeldFits
  <2>3. QED BY <2>1, <2>2
<1>4. HeldWith(heldBack, "drop") \in Seq(Stages) /\ HeldFits(HeldWith(heldBack, "drop"), TRUE)
  <2> DEFINE r == Append(heldBack, "drop")
  <2>1. HeldWith(heldBack, "drop") = r
    BY DEF HeldWith
  <2>2. r \in Seq(Stages) /\ Len(r) = Len(heldBack) + 1 /\ r[Len(heldBack) + 1] = "drop"
    BY <1>2 DEF Stages
  <2> HIDE DEF r
  <2>3. r[Len(r)] # "over"
    BY <2>2
  <2>4. QED BY <2>1, <2>2, <2>3 DEF HeldFits
<1>5. HeldWith(heldBack, "leave") \in Seq(Stages) /\ HeldFits(HeldWith(heldBack, "leave"), TRUE)
  BY DEF HeldWith, HeldFits
<1>6. QED BY <1>1, <1>3, <1>4, <1>5

\* A step that queues nothing, when no drag is live or the live one stays so.
LEMMA QueueRests ==
  ASSUME DragInv, UNCHANGED <<dragging, dragQueue, dragError, target, transfer>>,
         RealItems \subseteq RealItems', LiveDrags \subseteq LiveDrags'
  PROVE  /\ (transfer # 0 => offer'[transfer] = "files") => QueuedIsReal'
         /\ MovesAreFollowed' /\ TargetHolds'
<1>1. dragging' \in Seq(RealItems') /\ dragQueue' \in Seq(RealItems')
  BY DEF DragInv, QueuedIsReal
<1>2. DragLine' = DragLine
  BY DEF DragLine
<1>3. EndingDrags' = EndingDrags
  BY <1>2 DEF EndingDrags
<1>4. ASSUME ~dragError PROVE DragLine' \in LinesOf(RealItems', LiveDrags', {})
  BY <1>4, LinesWiden, <1>2 DEF DragInv, MovesAreFollowed
<1>5. MovesAreFollowed'
  BY <1>3, <1>4 DEF DragInv, MovesAreFollowed
<1>6. TargetHolds'
  BY DEF DragInv, TargetHolds
<1>7. QED BY <1>1, <1>5, <1>6 DEF QueuedIsReal

\* What an event of the platform's drag does to its session and to the queue.
LEMMA AdvanceKeeps ==
  ASSUME DragInv, session \in DragSession, NEW s \in DragSession, NEW stage \in Stages \cup {"none"},
         Advances(s, stage), dragging = <<>>,
         UNCHANGED <<offer, dragNo, dragging, dragError, target, transfer>>,
         s.id = session.id, s.files = session.files,
         s.ended => dragAt' = "ended", ~s.ended => dragAt' = "over",
         s.files = "awaiting" =>
           HeldWith(s.held, stage) \in Seq(Stages) /\ HeldFits(HeldWith(s.held, stage), s.ended),
         s.files = "known" => stage # "none" /\ (s.ended => stage # "over")
  PROVE  DragInv'
<1> DEFINE d == s.id
           heldBack == HeldWith(s.held, stage)
           over(t) == IF t.ended THEN NoSession ELSE t
<1>1. /\ d \in Drags /\ d = dragNo /\ s.files \in {"awaiting", "known", "refused"}
      /\ s.ended \in BOOLEAN
      /\ s.files = "known" => offer[d] = "files"
  BY DEF DragInv, SessionIsOurs, DragSession
<1>2. RealItems' = RealItems
  BY DEF RealItems
<1>3. dragQueue \in Seq(RealItems) /\ RealItems \subseteq StageItem
  BY DEF DragInv, QueuedIsReal, RealItems
<1>4. DragLine = dragQueue
  BY <1>3 DEF DragLine
<1>5. ~(NoSession \in DragSession)
  BY DEF NoSession, DragSession
<1>6. LiveDrags \subseteq {d} /\ (s.files # "known" => LiveDrags = {})
  BY DEF LiveDrags, DragInv, SessionIsOurs
<1>7. ASSUME NEW t \in DragSession, t.id = d, t.ended = s.ended, t.files = "known" => offer[d] = "files",
             t.files = "awaiting" => HeldFits(t.held, t.ended),
             session' = (IF t.files = "awaiting" THEN t ELSE over(t))
      PROVE  DragTyped' /\ SessionIsOurs' /\ (session' = t \/ session' = NoSession)
  BY <1>7, <1>1, <1>5 DEF DragInv, DragTyped, SessionIsOurs
<1>8. ASSUME dragQueue' = dragQueue, s.files # "known"
      PROVE  QueuedIsReal' /\ MovesAreFollowed' /\ TargetHolds'
  BY <1>6, <1>8, <1>2, QueueRests DEF DragInv, QueuedIsReal
<1>9. ASSUME NEW stages \in Seq(Stages), offer[d] = "files", dragQueue' = Pushed(stages, d),
             \/ ~s.ended /\ LiveDrags' = {d}
             \/ s.ended /\ stages # <<>> /\ stages[Len(stages)] # "over"
      PROVE  QueuedIsReal' /\ MovesAreFollowed' /\ TargetHolds'
  <2>1. \A k \in DOMAIN stages : [stage |-> stages[k], drag |-> d] \in RealItems
    BY <1>1, DragAssumption, <1>9 DEF Drags, RealItems, StageItem
  <2>2. dragQueue \in LinesOf(RealItems, Drags, {})
    BY <1>3 DEF LinesOf, RealItems, StageItem
  <2>3. dragQueue' \in Seq(RealItems)
    <3>1. Pushed(stages, d) \in LinesOf(RealItems, Drags, {})
      BY <1>1, <1>3, <2>1, <2>2, PushedStays
    <3>2. QED BY <3>1, <1>9 DEF LinesOf
  <2>4. DragLine' = dragQueue'
    BY <2>3 DEF DragLine
  <2>5. QueuedIsReal' /\ TargetHolds'
    BY <1>2, <2>3 DEF DragInv, QueuedIsReal, TargetHolds
  <2>6. ASSUME ~dragError
        PROVE  /\ DragLine' \in LinesOf(RealItems', LiveDrags', {})
               /\ transfer # 0 => transfer \in LiveDrags' \cup EndingDrags'
    <3> DEFINE R == RealItems
               E == EndingDrags
               line == dragQueue'
    <3>1. dragQueue \in LinesOf(R, LiveDrags, {}) /\ (transfer # 0 => transfer \in LiveDrags \cup E)
      BY <2>6, <1>4 DEF DragInv, MovesAreFollowed
    <3>2. dragQueue \in LinesOf(R, {d}, E)
      BY <3>1, <1>4, <1>6 DEF LinesOf, EndingDrags
    <3>3. R \subseteq StageItem
      BY <1>3
    <3> HIDE DEF R, E
    <3>4. /\ line \in LinesOf(R, {d}, E)
          /\ stages # <<>> =>
               line # <<>> /\ line[Len(line)] = [stage |-> stages[Len(stages)], drag |-> d]
      BY <1>9, <2>1, <3>2, <3>3, PushedStays DEF R
    <3> HIDE DEF line
    <3>5. EndingDrags' = {x \in Drags : EndsAfter(line, x, 0)}
      BY <2>4 DEF EndingDrags, line
    <3>6. E \subseteq Drags
      BY DEF E, EndingDrags
    <3>7. CASE ~s.ended /\ LiveDrags' = {d}
      BY <3>4, <3>5, <3>6, <3>1, <3>7, <1>2, <1>6, <2>4 DEF LinesOf, R, line
    <3>8. CASE s.ended /\ stages # <<>> /\ stages[Len(stages)] # "over"
      <4>1. line # <<>> /\ line[Len(line)].stage # "over" /\ line[Len(line)].drag = d
        BY <3>4, <3>8
      <4>2. line \in LinesOf(R, {d} \ {line[Len(line)].drag}, E \cup {line[Len(line)].drag})
        BY <3>3, <3>4, <4>1, EndIsLast
      <4>3. line \in LinesOf(R, {}, E \cup {d})
        BY <4>1, <4>2
      <4>4. line \in LinesOf(R, LiveDrags', {}) /\ E \cup {d} \subseteq EndingDrags'
        BY <4>3, <3>5, <3>6, <1>1 DEF LinesOf
      <4>5. QED BY <4>4, <3>1, <1>2, <1>6, <2>4 DEF R, line
    <3>9. QED BY <1>9, <3>7, <3>8
  <2>7. MovesAreFollowed'
    BY <2>6 DEF MovesAreFollowed
  <2>8. QED BY <2>5, <2>7
<1>10. CASE /\ s.files = "known" /\ dragQueue' = Pushed(IF stage = "none" THEN <<>> ELSE <<stage>>, s.id)
            /\ session' = over(s)
  <2>1. DragTyped' /\ SessionIsOurs' /\ (session' = s \/ session' = NoSession)
    BY <1>1, <1>7, <1>10
  <2>2. <<stage>> \in Seq(Stages) /\ <<stage>> # <<>> /\ <<stage>>[Len(<<stage>>)] = stage
    BY <1>10
  <2>3. dragQueue' = Pushed(<<stage>>, d) /\ offer[d] = "files"
    BY <1>1, <1>10
  <2>4. \/ ~s.ended /\ LiveDrags' = {d}
        \/ s.ended /\ <<stage>> # <<>> /\ <<stage>>[Len(<<stage>>)] # "over"
    BY <1>1, <1>10, <2>2 DEF LiveDrags
  <2>5. QueuedIsReal' /\ MovesAreFollowed' /\ TargetHolds'
    BY <1>9, <2>2, <2>3, <2>4
  <2>6. QED BY <2>1, <2>5 DEF DragInv
<1>11. CASE s.files = "refused" /\ session' = over(s) /\ UNCHANGED dragQueue
  BY <1>7, <1>8, <1>11 DEF DragInv
<1>12. CASE s.files = "awaiting" /\ session' = [s EXCEPT !.held = heldBack] /\ UNCHANGED dragQueue
  <2> DEFINE t == [s EXCEPT !.held = heldBack]
  <2>1. heldBack \in Seq(Stages) /\ HeldFits(heldBack, s.ended)
    BY <1>12
  <2> HIDE DEF heldBack
  <2>2. t \in DragSession /\ t.id = d /\ t.ended = s.ended /\ t.files = "awaiting" /\ t.held = heldBack
    BY <2>1, <1>12 DEF DragSession
  <2>3. session' = t
    BY <1>12
  <2> HIDE DEF t
  <2>4. DragTyped' /\ SessionIsOurs'
    BY <1>7, <2>1, <2>2, <2>3
  <2>5. QED BY <1>8, <1>12, <2>4 DEF DragInv
<1>13. CASE /\ s.files = "awaiting" /\ s.unread /\ offer[s.id] = "files"
            /\ dragQueue' = Pushed(heldBack, s.id)
            /\ session' = over([s EXCEPT !.files = "known", !.held = <<>>])
  <2> DEFINE t == [s EXCEPT !.files = "known", !.held = <<>>]
  <2>1. heldBack \in Seq(Stages) /\ HeldFits(heldBack, s.ended)
    BY <1>13
  <2> HIDE DEF heldBack
  <2>2. <<>> \in Seq(Stages)
    OBVIOUS
  <2>3. t \in DragSession /\ t.id = d /\ t.ended = s.ended /\ t.files = "known"
    BY <2>2 DEF DragSession
  <2>4. session' = over(t)
    BY <1>13
  <2> HIDE DEF t
  <2>5. DragTyped' /\ SessionIsOurs'
    BY <1>7, <1>13, <2>3, <2>4
  <2>6. CASE s.ended /\ heldBack = <<>>
    BY <1>3, <1>1, NothingPushed, <2>6, <1>8, <1>13, <2>5 DEF LinesOf, RealItems, StageItem,
       DragInv
  <2>7. CASE ~(s.ended /\ heldBack = <<>>)
    BY <2>1, <2>7, <2>3, <2>4, <1>1, <1>9, <1>13, <2>5 DEF HeldFits, LiveDrags, DragInv
  <2>8. QED BY <2>6, <2>7
<1>14. CASE /\ s.files = "awaiting" /\ UNCHANGED dragQueue
            /\ session' = over([s EXCEPT !.files = "refused", !.held = <<>>])
  <2> DEFINE t == [s EXCEPT !.files = "refused", !.held = <<>>]
  <2>1. <<>> \in Seq(Stages)
    OBVIOUS
  <2>2. t \in DragSession /\ t.id = d /\ t.ended = s.ended /\ t.files = "refused"
    BY <2>1 DEF DragSession
  <2>3. session' = over(t)
    BY <1>14
  <2> HIDE DEF t
  <2>4. DragTyped' /\ SessionIsOurs'
    BY <1>7, <2>2, <2>3
  <2>5. QED BY <1>8, <1>14, <2>4 DEF DragInv
<1>15. QED BY <1>10, <1>11, <1>12, <1>13, <1>14 DEF Advances

\* A frame that takes the first stage of a line leaves a line of the same kind.
LEMMA ShorterLine ==
  ASSUME NEW R \in SUBSET StageItem, NEW L, NEW p \in Seq(R), NEW q \in Seq(R), p # <<>>,
         p \o q \in LinesOf(R, L, {})
  PROVE  /\ Head(p) \in R /\ Tail(p) \in Seq(R) /\ Tail(p) \o q \in LinesOf(R, L, {})
         /\ Head(p).stage = "over" =>
              Head(p).drag \in L \/ EndsAfter(Tail(p) \o q, Head(p).drag, 0)
<1> DEFINE line == p \o q
           rest == Tail(p) \o q
<1>1. Head(p) \in R /\ Tail(p) \in Seq(R)
  OBVIOUS
<1>2. line \in Seq(R) /\ rest \in Seq(R)
  BY <1>1
<1>3. /\ Len(line) \in Nat \ {0} /\ DOMAIN line = 1 .. Len(line)
      /\ Len(rest) = Len(line) - 1 /\ DOMAIN rest = 1 .. (Len(line) - 1)
      /\ line[1] = Head(p)
  BY <1>1, <1>2
<1>4. \A k \in DOMAIN rest : k + 1 \in DOMAIN line /\ rest[k] = line[k + 1]
  BY <1>3, <1>1
<1> HIDE DEF line, rest
<1>5. ASSUME NEW d, NEW k \in Nat, EndsAfter(line, d, k + 1) PROVE EndsAfter(rest, d, k)
  <2>1. PICK j \in DOMAIN line : j > k + 1 /\ line[j].drag = d /\ line[j].stage # "over"
    BY <1>5 DEF EndsAfter
  <2>2. j - 1 \in DOMAIN rest /\ j - 1 > k /\ (j - 1) + 1 = j
    BY <2>1, <1>3
  <2>3. rest[j - 1] = line[j]
    BY <2>2, <1>4
  <2>4. QED BY <2>1, <2>2, <2>3 DEF EndsAfter
<1>6. \A k \in DOMAIN line :
        line[k].stage = "over" => line[k].drag \in L \/ EndsAfter(line, line[k].drag, k)
  BY DEF LinesOf, line
<1>7. ASSUME NEW k \in DOMAIN rest, rest[k].stage = "over"
      PROVE  rest[k].drag \in L \/ EndsAfter(rest, rest[k].drag, k)
  BY <1>3, <1>4, <1>6, <1>7, <1>5
<1>8. rest \in LinesOf(R, L, {})
  BY <1>2, <1>7 DEF LinesOf
<1>9. ASSUME Head(p).stage = "over" PROVE Head(p).drag \in L \/ EndsAfter(rest, Head(p).drag, 0)
  BY <1>3, <1>6, <1>9, <1>5
<1>10. QED BY <1>1, <1>8, <1>9 DEF rest

\* A stage that is dispatched: the document holds what it says, or nothing.
LEMMA StageIsTold ==
  ASSUME DragInv, dragging # <<>>, dragging' = Tail(dragging),
         UNCHANGED <<platformVars, session, dragQueue, dragError>>,
         \/ target' = NoZone /\ transfer' = 0
         \/ /\ Head(dragging).stage = "over" /\ target' \in Zones
            /\ transfer' = Head(dragging).drag
  PROVE  DragInv'
<1>1. RealItems' = RealItems /\ LiveDrags' = LiveDrags
  BY DEF platformVars, RealItems, LiveDrags
<1>2. dragging \in Seq(RealItems) /\ dragQueue \in Seq(RealItems) /\ RealItems \in SUBSET StageItem
  BY DEF DragInv, QueuedIsReal, RealItems
<1>3. Head(dragging) \in RealItems /\ Tail(dragging) \in Seq(RealItems)
  <2> DEFINE R == RealItems
  <2> HIDE DEF R
  <2>1. dragging \in Seq(R)
    BY <1>2 DEF R
  <2>2. Head(dragging) \in R /\ Tail(dragging) \in Seq(R)
    BY <2>1
  <2>3. QED BY <2>2 DEF R
<1>4. Head(dragging).drag \in 1 .. dragNo /\ dragNo \in Nat
      /\ (Head(dragging).stage = "over" => offer[Head(dragging).drag] = "files")
  BY <1>3, DragAssumption DEF RealItems, StageItem, Drags, DragInv, DragTyped
<1>5. DragTyped' /\ TargetHolds'
  BY <1>4, DragAssumption DEF DragInv, DragTyped, TargetHolds, platformVars
<1>6. SessionIsOurs'
  BY DEF DragInv, SessionIsOurs, platformVars
<1>7. QueuedIsReal'
  BY <1>1, <1>2, <1>3, <1>4 DEF QueuedIsReal, platformVars
<1>8. ASSUME ~dragError
      PROVE  /\ DragLine' \in LinesOf(RealItems', LiveDrags', {})
             /\ transfer' # 0 => transfer' \in LiveDrags' \cup EndingDrags'
  <2>1. dragging \o dragQueue \in LinesOf(RealItems, LiveDrags, {})
    BY <1>8 DEF DragInv, MovesAreFollowed, DragLine
  <2>2. /\ Tail(dragging) \o dragQueue \in LinesOf(RealItems, LiveDrags, {})
        /\ Head(dragging).stage = "over" =>
             \/ Head(dragging).drag \in LiveDrags
             \/ EndsAfter(Tail(dragging) \o dragQueue, Head(dragging).drag, 0)
    BY <1>2, <2>1, ShorterLine
  <2>3. DragLine' = Tail(dragging) \o dragQueue
    BY DEF DragLine
  <2>4. Head(dragging).drag \in Drags
    BY <1>3 DEF RealItems, StageItem
  <2>5. transfer' # 0 => transfer' \in LiveDrags' \cup EndingDrags'
    BY <1>1, <2>2, <2>3, <2>4 DEF EndingDrags
  <2>6. QED BY <1>1, <2>2, <2>3, <2>5
<1>9. MovesAreFollowed'
  BY <1>8 DEF MovesAreFollowed
<1>10. QED BY <1>5, <1>6, <1>7, <1>9 DEF DragInv

\* A drag that enters the window has told the document nothing.
LEMMA EnteredKeeps ==
  ASSUME DragInv, NEW at \in BOOLEAN, NEW what \in {"files", "links", "text"}, Entered(at, what)
  PROVE  DragInv'
<1> DEFINE s == Started(dragNo + 1, at)
           stage == IF at THEN "over" ELSE "none"
<1>1. /\ dragging = <<>> /\ UNCHANGED <<dragging, dragError, target, transfer>>
      /\ dragAt # "over" /\ dragNo < MaxDrags /\ dragNo' = dragNo + 1 /\ dragAt' = "over"
      /\ offer' = [offer EXCEPT ![dragNo + 1] = what]
      /\ Advances(s, stage) \/ (session' = NoSession /\ UNCHANGED dragQueue)
  BY DEF Entered, Reporting, dropVars
<1>2. /\ dragNo \in Nat /\ MaxDrags \in Nat /\ dragNo + 1 \in Drags /\ transfer \in 0 .. dragNo
      /\ offer \in [Drags -> {"none", "files", "links", "text"}]
  BY <1>1, DragAssumption DEF DragInv, DragTyped, Drags
<1>3. <<>> \in Seq(Stages)
  OBVIOUS
<1>4. s \in DragSession /\ s.id = dragNo + 1 /\ s.files = "awaiting" /\ s.ended = FALSE
      /\ s.unread = FALSE /\ s.held = <<>>
  BY <1>2, <1>3 DEF Started, DragSession
<1> HIDE DEF s
<1>5. UNCHANGED dragQueue /\ (session' = NoSession \/ session' = [s EXCEPT !.held = HeldWith(s.held, stage)])
  BY <1>1, <1>4 DEF Advances
<1>6. HeldWith(s.held, stage) \in Seq(Stages) /\ HeldFits(HeldWith(s.held, stage), FALSE)
  <2>1. HeldFits(<<>>, FALSE)
    BY DEF HeldFits
  <2>2. CASE at
    BY <1>3, <2>1, HeldStaysFit, <1>4, <2>2
  <2>3. CASE ~at
    BY <1>3, HeldStaysFit, <1>4, <2>1, <2>3
  <2>4. QED BY <2>2, <2>3
<1> DEFINE heldBack == HeldWith(s.held, stage)
           t == [s EXCEPT !.held = heldBack]
<1> HIDE DEF heldBack
<1>7. t \in DragSession /\ t.id = dragNo + 1 /\ t.files = "awaiting" /\ t.ended = FALSE /\ t.held = heldBack
  BY <1>4, <1>6 DEF DragSession, heldBack
<1>8. session' = NoSession \/ session' = t
  BY <1>5 DEF heldBack
<1> HIDE DEF t
<1>9. ~(NoSession \in DragSession)
  BY DEF NoSession, DragSession
<1>10. /\ offer' \in [Drags -> {"none", "files", "links", "text"}]
       /\ \A d \in Drags : d <= dragNo => offer'[d] = offer[d]
  BY <1>1, <1>2
<1>11. DragTyped'
  BY <1>1, <1>2, <1>7, <1>8, <1>10 DEF DragTyped, Drags
<1>12. SessionIsOurs'
  BY <1>9, <1>1, <1>6, <1>7, <1>8 DEF SessionIsOurs, heldBack
<1>13. RealItems \subseteq RealItems'
  BY <1>1, <1>2, <1>10 DEF RealItems, StageItem, Drags
<1>14. LiveDrags \subseteq LiveDrags'
  BY <1>1 DEF LiveDrags
<1>15. transfer # 0 => offer'[transfer] = "files"
  BY <1>2, <1>10 DEF Drags, DragInv, QueuedIsReal
<1>16. QueuedIsReal' /\ MovesAreFollowed' /\ TargetHolds'
  BY <1>1, <1>5, <1>13, <1>14, <1>15, QueueRests
<1>17. QED BY <1>11, <1>12, <1>16 DEF DragInv

\* A move of the drag that is over the window.
LEMMA MovedKeeps == ASSUME DragInv, Moved PROVE DragInv'
<1> DEFINE s == [session EXCEPT !.at = TRUE]
<1>1. /\ dragging = <<>> /\ UNCHANGED <<offer, dragNo, dragAt, dragging, dragError, target, transfer>>
      /\ dragAt = "over" /\ Ours /\ Advances(s, "over")
  BY DEF Moved, Reporting, dropVars
<1>2. session \in DragSession
  BY <1>1 DEF Ours, NoSession, DragInv, DragTyped
<1>3. /\ s \in DragSession /\ s.id = session.id /\ s.files = session.files
      /\ s.ended = session.ended /\ s.held = session.held /\ s.held \in Seq(Stages)
      /\ s.ended \in BOOLEAN
  BY <1>2 DEF DragSession
<1> HIDE DEF s
<1>4. ~s.ended
  BY <1>1, <1>2, <1>3 DEF DragInv, SessionIsOurs
<1>5. s.files = "awaiting" => HeldFits(s.held, FALSE)
  BY <1>2, <1>3, <1>4 DEF DragInv, SessionIsOurs
<1>6. s.files = "awaiting" =>
        HeldWith(s.held, "over") \in Seq(Stages) /\ HeldFits(HeldWith(s.held, "over"), s.ended)
  BY <1>3, <1>4, <1>5, HeldStaysFit
<1>7. "over" \in Stages \cup {"none"}
  BY DEF Stages
<1>8. QED BY <1>1, <1>2, <1>3, <1>4, <1>6, <1>7, AdvanceKeeps

\* The end of a drag.
LEMMA DragEndsKeeps == ASSUME DragInv, NEW stage \in {"drop", "leave"}, DragEnds(stage) PROVE DragInv'
<1>1. /\ dragging = <<>> /\ UNCHANGED <<offer, dragNo, dragging, dragError, target, transfer>>
      /\ dragAt = "over" /\ dragAt' = "ended"
  BY DEF DragEnds, Reporting, dropVars
<1>2. CASE Ours
  <2> DEFINE s == [session EXCEPT !.ended = TRUE]
             word == IF session.at THEN stage ELSE "leave"
  <2>1. Advances(s, word)
    BY <1>2 DEF DragEnds
  <2>2. session \in DragSession
    BY <1>2 DEF Ours, NoSession, DragInv, DragTyped
  <2>3. /\ s \in DragSession /\ s.id = session.id /\ s.files = session.files
        /\ s.ended = TRUE /\ s.held \in Seq(Stages)
    BY <2>2 DEF DragSession
  <2>4. word \in {"drop", "leave"} /\ word \in Stages \cup {"none"}
    BY DEF Stages
  <2> HIDE DEF s, word
  <2>5. HeldWith(s.held, word) \in Seq(Stages) /\ HeldFits(HeldWith(s.held, word), s.ended)
    BY <2>3, <2>4, HeldStaysFit
  <2>6. word # "none" /\ word # "over"
    BY <2>4
  <2>7. QED BY <1>1, <2>1, <2>2, <2>3, <2>4, <2>5, <2>6, AdvanceKeeps
<1>3. CASE ~Ours
  <2>1. UNCHANGED <<session, dragQueue>>
    BY <1>3 DEF DragEnds
  <2>2. ~(session \in DragSession)
    BY <1>3 DEF DragInv, SessionIsOurs, DragSession, Drags, Ours
  <2>3. RealItems \subseteq RealItems' /\ LiveDrags \subseteq LiveDrags'
    BY <1>1, <2>2 DEF RealItems, LiveDrags
  <2>4. transfer # 0 => offer'[transfer] = "files"
    BY <1>1 DEF DragInv, QueuedIsReal
  <2>5. QueuedIsReal' /\ MovesAreFollowed' /\ TargetHolds'
    BY <1>1, <2>1, <2>3, <2>4, QueueRests
  <2>6. DragTyped' /\ SessionIsOurs'
    BY <1>1, <2>1, <2>2 DEF DragInv, DragTyped, SessionIsOurs
  <2>7. QED BY <2>5, <2>6 DEF DragInv
<1>4. QED BY <1>2, <1>3

\* The files arrive, before the end of their drag or after it.
LEMMA ReceivedKeeps == ASSUME DragInv, Received PROVE DragInv'
<1> DEFINE s == [session EXCEPT !.unread = TRUE]
<1>1. /\ dragging = <<>> /\ UNCHANGED <<offer, dragNo, dragAt, dragging, dragError, target, transfer>>
      /\ Ours /\ session.files = "awaiting" /\ Advances(s, "none")
  BY DEF Received, Reporting, dropVars
<1>2. session \in DragSession
  BY <1>1 DEF Ours, NoSession, DragInv, DragTyped
<1>3. /\ s \in DragSession /\ s.id = session.id /\ s.files = session.files
      /\ s.ended = session.ended /\ s.held = session.held /\ s.held \in Seq(Stages)
      /\ s.ended \in BOOLEAN
  BY <1>2 DEF DragSession
<1> HIDE DEF s
<1>4. /\ s.ended => dragAt' = "ended"
      /\ ~s.ended => dragAt' = "over"
      /\ HeldFits(s.held, s.ended)
  BY <1>1, <1>2, <1>3 DEF DragInv, SessionIsOurs
<1>5. HeldWith(s.held, "none") \in Seq(Stages) /\ HeldFits(HeldWith(s.held, "none"), s.ended)
  BY <1>3, HeldStaysFit, <1>4
<1>6. s.files # "known" /\ "none" \in Stages \cup {"none"}
  BY <1>1, <1>3
<1>7. QED BY <1>1, <1>2, <1>3, <1>4, <1>5, <1>6, AdvanceKeeps

\* A reload forgets the drag, the queue and what the document held.
LEMMA DragReloadKeeps == ASSUME DragInv, DragReload PROVE DragInv'
<1>1. /\ session' = NoSession /\ dragQueue' = <<>> /\ dragging = <<>>
      /\ target' = NoZone /\ transfer' = 0 /\ UNCHANGED <<platformVars, dragging, dragError>>
  BY DEF DragReload
<1>2. ~(NoSession \in DragSession)
  BY DEF NoSession, DragSession
<1>3. dragNo \in Nat
  BY DragAssumption DEF DragInv, DragTyped
<1>4. DragTyped' /\ TargetHolds' /\ SessionIsOurs'
  BY <1>1, <1>2, <1>3 DEF DragInv, DragTyped, TargetHolds, SessionIsOurs, platformVars
<1>5. \A S : <<>> \in Seq(S) /\ <<>> \o <<>> = <<>>
  OBVIOUS
<1>6. QueuedIsReal'
  BY <1>1, <1>5 DEF QueuedIsReal
<1>7. DragLine' = <<>>
  BY <1>1, <1>5 DEF DragLine
<1>8. \A R, L : <<>> \in LinesOf(R, L, {})
  BY <1>5 DEF LinesOf
<1>9. MovesAreFollowed'
  BY <1>1, <1>7, <1>8 DEF MovesAreFollowed
<1>10. QED BY <1>4, <1>6, <1>9 DEF DragInv

\* A frame takes what is queued.
LEMMA DrainKeeps == ASSUME DragInv, DrainDrags PROVE DragInv'
<1>1. /\ dragging = <<>> /\ dragging' = dragQueue /\ dragQueue' = <<>>
      /\ UNCHANGED <<platformVars, session, dragError, target, transfer>>
  BY DEF DrainDrags, dropVars
<1>2. RealItems' = RealItems /\ LiveDrags' = LiveDrags
  BY <1>1 DEF platformVars, RealItems, LiveDrags
<1>3. <<>> \in Seq(RealItems) /\ dragQueue \in Seq(RealItems)
  BY DEF DragInv, QueuedIsReal
<1>4. DragLine' = DragLine
  BY <1>1, <1>3, OneLine DEF DragLine
<1>5. DragTyped' /\ TargetHolds' /\ SessionIsOurs' /\ QueuedIsReal'
  BY <1>1, <1>2, <1>3
     DEF DragInv, DragTyped, TargetHolds, SessionIsOurs, QueuedIsReal, platformVars
<1>6. MovesAreFollowed'
  BY <1>1, <1>2, <1>4 DEF DragInv, MovesAreFollowed, EndingDrags
<1>7. QED BY <1>5, <1>6 DEF DragInv

\* A dispatch that fails drops the rest and stops the drags.
LEMMA DragFailsKeeps == ASSUME DragInv, DragFails PROVE DragInv'
<1>1. /\ dragging' = <<>> /\ dragError' = TRUE
      /\ UNCHANGED <<platformVars, session, dragQueue, target, transfer>>
  BY DEF DragFails, dropVars
<1>2. RealItems' = RealItems
  BY <1>1 DEF platformVars, RealItems
<1>3. <<>> \in Seq(RealItems)
  OBVIOUS
<1>4. DragTyped' /\ TargetHolds' /\ SessionIsOurs' /\ QueuedIsReal'
  BY <1>1, <1>2, <1>3
     DEF DragInv, DragTyped, TargetHolds, SessionIsOurs, QueuedIsReal, platformVars
<1>5. MovesAreFollowed'
  BY <1>1 DEF MovesAreFollowed
<1>6. QED BY <1>4, <1>5 DEF DragInv

\* Every step keeps the invariant.
LEMMA DragKept == DragInv /\ [DragNext]_dragVars => DragInv'
<1> SUFFICES ASSUME DragInv, [DragNext]_dragVars PROVE DragInv'
  OBVIOUS
<1>1. CASE DragLeaves
  BY <1>1, StageIsTold DEF DragLeaves
<1>2. ASSUME NEW z \in Zones, NEW accepted \in BOOLEAN, DragsOver(z, accepted) PROVE DragInv'
  BY <1>2, StageIsTold DEF DragsOver
<1>3. CASE UNCHANGED dragVars
  <2>1. UNCHANGED <<offer, dragNo, dragAt, moves, session, dragQueue, dragging, dragError, target,
                    transfer>>
    BY <1>3 DEF dragVars, platformVars, dropVars
  <2>2. RealItems' = RealItems /\ LiveDrags' = LiveDrags /\ DragLine' = DragLine
    BY <2>1 DEF RealItems, LiveDrags, DragLine
  <2>3. EndingDrags' = EndingDrags
    BY <2>2 DEF EndingDrags
  <2>4. DragTyped' /\ TargetHolds' /\ SessionIsOurs' /\ QueuedIsReal'
    BY <2>1, <2>2 DEF DragInv, DragTyped, TargetHolds, SessionIsOurs, QueuedIsReal
  <2>5. MovesAreFollowed'
    BY <2>1, <2>2, <2>3 DEF DragInv, MovesAreFollowed
  <2>6. QED BY <2>4, <2>5 DEF DragInv
<1>4. CASE DragWaits
  BY <1>3, <1>4 DEF DragWaits
<1>5. ASSUME NEW at \in BOOLEAN, NEW what \in {"files", "links", "text"}, Entered(at, what)
      PROVE  DragInv'
  BY <1>5, EnteredKeeps
<1>6. ASSUME NEW stage \in {"drop", "leave"}, DragEnds(stage) PROVE DragInv'
  BY <1>6, DragEndsKeeps
<1>7. QED BY <1>1, <1>2, <1>3, <1>4, <1>5, <1>6, MovedKeeps, ReceivedKeeps, DragReloadKeeps,
             DrainKeeps, DragFailsKeeps DEF DragNext

\* DragIsItsOwn: the document holds only files its own drag really has, of the platform's
\* drag or one whose end is on its way, and nothing once all has been told.
THEOREM DragHolds == DragSpec => []DragIsItsOwn
<1>1. DragSpec => []DragInv
  BY DragInitially, DragKept, PTL DEF DragSpec
<1>2. ASSUME DragInv PROVE DragIsItsOwn
  <2>1. DragIsForgotten
    <3>1. SUFFICES ASSUME AllTold PROVE target = NoZone /\ transfer = 0
      BY DEF DragIsForgotten
    <3>2. DragLine = <<>>
      BY <3>1 DEF AllTold, DragLine
    <3>3. LiveDrags = {} /\ EndingDrags = {}
      BY <3>1, <3>2 DEF AllTold, LiveDrags, EndingDrags, EndsAfter
    <3>4. transfer = 0
      BY <3>1, <3>3, <1>2 DEF AllTold, DragInv, MovesAreFollowed
    <3>5. QED BY <3>4, <1>2 DEF DragInv, TargetHolds
  <2>2. OnlyRealFiles
    <3>1. SUFFICES ASSUME transfer # 0, ~dragError
                   PROVE  /\ offer[transfer] = "files"
                          /\ \/ transfer = dragNo
                             \/ \E k \in 1 .. Len(dragging \o dragQueue) :
                                  /\ (dragging \o dragQueue)[k].drag = transfer
                                  /\ (dragging \o dragQueue)[k].stage # "over"
      BY DEF OnlyRealFiles
    <3>2. transfer \in LiveDrags \/ EndsAfter(DragLine, transfer, 0)
      BY <3>1, <1>2 DEF DragInv, MovesAreFollowed, EndingDrags
    <3>3. DOMAIN DragLine = 1 .. Len(DragLine)
      BY <1>2 DEF DragInv, QueuedIsReal, DragLine
    <3>4. QED BY <3>1, <3>2, <3>3, <1>2 DEF DragInv, QueuedIsReal, LiveDrags, EndsAfter, DragLine
  <2>3. QED BY <2>1, <2>2 DEF DragIsItsOwn
<1>3. QED BY <1>1, <1>2, PTL

-----------------------------------------------------------------------------
(* EventDispatch: an event is heard by those who listened                   *)

\* Listeners, the paths of events and the dispatches under way.
Listener == [at : {"window", "element"}, capture : BOOLEAN, once : BOOLEAN, removed : BOOLEAN]
EventPaths == {<<"element">>, <<"window", "left", "element">>, <<"window", "right", "element">>}
Hearing == [by : Nat, turn : Nat]
EventRecord ==
  [path : EventPaths, turn : Nat, queue : Seq(Nat), calling : BOOLEAN, bubbles : BOOLEAN,
   stopped : BOOLEAN, now : BOOLEAN, sound : BOOLEAN, known : SUBSET Nat, heard : Seq(Hearing),
   until : Nat]
InputRecord ==
  [left : 0 .. 3, path : EventPaths \cup {<<>>}, revision : Nat, hinted : BOOLEAN, blind : BOOLEAN]

\* Types, of what the proof needs.
EventTyped ==
  /\ parent \in {"left", "right", "detached"} /\ revision \in Nat
  /\ listeners \in Seq(Listener) /\ lists \in [EventTargets -> Seq(Nat)]
  /\ events \in Seq(EventRecord) /\ input \in InputRecord

\* The list of a target holds listeners of its own, each once, and all that were not removed.
ListsAreKept ==
  \A t \in EventTargets :
    /\ \A k \in DOMAIN lists[t] : /\ lists[t][k] \in DOMAIN listeners
                                  /\ listeners[lists[t][k]].at = t
    /\ \A j, k \in DOMAIN lists[t] : j < k => lists[t][j] # lists[t][k]
    /\ \A l \in DOMAIN listeners : listeners[l].at = t /\ ~listeners[l].removed =>
         \E k \in DOMAIN lists[t] : lists[t][k] = l

\* The turns of an event in which the listener l of L has its place.
Places(e, L, l) ==
  {stage \in 1 .. 2 * Len(e.path) - 1 :
     /\ TargetOf(e.path, stage) = L[l].at
     /\ stage = Len(e.path) \/ (stage < Len(e.path) <=> L[l].capture)}

\* Who has heard an event heard it in its own turn, in the order of the turns, and once.
HeardInTurn(e, L) ==
  /\ \A i \in DOMAIN e.heard : /\ e.heard[i].by \in DOMAIN L
                               /\ e.heard[i].turn \in Places(e, L, e.heard[i].by)
                               /\ e.heard[i].turn <= e.turn
  /\ \A i, j \in DOMAIN e.heard :
       i < j => e.heard[i].by # e.heard[j].by /\ e.heard[i].turn <= e.heard[j].turn

\* Who waits for the turn that goes on has it, once, and has not heard the event.
WaitsForTurn(e, L) ==
  /\ \A k \in DOMAIN e.queue : /\ e.queue[k] \in DOMAIN L
                               /\ e.turn \in Places(e, L, e.queue[k])
                               /\ \A i \in DOMAIN e.heard : e.heard[i].by # e.queue[k]
  /\ \A j, k \in DOMAIN e.queue : j < k => e.queue[j] # e.queue[k]

\* Up to the turn that goes on, who was there before the dispatch is not skipped.
NobodyIsSkipped(e, L) ==
  /\ e.known \subseteq DOMAIN L
  /\ \A l \in e.known : \A stage \in Places(e, L, l) : stage <= e.turn =>
       \/ L[l].removed
       \/ e.now /\ stage = e.until
       \/ \E i \in DOMAIN e.heard : e.heard[i].by = l
       \/ stage = e.turn /\ \E k \in DOMAIN e.queue : e.queue[k] = l

\* A dispatch that was stopped is in its last turn.
StopsHere(e) ==
  /\ e.turn \in 1 .. 2 * Len(e.path) - 1
  /\ e.until = IF e.stopped THEN e.turn ELSE 2 * Len(e.path)
  /\ e.now => e.stopped
  /\ e.sound

\* All of it, of one dispatch.
GoodEvent(e, L) ==
  HeardInTurn(e, L) /\ WaitsForTurn(e, L) /\ NobodyIsSkipped(e, L) /\ StopsHere(e)

\* The path of the hit test is the tree's until a revision or nobody tells otherwise.
HintIsTrue ==
  input.left > 0 =>
    /\ input.path \in EventPaths
    /\ input.hinted => input.revision <= revision
    /\ input.hinted => input.left = 1
    /\ ~input.blind /\ (input.hinted => input.revision = revision) =>
         input.path = PathTo("element")

\* The inductive invariant of EventDispatch.
EventInv ==
  /\ EventTyped /\ ListsAreKept /\ HintIsTrue
  /\ \A n \in DOMAIN events : GoodEvent(events[n], listeners)
\* What the proof uses of the paths.
LEMMA PathsAreShort ==
  ASSUME NEW p \in EventPaths
  PROVE  /\ Len(p) \in {1, 3} /\ p[Len(p)] = "element" /\ p # <<>>
         /\ \A i, j \in 1 .. Len(p) : p[i] = p[j] => i = j
         /\ \A i \in 1 .. Len(p) : p[i] \in EventTargets
<1>1. CASE p = <<"element">>
  BY <1>1 DEF EventTargets
<1>2. ASSUME NEW x \in {"left", "right"}, p = <<"window", x, "element">>
      PROVE  /\ Len(p) \in {1, 3} /\ p[Len(p)] = "element" /\ p # <<>>
             /\ \A i, j \in 1 .. Len(p) : p[i] = p[j] => i = j
             /\ \A i \in 1 .. Len(p) : p[i] \in EventTargets
  BY <1>2 DEF EventTargets
<1>3. QED BY <1>1, <1>2 DEF EventPaths

\* A listener has one place on a path at most.
LEMMA OnePlace ==
  ASSUME NEW e, e.path \in EventPaths, NEW L, NEW l, NEW s \in Places(e, L, l),
         NEW t \in Places(e, L, l)
  PROVE  s = t
<1> DEFINE p == e.path
           n == Len(p)
           ElementAt(u) == IF u <= n THEN u ELSE 2 * n - u
<1>1. n \in {1, 3} /\ \A i, j \in 1 .. n : p[i] = p[j] => i = j
  BY PathsAreShort
<1>2. /\ s \in 1 .. 2 * n - 1 /\ t \in 1 .. 2 * n - 1 /\ p[ElementAt(s)] = L[l].at /\ p[ElementAt(t)] = L[l].at
      /\ s = n \/ (s < n <=> L[l].capture)
      /\ t = n \/ (t < n <=> L[l].capture)
  BY DEF Places, TargetOf
<1> HIDE DEF p, n
<1>3. ElementAt(s) \in 1 .. n /\ ElementAt(t) \in 1 .. n
  BY <1>1, <1>2
<1>4. ElementAt(s) = ElementAt(t)
  <2> HIDE DEF ElementAt
  <2>1. QED BY <1>1, <1>2, <1>3
<1>5. CASE s = n \/ t = n
  BY <1>1, <1>2, <1>4, <1>5
<1>6. CASE s # n /\ t # n
  BY <1>2, <1>6, <1>1, <1>4
<1>7. QED BY <1>5, <1>6

\* M is L with listeners that joined or were removed since.
Later(L, M) ==
  /\ DOMAIN L \subseteq DOMAIN M
  /\ \A l \in DOMAIN L : /\ M[l].at = L[l].at /\ M[l].capture = L[l].capture
                         /\ L[l].removed => M[l].removed

\* A dispatch that is good stays so when listeners join or are removed.
LEMMA GoodStays ==
  ASSUME NEW e, NEW L, NEW M, Later(L, M), GoodEvent(e, L)
  PROVE  GoodEvent(e, M)
<1>1. \A l \in DOMAIN L : Places(e, M, l) = Places(e, L, l)
  BY DEF Later, Places
<1>2. HeardInTurn(e, M)
  BY <1>1 DEF GoodEvent, HeardInTurn, Later
<1>3. WaitsForTurn(e, M)
  BY <1>1 DEF GoodEvent, WaitsForTurn, Later
<1>4. NobodyIsSkipped(e, M)
  BY <1>1 DEF GoodEvent, NobodyIsSkipped, Later
<1>5. QED BY <1>2, <1>3, <1>4 DEF GoodEvent

\* Where a dispatch is replaced by x, or begun with x, every other one is as it was.
LEMMA OthersStay ==
  ASSUME NEW x \in EventRecord, events \in Seq(EventRecord)
  PROVE  /\ Append(events, x) \in Seq(EventRecord)
         /\ \A n \in DOMAIN Append(events, x) :
              Append(events, x)[n] = x \/ \E m \in DOMAIN events : Append(events, x)[n] = events[m]
<1> DEFINE s == Append(events, x)
<1>1. s \in Seq(EventRecord)
  <2> HIDE DEF EventRecord
  <2>1. QED OBVIOUS
<1>2. DOMAIN s = 1 .. (Len(events) + 1) /\ Len(events) \in Nat /\ DOMAIN events = 1 .. Len(events)
  OBVIOUS
<1>3. (\A n \in 1 .. Len(events) : s[n] = events[n]) /\ s[Len(events) + 1] = x
  OBVIOUS
<1> HIDE DEF s
<1>4. \A n \in DOMAIN s : n \in DOMAIN events \/ n = Len(events) + 1
  BY <1>2
<1>5. \A n \in DOMAIN s : s[n] = x \/ \E m \in DOMAIN events : s[n] = events[m]
  BY <1>2, <1>3, <1>4
<1>6. QED BY <1>1, <1>5 DEF s

\* Without the innermost dispatch, the others are as they were.
LEMMA FrontStays ==
  ASSUME events \in Seq(EventRecord), events # <<>>
  PROVE  /\ Front(events) \in Seq(EventRecord)
         /\ \A n \in DOMAIN Front(events) :
              n \in DOMAIN events /\ Front(events)[n] = events[n]
         /\ \E m \in DOMAIN events : Event = events[m]
         /\ Event \in EventRecord
<1> DEFINE n == Len(events)
           s == SubSeq(events, 1, n - 1)
<1>1. n \in Nat /\ n > 0 /\ DOMAIN events = 1 .. n /\ n \in DOMAIN events
  OBVIOUS
<1>2. s \in Seq(EventRecord)
  <2> HIDE DEF EventRecord
  <2>1. QED BY <1>1
<1>3. DOMAIN s = 1 .. (n - 1) /\ \A i \in 1 .. (n - 1) : s[i] = events[i]
  BY <1>1
<1>4. Front(events) = s
  BY DEF Front
<1>5. Event = events[n]
  BY DEF Event, Last
<1> HIDE DEF s
<1>6. Event \in EventRecord
  <2> HIDE DEF EventRecord
  <2>1. QED BY <1>1, <1>5
<1>7. QED BY <1>1, <1>2, <1>3, <1>4, <1>5, <1>6

\* The same where the innermost dispatch becomes x.
LEMMA ReplacedStays ==
  ASSUME NEW x \in EventRecord, events \in Seq(EventRecord), events # <<>>
  PROVE  /\ Replaced(x) \in Seq(EventRecord)
         /\ \A n \in DOMAIN Replaced(x) :
              Replaced(x)[n] = x \/ \E m \in DOMAIN events : Replaced(x)[n] = events[m]
<1> DEFINE f == Front(events)
           s == Append(f, x)
<1>1. /\ f \in Seq(EventRecord)
      /\ \A n \in DOMAIN f : n \in DOMAIN events /\ f[n] = events[n]
  BY FrontStays
<1> HIDE DEF f
<1>2. s \in Seq(EventRecord)
  <2> HIDE DEF EventRecord
  <2>1. QED BY <1>1
<1>3. DOMAIN s = 1 .. (Len(f) + 1) /\ Len(f) \in Nat /\ DOMAIN f = 1 .. Len(f)
  BY <1>1
<1>4. (\A n \in 1 .. Len(f) : s[n] = f[n]) /\ s[Len(f) + 1] = x
  BY <1>1
<1> HIDE DEF s
<1>5. \A n \in DOMAIN s : n \in DOMAIN f \/ n = Len(f) + 1
  BY <1>3
<1>6. \A n \in DOMAIN s : s[n] = x \/ \E m \in DOMAIN events : s[n] = events[m]
  BY <1>1, <1>3, <1>4, <1>5
<1>7. QED BY <1>2, <1>6 DEF s, f, Replaced

\* The listeners whose place on the path of e is the turn: q, each once.
TurnHas(e, stage, q) ==
  /\ TurnOf(e, stage) = [e EXCEPT !.turn = stage, !.calling = FALSE, !.queue = q]
  /\ \A k \in DOMAIN q : q[k] \in DOMAIN listeners /\ stage \in Places(e, listeners, q[k])
  /\ \A j, k \in DOMAIN q : j < k => q[j] # q[k]
  /\ \A l \in DOMAIN listeners :
       ~listeners[l].removed /\ stage \in Places(e, listeners, l) => \E k \in DOMAIN q : q[k] = l

\* A turn begins with the listeners that have their place in it.
LEMMA TurnBegins ==
  ASSUME EventTyped, ListsAreKept, NEW e \in EventRecord, NEW stage \in 1 .. 2 * Len(e.path) - 1
  PROVE  \E q \in Seq(Nat) : TurnHas(e, stage, q)
<1> DEFINE place == TargetOf(e.path, stage)
           there == lists[place]
           n == Len(e.path)
           C == {l \in DOMAIN listeners : listeners[l].capture}
           B == {l \in DOMAIN listeners : ~listeners[l].capture}
           c == ItemsIn(there, C)
           b == ItemsIn(there, B)
           first == IF stage <= n THEN c ELSE <<>>
           then == IF stage >= n THEN b ELSE <<>>
           q == first \o then
<1>1. n \in {1, 3} /\ place \in EventTargets
  <2>1. e.path \in EventPaths
    BY DEF EventRecord
  <2>2. n \in {1, 3} /\ \A i \in 1 .. n : e.path[i] \in EventTargets
    BY <2>1, PathsAreShort
  <2> DEFINE at == IF stage <= n THEN stage ELSE 2 * n - stage
  <2>3. at \in 1 .. n
    <3> HIDE DEF n
    <3>1. n \in Nat /\ stage \in 1 .. 2 * n - 1
      BY <2>2 DEF n
    <3>2. QED BY <3>1
  <2>4. QED BY <2>2, <2>3 DEF TargetOf
<1>2. there \in Seq(Nat)
  BY <1>1 DEF EventTyped
<1>3. /\ \A k \in DOMAIN there : there[k] \in DOMAIN listeners /\ listeners[there[k]].at = place
      /\ \A j, k \in DOMAIN there : j < k => there[j] # there[k]
      /\ \A l \in DOMAIN listeners : listeners[l].at = place /\ ~listeners[l].removed =>
           \E k \in DOMAIN there : there[k] = l
  BY <1>1 DEF ListsAreKept
<1>4. c \in Seq(Nat) /\ Kept(c, there, C) /\ b \in Seq(Nat) /\ Kept(b, there, B)
  <2> HIDE DEF there, C, B
  <2>1. QED BY <1>2, ItemsAreKept
<1>5. TurnOf(e, stage) = [e EXCEPT !.turn = stage, !.calling = FALSE, !.queue = q]
  BY DEF TurnOf
<1>6. \A l \in DOMAIN listeners : stage \in Places(e, listeners, l) <=>
        listeners[l].at = place /\ (stage = n \/ (stage < n <=> listeners[l].capture))
  BY DEF Places
<1>7. \A l \in DOMAIN listeners : l \in C <=> listeners[l].capture
  OBVIOUS
<1>8. \A l \in DOMAIN listeners : l \in B <=> l \notin C
  OBVIOUS
<1>9. C \subseteq DOMAIN listeners /\ B \subseteq DOMAIN listeners /\ stage \in Nat /\ n \in Nat
  BY <1>1
<1> HIDE DEF place, there, C, B, c, b, n
<1>10. PICK f \in [DOMAIN c -> DOMAIN there] :
         /\ \A i, j \in DOMAIN c : i < j => f[i] < f[j]
         /\ \A i \in DOMAIN c : c[i] = there[f[i]] /\ there[f[i]] \in C
         /\ \A k \in DOMAIN there : there[k] \in C => \E i \in DOMAIN c : f[i] = k
  BY <1>4 DEF Kept
<1>11. PICK g \in [DOMAIN b -> DOMAIN there] :
         /\ \A i, j \in DOMAIN b : i < j => g[i] < g[j]
         /\ \A i \in DOMAIN b : b[i] = there[g[i]] /\ there[g[i]] \in B
         /\ \A k \in DOMAIN there : there[k] \in B => \E i \in DOMAIN b : g[i] = k
  BY <1>4 DEF Kept
<1>12. /\ \A i \in DOMAIN c : c[i] \in C /\ listeners[c[i]].at = place
       /\ \A i, j \in DOMAIN c : i < j => c[i] # c[j]
       /\ \A l \in C : listeners[l].at = place /\ ~listeners[l].removed =>
            \E i \in DOMAIN c : c[i] = l
  BY <1>3, <1>9, <1>10
<1>13. /\ \A i \in DOMAIN b : b[i] \in B /\ listeners[b[i]].at = place
       /\ \A i, j \in DOMAIN b : i < j => b[i] # b[j]
       /\ \A l \in B : listeners[l].at = place /\ ~listeners[l].removed =>
            \E i \in DOMAIN b : b[i] = l
  BY <1>3, <1>9, <1>11
<1>14. first \in Seq(Nat) /\ then \in Seq(Nat)
  BY <1>4
<1>15. /\ \A i \in DOMAIN first : /\ first[i] \in C /\ stage <= n /\ listeners[first[i]].at = place
       /\ \A i, j \in DOMAIN first : i < j => first[i] # first[j]
       /\ stage <= n => \A l \in C : listeners[l].at = place /\ ~listeners[l].removed =>
                         \E i \in DOMAIN first : first[i] = l
  <2>1. CASE stage <= n
    <3>1. first = c
      BY <2>1
    <3> HIDE DEF first
    <3>2. QED BY <3>1, <2>1, <1>12
  <2>2. CASE ~(stage <= n)
    <3>1. first = <<>>
      BY <2>2
    <3> HIDE DEF first
    <3>2. QED BY <3>1, <2>2
  <2>3. QED BY <2>1, <2>2
<1>16. /\ \A i \in DOMAIN then : /\ then[i] \in B /\ stage >= n /\ listeners[then[i]].at = place
       /\ \A i, j \in DOMAIN then : i < j => then[i] # then[j]
       /\ stage >= n => \A l \in B : listeners[l].at = place /\ ~listeners[l].removed =>
                         \E i \in DOMAIN then : then[i] = l
  <2>1. CASE stage >= n
    <3>1. then = b
      BY <2>1
    <3> HIDE DEF then
    <3>2. QED BY <3>1, <2>1, <1>13
  <2>2. CASE ~(stage >= n)
    <3>1. then = <<>>
      BY <2>2
    <3> HIDE DEF then
    <3>2. QED BY <3>1, <2>2
  <2>3. QED BY <2>1, <2>2
<1> HIDE DEF first, then
<1>17. q \in Seq(Nat)
  BY <1>14
<1>18. /\ DOMAIN q = 1 .. (Len(first) + Len(then)) /\ Len(first) \in Nat /\ Len(then) \in Nat
       /\ DOMAIN first = 1 .. Len(first) /\ DOMAIN then = 1 .. Len(then)
       /\ \A k \in 1 .. (Len(first) + Len(then)) :
            q[k] = IF k <= Len(first) THEN first[k] ELSE then[k - Len(first)]
  BY <1>14
<1> HIDE DEF q
<1>19. ASSUME NEW k \in DOMAIN q
       PROVE  \/ k \in DOMAIN first /\ q[k] = first[k]
              \/ k - Len(first) \in DOMAIN then /\ q[k] = then[k - Len(first)] /\ k > Len(first)
  BY <1>18
<1>20. /\ \A i \in DOMAIN first : i \in DOMAIN q /\ q[i] = first[i]
       /\ \A i \in DOMAIN then : i + Len(first) \in DOMAIN q /\ q[i + Len(first)] = then[i]
  BY <1>18
<1>21. ASSUME NEW k \in DOMAIN q
       PROVE  q[k] \in DOMAIN listeners /\ stage \in Places(e, listeners, q[k])
  BY <1>15, <1>7, <1>9, <1>6, <1>16, <1>8, <1>19
<1>22. ASSUME NEW j \in DOMAIN q, NEW k \in DOMAIN q, j < k PROVE q[j] # q[k]
  BY <1>15, <1>22, <1>18, <1>16, <1>8, <1>9, <1>19
<1>23. ASSUME NEW l \in DOMAIN listeners, ~listeners[l].removed, stage \in Places(e, listeners, l)
       PROVE  \E k \in DOMAIN q : q[k] = l
  <2>1. listeners[l].at = place /\ (stage = n \/ (stage < n <=> listeners[l].capture))
    BY <1>6, <1>23
  <2>2. CASE l \in C
    <3>1. stage = n \/ stage < n
      BY <2>1, <2>2, <1>7
    <3>2. stage <= n
      BY <3>1, <1>9
    <3>3. PICK i \in DOMAIN first : first[i] = l
      BY <3>2, <2>1, <2>2, <1>15, <1>23
    <3>4. QED BY <3>3, <1>20
  <2>3. CASE l \notin C
    <3>1. stage = n \/ ~(stage < n)
      BY <2>1, <2>3, <1>7
    <3>2. stage >= n /\ l \in B
      BY <3>1, <1>8, <1>9, <2>3
    <3>3. PICK i \in DOMAIN then : then[i] = l
      BY <3>2, <2>1, <1>16, <1>23
    <3>4. QED BY <3>3, <1>20
  <2>4. QED BY <2>2, <2>3
<1>24. QED BY <1>5, <1>17, <1>21, <1>22, <1>23 DEF TurnHas
\* A turn that begins leaves a dispatch good which was good in the turns before it.
LEMMA TurnIsGood ==
  ASSUME EventTyped, ListsAreKept, NEW e \in EventRecord, NEW stage \in 1 .. 2 * Len(e.path) - 1,
         \A i \in DOMAIN e.heard : /\ e.heard[i].by \in DOMAIN listeners
                                   /\ e.heard[i].turn \in Places(e, listeners, e.heard[i].by)
                                   /\ e.heard[i].turn < stage,
         \A i, j \in DOMAIN e.heard :
           i < j => e.heard[i].by # e.heard[j].by /\ e.heard[i].turn <= e.heard[j].turn,
         e.known \subseteq DOMAIN listeners,
         \A l \in e.known : \A t \in Places(e, listeners, l) :
           t < stage => listeners[l].removed \/ \E i \in DOMAIN e.heard : e.heard[i].by = l,
         ~e.stopped, ~e.now, e.until = 2 * Len(e.path), e.sound
  PROVE  TurnOf(e, stage) \in EventRecord /\ GoodEvent(TurnOf(e, stage), listeners)
<1>0. PICK q \in Seq(Nat) : TurnHas(e, stage, q)
  BY TurnBegins
<1>1. /\ TurnOf(e, stage) = [e EXCEPT !.turn = stage, !.calling = FALSE, !.queue = q]
      /\ \A k \in DOMAIN q : q[k] \in DOMAIN listeners /\ stage \in Places(e, listeners, q[k])
      /\ \A j, k \in DOMAIN q : j < k => q[j] # q[k]
      /\ \A l \in DOMAIN listeners :
           ~listeners[l].removed /\ stage \in Places(e, listeners, l) =>
             \E k \in DOMAIN q : q[k] = l
  BY <1>0 DEF TurnHas
<1>2. e.path \in EventPaths /\ Len(e.path) \in {1, 3} /\ stage \in Nat
  BY PathsAreShort DEF EventRecord
<1> DEFINE f == [e EXCEPT !.turn = stage, !.calling = FALSE, !.queue = q]
<1>3. f \in EventRecord
  BY <1>2 DEF EventRecord
<1>4. /\ f.turn = stage /\ f.queue = q /\ f.path = e.path /\ f.heard = e.heard
      /\ f.known = e.known /\ f.stopped = e.stopped /\ f.now = e.now /\ f.until = e.until
      /\ f.sound = e.sound
  BY DEF EventRecord
<1>5. TurnOf(e, stage) = f
  BY <1>1
<1> HIDE DEF f
<1>6. \A l : Places(f, listeners, l) = Places(e, listeners, l)
  BY <1>4 DEF Places
<1>7. \A l : \A t \in Places(e, listeners, l) : t \in Int
  BY <1>2 DEF Places
<1>8. HeardInTurn(f, listeners)
  BY <1>2, <1>7, <1>4, <1>6 DEF HeardInTurn
<1>9. WaitsForTurn(f, listeners)
  <2>1. ASSUME NEW k \in DOMAIN q, NEW i \in DOMAIN e.heard, e.heard[i].by = q[k] PROVE FALSE
    <3>1. e.heard[i].turn \in Places(e, listeners, q[k]) /\ stage \in Places(e, listeners, q[k])
      BY <2>1, <1>1
    <3>2. e.heard[i].turn = stage
      BY <3>1, <1>2, OnePlace
    <3>3. e.heard[i].turn < stage
      OBVIOUS
    <3>4. QED BY <3>2, <3>3, <1>2
  <2>2. QED BY <2>1, <1>1, <1>4, <1>6 DEF WaitsForTurn
<1>10. NobodyIsSkipped(f, listeners)
  BY <1>2, <1>7, <1>1, <1>4, <1>6 DEF NobodyIsSkipped
<1>11. StopsHere(f)
  BY <1>4 DEF StopsHere
<1>12. QED BY <1>3, <1>5, <1>8, <1>9, <1>10, <1>11 DEF GoodEvent

\* A removal leaves lists that are kept.
LEMMA RemovalKeepsLists ==
  ASSUME EventTyped, ListsAreKept, NEW l \in DOMAIN listeners, RemoveListenerRecord(l)
  PROVE  /\ listeners' \in Seq(Listener) /\ lists' \in [EventTargets -> Seq(Nat)]
         /\ ListsAreKept' /\ Later(listeners, listeners')
<1> DEFINE L == listeners
           M == [L EXCEPT ![l].removed = TRUE]
           at == L[l].at
           K == DOMAIN listeners \ {l}
           r == ItemsIn(lists[at], K)
<1>1. L \in Seq(Listener) /\ L[l] \in Listener /\ at \in EventTargets /\ lists[at] \in Seq(Nat)
  <2>1. L \in Seq(Listener) /\ lists \in [EventTargets -> Seq(Nat)]
    BY DEF EventTyped
  <2>2. L[l] \in Listener
    BY <2>1
  <2>3. at \in EventTargets
    BY <2>2 DEF Listener, EventTargets
  <2>4. QED BY <2>1, <2>2, <2>3
<1>2. M \in Seq(Listener)
  <2> DEFINE x == [L[l] EXCEPT !.removed = TRUE]
  <2>1. x \in Listener
    BY <1>1 DEF Listener
  <2>2. M = [L EXCEPT ![l] = x]
    OBVIOUS
  <2>3. L \in Seq(Listener) /\ l \in DOMAIN L
    BY <1>1
  <2> HIDE DEF x, L, M
  <2>4. [L EXCEPT ![l] = x] \in Seq(Listener)
    BY <2>1, <2>3
  <2>5. QED BY <2>2, <2>4
<1>3. /\ DOMAIN M = DOMAIN L
      /\ \A k \in DOMAIN L : /\ M[k].at = L[k].at /\ M[k].capture = L[k].capture
                             /\ L[k].removed => M[k].removed
                             /\ k # l => M[k] = L[k]
                             /\ M[l].removed
  <2>1. DOMAIN M = DOMAIN L /\ M[l] = [L[l] EXCEPT !.removed = TRUE]
    OBVIOUS
  <2>2. \A k \in DOMAIN L : k # l => M[k] = L[k]
    OBVIOUS
  <2>3. M[l].at = L[l].at /\ M[l].capture = L[l].capture /\ M[l].removed
    BY <2>1, <1>1 DEF Listener
  <2> HIDE DEF M, L
  <2>4. QED BY <2>1, <2>2, <2>3
<1>4. listeners' = M /\ lists' = [lists EXCEPT ![at] = r]
  BY DEF RemoveListenerRecord
<1>5. r \in Seq(Nat) /\ Kept(r, lists[at], K)
  <2> HIDE DEF K, at
  <2>1. QED BY <1>1, ItemsAreKept
<1>6. lists' \in [EventTargets -> Seq(Nat)]
  <2> HIDE DEF r, at
  <2>1. QED BY <1>1, <1>4, <1>5 DEF EventTyped
<1>7. K \subseteq DOMAIN L /\ \A k \in DOMAIN L : k \in K <=> k # l
  OBVIOUS
<1> HIDE DEF M, K, r, at
<1>8. PICK f \in [DOMAIN r -> DOMAIN lists[at]] :
        /\ \A i, j \in DOMAIN r : i < j => f[i] < f[j]
        /\ \A i \in DOMAIN r : r[i] = lists[at][f[i]] /\ lists[at][f[i]] \in K
        /\ \A k \in DOMAIN lists[at] : lists[at][k] \in K => \E i \in DOMAIN r : f[i] = k
  BY <1>5 DEF Kept
<1>9. ASSUME NEW t \in EventTargets
      PROVE  /\ \A k \in DOMAIN lists'[t] : /\ lists'[t][k] \in DOMAIN M
                                            /\ M[lists'[t][k]].at = t
             /\ \A j, k \in DOMAIN lists'[t] : j < k => lists'[t][j] # lists'[t][k]
             /\ \A m \in DOMAIN M : M[m].at = t /\ ~M[m].removed =>
                  \E k \in DOMAIN lists'[t] : lists'[t][k] = m
  <2>1. CASE t # at
    <3>1. lists'[t] = lists[t]
      BY <2>1, <1>4 DEF EventTyped
    <3>2. /\ \A k \in DOMAIN lists[t] : lists[t][k] \in DOMAIN L /\ L[lists[t][k]].at = t
          /\ \A j, k \in DOMAIN lists[t] : j < k => lists[t][j] # lists[t][k]
          /\ \A m \in DOMAIN L : L[m].at = t /\ ~L[m].removed =>
               \E k \in DOMAIN lists[t] : lists[t][k] = m
      BY DEF ListsAreKept
    <3>3. \A m \in DOMAIN L : ~M[m].removed => ~L[m].removed
      BY <1>3
    <3>4. QED BY <3>1, <3>2, <3>3, <1>3
  <2>2. CASE t = at
    <3>1. lists'[t] = r
      BY <2>2, <1>1, <1>4 DEF EventTyped
    <3>2. \A k \in DOMAIN r : r[k] \in DOMAIN L /\ L[r[k]].at = at
      BY <1>1, <1>8 DEF ListsAreKept
    <3>3. \A j, k \in DOMAIN r : j < k => r[j] # r[k]
      BY <1>1, <1>8 DEF ListsAreKept
    <3>4. ASSUME NEW m \in DOMAIN L, L[m].at = at, ~M[m].removed
          PROVE  \E k \in DOMAIN r : r[k] = m
      <4>1. ~L[m].removed /\ m \in K
        BY <3>4, <1>3, <1>7
      <4>2. PICK k \in DOMAIN lists[at] : lists[at][k] = m
        BY <4>1, <3>4, <1>1 DEF ListsAreKept
      <4>3. QED BY <4>1, <4>2, <1>8
    <3>5. QED BY <2>2, <3>1, <3>2, <3>3, <3>4, <1>3
  <2>3. QED BY <2>1, <2>2
<1>10. ListsAreKept'
  BY <1>4, <1>9 DEF ListsAreKept
<1>11. Later(listeners, listeners')
  BY <1>3, <1>4 DEF Later
<1>12. QED BY <1>2, <1>4, <1>6, <1>10, <1>11

\* The next listener in turn: the queue without it, and the event as heard by it.
LEMMA CalledIsGood ==
  ASSUME EventTyped, NEW e \in EventRecord, GoodEvent(e, listeners), e.queue # <<>>
  PROVE  /\ Head(e.queue) \in DOMAIN listeners
         /\ [e EXCEPT !.queue = <<>>, !.calling = FALSE] \in EventRecord
         /\ e.now => GoodEvent([e EXCEPT !.queue = <<>>, !.calling = FALSE], listeners)
         /\ [e EXCEPT !.queue = Tail(e.queue), !.calling = FALSE] \in EventRecord
         /\ listeners[Head(e.queue)].removed =>
              GoodEvent([e EXCEPT !.queue = Tail(e.queue), !.calling = FALSE], listeners)
         /\ [e EXCEPT !.queue = Tail(e.queue), !.calling = TRUE,
                      !.heard = Append(e.heard, [by |-> Head(e.queue), turn |-> e.turn])]
              \in EventRecord
         /\ GoodEvent([e EXCEPT !.queue = Tail(e.queue), !.calling = TRUE,
                          !.heard = Append(e.heard, [by |-> Head(e.queue), turn |-> e.turn])],
                      listeners)
<1> DEFINE L == listeners
           q == e.queue
           l == Head(q)
           r == Tail(q)
           h == e.heard
           x == [by |-> l, turn |-> e.turn]
           g == Append(h, x)
           a == [e EXCEPT !.queue = <<>>, !.calling = FALSE]
           b == [e EXCEPT !.queue = r, !.calling = FALSE]
           c == [e EXCEPT !.queue = r, !.calling = TRUE, !.heard = g]
<1>1. q \in Seq(Nat) /\ h \in Seq(Hearing) /\ e.turn \in Nat
  BY DEF EventRecord
<1>2. /\ 1 \in DOMAIN q /\ l = q[1] /\ l \in Nat /\ r \in Seq(Nat)
      /\ DOMAIN r = 1 .. (Len(q) - 1) /\ DOMAIN q = 1 .. Len(q) /\ Len(q) \in Nat
      /\ \A k \in 1 .. (Len(q) - 1) : r[k] = q[k + 1]
  <2>1. q \in Seq(Nat) /\ q # <<>>
    BY <1>1
  <2> HIDE DEF q
  <2>2. 1 \in DOMAIN q /\ l = q[1] /\ l \in Nat /\ r \in Seq(Nat)
    BY <2>1
  <2>3. DOMAIN r = 1 .. (Len(q) - 1) /\ DOMAIN q = 1 .. Len(q) /\ Len(q) \in Nat
    BY <2>1
  <2>4. \A k \in 1 .. (Len(q) - 1) : r[k] = q[k + 1]
    BY <2>1
  <2>5. QED BY <2>2, <2>3, <2>4
<1>3. x \in Hearing
  BY <1>1, <1>2 DEF Hearing
<1>4. /\ g \in Seq(Hearing) /\ DOMAIN g = 1 .. (Len(h) + 1) /\ Len(h) \in Nat
      /\ DOMAIN h = 1 .. Len(h) /\ g[Len(h) + 1] = x
      /\ \A i \in 1 .. Len(h) : g[i] = h[i]
  <2> HIDE DEF x, h, Hearing
  <2>1. g \in Seq(Hearing)
    BY <1>1, <1>3
  <2>2. DOMAIN g = 1 .. (Len(h) + 1) /\ Len(h) \in Nat /\ DOMAIN h = 1 .. Len(h)
    BY <1>1
  <2>3. g[Len(h) + 1] = x
    BY <1>1
  <2>4. \A i \in 1 .. Len(h) : g[i] = h[i]
    BY <1>1
  <2>5. QED BY <2>1, <2>2, <2>3, <2>4
<1> HIDE DEF r, g
<1>5. a \in EventRecord /\ b \in EventRecord /\ c \in EventRecord
  <2>1. <<>> \in Seq(Nat)
    OBVIOUS
  <2>2. QED BY <2>1, <1>2, <1>4 DEF EventRecord
<1>6. /\ a.queue = <<>> /\ a.path = e.path /\ a.heard = h /\ a.turn = e.turn /\ a.known = e.known
      /\ a.stopped = e.stopped /\ a.now = e.now /\ a.until = e.until /\ a.sound = e.sound
  BY DEF EventRecord
<1>7. /\ b.queue = r /\ b.path = e.path /\ b.heard = h /\ b.turn = e.turn /\ b.known = e.known
      /\ b.stopped = e.stopped /\ b.now = e.now /\ b.until = e.until /\ b.sound = e.sound
  BY DEF EventRecord
<1>8. /\ c.queue = r /\ c.path = e.path /\ c.heard = g /\ c.turn = e.turn /\ c.known = e.known
      /\ c.stopped = e.stopped /\ c.now = e.now /\ c.until = e.until /\ c.sound = e.sound
  BY DEF EventRecord
<1> HIDE DEF a, b, c
<1>9. \A m : /\ Places(a, L, m) = Places(e, L, m) /\ Places(b, L, m) = Places(e, L, m)
             /\ Places(c, L, m) = Places(e, L, m)
  BY <1>6, <1>7, <1>8 DEF Places
<1>10. StopsHere(a) /\ StopsHere(b) /\ StopsHere(c)
  BY <1>6, <1>7, <1>8 DEF GoodEvent, StopsHere
<1>11. HeardInTurn(a, L) /\ HeardInTurn(b, L)
  BY <1>6, <1>7, <1>9 DEF GoodEvent, HeardInTurn
<1>12. WaitsForTurn(a, L)
  BY <1>6 DEF WaitsForTurn
<1>13. \A k \in DOMAIN r : k + 1 \in DOMAIN q /\ r[k] = q[k + 1] /\ k \in Nat
  BY <1>2
<1>14. WaitsForTurn(e, L) /\ HeardInTurn(e, L) /\ NobodyIsSkipped(e, L) /\ StopsHere(e)
  BY DEF GoodEvent
<1>15. /\ \A k \in DOMAIN q : /\ q[k] \in DOMAIN L /\ e.turn \in Places(e, L, q[k])
                              /\ \A i \in DOMAIN h : h[i].by # q[k]
       /\ \A j, k \in DOMAIN q : j < k => q[j] # q[k]
  BY <1>14 DEF WaitsForTurn
<1>16. /\ \A k \in DOMAIN r : /\ r[k] \in DOMAIN L /\ e.turn \in Places(e, L, r[k])
                              /\ r[k] # l /\ \A i \in DOMAIN h : h[i].by # r[k]
       /\ \A j, k \in DOMAIN r : j < k => r[j] # r[k]
  <2>1. ASSUME NEW k \in DOMAIN r
        PROVE  /\ r[k] \in DOMAIN L /\ e.turn \in Places(e, L, r[k])
               /\ r[k] # l /\ \A i \in DOMAIN h : h[i].by # r[k]
    <3>1. k + 1 \in DOMAIN q /\ r[k] = q[k + 1] /\ 1 < k + 1
      BY <1>13, <1>2
    <3>2. QED BY <3>1, <1>2, <1>15
  <2>2. ASSUME NEW j \in DOMAIN r, NEW k \in DOMAIN r, j < k PROVE r[j] # r[k]
    BY <2>2, <1>13, <1>15
  <2>3. QED BY <2>1, <2>2
<1>17. WaitsForTurn(b, L)
  BY <1>7, <1>9, <1>16 DEF WaitsForTurn
<1>18. \A m : (\E k \in DOMAIN q : q[k] = m) => m = l \/ \E k \in DOMAIN r : r[k] = m
  <2>1. ASSUME NEW k \in DOMAIN q, k # 1 PROVE \E j \in DOMAIN r : r[j] = q[k]
    <3>1. k - 1 \in DOMAIN r /\ k = (k - 1) + 1
      BY <2>1, <1>2
    <3>2. QED BY <3>1, <1>13
  <2>2. QED BY <2>1, <1>2
<1>19. \A i \in DOMAIN g : \/ i \in DOMAIN h /\ g[i] = h[i]
                           \/ i = Len(h) + 1 /\ g[i] = x
  BY <1>4
<1>20. x.by = l /\ x.turn = e.turn
  OBVIOUS
<1> HIDE DEF x
<1>21. l \in DOMAIN L /\ e.turn \in Places(e, L, l) /\ \A i \in DOMAIN h : h[i].by # l
  BY <1>2, <1>15
<1>22. HeardInTurn(c, L)
  <2>1. ASSUME NEW i \in DOMAIN g
        PROVE  /\ g[i].by \in DOMAIN L /\ g[i].turn \in Places(e, L, g[i].by)
               /\ g[i].turn <= e.turn
    BY <1>1, <1>14, <1>19, <1>20, <1>21 DEF HeardInTurn
  <2>2. ASSUME NEW i \in DOMAIN g, NEW j \in DOMAIN g, i < j
        PROVE  g[i].by # g[j].by /\ g[i].turn <= g[j].turn
    BY <2>2, <1>4, <1>14, <1>20, <1>21, <1>19 DEF HeardInTurn
  <2>3. QED BY <2>1, <2>2, <1>8, <1>9 DEF HeardInTurn
<1>23. WaitsForTurn(c, L)
  BY <1>16, <1>19, <1>20, <1>8, <1>9 DEF WaitsForTurn
<1>24. ASSUME e.now PROVE NobodyIsSkipped(a, L)
  BY <1>14, <1>24, <1>6, <1>9 DEF StopsHere, NobodyIsSkipped
<1>25. ASSUME L[l].removed PROVE NobodyIsSkipped(b, L)
  BY <1>25, <1>7, <1>9, <1>14, <1>18 DEF NobodyIsSkipped
<1>26. NobodyIsSkipped(c, L)
  <2>1. \A m : (\E i \in DOMAIN h : h[i].by = m) => \E i \in DOMAIN g : g[i].by = m
    BY <1>4
  <2>2. \E i \in DOMAIN g : g[i].by = l
    BY <1>4, <1>20
  <2>3. ASSUME NEW m \in e.known, NEW t \in Places(e, L, m), t <= e.turn
        PROVE  \/ L[m].removed
               \/ e.now /\ t = e.until
               \/ \E i \in DOMAIN g : g[i].by = m
               \/ t = e.turn /\ \E k \in DOMAIN r : r[k] = m
    BY <2>3, <1>14, <2>1, <2>2, <1>18 DEF NobodyIsSkipped
  <2>4. QED BY <2>3, <1>8, <1>9, <1>14 DEF NobodyIsSkipped
<1>28. e.now => GoodEvent(a, L)
  BY <1>10, <1>11, <1>12, <1>24 DEF GoodEvent
<1>29. L[l].removed => GoodEvent(b, L)
  BY <1>10, <1>11, <1>17, <1>25 DEF GoodEvent
<1>30. GoodEvent(c, L)
  BY <1>10, <1>22, <1>23, <1>26 DEF GoodEvent
<1>31. QED BY <1>5, <1>21, <1>28, <1>29, <1>30 DEF a, b, c, r, g, x
\* The event of a dispatch that begins.
Begun(e, path) ==
  e = NewEvent(path) \/ \E bubbles \in BOOLEAN : e = [NewEvent(path) EXCEPT !.bubbles = bubbles]

\* A dispatch that begins is good.
LEMMA BegunIsGood ==
  ASSUME EventTyped, ListsAreKept, NEW path \in EventPaths,
         path = PathTo("element") \/ input.blind, NEW e, Begun(e, path)
  PROVE  TurnOf(e, 1) \in EventRecord /\ GoodEvent(TurnOf(e, 1), listeners)
<1> DEFINE known == {l \in DOMAIN listeners : ~listeners[l].removed}
           sound == path = PathTo(Last(path)) \/ input.blind
<1>1. Len(path) \in {1, 3} /\ Last(path) = "element"
  BY PathsAreShort DEF Last
<1>2. sound /\ sound \in BOOLEAN
  BY <1>1
<1>3. known \in SUBSET Nat /\ known \subseteq DOMAIN listeners
  BY DEF EventTyped
<1> HIDE DEF known, sound
<1>4. PICK bubbles \in BOOLEAN :
      e = [path |-> path, turn |-> 0, queue |-> <<>>, calling |-> FALSE, bubbles |-> bubbles,
           stopped |-> FALSE, now |-> FALSE, sound |-> sound, known |-> known, heard |-> <<>>,
           until |-> 2 * Len(path)]
  BY DEF NewEvent, known, sound, Begun
<1>5. e \in EventRecord
  BY <1>1, <1>2, <1>3, <1>4 DEF EventRecord
<1>6. /\ e.path = path /\ e.heard = <<>> /\ e.known = known /\ ~e.stopped /\ ~e.now
      /\ e.until = 2 * Len(e.path)
  BY <1>4
<1>7. e.sound
  BY <1>2, <1>4
<1>8. 1 \in 1 .. 2 * Len(e.path) - 1
  <2>1. e.path = path
    BY <1>6
  <2>2. Len(path) = 1 \/ Len(path) = 3
    BY <1>1
  <2>3. 1 \in 1 .. 2 * Len(path) - 1
    BY <2>2
  <2>4. QED BY <2>1, <2>3
<1>9. \A i \in DOMAIN e.heard : FALSE
  BY <1>6
<1>10. \A l \in e.known : \A t \in Places(e, listeners, l) : ~(t < 1)
  BY <1>1, <1>6 DEF Places
<1>11. QED BY <1>3, <1>5, <1>6, <1>7, <1>8, <1>9, <1>10, TurnIsGood

\* Where the innermost dispatch becomes x, all are good.
LEMMA ReplacedIsGood ==
  ASSUME EventInv, events # <<>>, NEW x \in EventRecord, GoodEvent(x, listeners),
         events' = Replaced(x), Later(listeners, listeners')
  PROVE  /\ events' \in Seq(EventRecord)
         /\ \A n \in DOMAIN events' : GoodEvent(events'[n], listeners')
<1>1. /\ events' \in Seq(EventRecord)
      /\ \A n \in DOMAIN events' : events'[n] = x \/ \E m \in DOMAIN events : events'[n] = events[m]
  BY ReplacedStays DEF EventInv, EventTyped
<1>2. \A m \in DOMAIN events : GoodEvent(events[m], listeners)
  BY DEF EventInv
<1>3. QED BY <1>1, <1>2, GoodStays

\* The same where the dispatch x begins.
LEMMA AppendedIsGood ==
  ASSUME EventInv, NEW x \in EventRecord, GoodEvent(x, listeners),
         events' = Append(events, x), listeners' = listeners
  PROVE  /\ events' \in Seq(EventRecord)
         /\ \A n \in DOMAIN events' : GoodEvent(events'[n], listeners')
<1>1. /\ events' \in Seq(EventRecord)
      /\ \A n \in DOMAIN events' : events'[n] = x \/ \E m \in DOMAIN events : events'[n] = events[m]
  BY OthersStay DEF EventInv, EventTyped
<1>2. \A m \in DOMAIN events : GoodEvent(events[m], listeners)
  BY DEF EventInv
<1>3. QED BY <1>1, <1>2

\* Listeners that are as they were are later ones.
LEMMA SameIsLater == Later(listeners, listeners)
  BY DEF Later

\* The lists stay kept where nothing changes them.
LEMMA ListsStay == ListsAreKept /\ UNCHANGED listenerVars => ListsAreKept'
  BY DEF ListsAreKept, listenerVars

\* The hint stays true where neither the tree nor the input changes.
LEMMA HintStays == HintIsTrue /\ UNCHANGED <<parent, revision, input>> => HintIsTrue'
  BY DEF HintIsTrue, PathTo

\* The invariant holds at first.
LEMMA EventsStart == EventInit => EventInv
<1> SUFFICES ASSUME EventInit PROVE EventInv
  OBVIOUS
<1> USE DEF EventInit
<1>1. EventTyped
  BY DEF NoInput, InputRecord, EventTyped
<1>2. ListsAreKept
  BY DEF ListsAreKept
<1>3. HintIsTrue
  BY DEF HintIsTrue, NoInput
<1>4. \A n \in DOMAIN events : GoodEvent(events[n], listeners)
  OBVIOUS
<1>5. QED BY <1>1, <1>2, <1>3, <1>4 DEF EventInv

\* A listener that is called hears the event in its turn.
LEMMA CallKeepsEvents ==
  ASSUME EventInv, CallListener
  PROVE  EventInv'
<1>1. PICK e \in EventRecord : e = Event /\ GoodEvent(e, listeners) /\ e.queue # <<>>
  BY FrontStays DEF EventInv, EventTyped, CallListener
<1> DEFINE l == Head(e.queue)
           a == [e EXCEPT !.queue = <<>>, !.calling = FALSE]
           b == [e EXCEPT !.queue = Tail(e.queue), !.calling = FALSE]
           c == [e EXCEPT !.queue = Tail(e.queue), !.calling = TRUE,
                          !.heard = Append(e.heard, [by |-> l, turn |-> e.turn])]
<1>2. /\ l \in DOMAIN listeners /\ a \in EventRecord /\ b \in EventRecord /\ c \in EventRecord
      /\ e.now => GoodEvent(a, listeners)
  BY <1>1, CalledIsGood DEF EventInv
<1>3. /\ listeners[l].removed => GoodEvent(b, listeners)
      /\ GoodEvent(c, listeners)
  BY <1>1, CalledIsGood DEF EventInv
<1>4. /\ UNCHANGED <<parent, revision, input>> /\ events # <<>>
      /\ \/ e.now /\ events' = Replaced(a) /\ UNCHANGED listenerVars
         \/ listeners[l].removed /\ events' = Replaced(b) /\ UNCHANGED listenerVars
         \/ /\ events' = Replaced(c)
            /\ RemoveListenerRecord(l) \/ UNCHANGED listenerVars
  <2>1. [[e EXCEPT !.queue = Tail(e.queue), !.calling = FALSE]
            EXCEPT !.calling = TRUE,
                   !.heard = Append(@, [by |-> l, turn |-> e.turn])] = c
    BY DEF EventRecord
  <2>2. /\ UNCHANGED <<parent, revision, input>> /\ events # <<>>
        /\ IF e.now THEN events' = Replaced(a) /\ UNCHANGED listenerVars
           ELSE IF listeners[l].removed THEN events' = Replaced(b) /\ UNCHANGED listenerVars
           ELSE /\ events' = Replaced([b EXCEPT !.calling = TRUE,
                                          !.heard = Append(@, [by |-> l, turn |-> e.turn])])
                /\ IF listeners[l].once THEN RemoveListenerRecord(l) ELSE UNCHANGED listenerVars
    BY <1>1 DEF CallListener
  <2> HIDE DEF a, l, c
  <2>3. QED BY <2>1, <2>2
<1> HIDE DEF a, b, c, l
<1>5. EventTyped /\ ListsAreKept /\ HintIsTrue
  BY DEF EventInv
<1>6. /\ listeners' \in Seq(Listener) /\ lists' \in [EventTargets -> Seq(Nat)]
      /\ ListsAreKept' /\ Later(listeners, listeners')
  BY <1>2, <1>5, RemovalKeepsLists, SameIsLater, ListsStay, <1>4 DEF listenerVars, EventTyped
<1>7. /\ events' \in Seq(EventRecord)
      /\ \A n \in DOMAIN events' : GoodEvent(events'[n], listeners')
  BY <1>2, <1>3, <1>4, <1>6, ReplacedIsGood
<1>8. EventTyped'
  BY <1>4, <1>5, <1>6, <1>7 DEF EventTyped
<1>9. HintIsTrue'
  BY <1>4, <1>5, HintStays
<1>10. QED BY <1>6, <1>7, <1>8, <1>9 DEF EventInv

\* A turn that is over is followed by the next, or by the end of the dispatch.
LEMMA NextKeepsEvents ==
  ASSUME EventInv, NextTurn
  PROVE  EventInv'
<1>0. EventTyped /\ ListsAreKept /\ HintIsTrue /\ UNCHANGED listenerVars
      /\ UNCHANGED <<parent, revision, input>>
  BY DEF EventInv, NextTurn
<1>1. events \in Seq(EventRecord) /\ events # <<>>
  BY <1>0 DEF EventTyped, NextTurn
<1>2. PICK e \in EventRecord : e = Event /\ GoodEvent(e, listeners) /\ e.queue = <<>>
  BY <1>1, FrontStays DEF EventInv, NextTurn
<1>3. /\ events' \in Seq(EventRecord)
      /\ \A n \in DOMAIN events' : GoodEvent(events'[n], listeners')
  <2>1. CASE IsOver(Event)
    BY <2>1, <1>0, <1>1, FrontStays DEF NextTurn, listenerVars, EventInv
  <2>2. CASE ~IsOver(Event)
    <3> DEFINE x == TurnOf(e, e.turn + 1)
    <3>1. events' = Replaced(x) /\ listeners' = listeners
      BY <2>2, <1>0, <1>2 DEF NextTurn, listenerVars
    <3>2. ~e.stopped /\ e.turn # 2 * Len(e.path) - 1
      BY <2>2, <1>2 DEF IsOver
    <3>3. HeardInTurn(e, listeners) /\ NobodyIsSkipped(e, listeners) /\ StopsHere(e)
      BY <1>2 DEF GoodEvent
    <3>4. Len(e.path) \in {1, 3} /\ e.turn \in Nat /\ e.heard \in Seq(Hearing)
      BY PathsAreShort DEF EventRecord
    <3>5. e.turn + 1 \in 1 .. 2 * Len(e.path) - 1
      BY <3>2, <3>3, <3>4 DEF StopsHere
    <3>6. ~e.now /\ e.until = 2 * Len(e.path) /\ e.sound
      BY <3>2, <3>3 DEF StopsHere
    <3>7. \A i \in DOMAIN e.heard : /\ e.heard[i].by \in DOMAIN listeners
                                    /\ e.heard[i].turn \in Places(e, listeners, e.heard[i].by)
                                    /\ e.heard[i].turn < e.turn + 1
      <4>1. \A i \in DOMAIN e.heard : e.heard[i].turn \in Nat
        <5>1. \A i \in DOMAIN e.heard : e.heard[i] \in Hearing
          BY <3>4
        <5>2. QED BY <5>1 DEF Hearing
      <4>2. QED BY <4>1, <3>3, <3>4 DEF HeardInTurn
    <3>8. \A i, j \in DOMAIN e.heard :
            i < j => e.heard[i].by # e.heard[j].by /\ e.heard[i].turn <= e.heard[j].turn
      BY <3>3 DEF HeardInTurn
    <3>9. ASSUME NEW l \in e.known, NEW t \in Places(e, listeners, l), t < e.turn + 1
          PROVE  listeners[l].removed \/ \E i \in DOMAIN e.heard : e.heard[i].by = l
      BY <3>4, <3>9, <1>2, <3>3, <3>6 DEF Places, NobodyIsSkipped
    <3>10. e.known \subseteq DOMAIN listeners
      BY <3>3 DEF NobodyIsSkipped
    <3>11. x \in EventRecord /\ GoodEvent(x, listeners)
      BY <1>0, <3>2, <3>5, <3>6, <3>7, <3>8, <3>9, <3>10, TurnIsGood
    <3> HIDE DEF x
    <3>12. Later(listeners, listeners')
      BY <3>1, SameIsLater
    <3>13. QED BY <1>1, <3>1, <3>11, <3>12, ReplacedIsGood
  <2>3. QED BY <2>1, <2>2
<1>4. EventTyped'
  BY <1>0, <1>3 DEF EventTyped, listenerVars
<1>5. QED BY <1>0, <1>3, <1>4, ListsStay, HintStays DEF EventInv
\* The way to the element is a path of an event.
LEMMA WayToElement == EventTyped => PathTo("element") \in EventPaths
  BY DEF EventTyped, PathTo, EventPaths

\* A dispatch begins beside those that go on.
LEMMA DispatchIsGood ==
  ASSUME EventInv, NEW path \in EventPaths,
         path = PathTo("element") \/ input.blind, NEW e, Begun(e, path),
         Dispatch(e), UNCHANGED listenerVars
  PROVE  /\ events' \in Seq(EventRecord)
         /\ \A n \in DOMAIN events' : GoodEvent(events'[n], listeners')
<1>1. TurnOf(e, 1) \in EventRecord /\ GoodEvent(TurnOf(e, 1), listeners)
  BY BegunIsGood DEF EventInv
<1>2. events' = Append(events, TurnOf(e, 1)) /\ listeners' = listeners
  BY DEF Dispatch, listenerVars
<1>3. QED BY <1>1, <1>2, AppendedIsGood

\* The dispatches stay good where neither they nor the listeners change.
LEMMA EventsStay ==
  ASSUME EventInv, events' = events, listeners' = listeners
  PROVE  /\ events' \in Seq(EventRecord)
         /\ \A n \in DOMAIN events' : GoodEvent(events'[n], listeners')
  BY DEF EventInv, EventTyped

\* An input that arrives brings the path of the tree.
LEMMA ArrivalKeepsEvents ==
  ASSUME EventInv, InputArrives
  PROVE  EventInv'
<1>1. EventTyped /\ ListsAreKept
  BY DEF EventInv
<1> DEFINE p == PathTo("element")
<1>2. p \in EventPaths
  BY <1>1, WayToElement
<1>3. input' = [left |-> 3, path |-> p, revision |-> 0, hinted |-> FALSE, blind |-> FALSE]
  BY DEF InputArrives, NoInput
<1>4. UNCHANGED <<parent, revision, listenerVars, events>>
  BY DEF InputArrives, dispatchVars
<1>5. p = PathTo("element")'
  BY <1>4 DEF PathTo
<1> HIDE DEF p
<1>6. EventTyped'
  BY <1>1, <1>2, <1>3, <1>4 DEF EventTyped, InputRecord, listenerVars
<1>7. HintIsTrue'
  BY <1>2, <1>3, <1>5 DEF HintIsTrue
<1>8. events' = events /\ listeners' = listeners
  BY <1>4 DEF listenerVars
<1>9. QED BY <1>1, <1>4, <1>6, <1>7, <1>8, ListsStay, EventsStay DEF EventInv

\* The element is told of the capture, or nobody is.
LEMMA CaptureKeepsEvents ==
  ASSUME EventInv, CaptureIsTold
  PROVE  EventInv'
<1>1. EventTyped /\ ListsAreKept /\ HintIsTrue
  BY DEF EventInv
<1>2. input.left = 3 /\ input' = [input EXCEPT !.left = 2] /\ input \in InputRecord
  BY <1>1 DEF CaptureIsTold, EventTyped
<1>3. UNCHANGED <<parent, revision, listenerVars>>
  BY DEF CaptureIsTold
<1>4. /\ input' \in InputRecord /\ input'.left = 2 /\ input'.path = input.path
      /\ input'.hinted = input.hinted /\ input'.blind = input.blind
      /\ input'.revision = input.revision
  BY <1>2 DEF InputRecord
<1>5. HintIsTrue'
  BY <1>3, <1>1, <1>2, <1>4 DEF PathTo, HintIsTrue
<1>6. /\ events' \in Seq(EventRecord)
      /\ \A n \in DOMAIN events' : GoodEvent(events'[n], listeners')
  <2>1. CASE Dispatch(NewEvent(PathTo("element")))
    <3>1. PICK p \in EventPaths : p = PathTo("element")
      BY <1>1, WayToElement
    <3>2. PICK e : e = NewEvent(p) /\ Begun(e, p)
      BY DEF Begun
    <3>3. Dispatch(e)
      BY <2>1, <3>1, <3>2
    <3>4. QED BY <1>3, <3>1, <3>2, <3>3, DispatchIsGood
  <2>2. CASE UNCHANGED dispatchVars
    BY <2>2, <1>3, EventsStay DEF dispatchVars, listenerVars
  <2>3. QED BY <2>1, <2>2 DEF CaptureIsTold
<1>7. EventTyped'
  BY <1>1, <1>3, <1>4, <1>6 DEF EventTyped, listenerVars
<1>8. QED BY <1>1, <1>3, <1>5, <1>6, <1>7, ListsStay DEF EventInv

\* The events of an input walk the path of the hit test while it is the tree's.
LEMMA InputKeepsEvents ==
  ASSUME EventInv, DispatchInput
  PROVE  EventInv'
<1>1. EventTyped /\ ListsAreKept /\ HintIsTrue /\ input \in InputRecord /\ revision \in Nat
  BY DEF EventInv, EventTyped
<1>2. UNCHANGED <<parent, revision, listenerVars>> /\ input.left \in 1 .. 2
  BY DEF DispatchInput
<1>3. /\ input.path \in EventPaths /\ input.hinted => input.left = 1
  BY <1>1, <1>2 DEF HintIsTrue
<1>4. ~input.blind /\ (input.hinted => input.revision = revision) =>
        input.path = PathTo("element")
  BY <1>1, <1>2 DEF HintIsTrue
<1>5. input.path \in EventPaths
  BY <1>1, <1>2 DEF HintIsTrue
<1>6. PICK p \in EventPaths :
        p = HintedPropagationPath /\ (p = PathTo("element") \/ input.blind)
  BY <1>4, <1>5, <1>1, WayToElement DEF HintedPropagationPath, PathHint
<1>7. PICK e : e = NewEvent(p) /\ Begun(e, p)
  BY DEF Begun
<1>8. Dispatch(e)
  BY <1>6, <1>7 DEF DispatchInput
<1>9. /\ events' \in Seq(EventRecord)
      /\ \A n \in DOMAIN events' : GoodEvent(events'[n], listeners')
  BY <1>2, <1>6, <1>7, <1>8, DispatchIsGood
<1>10. input' \in InputRecord /\ HintIsTrue'
  <2>1. CASE input.left = 1
    BY <2>1 DEF DispatchInput, NoInput, InputRecord, HintIsTrue
  <2>2. CASE input.left # 1
    <3>1. ~input.hinted
      BY <2>2, <1>1, <1>2 DEF HintIsTrue
    <3>2. input' = [input EXCEPT !.left = 1, !.hinted = TRUE, !.revision = revision]
      BY <2>2, <3>1 DEF DispatchInput, PathHint
    <3>3. /\ input' \in InputRecord /\ input'.left = 1 /\ input'.path = input.path
          /\ input'.revision = revision /\ input'.blind = input.blind
      <4>1. input.blind \in BOOLEAN /\ input.path \in EventPaths \cup {<<>>}
        BY <1>1 DEF InputRecord
      <4>2. input' = [left |-> 1, path |-> input.path, revision |-> revision, hinted |-> TRUE,
                      blind |-> input.blind]
        BY <3>2, <1>1 DEF InputRecord
      <4>3. input' \in InputRecord
        BY <4>1, <4>2, <1>1 DEF InputRecord
      <4>4. QED BY <4>2, <4>3
    <3>4. PathTo("element")' = PathTo("element") /\ revision' = revision
      BY <1>2 DEF PathTo
    <3>5. HintIsTrue'
      BY <3>1, <3>3, <3>4, <1>4, <1>1, <1>5 DEF HintIsTrue
    <3>6. QED BY <3>3, <3>5
  <2>3. QED BY <2>1, <2>2
<1>11. EventTyped'
  BY <1>1, <1>2, <1>9, <1>10 DEF EventTyped, listenerVars
<1>12. QED BY <1>1, <1>2, <1>9, <1>10, <1>11, ListsStay DEF EventInv

\* A listener that is registered joins the list of its target.
LEMMA AddKeepsEvents ==
  ASSUME EventInv, AddEventListener
  PROVE  EventInv'
<1>1. EventTyped /\ ListsAreKept /\ HintIsTrue
  BY DEF EventInv
<1> DEFINE L == listeners
           n == Len(L) + 1
<1>2. PICK at \in {"window", "element"}, r \in Listener :
        /\ r.at = at /\ listeners' = Append(L, r)
        /\ lists' = [lists EXCEPT ![at] = Append(lists[at], n)]
  <2>1. PICK at \in {"window", "element"}, captured \in BOOLEAN, once \in BOOLEAN :
          /\ listeners' = Append(listeners, [at |-> at, capture |-> captured, once |-> once,
                                             removed |-> FALSE])
          /\ lists' = [lists EXCEPT ![at] = Append(lists[at], Len(listeners) + 1)]
    BY DEF AddEventListener
  <2>2. [at |-> at, capture |-> captured, once |-> once, removed |-> FALSE] \in Listener
    BY DEF Listener
  <2>3. QED BY <2>1, <2>2
<1> DEFINE M == Append(L, r)
           a == Append(lists[at], n)
<1>3. L \in Seq(Listener) /\ at \in EventTargets /\ lists[at] \in Seq(Nat)
  BY <1>1 DEF EventTyped, EventTargets
<1>4. /\ M \in Seq(Listener) /\ Len(L) \in Nat /\ DOMAIN L = 1 .. Len(L) /\ DOMAIN M = 1 .. n
      /\ M[n] = r /\ \A l \in DOMAIN L : M[l] = L[l]
  <2> HIDE DEF L
  <2>1. M \in Seq(Listener)
    BY <1>3
  <2>2. Len(L) \in Nat /\ DOMAIN L = 1 .. Len(L) /\ DOMAIN M = 1 .. n
    BY <1>3
  <2>3. M[n] = r
    BY <1>3
  <2>4. \A l \in DOMAIN L : M[l] = L[l]
    BY <1>3
  <2>5. QED BY <2>1, <2>2, <2>3, <2>4
<1>5. /\ a \in Seq(Nat) /\ DOMAIN a = 1 .. (Len(lists[at]) + 1) /\ Len(lists[at]) \in Nat
      /\ DOMAIN lists[at] = 1 .. Len(lists[at]) /\ a[Len(lists[at]) + 1] = n
      /\ \A k \in DOMAIN lists[at] : a[k] = lists[at][k]
  <2>1. n \in Nat
    BY <1>4
  <2> HIDE DEF n
  <2>2. PICK s \in Seq(Nat) : s = lists[at]
    BY <1>3
  <2> DEFINE b == Append(s, n)
  <2>3. b \in Seq(Nat)
    BY <2>1
  <2>4. DOMAIN b = 1 .. (Len(s) + 1) /\ Len(s) \in Nat /\ DOMAIN s = 1 .. Len(s)
    OBVIOUS
  <2>5. b[Len(s) + 1] = n
    OBVIOUS
  <2>6. \A k \in DOMAIN s : b[k] = s[k]
    OBVIOUS
  <2> HIDE DEF b
  <2>7. a = b
    BY <2>2 DEF b
  <2> HIDE DEF a
  <2>8. QED BY <2>2, <2>3, <2>4, <2>5, <2>6, <2>7
<1>6. lists' \in [EventTargets -> Seq(Nat)] /\ lists'[at] = a
      /\ \A t \in EventTargets \ {at} : lists'[t] = lists[t]
  <2> HIDE DEF a, n
  <2>1. lists' = [lists EXCEPT ![at] = a] /\ lists \in [EventTargets -> Seq(Nat)]
    BY <1>1, <1>2 DEF EventTyped, a
  <2>2. QED BY <2>1, <1>3, <1>5
<1>7. listeners' = M
  BY <1>2
<1>8. ASSUME NEW t \in EventTargets
      PROVE  /\ \A k \in DOMAIN lists[t] : lists[t][k] \in DOMAIN L /\ L[lists[t][k]].at = t
             /\ \A j, k \in DOMAIN lists[t] : j < k => lists[t][j] # lists[t][k]
             /\ \A l \in DOMAIN L : L[l].at = t /\ ~L[l].removed =>
                  \E k \in DOMAIN lists[t] : lists[t][k] = l
  BY <1>1 DEF ListsAreKept
<1> HIDE DEF L, M, a
<1>9. /\ \A l \in DOMAIN M : l \in DOMAIN L \/ l = n
      /\ n \notin DOMAIN L /\ DOMAIN L \subseteq DOMAIN M /\ n \in DOMAIN M
  BY <1>4
<1> HIDE DEF n
<1>10. ASSUME NEW t \in EventTargets
       PROVE  /\ \A k \in DOMAIN lists'[t] : lists'[t][k] \in DOMAIN M /\ M[lists'[t][k]].at = t
              /\ \A j, k \in DOMAIN lists'[t] : j < k => lists'[t][j] # lists'[t][k]
              /\ \A l \in DOMAIN M : M[l].at = t /\ ~M[l].removed =>
                   \E k \in DOMAIN lists'[t] : lists'[t][k] = l
  <2>1. CASE t # at
    <3>1. lists'[t] = lists[t]
      BY <2>1, <1>6
    <3>2. M[n].at # t
      BY <2>1, <1>2, <1>4
    <3>3. QED BY <3>1, <3>2, <1>4, <1>8, <1>9
  <2>2. CASE t = at
    <3>1. lists'[t] = a
      BY <2>2, <1>6
    <3>2. \A k \in DOMAIN a : k \in DOMAIN lists[at] \/ k = Len(lists[at]) + 1
      BY <1>5
    <3>3. ASSUME NEW k \in DOMAIN a PROVE a[k] \in DOMAIN M /\ M[a[k]].at = at
      <4>1. CASE k \in DOMAIN lists[at]
        <5>1. a[k] = lists[at][k] /\ a[k] \in DOMAIN L /\ L[a[k]].at = at
          BY <4>1, <1>3, <1>5, <1>8
        <5>2. QED BY <5>1, <1>4, <1>9
      <4>2. CASE k = Len(lists[at]) + 1
        BY <4>2, <1>2, <1>4, <1>5, <1>9
      <4>3. QED BY <4>1, <4>2, <3>2
    <3>4. ASSUME NEW j \in DOMAIN a, NEW k \in DOMAIN a, j < k PROVE a[j] # a[k]
      <4>1. j \in DOMAIN lists[at]
        BY <3>4, <1>5
      <4>2. CASE k \in DOMAIN lists[at]
        <5>1. a[j] = lists[at][j] /\ a[k] = lists[at][k]
          BY <4>1, <4>2, <1>5
        <5>2. lists[at][j] # lists[at][k]
          BY <4>1, <4>2, <3>4, <1>3, <1>8
        <5>3. QED BY <5>1, <5>2
      <4>3. CASE k \notin DOMAIN lists[at]
        <5>1. a[k] = n /\ a[j] = lists[at][j]
          BY <4>1, <4>3, <3>2, <1>5
        <5>2. lists[at][j] \in DOMAIN L
          BY <4>1, <1>3, <1>8
        <5>3. QED BY <5>1, <5>2, <1>9
      <4>4. QED BY <4>2, <4>3
    <3>5. ASSUME NEW l \in DOMAIN M, M[l].at = at, ~M[l].removed
          PROVE  \E k \in DOMAIN a : a[k] = l
      <4>1. CASE l = n
        BY <1>5, <4>1
      <4>2. CASE l \in DOMAIN L
        <5>1. PICK k \in DOMAIN lists[at] : lists[at][k] = l
          BY <4>2, <3>5, <1>3, <1>4, <1>8
        <5>2. k \in DOMAIN a
          BY <1>5
        <5>3. QED BY <5>1, <5>2, <1>5
      <4>3. QED BY <4>1, <4>2, <1>9
    <3>6. QED BY <2>2, <3>1, <3>3, <3>4, <3>5
  <2>3. QED BY <2>1, <2>2
<1>11. ListsAreKept'
  BY <1>7, <1>10 DEF ListsAreKept
<1>12. Later(listeners, listeners')
  BY <1>4, <1>7, <1>9 DEF Later, L
<1>13. UNCHANGED <<parent, revision, input, events>>
  BY DEF AddEventListener, dispatchVars
<1>14. \A m \in DOMAIN events' : GoodEvent(events'[m], listeners')
  BY <1>12, <1>13, GoodStays DEF EventInv
<1>15. EventTyped'
  BY <1>1, <1>4, <1>6, <1>7, <1>13 DEF EventTyped
<1>16. QED BY <1>1, <1>11, <1>13, <1>14, <1>15, HintStays DEF EventInv

\* A listener that is removed leaves its list and no dispatch.
LEMMA RemoveKeepsEvents ==
  ASSUME EventInv, RemoveEventListener
  PROVE  EventInv'
<1>1. EventTyped /\ ListsAreKept /\ HintIsTrue
  BY DEF EventInv
<1>2. PICK l \in DOMAIN listeners : RemoveListenerRecord(l)
  BY DEF RemoveEventListener
<1>3. /\ listeners' \in Seq(Listener) /\ lists' \in [EventTargets -> Seq(Nat)]
      /\ ListsAreKept' /\ Later(listeners, listeners')
  BY <1>1, <1>2, RemovalKeepsLists
<1>4. UNCHANGED <<parent, revision, input, events>>
  BY DEF RemoveEventListener, dispatchVars
<1>5. \A m \in DOMAIN events' : GoodEvent(events'[m], listeners')
  BY <1>3, <1>4, GoodStays DEF EventInv
<1>6. EventTyped'
  BY <1>1, <1>3, <1>4 DEF EventTyped
<1>7. QED BY <1>1, <1>3, <1>4, <1>5, <1>6, HintStays DEF EventInv

\* A script dispatches an event of its own.
LEMMA ScriptKeepsEvents ==
  ASSUME EventInv, DispatchEvent
  PROVE  EventInv'
<1>1. EventTyped /\ ListsAreKept /\ HintIsTrue
  BY DEF EventInv
<1>2. UNCHANGED <<parent, revision, listenerVars, input>>
  BY DEF DispatchEvent
<1>3. PICK bubbles \in BOOLEAN :
        Dispatch([NewEvent(PathTo("element")) EXCEPT !.bubbles = bubbles])
  BY DEF DispatchEvent
<1>4. PICK p \in EventPaths : p = PathTo("element")
  BY <1>1, WayToElement
<1>5. PICK e : e = [NewEvent(p) EXCEPT !.bubbles = bubbles]
  OBVIOUS
<1>6. Begun(e, p) /\ Dispatch(e)
  BY <1>3, <1>4, <1>5 DEF Begun
<1>7. /\ events' \in Seq(EventRecord)
      /\ \A n \in DOMAIN events' : GoodEvent(events'[n], listeners')
  BY <1>2, <1>4, <1>6, DispatchIsGood
<1>8. EventTyped'
  BY <1>1, <1>2, <1>7 DEF EventTyped, listenerVars
<1>9. QED BY <1>1, <1>2, <1>7, <1>8, ListsStay, HintStays DEF EventInv

\* A listener that stops the event makes the turn its last.
LEMMA StopKeepsEvents ==
  ASSUME EventInv, StopPropagation
  PROVE  EventInv'
<1>1. EventTyped /\ ListsAreKept /\ HintIsTrue
  BY DEF EventInv
<1>2. UNCHANGED <<parent, revision, listenerVars, input>> /\ events # <<>>
  BY DEF StopPropagation
<1>3. PICK e \in EventRecord : e = Event /\ GoodEvent(e, listeners) /\ ~e.now
  BY <1>1, <1>2, FrontStays DEF EventTyped, EventInv, StopPropagation
<1>4. PICK now \in BOOLEAN :
        events' = Replaced([e EXCEPT !.stopped = TRUE, !.now = now, !.until = e.turn])
  BY <1>3 DEF StopPropagation
<1> DEFINE x == [e EXCEPT !.stopped = TRUE, !.now = now, !.until = e.turn]
<1>5. x \in EventRecord
  BY DEF EventRecord
<1>6. /\ x.path = e.path /\ x.turn = e.turn /\ x.queue = e.queue /\ x.heard = e.heard
      /\ x.known = e.known /\ x.stopped /\ x.until = e.turn
  BY DEF EventRecord
<1>7. x.sound = e.sound
  BY DEF EventRecord
<1>8. events' = Replaced(x)
  BY <1>4
<1> HIDE DEF x
<1>9. \A l : Places(x, listeners, l) = Places(e, listeners, l)
  BY <1>6 DEF Places
<1>10. HeardInTurn(x, listeners) /\ WaitsForTurn(x, listeners)
  BY <1>3, <1>6, <1>9 DEF GoodEvent, HeardInTurn, WaitsForTurn
<1>11. NobodyIsSkipped(x, listeners)
  BY <1>3, <1>6, <1>9 DEF GoodEvent, NobodyIsSkipped
<1>12. StopsHere(x)
  BY <1>3, <1>6, <1>7 DEF GoodEvent, StopsHere
<1>13. GoodEvent(x, listeners)
  BY <1>10, <1>11, <1>12 DEF GoodEvent
<1>14. Later(listeners, listeners')
  BY <1>2, SameIsLater DEF listenerVars
<1>15. /\ events' \in Seq(EventRecord)
       /\ \A n \in DOMAIN events' : GoodEvent(events'[n], listeners')
  BY <1>2, <1>5, <1>8, <1>13, <1>14, ReplacedIsGood
<1>16. EventTyped'
  BY <1>1, <1>2, <1>15 DEF EventTyped, listenerVars
<1>17. QED BY <1>1, <1>2, <1>15, <1>16, ListsStay, HintStays DEF EventInv

\* A tree that changes takes the hint's truth, and the next event finds out or is blind.
LEMMA EditKeepsEvents ==
  ASSUME EventInv, NotifyMutation \/ RemoveElement
  PROVE  EventInv'
<1>1. EventTyped /\ ListsAreKept /\ HintIsTrue /\ input \in InputRecord /\ revision \in Nat
  BY DEF EventInv, EventTyped
<1>2. UNCHANGED <<listenerVars, dispatchVars>> /\ parent' \in {"left", "right", "detached"}
  BY DEF NotifyMutation, RemoveElement, TreeEdit
<1>3. input' \in InputRecord /\ revision' \in Nat /\ HintIsTrue'
  <2>1. CASE NotifyMutation
    <3> DEFINE b == input.blind \/ (input.left > 0 /\ ~input.hinted)
    <3>1. input' = [input EXCEPT !.blind = b] /\ revision' = revision + 1 /\ b \in BOOLEAN
      BY <2>1 DEF NotifyMutation
    <3>2. input.left > 0 /\ ~b => input.hinted
      OBVIOUS
    <3> HIDE DEF b
    <3>3. /\ input' \in InputRecord /\ input'.left = input.left /\ input'.path = input.path
          /\ input'.hinted = input.hinted /\ input'.revision = input.revision
          /\ input'.blind = b /\ input.revision \in Nat
      BY <3>1, <1>1 DEF InputRecord
    <3>4. input.left > 0 /\ input.hinted =>
            input.revision <= revision' /\ input.revision # revision'
      BY <3>1, <3>3, <1>1 DEF HintIsTrue
    <3>5. HintIsTrue'
      BY <3>2, <3>3, <3>4, <1>1 DEF HintIsTrue
    <3>6. QED BY <3>1, <3>3, <3>5, <1>1
  <2>2. CASE RemoveElement
    <3> DEFINE b == input.left > 0
    <3>1. input' = [input EXCEPT !.blind = b] /\ revision' = revision /\ b \in BOOLEAN
      BY <2>2 DEF RemoveElement
    <3>2. input.left > 0 => b
      OBVIOUS
    <3> HIDE DEF b
    <3>3. /\ input' \in InputRecord /\ input'.left = input.left /\ input'.path = input.path
          /\ input'.hinted = input.hinted /\ input'.revision = input.revision
          /\ input'.blind = b
      BY <3>1, <1>1 DEF InputRecord
    <3>4. HintIsTrue'
      BY <3>1, <3>2, <3>3, <1>1 DEF HintIsTrue
    <3>5. QED BY <3>1, <3>3, <3>4, <1>1
  <2>3. QED BY <2>1, <2>2
<1>4. events' = events /\ listeners' = listeners /\ lists' = lists
  BY <1>2 DEF listenerVars, dispatchVars
<1>5. EventTyped'
  BY <1>1, <1>2, <1>3, <1>4 DEF EventTyped
<1>6. QED BY <1>1, <1>2, <1>3, <1>4, <1>5, ListsStay, EventsStay DEF EventInv

\* Every step keeps the invariant.
LEMMA EventStep == EventInv /\ [EventNext]_eventVars => EventInv'
<1> SUFFICES ASSUME EventInv, [EventNext]_eventVars PROVE EventInv'
  OBVIOUS
<1>1. CASE UNCHANGED eventVars
  BY <1>1, ListsStay, HintStays, EventsStay DEF eventVars, listenerVars, dispatchVars, EventInv,
     EventTyped
<1>2. QED
  BY <1>1, CallKeepsEvents, NextKeepsEvents, ArrivalKeepsEvents, CaptureKeepsEvents,
     InputKeepsEvents, AddKeepsEvents, RemoveKeepsEvents, ScriptKeepsEvents, StopKeepsEvents,
     EditKeepsEvents DEF EventNext

\* A dispatch that is good and over is fair.
LEMMA GoodIsFair == EventInv => EventsAreHeard
<1> SUFFICES ASSUME EventInv PROVE EventsAreHeard
  OBVIOUS
<1>1. ASSUME NEW e \in ToSet(events) PROVE e \in EventRecord /\ GoodEvent(e, listeners)
  BY <1>1 DEF EventInv, EventTyped, ToSet
<1>2. ASSUME NEW e \in ToSet(events), IsOver(e)
      PROVE  /\ \A i, j \in DOMAIN e.heard :
                  i < j => e.heard[i].by # e.heard[j].by /\ e.heard[i].turn <= e.heard[j].turn
             /\ \A i \in DOMAIN e.heard :
                  /\ e.heard[i].turn \in TurnsOf(e, e.heard[i].by)
                  /\ e.heard[i].turn <= e.until
             /\ \A l \in e.known : \A stage \in TurnsOf(e, l) :
                  \/ listeners[l].removed
                  \/ stage > e.until
                  \/ e.now /\ stage = e.until
                  \/ ~e.bubbles /\ stage > Len(e.path)
                  \/ \E i \in DOMAIN e.heard : e.heard[i].by = l
  <2>1. e \in EventRecord /\ GoodEvent(e, listeners)
    BY <1>1
  <2>2. \A l : TurnsOf(e, l) = Places(e, listeners, l)
    BY DEF TurnsOf, Places
  <2>3. HeardInTurn(e, listeners) /\ NobodyIsSkipped(e, listeners) /\ StopsHere(e)
    BY <2>1 DEF GoodEvent
  <2>4. Len(e.path) \in {1, 3} /\ e.turn \in Nat /\ e.heard \in Seq(Hearing)
    BY <2>1, PathsAreShort DEF EventRecord
  <2>5. e.turn <= e.until /\ e.until \in Nat /\ e.turn \in 1 .. 2 * Len(e.path) - 1
    BY <2>3, <2>4 DEF StopsHere
  <2>6. \A i, j \in DOMAIN e.heard :
          i < j => e.heard[i].by # e.heard[j].by /\ e.heard[i].turn <= e.heard[j].turn
    BY <2>3 DEF HeardInTurn
  <2>7. ASSUME NEW i \in DOMAIN e.heard
        PROVE  e.heard[i].turn \in TurnsOf(e, e.heard[i].by) /\ e.heard[i].turn <= e.until
    <3>1. e.heard[i].turn \in Nat
      <4>1. e.heard[i] \in Hearing
        BY <2>4
      <4>2. QED BY <4>1 DEF Hearing
    <3>2. e.heard[i].turn <= e.turn
      BY <2>3 DEF HeardInTurn
    <3>3. e.heard[i].turn \in TurnsOf(e, e.heard[i].by)
      BY <2>2, <2>3 DEF HeardInTurn
    <3>4. QED BY <3>1, <3>2, <3>3, <2>4, <2>5
  <2>8. ASSUME NEW l \in e.known, NEW stage \in TurnsOf(e, l)
        PROVE  \/ listeners[l].removed
               \/ stage > e.until
               \/ e.now /\ stage = e.until
               \/ ~e.bubbles /\ stage > Len(e.path)
               \/ \E i \in DOMAIN e.heard : e.heard[i].by = l
    <3>1. stage \in Places(e, listeners, l) /\ stage \in 1 .. 2 * Len(e.path) - 1 /\ stage \in Int
      BY <2>2, <2>4 DEF Places
    <3>2. e.queue = <<>>
      BY <1>2 DEF IsOver
    <3>3. CASE stage <= e.turn
      BY <3>2, <3>1, <3>3, <2>3 DEF NobodyIsSkipped
    <3>4. CASE stage > e.turn
      BY <3>4, <2>3, <3>1, <2>4, <1>2 DEF StopsHere, IsOver
    <3>5. stage <= e.turn \/ stage > e.turn
      BY <3>1, <2>4
    <3>6. QED BY <3>3, <3>4, <3>5
  <2>9. QED BY <2>6, <2>7, <2>8
<1>3. DispatchIsFair
  BY <1>2 DEF DispatchIsFair
<1>4. PathIsTree
  BY <1>1 DEF PathIsTree, GoodEvent, StopsHere
<1>5. QED BY <1>3, <1>4 DEF EventsAreHeard

\* Whatever the listeners of an event register, remove, stop, move and dispatch, each dispatch
\* goes from the root to its target and back, is heard once by each listener in its turn, and
\* skips nobody who was there before it and still is; and the path that comes with a hit test is
\* walked only while it is the tree's, or where no revision tells of the change (invoke and
\* HintedPropagationPath).
THEOREM DispatchHolds == EventSpec => []EventsAreHeard
<1>1. QED BY EventsStart, EventStep, GoodIsFair, PTL DEF EventSpec

-----------------------------------------------------------------------------
(* NodeTree: the wrappers of a document are its nodes                       *)

\* What takes out each child in turn stays among trees that taking one out stays among.
LEMMA EmptiedStays ==
  ASSUME NEW refs, NEW t, NEW m, NEW D, t \in D, NEW X, t[m] \in Seq(X),
         \A a \in D, x \in X : TakenOut(a, refs, x) \in D
  PROVE  Emptied(t, refs, m) \in D
<1> DEFINE s == t[m]
           base == t
           n == Len(s)
           G == [r \in D \X (1 .. n) |-> TakenOut(r[1], refs, s[r[2]])]
           Then(f, q) == TakenOut(f[q \ {Max(q)}], refs, s[Max(q)])
           c == CHOOSE f : f = [q \in SUBSET (DOMAIN s) |-> IF q = {} THEN base ELSE Then(f, q)]
<1>1. n \in Nat /\ DOMAIN s = 1 .. n /\ \A i \in 1 .. n : s[i] \in X
  OBVIOUS
<1>2. ASSUME NEW a \in D, NEW i \in 1 .. n
      PROVE  G[<<a, i>>] = TakenOut(a, refs, s[i]) /\ G[<<a, i>>] \in D
  BY <1>1
<1>3. G \in [D \X (1 .. n) -> D]
  BY <1>1
<1>4. PICK it \in [SUBSET (1 .. n) -> D] : Folding(it, n, base, G)
  <2> HIDE DEF G, n
  <2>1. QED BY <1>1, <1>3, FoldExists
<1>5. ASSUME NEW q \in SUBSET (1 .. n), q # {}
      PROVE  Max(q) \in 1 .. n /\ q \ {Max(q)} \in SUBSET (1 .. n)
  BY <1>1, <1>5, LargestIsIn
<1>6. it = [q \in SUBSET (DOMAIN s) |-> IF q = {} THEN base ELSE Then(it, q)]
  <2>1. ASSUME NEW q \in SUBSET (1 .. n) PROVE it[q] = IF q = {} THEN base ELSE Then(it, q)
    <3>1. CASE q = {}
      BY <3>1, <1>4 DEF Folding
    <3>2. CASE q # {}
      <4> HIDE DEF G
      <4>1. Max(q) \in 1 .. n /\ it[q \ {Max(q)}] \in D
        BY <3>2, <1>4, <1>5
      <4>2. it[q] = G[<<it[q \ {Max(q)}], Max(q)>>]
        BY <3>2, <1>4 DEF Folding
      <4>3. QED BY <3>2, <4>1, <4>2, <1>2
    <3>3. QED BY <3>1, <3>2
  <2> HIDE DEF Then
  <2>2. QED BY <2>1, <1>1, <1>4
<1>7. c = [q \in SUBSET (DOMAIN s) |-> IF q = {} THEN base ELSE Then(c, q)]
  <2> HIDE DEF Then
  <2>1. QED BY <1>6
<1>8. Emptied(t, refs, m) = c[1 .. n]
  BY <1>1 DEF Emptied, FoldLeft, MapThenFoldSet
<1>9. PICK h \in [0 .. n -> D] : h[n] = c[1 .. n] /\ Stepping(h, n, base, G)
  <2>1. FoldingIn(c, n, D, base, G)
    <3>1. c[{}] = base
      <4> HIDE DEF c, Then
      <4>1. {} \in SUBSET (DOMAIN s)
        OBVIOUS
      <4>2. QED BY <1>7, <4>1
    <3>2. ASSUME NEW q \in SUBSET (1 .. n), q # {}, c[q \ {Max(q)}] \in D
          PROVE  c[q] = G[<<c[q \ {Max(q)}], Max(q)>>]
      <4> HIDE DEF G, c
      <4>1. c[q] = Then(c, q)
        <5> HIDE DEF Then
        <5>1. QED BY <1>1, <1>7, <3>2
      <4>2. Max(q) \in 1 .. n
        BY <1>5, <3>2
      <4>3. QED BY <1>2, <3>2, <4>1, <4>2
    <3>3. QED BY <3>1, <3>2 DEF FoldingIn
  <2> HIDE DEF G, n, c
  <2>2. QED BY <2>1, <1>1, <1>3, FoldSteps
<1>10. QED BY <1>8, <1>9, <1>1


\* What places each child in turn stays among trees that placing one stays among.
LEMMA SplicedStays ==
  ASSUME NEW p, NEW ref, NEW t, NEW m, NEW D, t \in D, NEW X, t[m] \in Seq(X),
         \A a \in D, x \in X : Placed(a, p, x, ref) \in D
  PROVE  Spliced(t, p, m, ref) \in D
<1> DEFINE s == t[m]
           base == t
           n == Len(s)
           G == [r \in D \X (1 .. n) |-> Placed(r[1], p, s[r[2]], ref)]
           Then(f, q) == Placed(f[q \ {Max(q)}], p, s[Max(q)], ref)
           c == CHOOSE f : f = [q \in SUBSET (DOMAIN s) |-> IF q = {} THEN base ELSE Then(f, q)]
<1>1. n \in Nat /\ DOMAIN s = 1 .. n /\ \A i \in 1 .. n : s[i] \in X
  OBVIOUS
<1>2. ASSUME NEW a \in D, NEW i \in 1 .. n
      PROVE  G[<<a, i>>] = Placed(a, p, s[i], ref) /\ G[<<a, i>>] \in D
  BY <1>1
<1>3. G \in [D \X (1 .. n) -> D]
  BY <1>1
<1>4. PICK it \in [SUBSET (1 .. n) -> D] : Folding(it, n, base, G)
  <2> HIDE DEF G, n
  <2>1. QED BY <1>1, <1>3, FoldExists
<1>5. ASSUME NEW q \in SUBSET (1 .. n), q # {}
      PROVE  Max(q) \in 1 .. n /\ q \ {Max(q)} \in SUBSET (1 .. n)
  BY <1>1, <1>5, LargestIsIn
<1>6. it = [q \in SUBSET (DOMAIN s) |-> IF q = {} THEN base ELSE Then(it, q)]
  <2>1. ASSUME NEW q \in SUBSET (1 .. n) PROVE it[q] = IF q = {} THEN base ELSE Then(it, q)
    <3>1. CASE q = {}
      BY <3>1, <1>4 DEF Folding
    <3>2. CASE q # {}
      <4> HIDE DEF G
      <4>1. Max(q) \in 1 .. n /\ it[q \ {Max(q)}] \in D
        BY <3>2, <1>4, <1>5
      <4>2. it[q] = G[<<it[q \ {Max(q)}], Max(q)>>]
        BY <3>2, <1>4 DEF Folding
      <4>3. QED BY <3>2, <4>1, <4>2, <1>2
    <3>3. QED BY <3>1, <3>2
  <2> HIDE DEF Then
  <2>2. QED BY <2>1, <1>1, <1>4
<1>7. c = [q \in SUBSET (DOMAIN s) |-> IF q = {} THEN base ELSE Then(c, q)]
  <2> HIDE DEF Then
  <2>1. QED BY <1>6
<1>8. Spliced(t, p, m, ref) = c[1 .. n]
  BY <1>1 DEF Spliced, FoldLeft, MapThenFoldSet
<1>9. PICK h \in [0 .. n -> D] : h[n] = c[1 .. n] /\ Stepping(h, n, base, G)
  <2>1. FoldingIn(c, n, D, base, G)
    <3>1. c[{}] = base
      <4> HIDE DEF c, Then
      <4>1. {} \in SUBSET (DOMAIN s)
        OBVIOUS
      <4>2. QED BY <1>7, <4>1
    <3>2. ASSUME NEW q \in SUBSET (1 .. n), q # {}, c[q \ {Max(q)}] \in D
          PROVE  c[q] = G[<<c[q \ {Max(q)}], Max(q)>>]
      <4> HIDE DEF G, c
      <4>1. c[q] = Then(c, q)
        <5> HIDE DEF Then
        <5>1. QED BY <1>1, <1>7, <3>2
      <4>2. Max(q) \in 1 .. n
        BY <1>5, <3>2
      <4>3. QED BY <1>2, <3>2, <4>1, <4>2
    <3>3. QED BY <3>1, <3>2 DEF FoldingIn
  <2> HIDE DEF G, n, c
  <2>2. QED BY <2>1, <1>1, <1>3, FoldSteps
<1>10. QED BY <1>8, <1>9, <1>1


\* A tree as the models hold it: the children of some nodes; and those that have a set of nodes.
Trees == UNION {[S -> Seq(Nat)] : S \in SUBSET Nat}
TreesWith(R) == {t \in Trees : R \subseteq DOMAIN t}

\* The wrappers whose count has not been given back, and those of one node.
Unreleased == (DOMAIN wrapped \ collected) \cup tableOwed
CountedFor(n) == {w \in Unreleased : wrapped[w] = n}

\* Types, of what the proof needs.
NodeTyped ==
  /\ made \in Nat /\ kids \in Trees /\ wrapped \in Seq(Nat)
  /\ collected \subseteq DOMAIN wrapped
  /\ tableOwed \subseteq collected /\ cacheOwed \subseteq collected

\* The count of a node is that of its wrappers not released, and a node that is counted is there.
CountsAreTrue ==
  /\ DOMAIN references \subseteq DOMAIN kids
  /\ \A w \in Unreleased : wrapped[w] \in DOMAIN references
  /\ \A n \in DOMAIN references :
       CountedFor(n) # {} /\ references[n] = Cardinality(CountedFor(n))

\* The inductive invariant of NodeTree.
NodeInv == NodeTyped /\ CountsAreTrue /\ WrapperIsItsNodes

\* What a tree is made of, and that what is made so is a tree.
LEMMA TreeHas ==
  ASSUME NEW t \in Trees
  PROVE  DOMAIN t \in SUBSET Nat /\ t \in [DOMAIN t -> Seq(Nat)]
BY DEF Trees
LEMMA TreeMade ==
  ASSUME NEW S \in SUBSET Nat, NEW t \in [S -> Seq(Nat)]
  PROVE  t \in Trees /\ DOMAIN t = S
<1>1. [S -> Seq(Nat)] \in {[Q -> Seq(Nat)] : Q \in SUBSET Nat}
  OBVIOUS
<1>2. QED BY <1>1 DEF Trees

\* A node that is listed with its children.
LEMMA ListedIs ==
  ASSUME NEW t \in Trees, NEW x \in Nat, NEW v \in Seq(Nat)
  PROVE  Listed(t, x, v) \in Trees /\ DOMAIN Listed(t, x, v) = DOMAIN t \cup {x}
<1> DEFINE u == Listed(t, x, v)
           S == DOMAIN t \cup {x}
<1>1. S \in SUBSET Nat /\ t \in [DOMAIN t -> Seq(Nat)]
  BY TreeHas
<1>2. u \in [S -> Seq(Nat)]
  BY <1>1 DEF Listed
<1> HIDE DEF u, S
<1>3. u \in Trees /\ DOMAIN u = S
  BY <1>1, <1>2, TreeMade
<1>4. QED BY <1>3 DEF u, S

\* A node that leaves its parents takes none along.
LEMMA DetachedIs ==
  ASSUME NEW t \in Trees, NEW n
  PROVE  Detached(t, n) \in Trees /\ DOMAIN Detached(t, n) = DOMAIN t
<1> DEFINE u == Detached(t, n)
<1>1. DOMAIN t \in SUBSET Nat /\ t \in [DOMAIN t -> Seq(Nat)]
  BY TreeHas
<1>2. ASSUME NEW p \in DOMAIN t PROVE ItemsIn(t[p], Nat \ {n}) \in Seq(Nat)
  BY <1>1, ItemsAreKept
<1>3. u \in [DOMAIN t -> Seq(Nat)]
  BY <1>2 DEF Detached
<1> HIDE DEF u
<1>4. u \in Trees /\ DOMAIN u = DOMAIN t
  BY <1>1, <1>3, TreeMade
<1>5. QED BY <1>4 DEF u

\* A sweep takes no node away that is counted.
LEMMA SweptIs ==
  ASSUME NEW refs, NEW t \in TreesWith(DOMAIN refs), NEW n
  PROVE  Swept(t, refs, n) \in TreesWith(DOMAIN refs)
<1> DEFINE root == RootOf(t, n)
           gone == Subtree(t, root)
           u == Restrict(t, DOMAIN t \ gone)
<1>1. t \in Trees /\ DOMAIN refs \subseteq DOMAIN t
  BY DEF TreesWith
<1>2. DOMAIN t \in SUBSET Nat /\ t \in [DOMAIN t -> Seq(Nat)]
  BY <1>1, TreeHas
<1>3. Swept(t, refs, n) = IF root = Doc \/ gone \cap DOMAIN refs # {} THEN t ELSE u
  BY DEF Swept, HasReference, Pruned
<1> HIDE DEF root, gone
<1>4. DOMAIN t \ gone \in SUBSET Nat /\ u \in [DOMAIN t \ gone -> Seq(Nat)]
  BY <1>2 DEF Restrict
<1> HIDE DEF u
<1>5. u \in Trees /\ DOMAIN u = DOMAIN t \ gone
  BY <1>4, TreeMade
<1>6. gone \cap DOMAIN refs = {} => DOMAIN refs \subseteq DOMAIN u
  BY <1>1, <1>5
<1>7. QED BY <1>3, <1>5, <1>6 DEF TreesWith

\* Nor does taking a node out of its parents, with the sweep that follows.
LEMMA TakenOutIs ==
  ASSUME NEW refs, NEW t \in TreesWith(DOMAIN refs), NEW n
  PROVE  TakenOut(t, refs, n) \in TreesWith(DOMAIN refs)
<1>1. t \in Trees /\ DOMAIN refs \subseteq DOMAIN t
  BY DEF TreesWith
<1>2. Detached(t, n) \in Trees /\ DOMAIN Detached(t, n) = DOMAIN t
  BY <1>1, DetachedIs
<1>3. Detached(t, n) \in TreesWith(DOMAIN refs)
  BY <1>1, <1>2 DEF TreesWith
<1>4. QED BY <1>3, SweptIs DEF TakenOut

\* Nor emptying a node.
LEMMA EmptiedIs ==
  ASSUME NEW refs, NEW t \in TreesWith(DOMAIN refs), NEW n \in DOMAIN t
  PROVE  Emptied(t, refs, n) \in TreesWith(DOMAIN refs)
<1> DEFINE D == TreesWith(DOMAIN refs)
<1>1. t[n] \in Seq(Nat)
  BY TreeHas DEF TreesWith
<1>2. \A a \in D, x \in Nat : TakenOut(a, refs, x) \in D
  BY TakenOutIs
<1> HIDE DEF D
<1>3. t \in D
  BY DEF D
<1>4. Emptied(t, refs, n) \in D
  BY <1>1, <1>2, <1>3, EmptiedStays
<1>5. QED BY <1>4 DEF D

\* What is put into a list of nodes leaves a list of nodes.
LEMMA InsertedIs ==
  ASSUME NEW s \in Seq(Nat), NEW i \in 1 .. Len(s) + 1, NEW e \in Nat
  PROVE  InsertAt(s, i, e) \in Seq(Nat)
<1>1. /\ SubSeq(s, 1, i - 1) \in Seq(Nat) /\ SubSeq(s, i, Len(s)) \in Seq(Nat)
  OBVIOUS
<1>2. <<e>> \in Seq(Nat)
  OBVIOUS
<1>3. SubSeq(s, 1, i - 1) \o <<e>> \in Seq(Nat)
  BY <1>1, <1>2, ConcatProperties
<1>4. QED BY <1>1, <1>3, ConcatProperties DEF InsertAt

\* A node takes its place among the children of another: no node comes or goes.
LEMMA PlacedIs ==
  ASSUME NEW t \in Trees, NEW p \in DOMAIN t, NEW n \in Nat, NEW ref
  PROVE  Placed(t, p, n, ref) \in Trees /\ DOMAIN Placed(t, p, n, ref) = DOMAIN t
<1> DEFINE u == Detached(t, n)
           at == IF ref \in ToSet(u[p]) THEN CHOOSE i \in DOMAIN u[p] : u[p][i] = ref
                 ELSE Len(u[p]) + 1
           list == InsertAt(u[p], at, n)
           v == [u EXCEPT ![p] = list]
<1>1. u \in Trees /\ DOMAIN u = DOMAIN t
  BY DetachedIs
<1>2. DOMAIN u \in SUBSET Nat /\ u \in [DOMAIN u -> Seq(Nat)]
  BY <1>1, TreeHas
<1>3. Placed(t, p, n, ref) = v
  BY DEF Placed
<1> HIDE DEF u
<1>4. u[p] \in Seq(Nat) /\ Len(u[p]) \in Nat /\ DOMAIN u[p] = 1 .. Len(u[p])
  BY <1>1, <1>2
<1>5. at \in 1 .. Len(u[p]) + 1
  BY <1>4 DEF ToSet
<1> HIDE DEF at
<1>6. list \in Seq(Nat)
  BY <1>4, <1>5, InsertedIs
<1> HIDE DEF list
<1>7. v \in [DOMAIN u -> Seq(Nat)]
  BY <1>2, <1>6
<1> HIDE DEF v
<1>8. QED BY <1>1, <1>2, <1>3, <1>7, TreeMade

\* Nor when the children of one move to another.
LEMMA SplicedIs ==
  ASSUME NEW R, NEW t \in TreesWith(R), NEW p \in R, NEW f \in DOMAIN t, NEW ref
  PROVE  Spliced(t, p, f, ref) \in TreesWith(R)
<1> DEFINE D == TreesWith(R)
<1>1. t[f] \in Seq(Nat)
  BY TreeHas DEF TreesWith
<1>2. \A a \in D, x \in Nat : Placed(a, p, x, ref) \in D
  BY PlacedIs DEF TreesWith
<1> HIDE DEF D
<1>3. t \in D
  BY DEF D
<1>4. Spliced(t, p, f, ref) \in D
  BY <1>1, <1>2, <1>3, SplicedStays
<1>5. QED BY <1>4 DEF D

\* The wrappers are finitely many.
LEMMA WrappersAreFinite ==
  ASSUME NodeTyped
  PROVE  /\ DOMAIN wrapped = 1 .. Len(wrapped) /\ Len(wrapped) \in Nat
         /\ \A n : IsFiniteSet(CountedFor(n)) /\ CountedFor(n) \subseteq DOMAIN wrapped
         /\ \A n : Cardinality(CountedFor(n)) \in Nat
<1>1. DOMAIN wrapped = 1 .. Len(wrapped) /\ Len(wrapped) \in Nat
  BY DEF NodeTyped
<1>2. IsFiniteSet(DOMAIN wrapped)
  BY <1>1, FS_Interval
<1>3. ASSUME NEW n PROVE CountedFor(n) \subseteq DOMAIN wrapped
  BY DEF CountedFor, Unreleased, NodeTyped
<1>4. ASSUME NEW n PROVE IsFiniteSet(CountedFor(n)) /\ Cardinality(CountedFor(n)) \in Nat
  BY <1>2, <1>3, FS_Subset, FS_CardinalityType
<1>5. QED BY <1>1, <1>3, <1>4

\* A node that script holds a wrapper of is counted, and there.
LEMMA HeldIsCounted ==
  ASSUME NodeInv, NEW n, InScript(n)
  PROVE  n \in DOMAIN references /\ n \in DOMAIN kids
<1>1. PICK w \in DOMAIN wrapped : Live(w) /\ wrapped[w] = n
  BY DEF InScript
<1>2. w \in Unreleased
  BY <1>1 DEF Live, Unreleased
<1>3. QED BY <1>1, <1>2 DEF NodeInv, CountsAreTrue

\* The tree may take any shape that has the counted nodes.
LEMMA ShapeKeeps ==
  ASSUME NodeInv, NEW t \in TreesWith(DOMAIN references), Shape(t), made' \in Nat
  PROVE  NodeInv'
<1>1. /\ kids' = t /\ references' = references
      /\ UNCHANGED <<wrapped, collected, tableOwed, cacheOwed, table, cache>>
  BY DEF Shape, identityVars
<1>2. t \in Trees /\ DOMAIN references \subseteq DOMAIN t
  BY DEF TreesWith
<1>3. NodeTyped'
  BY <1>1, <1>2 DEF NodeInv, NodeTyped
<1>4. Unreleased' = Unreleased /\ \A n : CountedFor(n)' = CountedFor(n)
  BY <1>1 DEF Unreleased, CountedFor
<1>5. CountsAreTrue'
  BY <1>1, <1>2, <1>4 DEF NodeInv, CountsAreTrue
<1>6. ASSUME NEW w \in DOMAIN wrapped, Live(w) PROVE wrapped[w] \in DOMAIN references
  BY <1>6 DEF NodeInv, CountsAreTrue, Unreleased, Live
<1>7. WrapperIsItsNodes'
  BY <1>1, <1>2, <1>6 DEF NodeInv, WrapperIsItsNodes, Live
<1>8. QED BY <1>3, <1>5, <1>7 DEF NodeInv

\* A node that is wrapped gets the one wrapper it has, or one that is counted.
LEMMA WrapAsKeeps ==
  ASSUME NodeInv, NEW n \in Nat, NEW w, WrapAs(n, w), kids' \in Trees, made' \in Nat,
         DOMAIN kids \cup {n} \subseteq DOMAIN kids', UNCHANGED <<collected, tableOwed, cacheOwed>>
  PROVE  NodeInv'
<1>1. cache' = Listed(cache, n, w)
  BY DEF WrapAs
<1>2. /\ n \in DOMAIN cache' /\ cache'[n] = w
      /\ \A m \in DOMAIN cache : m # n => m \in DOMAIN cache' /\ cache'[m] = cache[m]
  BY <1>1 DEF Listed
<1>3. CASE Finds(table, n)
  <2>1. w = table[n] /\ UNCHANGED <<wrapped, table, references>>
    BY <1>3 DEF WrapAs
  <2>2. NodeTyped'
    BY <2>1 DEF NodeInv, NodeTyped
  <2>3. Unreleased' = Unreleased /\ \A m : CountedFor(m)' = CountedFor(m)
    BY <2>1 DEF Unreleased, CountedFor
  <2>4. CountsAreTrue'
    BY <2>1, <2>3 DEF NodeInv, CountsAreTrue
  <2>5. WrapperIsItsNodes'
    BY <1>2, <2>1 DEF NodeInv, WrapperIsItsNodes, Live
  <2>6. QED BY <2>2, <2>4, <2>5 DEF NodeInv
<1>4. CASE ~Finds(table, n)
  <2> DEFINE count == IF n \in DOMAIN references THEN references[n] + 1 ELSE 1
  <2>1. /\ w = Len(wrapped) + 1 /\ wrapped' = Append(wrapped, n)
        /\ table' = Listed(table, n, w) /\ references' = Listed(references, n, count)
    BY <1>4 DEF WrapAs
  <2>2. DOMAIN wrapped = 1 .. Len(wrapped) /\ Len(wrapped) \in Nat /\ wrapped \in Seq(Nat)
    BY WrappersAreFinite DEF NodeInv, NodeTyped
  <2>3. /\ wrapped' \in Seq(Nat) /\ DOMAIN wrapped' = DOMAIN wrapped \cup {w}
        /\ w \notin DOMAIN wrapped /\ wrapped'[w] = n
        /\ \A v \in DOMAIN wrapped : wrapped'[v] = wrapped[v]
    BY <2>1, <2>2
  <2>4. w \notin collected /\ w \notin Unreleased /\ Unreleased' = Unreleased \cup {w}
        /\ Unreleased \subseteq DOMAIN wrapped
    BY <2>3 DEF NodeInv, NodeTyped, Unreleased
  <2>5. /\ CountedFor(n)' = CountedFor(n) \cup {w} /\ w \notin CountedFor(n)
        /\ \A m : m # n => CountedFor(m)' = CountedFor(m)
    BY <2>3, <2>4 DEF CountedFor
  <2>6. NodeTyped'
    BY <2>3 DEF NodeInv, NodeTyped
  <2>7. /\ Cardinality(CountedFor(n)') = Cardinality(CountedFor(n)) + 1
        /\ CountedFor(n) # {} \/ Cardinality(CountedFor(n)) = 0
    <3>1. IsFiniteSet(CountedFor(n))
      BY WrappersAreFinite DEF NodeInv
    <3>2. QED BY <3>1, <2>5, FS_AddElement, FS_EmptySet
  <2>8. /\ DOMAIN references' = DOMAIN references \cup {n} /\ references'[n] = count
        /\ \A m \in DOMAIN references : m # n => references'[m] = references[m]
    BY <2>1 DEF Listed
  <2>9. count = Cardinality(CountedFor(n)')
    BY <2>7 DEF NodeInv, CountsAreTrue, CountedFor
  <2> HIDE DEF count
  <2>10. CountsAreTrue'
    BY <2>8, <2>3, <2>4, <2>5, <2>9 DEF NodeInv, CountsAreTrue
  <2>11. /\ n \in DOMAIN table' /\ table'[n] = w
         /\ \A m \in DOMAIN table : m # n => m \in DOMAIN table' /\ table'[m] = table[m]
    BY <2>1 DEF Listed
  <2>12. ASSUME NEW v \in DOMAIN wrapped, v \notin collected
         PROVE  /\ wrapped[v] # n
                /\ wrapped[v] \in DOMAIN kids' /\ wrapped[v] \in DOMAIN table
                /\ table[wrapped[v]] = v /\ wrapped[v] \in DOMAIN cache /\ cache[wrapped[v]] = v
    BY <2>12, <1>4 DEF Live, NodeInv, WrapperIsItsNodes, Finds
  <2>13. WrapperIsItsNodes'
    BY <2>3, <2>11, <1>2, <2>12 DEF WrapperIsItsNodes, Live
  <2>14. QED BY <2>6, <2>10, <2>13 DEF NodeInv
<1>5. QED BY <1>3, <1>4

\* A wrapper that is collected is counted until its finalizer has run.
LEMMA CollectKeeps ==
  ASSUME NodeInv, NEW w, Collect(w)
  PROVE  NodeInv'
<1>1. /\ w \in DOMAIN wrapped \ collected /\ collected' = collected \cup {w}
      /\ tableOwed' = tableOwed \cup {w} /\ cacheOwed' = cacheOwed \cup {w}
      /\ UNCHANGED <<kids, made, wrapped, table, cache, references>>
  BY DEF Collect, Live, treeVars
<1>2. NodeTyped'
  BY <1>1 DEF NodeInv, NodeTyped
<1>3. Unreleased' = Unreleased
  BY <1>1 DEF Unreleased
<1>4. CountsAreTrue'
  BY <1>1, <1>3 DEF NodeInv, CountsAreTrue, CountedFor
<1>5. WrapperIsItsNodes'
  BY <1>1 DEF NodeInv, WrapperIsItsNodes, Live
<1>6. QED BY <1>2, <1>4, <1>5 DEF NodeInv

\* A finalizer of the cache takes only the entry of the wrapper that is gone.
LEMMA CacheFinalizerKeeps ==
  ASSUME NodeInv, NEW w, CacheFinalizer(w)
  PROVE  NodeInv'
<1> DEFINE n == wrapped[w]
<1>1. /\ w \in cacheOwed /\ cacheOwed' = cacheOwed \ {w}
      /\ cache' = IF n \in DOMAIN cache /\ cache[n] = w THEN Unlisted(cache, n) ELSE cache
      /\ UNCHANGED <<kids, made, wrapped, collected, tableOwed, table, references>>
  BY DEF CacheFinalizer, treeVars
<1>2. NodeTyped'
  BY <1>1 DEF NodeInv, NodeTyped
<1>3. Unreleased' = Unreleased
  BY <1>1 DEF Unreleased
<1>4. CountsAreTrue'
  BY <1>1, <1>3 DEF NodeInv, CountsAreTrue, CountedFor
<1>5. w \in collected
  BY <1>1 DEF NodeInv, NodeTyped
<1>6. ASSUME NEW m \in DOMAIN cache, cache[m] # w PROVE m \in DOMAIN cache' /\ cache'[m] = cache[m]
  BY <1>1, <1>6 DEF Unlisted, Restrict
<1>7. WrapperIsItsNodes'
  BY <1>1, <1>5, <1>6 DEF NodeInv, WrapperIsItsNodes, Live
<1>8. QED BY <1>2, <1>4, <1>7 DEF NodeInv

\* A finalizer of the table takes its own entry, one of the count, and at the last of it the
\* detached tree.
LEMMA TableFinalizerKeeps ==
  ASSUME NodeInv, NEW w, TableFinalizer(w)
  PROVE  NodeInv'
<1>0. PICK n : n = wrapped[w]
  OBVIOUS
<1> DEFINE refs == IF references[n] > 1 THEN [references EXCEPT ![n] = @ - 1]
                   ELSE Unlisted(references, n)
<1>1. /\ w \in tableOwed /\ tableOwed' = tableOwed \ {w}
      /\ table' = IF n \in DOMAIN table /\ table[n] = w THEN Unlisted(table, n) ELSE table
      /\ references' = refs /\ kids' = Swept(kids, refs, n)
      /\ UNCHANGED <<made, wrapped, collected, cacheOwed, cache>>
  BY <1>0 DEF TableFinalizer
<1>2. w \in collected /\ w \in DOMAIN wrapped /\ w \in Unreleased
  BY <1>1 DEF NodeInv, NodeTyped, Unreleased
<1>3. Unreleased' = Unreleased \ {w}
  BY <1>1, <1>2 DEF Unreleased
<1>4. n \in DOMAIN references /\ w \in CountedFor(n)
  BY <1>0, <1>2 DEF NodeInv, CountsAreTrue, CountedFor
<1>5. /\ CountedFor(n)' = CountedFor(n) \ {w}
      /\ \A m : m # n => CountedFor(m)' = CountedFor(m)
  BY <1>1, <1>3, <1>0 DEF CountedFor
<1>6. references[n] = Cardinality(CountedFor(n)) /\ IsFiniteSet(CountedFor(n))
  BY <1>4, WrappersAreFinite DEF NodeInv, CountsAreTrue
<1>7. /\ Cardinality(CountedFor(n)') = references[n] - 1
      /\ IsFiniteSet(CountedFor(n)') /\ references[n] \in Nat
  BY <1>4, <1>5, <1>6, FS_RemoveElement, FS_CardinalityType, WrappersAreFinite DEF NodeInv
<1>8. /\ DOMAIN refs \subseteq DOMAIN references
      /\ \A m \in DOMAIN references : m # n => m \in DOMAIN refs /\ refs[m] = references[m]
      /\ n \in DOMAIN refs => refs[n] = references[n] - 1 /\ references[n] > 1
      /\ n \notin DOMAIN refs => ~(references[n] > 1)
  BY <1>4 DEF Unlisted, Restrict
<1> HIDE DEF refs
<1>9. kids' \in TreesWith(DOMAIN refs)
  BY <1>8, <1>1, SweptIs DEF NodeInv, NodeTyped, CountsAreTrue, TreesWith
<1>10. kids' \in Trees /\ DOMAIN references' \subseteq DOMAIN kids'
  BY <1>1, <1>9 DEF TreesWith
<1>11. NodeTyped'
  BY <1>1, <1>10 DEF NodeInv, NodeTyped
<1>12. CountedFor(n)' # {} => n \in DOMAIN refs
  BY <1>7, FS_CardinalityType, <1>8, FS_EmptySet
<1>13. CountsAreTrue'
  <2>1. ASSUME NEW v \in Unreleased' PROVE wrapped'[v] \in DOMAIN references'
    BY <1>1, <1>3, <1>12, <1>8 DEF NodeInv, CountsAreTrue, CountedFor
  <2>2. ASSUME NEW m \in DOMAIN references'
        PROVE  CountedFor(m)' # {} /\ references'[m] = Cardinality(CountedFor(m)')
    <3>1. CASE m = n
      BY <2>2, <3>1, <1>1, <1>8, <1>7, FS_EmptySet
    <3>2. CASE m # n
      BY <2>2, <3>2, <1>1, <1>8, <1>5 DEF NodeInv, CountsAreTrue
    <3>3. QED BY <3>1, <3>2
  <2>3. QED BY <2>1, <2>2, <1>10 DEF CountsAreTrue
<1>14. ASSUME NEW m \in DOMAIN table, table[m] # w PROVE m \in DOMAIN table' /\ table'[m] = table[m]
  BY <1>1, <1>14 DEF Unlisted, Restrict
<1>15. WrapperIsItsNodes'
  BY <1>2, <1>1, <1>10, <1>13, <1>14 DEF NodeInv, WrapperIsItsNodes, Live, Unreleased,
     CountsAreTrue
<1>16. QED BY <1>11, <1>13, <1>15 DEF NodeInv

\* The operations of a script, each as it leaves the tree.
LEMMA ChildrenAreNodes ==
  ASSUME NodeInv, NEW p \in DOMAIN kids
  PROVE  /\ kids[p] \in Seq(Nat) /\ Len(kids[p]) \in Nat /\ DOMAIN kids[p] = 1 .. Len(kids[p])
         /\ kids \in TreesWith(DOMAIN references)
         /\ DOMAIN kids \in SUBSET Nat /\ kids \in [DOMAIN kids -> Seq(Nat)]
<1>1. DOMAIN kids \in SUBSET Nat /\ kids \in [DOMAIN kids -> Seq(Nat)] /\ kids \in Trees
  BY TreeHas DEF NodeInv, NodeTyped
<1>2. kids[p] \in Seq(Nat)
  BY <1>1
<1>3. QED BY <1>1, <1>2 DEF NodeInv, CountsAreTrue, TreesWith

\* Markup that is parsed into an emptied node, or beside it.
LEMMA ParsedIs ==
  ASSUME NEW R, NEW t \in TreesWith(R), NEW x \in Nat, NEW v \in Seq(Nat)
  PROVE  Listed(t, x, v) \in TreesWith(R)
<1>1. t \in Trees /\ R \subseteq DOMAIN t
  BY DEF TreesWith
<1>2. Listed(t, x, v) \in Trees /\ DOMAIN Listed(t, x, v) = DOMAIN t \cup {x}
  BY <1>1, ListedIs
<1>3. QED BY <1>1, <1>2 DEF TreesWith

\* An insertion, before a child or last.
LEMMA InsertBeforeKeeps ==
  ASSUME NodeInv, NEW p \in Nat, NEW n \in Nat, NEW ref, InsertBefore(p, n, ref)
  PROVE  NodeInv'
<1>1. InScript(p) /\ Shape(Placed(kids, p, n, ref)) /\ made' = made /\ made \in Nat
  BY DEF InsertBefore, NodeInv, NodeTyped
<1>2. p \in DOMAIN kids /\ kids \in Trees /\ DOMAIN references \subseteq DOMAIN kids
  BY <1>1, HeldIsCounted DEF NodeInv, NodeTyped, CountsAreTrue
<1>3. Placed(kids, p, n, ref) \in Trees /\ DOMAIN Placed(kids, p, n, ref) = DOMAIN kids
  BY <1>2, PlacedIs
<1>4. Placed(kids, p, n, ref) \in TreesWith(DOMAIN references)
  BY <1>2, <1>3 DEF TreesWith
<1>5. QED BY <1>1, <1>4, ShapeKeeps

\* A replacement: the new node takes its place, then the old one leaves.
LEMMA ReplaceKeeps ==
  ASSUME NodeInv, NEW old, NEW new \in Nat, Replace(old, new)
  PROVE  NodeInv'
<1>1. PICK p \in Parents(kids, old) :
        Shape(TakenOut(Placed(kids, p, new, old), references, old))
  BY DEF Replace
<1>2. made' = made /\ made \in Nat
  BY DEF Replace, NodeInv, NodeTyped
<1>3. p \in DOMAIN kids /\ kids \in Trees /\ DOMAIN references \subseteq DOMAIN kids
  BY DEF Parents, NodeInv, NodeTyped, CountsAreTrue
<1>4. Placed(kids, p, new, old) \in Trees /\ DOMAIN Placed(kids, p, new, old) = DOMAIN kids
  BY <1>3, PlacedIs
<1>5. Placed(kids, p, new, old) \in TreesWith(DOMAIN references)
  BY <1>3, <1>4 DEF TreesWith
<1>6. TakenOut(Placed(kids, p, new, old), references, old) \in TreesWith(DOMAIN references)
  BY <1>5, TakenOutIs
<1>7. QED BY <1>1, <1>2, <1>6, ShapeKeeps

\* A fragment, whose children move.
LEMMA InsertFragmentKeeps ==
  ASSUME NodeInv, NEW p, NEW f, NEW ref, InsertFragment(p, f, ref)
  PROVE  NodeInv'
<1>1. InScript(p) /\ InScript(f) /\ Shape(Spliced(kids, p, f, ref)) /\ made' = made /\ made \in Nat
  BY DEF InsertFragment, NodeInv, NodeTyped
<1>2. p \in DOMAIN references /\ f \in DOMAIN kids
  BY <1>1, HeldIsCounted
<1>3. kids \in TreesWith(DOMAIN references)
  BY <1>2, ChildrenAreNodes
<1>4. Spliced(kids, p, f, ref) \in TreesWith(DOMAIN references)
  BY <1>2, <1>3, SplicedIs
<1>5. QED BY <1>1, <1>4, ShapeKeeps

\* New contents, a text or markup.
LEMMA ContentsKeep ==
  ASSUME NodeInv, NEW n \in Nat, SetTextContent(n) \/ SetInnerHtml(n)
  PROVE  NodeInv'
<1> DEFINE emptied == Emptied(kids, references, n)
<1>1. InScript(n) /\ made \in Nat
  BY DEF SetTextContent, SetInnerHtml, NodeInv, NodeTyped
<1>2. n \in DOMAIN kids
  BY <1>1, HeldIsCounted
<1>3. kids \in TreesWith(DOMAIN references)
  BY <1>2, ChildrenAreNodes
<1>4. emptied \in TreesWith(DOMAIN references)
  BY <1>2, <1>3, EmptiedIs
<1>5. <<>> \in Seq(Nat) /\ <<made + 1>> \in Seq(Nat) /\ <<made + 2>> \in Seq(Nat)
      /\ made + 1 \in Nat /\ made + 2 \in Nat
  BY <1>1
<1> DEFINE text   == Listed(Listed(emptied, made + 1, <<>>), n, <<made + 1>>)
           parsed == Listed(Listed(emptied, made + 1, <<made + 2>>), made + 2, <<>>)
           markup == Listed(parsed, n, <<made + 1>>)
<1>6. \/ Shape(emptied) /\ made' = made
      \/ Shape(text) /\ made' = made + 1
      \/ Shape(markup) /\ made' = made + 2
  BY DEF SetTextContent, SetInnerHtml
<1> HIDE DEF emptied
<1>7. text \in TreesWith(DOMAIN references)
  BY <1>4, <1>5, ParsedIs
<1>8. markup \in TreesWith(DOMAIN references)
  BY <1>4, <1>5, ParsedIs
<1> HIDE DEF text, markup
<1>9. made' \in Nat
  BY <1>1, <1>6
<1>10. QED BY <1>4, <1>6, <1>7, <1>8, <1>9, ShapeKeeps

\* Markup that is parsed beside a node or into it.
LEMMA AdjacentKeeps ==
  ASSUME NodeInv, NEW n \in Nat, InsertAdjacentHtml(n)
  PROVE  NodeInv'
<1> DEFINE Put(p, i) == Listed([kids EXCEPT ![p] = InsertAt(@, i, made + 1)], made + 1, <<>>)
<1>1. InScript(n) /\ made' = made + 1 /\ made \in Nat
  BY DEF InsertAdjacentHtml, NodeInv, NodeTyped
<1>2. n \in DOMAIN kids
  BY <1>1, HeldIsCounted
<1>3. kids[n] \in Seq(Nat) /\ Len(kids[n]) \in Nat /\ 1 \in 1 .. Len(kids[n]) + 1
      /\ Len(kids[n]) + 1 \in 1 .. Len(kids[n]) + 1
  BY <1>2, ChildrenAreNodes
<1>4. \E p \in DOMAIN kids : \E i \in 1 .. Len(kids[p]) + 1 : Shape(Put(p, i))
  <2>1. CASE Shape(Put(n, 1)) \/ Shape(Put(n, Len(kids[n]) + 1))
    <3> HIDE DEF Put
    <3>1. QED BY <2>1, <1>2, <1>3
  <2>2. CASE \E p \in Parents(kids, n) \ {Doc} : \E i \in DOMAIN kids[p] :
               kids[p][i] = n /\ (Shape(Put(p, i)) \/ Shape(Put(p, i + 1)))
    <3> HIDE DEF Put
    <3>1. PICK p \in Parents(kids, n) \ {Doc} : \E i \in DOMAIN kids[p] :
                 Shape(Put(p, i)) \/ Shape(Put(p, i + 1))
      BY <2>2
    <3>2. PICK i \in DOMAIN kids[p] : Shape(Put(p, i)) \/ Shape(Put(p, i + 1))
      BY <3>1
    <3>3. p \in DOMAIN kids
      BY DEF Parents
    <3>4. Len(kids[p]) \in Nat /\ DOMAIN kids[p] = 1 .. Len(kids[p])
      BY <3>3, ChildrenAreNodes
    <3>5. i \in 1 .. Len(kids[p]) + 1 /\ i + 1 \in 1 .. Len(kids[p]) + 1
      BY <3>4
    <3>6. QED BY <3>2, <3>3, <3>5
  <2>3. QED BY <2>1, <2>2 DEF InsertAdjacentHtml
<1>5. PICK p \in DOMAIN kids : \E i \in 1 .. Len(kids[p]) + 1 : Shape(Put(p, i))
  <2> HIDE DEF Put
  <2>1. QED BY <1>4
<1>6. PICK i \in 1 .. Len(kids[p]) + 1 : Shape(Put(p, i))
  <2> HIDE DEF Put
  <2>1. QED BY <1>5
<1> DEFINE list == InsertAt(kids[p], i, made + 1)
           t == [kids EXCEPT ![p] = list]
<1>7. /\ kids[p] \in Seq(Nat) /\ DOMAIN kids \in SUBSET Nat /\ kids \in [DOMAIN kids -> Seq(Nat)]
      /\ kids \in TreesWith(DOMAIN references)
  BY ChildrenAreNodes
<1>8. list \in Seq(Nat)
  <2>1. made + 1 \in Nat
    BY <1>1
  <2>2. QED BY <2>1, <1>7, InsertedIs
<1>9. Put(p, i) = Listed(t, made + 1, <<>>)
  OBVIOUS
<1> HIDE DEF list, Put
<1>10. t \in [DOMAIN kids -> Seq(Nat)]
  BY <1>7, <1>8
<1> HIDE DEF t
<1>11. t \in Trees /\ DOMAIN t = DOMAIN kids
  BY <1>7, <1>10, TreeMade
<1>12. t \in TreesWith(DOMAIN references)
  BY <1>7, <1>11 DEF TreesWith
<1>13. <<>> \in Seq(Nat) /\ made + 1 \in Nat
  BY <1>1
<1>14. Put(p, i) \in TreesWith(DOMAIN references)
  BY <1>9, <1>12, <1>13, ParsedIs
<1>15. QED BY <1>1, <1>6, <1>13, <1>14, ShapeKeeps

\* A step that only listens, or none.
LEMMA NodeRests ==
  ASSUME NodeInv,
         UNCHANGED <<kids, made, wrapped, collected, tableOwed, cacheOwed, table, cache, references>>
  PROVE  NodeInv'
<1>1. NodeTyped'
  BY DEF NodeInv, NodeTyped
<1>2. Unreleased' = Unreleased
  BY DEF Unreleased
<1>3. \A n : CountedFor(n)' = CountedFor(n)
  BY <1>2 DEF CountedFor
<1>4. CountsAreTrue'
  BY <1>2, <1>3 DEF NodeInv, CountsAreTrue
<1>5. WrapperIsItsNodes'
  BY DEF NodeInv, WrapperIsItsNodes, Live
<1>6. QED BY <1>1, <1>4, <1>5 DEF NodeInv

\* The document as it begins, and every step from there.
LEMMA NodeStarts == NodeInit => NodeInv
<1> SUFFICES ASSUME NodeInit PROVE NodeInv
  OBVIOUS
<1>1. /\ kids = [p \in {Doc, 1} |-> IF p = Doc THEN <<1>> ELSE <<>>] /\ made = 1
      /\ wrapped = <<>> /\ collected = {} /\ tableOwed = {} /\ cacheOwed = {}
      /\ references = <<>>
  BY DEF NodeInit
<1>2. {Doc, 1} \in SUBSET Nat /\ <<1>> \in Seq(Nat) /\ <<>> \in Seq(Nat) /\ Doc # 1
  BY DEF Doc
<1>3. kids \in [{Doc, 1} -> Seq(Nat)]
  BY <1>1, <1>2
<1>4. kids \in Trees
  BY <1>2, <1>3, TreeMade
<1>5. DOMAIN references = {} /\ DOMAIN wrapped = {} /\ wrapped \in Seq(Nat)
  BY <1>1, <1>2
<1>6. QED BY <1>1, <1>4, <1>5
          DEF NodeInv, NodeTyped, CountsAreTrue, WrapperIsItsNodes, Unreleased

\* Every step keeps the invariant.
LEMMA NodeSteps == NodeInv /\ [NodeNext]_domVars => NodeInv'
<1> SUFFICES ASSUME NodeInv, [NodeNext]_domVars PROVE NodeInv'
  OBVIOUS
<1>1. 1 .. MaxNodes \subseteq Nat
  BY NodeAssumption
<1>2. ASSUME NEW n \in 1 .. MaxNodes, Wrap(n) PROVE NodeInv'
  <2>1. PICK w \in 1 .. MaxWrappers : WrapAs(n, w)
    BY <1>2 DEF Wrap
  <2>2. /\ n \in DOMAIN kids /\ kids' = kids /\ made' = made
        /\ UNCHANGED <<collected, tableOwed, cacheOwed>>
    BY <1>2 DEF Wrap, treeVars
  <2>3. kids' \in Trees /\ made' \in Nat /\ DOMAIN kids \cup {n} \subseteq DOMAIN kids'
    BY <2>2 DEF NodeInv, NodeTyped
  <2>4. QED BY <1>1, <2>1, <2>2, <2>3, WrapAsKeeps
<1>3. ASSUME NEW w \in DOMAIN wrapped, Listen(w) \/ StopListening(w) PROVE NodeInv'
  BY <1>3, NodeRests DEF Listen, StopListening, treeVars
<1>4. CASE Create
  <2>1. /\ made' = made + 1 /\ kids' = Listed(kids, made + 1, <<>>)
        /\ WrapAs(made + 1, Len(wrapped) + 1) /\ UNCHANGED <<collected, tableOwed, cacheOwed>>
    BY <1>4 DEF Create
  <2>2. made \in Nat /\ made + 1 \in Nat /\ kids \in Trees /\ <<>> \in Seq(Nat)
    BY DEF NodeInv, NodeTyped
  <2>3. kids' \in Trees /\ DOMAIN kids' = DOMAIN kids \cup {made + 1}
    BY <2>1, <2>2, ListedIs
  <2>4. PICK n \in Nat : n = made + 1
    BY <2>2
  <2>5. PICK w : w = Len(wrapped) + 1
    OBVIOUS
  <2>6. WrapAs(n, w) /\ DOMAIN kids \cup {n} \subseteq DOMAIN kids' /\ made' \in Nat
    BY <2>1, <2>3, <2>4, <2>5
  <2>7. QED BY <2>1, <2>3, <2>6, WrapAsKeeps
<1>5. ASSUME NEW n \in 1 .. MaxNodes, RemoveNode(n) PROVE NodeInv'
  BY <1>5, HeldIsCounted, ChildrenAreNodes, TakenOutIs, ShapeKeeps DEF RemoveNode, NodeInv,
     NodeTyped
<1>6. CASE UNCHANGED domVars
  BY <1>6, NodeRests DEF domVars, treeVars, identityVars
<1>7. QED BY <1>1, <1>2, <1>3, <1>4, <1>5, <1>6, CollectKeeps, CacheFinalizerKeeps,
             TableFinalizerKeeps, InsertBeforeKeeps, ReplaceKeeps, InsertFragmentKeeps,
             ContentsKeep, AdjacentKeeps DEF NodeNext

\* A wrapper a script can still hold names a node that exists, and is the only one of its
\* node: both tables find it, in whatever order finalizers of earlier ones run.
THEOREM WrappersHold == NodeSpec => []WrapperIsItsNodes
<1>1. NodeInv => WrapperIsItsNodes
  BY DEF NodeInv
<1>2. QED BY <1>1, NodeStarts, NodeSteps, PTL DEF NodeSpec

-----------------------------------------------------------------------------
(* PointerInput: a gesture is heard whole, in the order it was made         *)

\* An input that waits is of the mouse or of a contact that began under the document,
\* and nothing later was heard of its pointer.
Fit(in, st, first, next, hd) ==
  /\ in \in Input /\ in.stamp <= st
  /\ in.kind # "wheel" =>
       /\ in.id \in Ids /\ hd[in.id] <= in.stamp
       /\ in.id = MouseId \/ (first <= in.id /\ in.id < next)

\* Inputs wait in the order they were reported.
InReportedOrder(s, st, first, next, hd) ==
  /\ s \in Seq(Input)
  /\ \A k \in DOMAIN s : Fit(s[k], st, first, next, hd)
  /\ \A j, k \in DOMAIN s : j < k => s[j].stamp <= s[k].stamp

\* Ids grow, those of live contacts are of the document, and nothing is heard before
\* it is reported.
Numbered ==
  /\ nextId \in 2 .. (MaxId + 1) /\ firstId \in 2 .. nextId
  /\ stamp \in Nat /\ heard \in [Ids -> Nat] /\ \A i \in Ids : heard[i] <= stamp
  /\ live \in [Fingers -> Nat]
  /\ \A f \in Fingers : live[f] # 0 => firstId <= live[f] /\ live[f] < nextId

\* Of what waits, one of the two holds all.
OneIsEmpty == batch # <<>> => queue = <<>>

BootTyped ==
  /\ conn \subseteq Elements
  /\ pressed \in [Ids -> OrNone] /\ lastDown \in [Ids -> OrNone]
  /\ capture \in [Ids -> OrNone] /\ pending \in [Ids -> OrNone]

\* A button the page holds went down where the page last heard a press.
PressesWereHeard == \A i \in Ids : pressed[i] # NoElement => pressed[i] = lastDown[i]

\* A dispatch under way is of the first input of the batch; its click spends a press.
Steps == [at : Phases, in : Input, hit : Elements, on : Elements, taker : OrNone]
UnderWay(t) ==
  /\ t \in Steps /\ batch # <<>> /\ t.in = Head(batch) /\ t.in.kind # "wheel"
  /\ t.at = "click" => pressed[t.in.id] = NoElement /\ lastDown[t.in.id] = t.on
TurnIsFirst == turn = Idle \/ UnderWay(turn)

PointerIInv ==
  /\ Numbered /\ OneIsEmpty /\ BootTyped /\ PressesWereHeard /\ TurnIsFirst
  /\ InReportedOrder(queue, stamp, firstId, nextId, heard)
  /\ InReportedOrder(batch, stamp, firstId, nextId, heard)

\* What is fit to wait stays so while ids and reports grow.
LEMMA OrderStays ==
  ASSUME NEW s, NEW st \in Nat, NEW st2 \in Nat, NEW first \in Nat, NEW next \in Nat,
         NEW next2 \in Nat, NEW hd, InReportedOrder(s, st, first, next, hd),
         st <= st2, next <= next2
  PROVE  InReportedOrder(s, st2, first, next2, hd)
<1>1. ASSUME NEW k \in DOMAIN s PROVE Fit(s[k], st2, first, next2, hd)
  BY DEF InReportedOrder, Fit, Input, Ids
<1>2. QED BY <1>1 DEF InReportedOrder

\* The latest report goes last.
LEMMA OrderAfterReport ==
  ASSUME NEW s, NEW st \in Nat, NEW first \in Nat, NEW next \in Nat, NEW next2 \in Nat, NEW hd,
         NEW in, InReportedOrder(s, st, first, next, hd), next <= next2,
         Fit(in, st + 1, first, next2, hd), in.stamp = st + 1
  PROVE  InReportedOrder(Append(s, in), st + 1, first, next2, hd)
<1> DEFINE r == Append(s, in)
           n == Len(s)
<1>1. InReportedOrder(s, st + 1, first, next2, hd)
  BY OrderStays
<1>2. /\ s \in Seq(Input) /\ in \in Input /\ r \in Seq(Input)
      /\ n \in Nat /\ DOMAIN s = 1 .. n /\ DOMAIN r = 1 .. (n + 1)
      /\ \A k \in 1 .. n : r[k] = s[k]
      /\ r[n + 1] = in
  BY DEF InReportedOrder, Fit
<1> HIDE DEF r, n
<1>3. ASSUME NEW k \in DOMAIN r PROVE Fit(r[k], st + 1, first, next2, hd)
  BY <1>1, <1>2 DEF InReportedOrder
<1>4. ASSUME NEW j \in DOMAIN r, NEW k \in DOMAIN r, j < k PROVE r[j].stamp <= r[k].stamp
  <2>1. j \in 1 .. n
    BY <1>4, <1>2
  <2>2. CASE k \in 1 .. n
    BY <2>1, <2>2, <1>1, <1>2, <1>4 DEF InReportedOrder
  <2>3. CASE k = n + 1
    BY <2>1, <1>2, <2>3 DEF InReportedOrder, Fit, Input
  <2>4. QED BY <2>2, <2>3, <1>2
<1>5. QED BY <1>2, <1>3, <1>4 DEF InReportedOrder, r

\* What coalescing leaves is in the order it was.
LEMMA OrderAfterCoalescing ==
  ASSUME NEW s, NEW st, NEW first, NEW next, NEW hd, NEW K,
         InReportedOrder(s, st, first, next, hd)
  PROVE  InReportedOrder(ItemsIn(s, K), st, first, next, hd)
<1> DEFINE r == ItemsIn(s, K)
<1>1. s \in Seq(Input)
  BY DEF InReportedOrder
<1>2. r \in Seq(Input) /\ Kept(r, s, K)
  BY <1>1, ItemsAreKept
<1> HIDE DEF r
<1>3. PICK e \in [DOMAIN r -> DOMAIN s] :
        /\ \A i, j \in DOMAIN r : i < j => e[i] < e[j]
        /\ \A i \in DOMAIN r : r[i] = s[e[i]]
  BY <1>2 DEF Kept
<1>4. QED BY <1>2, <1>3 DEF InReportedOrder, r

\* Inputs reported together go last together.
LEMMA OrderAfterReports ==
  ASSUME NEW s, NEW c, NEW st \in Nat, NEW first \in Nat, NEW next \in Nat, NEW hd,
         InReportedOrder(s, st, first, next, hd), c \in Seq(Input),
         \A k \in DOMAIN c : Fit(c[k], st + 1, first, next, hd) /\ c[k].stamp = st + 1
  PROVE  InReportedOrder(s \o c, st + 1, first, next, hd)
<1> DEFINE r == s \o c
           n == Len(s)
           m == Len(c)
<1>1. InReportedOrder(s, st + 1, first, next, hd)
  BY OrderStays
<1>2. /\ s \in Seq(Input) /\ r \in Seq(Input)
      /\ n \in Nat /\ m \in Nat /\ DOMAIN s = 1 .. n /\ DOMAIN c = 1 .. m
      /\ DOMAIN r = 1 .. (n + m)
      /\ \A k \in 1 .. n : r[k] = s[k]
      /\ \A k \in (n + 1) .. (n + m) : k - n \in 1 .. m /\ r[k] = c[k - n]
  BY DEF InReportedOrder
<1> HIDE DEF r, n, m
<1>3. ASSUME NEW k \in DOMAIN r
      PROVE  Fit(r[k], st + 1, first, next, hd) /\ (k > n => r[k].stamp = st + 1)
  <2>1. CASE k \in 1 .. n
    BY <2>1, <1>1, <1>2 DEF InReportedOrder
  <2>2. CASE k \in (n + 1) .. (n + m)
    BY <2>2, <1>2
  <2>3. k \in 1 .. n \/ k \in (n + 1) .. (n + m)
    BY <1>2
  <2>4. QED BY <2>1, <2>2, <2>3
<1>4. ASSUME NEW j \in DOMAIN r, NEW k \in DOMAIN r, j < k PROVE r[j].stamp <= r[k].stamp
  BY <1>4, <1>2, <1>1, <1>3 DEF InReportedOrder, Fit
<1>5. QED BY <1>2, <1>3, <1>4 DEF InReportedOrder, r

\* Without its first input a batch is in the order it was.
LEMMA OrderOfRest ==
  ASSUME NEW s, NEW st, NEW first, NEW next, NEW hd, InReportedOrder(s, st, first, next, hd),
         s # <<>>
  PROVE  InReportedOrder(Tail(s), st, first, next, hd)
<1> DEFINE r == Tail(s)
           n == Len(s)
<1>1. /\ s \in Seq(Input) /\ n \in Nat \ {0} /\ DOMAIN s = 1 .. n
      /\ r \in Seq(Input) /\ DOMAIN r = 1 .. (n - 1)
      /\ \A k \in 1 .. (n - 1) : r[k] = s[k + 1] /\ k + 1 \in 1 .. n
  BY DEF InReportedOrder
<1> HIDE DEF r, n
<1>2. ASSUME NEW j \in DOMAIN r, NEW k \in DOMAIN r, j < k PROVE r[j].stamp <= r[k].stamp
  <2>1. j + 1 \in 1 .. n /\ k + 1 \in 1 .. n /\ j + 1 < k + 1
    BY <1>1, <1>2
  <2>2. s[j + 1].stamp <= s[k + 1].stamp
    BY <2>1, <1>1 DEF InReportedOrder
  <2>3. QED BY <2>2, <1>1
<1>3. QED BY <1>1, <1>2 DEF InReportedOrder, r

\* What waits behind the first input is no earlier than it: it may be heard now.
LEMMA OrderAfterHearing ==
  ASSUME NEW s, NEW st, NEW first, NEW next, NEW hd \in [Ids -> Nat],
         InReportedOrder(s, st, first, next, hd), s # <<>>
  PROVE  InReportedOrder(s, st, first, next, [hd EXCEPT ![Head(s).id] = Head(s).stamp])
<1> DEFINE hd2 == [hd EXCEPT ![Head(s).id] = Head(s).stamp]
<1>1. s \in Seq(Input) /\ 1 \in DOMAIN s /\ Head(s) = s[1] /\ DOMAIN s \subseteq Nat \ {0}
  BY DEF InReportedOrder
<1>2. ASSUME NEW k \in DOMAIN s PROVE Fit(s[k], st, first, next, hd2)
  <2>1. Fit(s[k], st, first, next, hd) /\ s[k] \in Input /\ s[1] \in Input
    BY <1>1 DEF InReportedOrder, Fit
  <2>2. s[k].stamp \in Nat /\ s[1].stamp \in Nat
    BY <2>1 DEF Input
  <2>3. s[1].stamp <= s[k].stamp
    BY <1>1, <2>2 DEF InReportedOrder
  <2>4. ASSUME s[k].kind # "wheel" PROVE hd2[s[k].id] <= s[k].stamp
    BY <2>1, <2>4, <2>3, <1>1 DEF Fit
  <2> HIDE DEF hd2
  <2>5. QED BY <2>1, <2>4 DEF Fit
<1> HIDE DEF hd2
<1>3. InReportedOrder(s, st, first, next, hd2)
  BY <1>2 DEF InReportedOrder
<1>4. QED BY <1>3 DEF hd2

\* Nothing waits in no order.
LEMMA NoneInOrder ==
  ASSUME NEW st, NEW first, NEW next, NEW hd PROVE InReportedOrder(<<>>, st, first, next, hd)
<1>1. <<>> \in Seq(Input)
  OBVIOUS
<1>2. QED BY <1>1 DEF InReportedOrder
\* A report of a contact, with the id it has or a new one.
LEMMA ReportKeeps ==
  ASSUME PointerIInv, NEW c \in Contacts, NEW kind \in {"move", "down", "up", "cancel"},
         NEW v \in {0, IdFor(c)}, Queue(kind, c), Allocated(c),
         live' = IF c = "mouse" THEN live ELSE [live EXCEPT ![c] = v]
  PROVE  PointerIInv'
<1> DEFINE in == InputOf(kind, c)
           K == {o \in Range(queue) : ~(o.kind = "move" /\ o.id = in.id)}
           q == IF in.kind = "move" THEN ItemsIn(queue, K) ELSE queue
<1>0. /\ stamp \in Nat /\ nextId \in Nat /\ firstId \in Nat /\ MaxId \in Nat /\ MouseId = 1
      /\ 2 <= firstId /\ firstId <= nextId /\ nextId <= MaxId + 1
      /\ IdFor(c) <= MaxId /\ stamp' = stamp + 1 /\ queue' = Coalesced(queue, in)
      /\ UNCHANGED <<batch, error, bootVars, heard, lastDown, firstId>>
      /\ Ready /\ batch = <<>> /\ turn = Idle
  BY PointerAssumption DEF PointerIInv, Numbered, Queue, MouseId, Ready
<1>1. c # "mouse" => c \in Fingers
  BY DEF Contacts
<1>2. /\ IdFor(c) \in Ids /\ (IdFor(c) = MouseId \/ firstId <= IdFor(c)) /\ IdFor(c) <= nextId
      /\ c # "mouse" => firstId <= IdFor(c)
  BY <1>0, <1>1 DEF IdFor, Ids, PointerIInv, Numbered
<1>3. /\ nextId' \in 2 .. (MaxId + 1) /\ nextId <= nextId' /\ IdFor(c) < nextId' /\ nextId' \in Nat
      /\ firstId <= nextId'
  BY <1>0, <1>2 DEF Allocated, Ids
<1>4. /\ in.stamp = stamp + 1 /\ in.id = IdFor(c) /\ in.kind = kind /\ in \in Input
  BY <1>0, <1>2 DEF Ids, Kinds, InputOf, Input
<1>5. Fit(in, stamp + 1, firstId, nextId', heard)
  <2>1. heard[IdFor(c)] \in Nat /\ heard[IdFor(c)] <= stamp
    BY <1>2 DEF PointerIInv, Numbered
  <2>2. heard[IdFor(c)] <= stamp + 1 /\ stamp + 1 <= stamp + 1
    BY <2>1, <1>0
  <2> HIDE DEF in
  <2>3. QED BY <1>2, <1>3, <1>4, <2>2 DEF Fit
<1>6. InReportedOrder(q, stamp, firstId, nextId, heard)
  <2>1. InReportedOrder(queue, stamp, firstId, nextId, heard)
    BY DEF PointerIInv
  <2> HIDE DEF K, in
  <2>2. InReportedOrder(ItemsIn(queue, K), stamp, firstId, nextId, heard)
    BY <2>1, OrderAfterCoalescing
  <2>3. QED BY <2>1, <2>2
<1>7. queue' = Append(q, in)
  BY <1>0 DEF Coalesced
<1>8. InReportedOrder(queue', stamp', firstId', nextId', heard')
  <2> HIDE DEF q, in
  <2>1. InReportedOrder(Append(q, in), stamp + 1, firstId, nextId', heard)
    BY <1>0, <1>3, <1>4, <1>5, <1>6, OrderAfterReport
  <2>2. QED BY <2>1, <1>7, <1>0
<1>9. Numbered'
  BY <1>1, <1>2, <1>0, <1>3 DEF PointerIInv, Numbered, Ids
<1>10. InReportedOrder(batch', stamp', firstId', nextId', heard')
  BY NoneInOrder, <1>0
<1>11. OneIsEmpty' /\ BootTyped' /\ PressesWereHeard' /\ TurnIsFirst'
  BY <1>0 DEF PointerIInv, OneIsEmpty, BootTyped, PressesWereHeard, TurnIsFirst, bootVars
<1>12. QED BY <1>8, <1>9, <1>10, <1>11 DEF PointerIInv

\* A wheel waits with the rest.
LEMMA WheelKeeps ==
  ASSUME PointerIInv, Wheel PROVE PointerIInv'
<1> DEFINE in == [kind |-> "wheel", id |-> 0, primary |-> FALSE, stamp |-> stamp + 1]
<1>0. /\ stamp \in Nat /\ nextId \in Nat /\ firstId \in Nat /\ stamp' = stamp + 1 /\ queue' = Append(queue, in)
      /\ UNCHANGED <<live, nextId, batch, error, touching, bootVars, scripts, heard, lastDown, firstId>>
      /\ batch = <<>> /\ turn = Idle
  BY DEF PointerIInv, Numbered, Wheel, Ready
<1>1. in.stamp = stamp + 1 /\ Fit(in, stamp + 1, firstId, nextId, heard)
  BY <1>0, PointerAssumption DEF Fit, Input, Kinds
<1>2. InReportedOrder(queue', stamp', firstId', nextId', heard')
  <2>1. InReportedOrder(queue, stamp, firstId, nextId, heard)
    BY DEF PointerIInv
  <2> HIDE DEF in
  <2>2. InReportedOrder(Append(queue, in), stamp + 1, firstId, nextId, heard)
    BY <1>0, <1>1, <2>1, OrderAfterReport
  <2>3. QED BY <2>2, <1>0
<1>3. InReportedOrder(batch', stamp', firstId', nextId', heard')
  BY NoneInOrder, <1>0
<1>4. Numbered'
  BY <1>0 DEF PointerIInv, Numbered
<1>5. OneIsEmpty' /\ BootTyped' /\ PressesWereHeard' /\ TurnIsFirst'
  BY <1>0 DEF PointerIInv, OneIsEmpty, BootTyped, PressesWereHeard, TurnIsFirst, bootVars
<1>6. QED BY <1>2, <1>3, <1>4, <1>5 DEF PointerIInv

\* What is drained is what waited, or it is dropped.
LEMMA DrainKeepsOrder ==
  ASSUME PointerIInv, Drain PROVE PointerIInv'
<1>0. /\ queue' = <<>> /\ batch' \in {queue, <<>>} /\ turn = Idle
      /\ UNCHANGED <<live, nextId, error, touching, bootVars, pointerHist>>
  BY DEF Drain, Ready
<1>1. InReportedOrder(<<>>, stamp, firstId, nextId, heard)
  BY NoneInOrder
<1>2. Numbered' /\ OneIsEmpty' /\ BootTyped' /\ PressesWereHeard' /\ TurnIsFirst'
  BY <1>0 DEF PointerIInv, Numbered, OneIsEmpty, BootTyped, PressesWereHeard, TurnIsFirst,
     bootVars, pointerHist
<1>3. QED BY <1>0, <1>1, <1>2 DEF PointerIInv, pointerHist

\* The contacts that go with the surface are cancelled behind what waited.
LEMMA CancelContactsKeeps ==
  ASSUME PointerIInv, CancelContacts PROVE PointerIInv'
<1>0. /\ stamp \in Nat /\ nextId \in Nat /\ firstId \in Nat /\ MaxId \in Nat /\ MouseId = 1
      /\ 2 <= firstId /\ firstId <= nextId /\ nextId <= MaxId + 1
      /\ stamp' = stamp + 1 /\ live' = [f \in Fingers |-> 0]
      /\ UNCHANGED <<nextId, error, bootVars, scripts, heard, lastDown, firstId>>
      /\ batch = <<>> /\ turn = Idle
  BY PointerAssumption DEF PointerIInv, Numbered, CancelContacts, MouseId, Ready
<1>1. PICK ids \in Allotted :
        IF error THEN queue' = queue \o Cancellations(ids) /\ batch' = <<>>
                 ELSE queue' = <<>> /\ batch' = queue \o Cancellations(ids)
  BY DEF CancelContacts
<1>2. \A i \in LiveIds : i \in Ids /\ firstId <= i /\ i < nextId /\ heard[i] <= stamp + 1
  BY <1>0 DEF LiveIds, PointerIInv, Numbered, Ids
<1>3. Cardinality(LiveIds) \in Nat
  <2>1. IsFiniteSet(1 .. MaxId)
    BY <1>0, FS_Interval
  <2>2. LiveIds \subseteq 1 .. MaxId
    BY <1>2 DEF Ids
  <2>3. QED BY <2>1, <2>2, FS_Subset, FS_CardinalityType
<1>4. ids \in [1 .. Cardinality(LiveIds) -> LiveIds]
  BY DEF Allotted, SetToSeqs
<1> DEFINE c == Cancellations(ids)
<1>5. c \in Seq(Input) /\ \A k \in DOMAIN c : Fit(c[k], stamp + 1, firstId, nextId, heard) /\ c[k].stamp = stamp + 1
  <2> DEFINE n == Cardinality(LiveIds)
             It(k) == [kind |-> "cancel", id |-> ids[k], primary |-> live[PrimaryFinger] = ids[k],
                       stamp |-> stamp + 1]
  <2>1. c = [k \in 1 .. n |-> It(k)]
    BY <1>4 DEF Cancellations
  <2>2. ASSUME NEW k \in 1 .. n
        PROVE  It(k) \in Input /\ Fit(It(k), stamp + 1, firstId, nextId, heard) /\ It(k).stamp = stamp + 1
    <3>1. ids[k] \in LiveIds
      BY <1>4
    <3>2. /\ ids[k] \in Ids /\ ids[k] \in 0 .. MaxId /\ firstId <= ids[k] /\ ids[k] < nextId
          /\ heard[ids[k]] <= stamp + 1
      BY <3>1, <1>2 DEF Ids
    <3>3. (live[PrimaryFinger] = ids[k]) \in BOOLEAN /\ stamp + 1 \in Nat /\ "cancel" \in Kinds
      BY <1>0 DEF Kinds
    <3>4. It(k) \in Input
      BY <3>2, <3>3 DEF Input
    <3>5. It(k).stamp = stamp + 1 /\ It(k).id = ids[k]
      OBVIOUS
    <3> HIDE DEF It
    <3>6. Fit(It(k), stamp + 1, firstId, nextId, heard)
      BY <3>2, <3>4, <3>5, <1>0 DEF Fit
    <3>7. QED BY <3>4, <3>5, <3>6
  <2> HIDE DEF It, c
  <2>3. n \in Nat
    BY <1>3
  <2> HIDE DEF n
  <2>4. QED BY <2>1, <2>2, <2>3
<1>6. InReportedOrder(queue \o c, stamp + 1, firstId, nextId, heard)
  <2>1. InReportedOrder(queue, stamp, firstId, nextId, heard)
    BY DEF PointerIInv
  <2> HIDE DEF c
  <2>2. QED BY <1>0, <1>5, <2>1, OrderAfterReports
<1>7. InReportedOrder(<<>>, stamp + 1, firstId, nextId, heard)
  BY NoneInOrder
<1>8. /\ OneIsEmpty'
      /\ InReportedOrder(queue', stamp', firstId', nextId', heard')
      /\ InReportedOrder(batch', stamp', firstId', nextId', heard')
  <2>1. CASE error
    <3>1. queue' = queue \o c /\ batch' = <<>>
      BY <1>1, <2>1
    <3> HIDE DEF c
    <3>2. QED BY <3>1, <1>0, <1>6, <1>7 DEF OneIsEmpty
  <2>2. CASE ~error
    <3>1. queue' = <<>> /\ batch' = queue \o c
      BY <1>1, <2>2
    <3> HIDE DEF c
    <3>2. QED BY <3>1, <1>0, <1>6, <1>7 DEF OneIsEmpty
  <2>3. QED BY <2>1, <2>2
<1>9. Numbered'
  BY <1>0 DEF PointerIInv, Numbered
<1>10. BootTyped' /\ PressesWereHeard' /\ TurnIsFirst'
  BY <1>0 DEF PointerIInv, BootTyped, PressesWereHeard, TurnIsFirst, bootVars
<1>11. QED BY <1>8, <1>9, <1>10 DEF PointerIInv

\* A new document starts from nothing.
LEMMA ReloadStartsPointers ==
  ASSUME PointerIInv, Reload PROVE PointerIInv'
<1>0. /\ queue' = <<>> /\ batch = <<>> /\ turn = Idle /\ live' = [f \in Fingers |-> 0]
      /\ conn' = Elements /\ pressed' = [i \in Ids |-> NoElement]
      /\ capture' = [i \in Ids |-> NoElement] /\ pending' = [i \in Ids |-> NoElement]
      /\ lastDown' = [i \in Ids |-> NoElement] /\ heard' = [i \in Ids |-> 0] /\ firstId' = nextId
      /\ UNCHANGED <<nextId, batch, turn, stamp>>
  BY DEF Reload, Ready
<1>1. InReportedOrder(<<>>, stamp', firstId', nextId', heard')
  BY NoneInOrder
<1>2. Numbered'
  BY <1>0 DEF PointerIInv, Numbered
<1>3. OneIsEmpty' /\ BootTyped' /\ PressesWereHeard' /\ TurnIsFirst'
  BY <1>0 DEF PointerIInv, OneIsEmpty, BootTyped, PressesWereHeard, TurnIsFirst, OrNone
<1>4. QED BY <1>0, <1>1, <1>2, <1>3 DEF PointerIInv
\* The first of the batch is an input; but for a wheel it is of a pointer.
LEMMA FirstIsFit ==
  ASSUME PointerIInv, batch # <<>>
  PROVE  /\ Head(batch) \in Input
         /\ Head(batch).stamp \in Nat /\ Head(batch).stamp <= stamp
         /\ Head(batch).kind # "wheel" =>
              /\ Head(batch).id \in Ids
              /\ heard[Head(batch).id] <= Head(batch).stamp
              /\ Head(batch).id = MouseId \/ firstId <= Head(batch).id
<1>1. batch \in Seq(Input)
  BY DEF PointerIInv, InReportedOrder
<1>2. 1 \in DOMAIN batch /\ Head(batch) = batch[1]
  BY <1>1
<1>3. Fit(batch[1], stamp, firstId, nextId, heard)
  BY <1>2 DEF PointerIInv, InReportedOrder
<1>4. batch[1].stamp \in Nat
  BY <1>3 DEF Fit, Input
<1>5. QED BY <1>2, <1>3, <1>4 DEF Fit

\* A dispatch under way is of the first of the batch.
LEMMA AtWork ==
  ASSUME PointerIInv, turn.at \in Phases
  PROVE  /\ turn \in Steps /\ batch # <<>> /\ turn.in = Head(batch) /\ turn.in.kind # "wheel"
         /\ turn.in \in Input /\ turn.in.id \in Ids /\ turn.hit \in Elements
         /\ turn.on \in Elements /\ turn.taker \in OrNone
         /\ turn.at = "click" =>
              pressed[turn.in.id] = NoElement /\ lastDown[turn.in.id] = turn.on
         /\ queue = <<>>
<1>1. turn # Idle
  BY DEF Idle, Phases
<1>2. UnderWay(turn)
  BY <1>1 DEF PointerIInv, TurnIsFirst
<1>3. batch # <<>> /\ turn.in = Head(batch) /\ turn.in.kind # "wheel" /\ turn \in Steps
  BY <1>2 DEF UnderWay
<1>4. turn.in \in Input /\ turn.in.id \in Ids
  BY <1>3, FirstIsFit
<1>5. turn.hit \in Elements /\ turn.on \in Elements /\ turn.taker \in OrNone
  BY <1>3 DEF Steps
<1>6. queue = <<>>
  BY <1>3 DEF PointerIInv, OneIsEmpty
<1>7. QED BY <1>2, <1>3, <1>4, <1>5, <1>6 DEF UnderWay

\* An event is aimed at an element.
LEMMA AimedIsStep ==
  ASSUME NEW cap \in [Ids -> OrNone], NEW in \in Input, in.id \in Ids, NEW hit \in Elements
  PROVE  /\ Aimed(cap, in, hit) \in Steps
         /\ Aimed(cap, in, hit).in = in /\ Aimed(cap, in, hit).at = "event"
<1>1. (IF cap[in.id] = NoElement THEN hit ELSE cap[in.id]) \in Elements
  BY DEF OrNone
<1> HIDE DEF Input
<1>2. QED BY <1>1 DEF Aimed, Steps, Phases, OrNone

\* What is not the click of a dispatch needs no press.
LEMMA StepIsUnderWay ==
  ASSUME PointerIInv, batch # <<>>, batch' = batch, turn' \in Steps,
         turn'.in = Head(batch), Head(batch).kind # "wheel", turn'.at # "click"
  PROVE  TurnIsFirst'
BY DEF TurnIsFirst, UnderWay

\* A dispatch that changes only the page's side leaves what waits.
LEMMA PageStepKeeps ==
  ASSUME PointerIInv, UNCHANGED inputVars, UNCHANGED pointerHist, BootTyped',
         PressesWereHeard', TurnIsFirst'
  PROVE  PointerIInv'
BY DEF PointerIInv, Numbered, OneIsEmpty, inputVars, pointerHist

\* The first of the batch is done with, or all of it is dropped.
LEMMA BatchShrinks ==
  ASSUME PointerIInv, batch # <<>>, batch' \in {Tail(batch), <<>>}, turn' = Idle,
         UNCHANGED <<live, nextId, queue, stamp, heard, firstId>>, BootTyped', PressesWereHeard'
  PROVE  PointerIInv'
<1>1. InReportedOrder(Tail(batch), stamp, firstId, nextId, heard)
  BY OrderOfRest DEF PointerIInv
<1>2. InReportedOrder(<<>>, stamp, firstId, nextId, heard)
  BY NoneInOrder
<1>3. Numbered' /\ OneIsEmpty' /\ TurnIsFirst'
  BY DEF PointerIInv, Numbered, OneIsEmpty, TurnIsFirst
<1>4. InReportedOrder(batch', stamp', firstId', nextId', heard')
  BY <1>1, <1>2
<1>5. InReportedOrder(queue', stamp', firstId', nextId', heard')
  BY DEF PointerIInv
<1>6. QED BY <1>3, <1>4, <1>5 DEF PointerIInv

\* An input that misses, fails or is a wheel is done with.
LEMMA SkipKeeps ==
  ASSUME PointerIInv, Miss \/ Fail \/ DispatchWheel PROVE PointerIInv'
<1>1. /\ batch # <<>> /\ batch' \in {Tail(batch), <<>>} /\ turn' = Idle
      /\ UNCHANGED <<live, nextId, queue, conn, pressed, capture, pending, pointerHist>>
  BY DEF Miss, Fail, DispatchWheel, bootVars
<1>2. BootTyped' /\ PressesWereHeard'
  BY <1>1 DEF PointerIInv, BootTyped, PressesWereHeard, pointerHist
<1>3. UNCHANGED <<live, nextId, queue, stamp, heard, firstId>>
  BY <1>1 DEF pointerHist
<1>4. QED BY <1>1, <1>2, <1>3, BatchShrinks

\* A dispatch begins.
LEMMA BeginKeeps ==
  ASSUME PointerIInv, NEW hit \in Elements, Begin(hit) PROVE PointerIInv'
<1> DEFINE in == Head(batch)
           i == in.id
           req == IF pending[i] \in conn THEN pending[i] ELSE NoElement
           start(phase, on) == [at |-> phase, in |-> in, hit |-> hit, on |-> on, taker |-> req]
<1>1. batch # <<>> /\ in.kind # "wheel" /\ UNCHANGED <<inputVars, conn, pointerHist>>
  BY DEF Begin, Input1
<1>2. in \in Input /\ i \in Ids
  BY <1>1, FirstIsFit
<1>3. req \in OrNone /\ capture[i] \in OrNone
  BY <1>2 DEF PointerIInv, BootTyped, OrNone
<1>4. /\ pressed' = IF in.kind = "cancel" THEN [pressed EXCEPT ![i] = NoElement] ELSE pressed
      /\ pending' = [pending EXCEPT ![i] = req]
      /\ \/ req = capture[i] /\ turn' = Aimed(capture, in, hit) /\ UNCHANGED capture
         \/ /\ req # capture[i] /\ capture[i] # NoElement
            /\ capture' = [capture EXCEPT ![i] = NoElement] /\ turn' = start("lost", capture[i])
         \/ /\ req # capture[i] /\ capture[i] = NoElement
            /\ capture' = [capture EXCEPT ![i] = req] /\ turn' = start("got", req)
  BY DEF Begin, Input1
<1>5. BootTyped'
  <2>1. NoElement \in OrNone
    BY DEF OrNone
  <2>2. conn' = conn /\ lastDown' = lastDown
    BY <1>1 DEF pointerHist
  <2> HIDE DEF req, start, in
  <2>3. pressed' \in [Ids -> OrNone] /\ pending' \in [Ids -> OrNone]
    BY <2>1, <1>3, <1>4 DEF PointerIInv, BootTyped
  <2>4. capture' \in [Ids -> OrNone]
    BY <2>1, <1>3, <1>4 DEF PointerIInv, BootTyped
  <2>5. QED BY <2>2, <2>3, <2>4 DEF PointerIInv, BootTyped
<1>6. PressesWereHeard'
  <2>1. lastDown' = lastDown
    BY <1>1 DEF pointerHist
  <2> HIDE DEF req, start, in
  <2>2. QED BY <2>1, <1>4 DEF PointerIInv, BootTyped, PressesWereHeard
<1>7. turn' \in Steps /\ turn'.in = in /\ turn'.at # "click"
  <2>1. ASSUME NEW phase \in {"lost", "got"}, NEW on \in Elements
        PROVE  start(phase, on) \in Steps /\ start(phase, on).in = in /\ start(phase, on).at # "click"
    <3> HIDE DEF in, req
    <3>1. phase \in Phases /\ in \in Input
      BY <1>2 DEF Phases
    <3> HIDE DEF Input
    <3>2. QED BY <3>1, <1>3 DEF Steps
  <2>2. CASE turn' = Aimed(capture, in, hit)
    <3>1. capture \in [Ids -> OrNone]
      BY DEF PointerIInv, BootTyped
    <3> HIDE DEF in
    <3>2. QED BY <2>2, <3>1, <1>2, AimedIsStep
  <2>3. CASE turn' = start("lost", capture[i]) /\ capture[i] # NoElement
    <3>1. capture[i] \in Elements
      BY <2>3, <1>3 DEF OrNone
    <3> HIDE DEF start, in
    <3>2. QED BY <3>1, <2>1, <2>3
  <2>4. CASE turn' = start("got", req) /\ req # capture[i] /\ capture[i] = NoElement
    <3>1. req \in Elements
      BY <2>4, <1>3 DEF OrNone
    <3> HIDE DEF start, in, req
    <3>2. QED BY <3>1, <2>1, <2>4
  <2> HIDE DEF start, in, req
  <2>5. QED BY <1>4, <2>2, <2>3, <2>4
<1>8. TurnIsFirst'
  BY <1>1, <1>7, StepIsUnderWay DEF inputVars
<1>9. QED BY <1>1, <1>5, <1>6, <1>8, PageStepKeeps

\* A capture has been heard of.
LEMMA CaptureHeardKeeps ==
  ASSUME PointerIInv, LostHeard \/ GotHeard PROVE PointerIInv'
<1>1. /\ turn.at \in Phases
      /\ UNCHANGED <<inputVars, conn, active, pressed, suppressed, pending, pointerHist>>
  BY DEF LostHeard, GotHeard, Phases
<1>2. /\ batch # <<>> /\ turn.in = Head(batch) /\ turn.in.kind # "wheel" /\ turn.in \in Input
      /\ turn.in.id \in Ids /\ turn.hit \in Elements /\ turn.taker \in OrNone
  BY <1>1, AtWork
<1>3. capture \in [Ids -> OrNone]
  BY DEF PointerIInv, BootTyped
<1>4. /\ capture' \in [Ids -> OrNone]
      /\ turn' \in Steps /\ turn'.in = turn.in /\ turn'.at # "click"
  <2>1. CASE turn' = Aimed(capture, turn.in, turn.hit) /\ UNCHANGED capture
    <3>1. QED BY <2>1, <1>2, <1>3, AimedIsStep
  <2>2. CASE /\ turn.taker # NoElement /\ turn' = At("got", turn.taker, NoElement)
             /\ capture' = [capture EXCEPT ![turn.in.id] = turn.taker]
    <3>1. turn.taker \in Elements /\ NoElement \in OrNone
      BY <2>2, <1>2 DEF OrNone
    <3>2. capture' \in [Ids -> OrNone]
      BY <2>2, <1>2, <1>3
    <3>3. At("got", turn.taker, NoElement) \in Steps
      <4> HIDE DEF Input, OrNone
      <4>1. QED BY <3>1, <1>2 DEF At, Steps, Phases
    <3>4. At("got", turn.taker, NoElement).in = turn.in /\ At("got", turn.taker, NoElement).at # "click"
      BY DEF At
    <3>5. QED BY <2>2, <3>2, <3>3, <3>4
  <2>3. QED BY <2>1, <2>2 DEF LostHeard, GotHeard
<1>5. BootTyped' /\ PressesWereHeard'
  BY <1>1, <1>4 DEF PointerIInv, BootTyped, PressesWereHeard, pointerHist
<1>6. TurnIsFirst'
  BY <1>1, <1>2, <1>4, StepIsUnderWay DEF inputVars
<1>7. QED BY <1>1, <1>5, <1>6, PageStepKeeps
\* The end of a contact: its capture is released, and the call returns or the listener
\* of the release is called first.
LEMMA EndingMoves ==
  ASSUME PointerIInv, turn.at \in Phases, Ending(turn.in.id)
  PROVE  /\ UNCHANGED <<live, nextId, queue, error, touching, conn, suppressed, stamp, scripts,
                        firstId>>
         /\ pending' \in [Ids -> OrNone] /\ capture' \in [Ids -> OrNone]
         /\ \/ turn' = Idle /\ batch' = Tail(batch)
            \/ /\ turn' \in Steps /\ turn'.in = turn.in /\ turn'.at # "click"
               /\ batch' = batch
<1>1. /\ turn \in Steps /\ turn.in \in Input /\ turn.in.id \in Ids /\ turn.hit \in Elements
  BY AtWork
<1>2. capture \in [Ids -> OrNone] /\ pending \in [Ids -> OrNone] /\ NoElement \in OrNone
  BY DEF PointerIInv, BootTyped, OrNone
<1>3. pending' = [pending EXCEPT ![turn.in.id] = NoElement]
  BY DEF Ending
<1>4. CASE capture[turn.in.id] = NoElement
  BY <1>4, <1>2, <1>3 DEF Ending, Returned
<1>5. CASE capture[turn.in.id] # NoElement
  <2>1. /\ capture' = [capture EXCEPT ![turn.in.id] = NoElement]
        /\ turn' = At("lastLost", capture[turn.in.id], NoElement)
        /\ UNCHANGED <<inputVars, conn, active, suppressed, stamp, scripts, firstId>>
    BY <1>5 DEF Ending
  <2>2. capture[turn.in.id] \in Elements
    BY <1>1, <1>2, <1>5 DEF OrNone
  <2>3. At("lastLost", capture[turn.in.id], NoElement) \in Steps
    <3> DEFINE on == capture[turn.in.id]
    <3> HIDE DEF Input, OrNone, on
    <3>1. QED BY <2>2, <1>1, <1>2 DEF At, Steps, Phases
  <2>4. /\ At("lastLost", capture[turn.in.id], NoElement).in = turn.in
        /\ At("lastLost", capture[turn.in.id], NoElement).at # "click"
    BY DEF At
  <2>5. QED BY <2>1, <2>3, <2>4, <1>2, <1>3 DEF inputVars
<1>6. QED BY <1>4, <1>5

\* A dispatch that moved on, with what waits in the order it was.
LEMMA MovedOn ==
  ASSUME PointerIInv, batch # <<>>, Head(batch).kind # "wheel",
         UNCHANGED <<live, nextId, stamp, firstId>>, queue = <<>>, queue' = <<>>,
         heard' \in [Ids -> Nat], \A i \in Ids : heard'[i] <= stamp,
         InReportedOrder(batch, stamp, firstId, nextId, heard'),
         BootTyped', PressesWereHeard',
         \/ turn' = Idle /\ batch' = Tail(batch)
         \/ UnderWay(turn)' /\ batch' = batch
  PROVE  PointerIInv'
<1>1. InReportedOrder(Tail(batch), stamp, firstId, nextId, heard')
  BY OrderOfRest
<1>2. InReportedOrder(<<>>, stamp, firstId, nextId, heard')
  BY NoneInOrder
<1>3. Numbered' /\ OneIsEmpty' /\ TurnIsFirst'
  BY DEF PointerIInv, Numbered, OneIsEmpty, TurnIsFirst
<1>4. InReportedOrder(batch', stamp', firstId', nextId', heard')
  BY <1>1
<1>5. InReportedOrder(queue', stamp', firstId', nextId', heard')
  BY <1>2
<1>6. QED BY <1>3, <1>4, <1>5 DEF PointerIInv

\* The event has been heard.
LEMMA EventHeardKeeps ==
  ASSUME PointerIInv, NEW prevented \in BOOLEAN, EventHeard(prevented)
  PROVE  /\ PointerIInv'
         /\ \A i \in Ids : heard'[i] >= heard[i]
<1> DEFINE i == turn.in.id
           k == turn.in.kind
<1>1. turn.at = "event" /\ turn.at \in Phases
  BY DEF EventHeard, Phases
<1>2. /\ turn \in Steps /\ batch # <<>> /\ turn.in = Head(batch) /\ k # "wheel" /\ turn.in \in Input
      /\ i \in Ids /\ turn.on \in Elements /\ turn.hit \in Elements /\ queue = <<>>
  BY <1>1, AtWork
<1>3. Head(batch).stamp \in Nat /\ Head(batch).stamp <= stamp /\ heard[i] <= Head(batch).stamp
  BY <1>2, FirstIsFit
<1>4. /\ heard' = [heard EXCEPT ![i] = turn.in.stamp]
      /\ lastDown' = [lastDown EXCEPT ![i] = IF k = "down" THEN turn.on ELSE @]
      /\ pressed' = [pressed EXCEPT ![i] = CASE k = "down" -> turn.on
                                              [] k = "up" -> NoElement
                                              [] OTHER -> @]
      /\ \/ k \in {"down", "move"} /\ turn' = Idle /\ batch' = Tail(batch)
            /\ UNCHANGED <<live, nextId, queue, conn, capture, pending, stamp, firstId>>
         \/ /\ Clicks(i) /\ turn' = At("click", turn.on, NoElement)
            /\ UNCHANGED <<inputVars, conn, capture, pending, stamp, firstId>>
         \/ k \in {"up", "cancel"} /\ ~Clicks(i) /\ Ending(i)
  BY DEF EventHeard, Returned
<1>5. heard \in [Ids -> Nat] /\ stamp \in Nat /\ \A j \in Ids : heard[j] <= stamp
  BY DEF PointerIInv, Numbered
<1>6. /\ heard' \in [Ids -> Nat] /\ \A j \in Ids : heard'[j] <= stamp /\ heard'[j] >= heard[j]
  <2> HIDE DEF i
  <2>1. heard' = [heard EXCEPT ![i] = Head(batch).stamp]
    BY <1>4, <1>2
  <2>2. heard' \in [Ids -> Nat]
    BY <2>1, <1>3, <1>5
  <2>3. ASSUME NEW j \in Ids PROVE heard'[j] <= stamp /\ heard'[j] >= heard[j]
    BY <2>1, <1>5, <1>3
  <2>4. QED BY <2>2, <2>3
<1>7. InReportedOrder(batch, stamp, firstId, nextId, heard')
  BY <1>4, <1>2, <1>5, OrderAfterHearing DEF PointerIInv
<1>8. /\ pressed \in [Ids -> OrNone] /\ lastDown \in [Ids -> OrNone] /\ capture \in [Ids -> OrNone]
      /\ pending \in [Ids -> OrNone] /\ conn \subseteq Elements
      /\ NoElement \in OrNone /\ turn.on \in OrNone /\ turn.on # NoElement
  BY <1>2, PointerAssumption DEF PointerIInv, BootTyped, OrNone
<1>9. pressed' \in [Ids -> OrNone] /\ lastDown' \in [Ids -> OrNone]
  <2> HIDE DEF i, k
  <2>1. QED BY <1>4, <1>8
<1>10. PressesWereHeard'
  <2> HIDE DEF i, k
  <2>1. ASSUME NEW j \in Ids, pressed'[j] # NoElement PROVE pressed'[j] = lastDown'[j]
    <3>0. pressed[j] # NoElement => pressed[j] = lastDown[j]
      BY DEF PointerIInv, PressesWereHeard
    <3>1. CASE j = i /\ k = "down"
      BY <3>1, <1>4, <1>8
    <3>2. CASE j = i /\ k = "up"
      BY <3>2, <1>4, <1>8, <2>1
    <3>3. CASE j = i /\ k # "up" /\ k # "down"
      BY <3>3, <1>4, <1>8, <3>0, <2>1
    <3>4. CASE j # i
      BY <3>4, <1>4, <1>8, <3>0, <2>1
    <3>5. QED BY <3>1, <3>2, <3>3, <3>4
  <2>2. QED BY <2>1 DEF PressesWereHeard
<1>11. CASE /\ k \in {"down", "move"} /\ turn' = Idle /\ batch' = Tail(batch)
            /\ UNCHANGED <<live, nextId, queue, conn, capture, pending, stamp, firstId>>
  BY <1>8, <1>9, <1>11, <1>2, <1>6, <1>7, <1>10, MovedOn DEF BootTyped
<1>12. CASE /\ Clicks(i) /\ turn' = At("click", turn.on, NoElement)
            /\ UNCHANGED <<inputVars, conn, capture, pending, stamp, firstId>>
  <2>1. BootTyped'
    BY <1>8, <1>9, <1>12 DEF BootTyped
  <2>2. queue' = <<>> /\ UNCHANGED <<live, nextId, stamp, firstId>> /\ batch' = batch
    BY <1>12, <1>2 DEF inputVars
  <2>3. k = "up" /\ pressed[i] = turn.on
    BY <1>12 DEF Clicks
  <2>4. pressed'[i] = NoElement /\ lastDown'[i] = lastDown[i] /\ lastDown[i] = turn.on
    <3>1. lastDown[i] = turn.on
      BY <2>3, <1>2, <1>8 DEF PointerIInv, PressesWereHeard
    <3>2. k # "down"
      BY <2>3
    <3> HIDE DEF i, k
    <3>3. QED BY <3>1, <3>2, <2>3, <1>2, <1>4, <1>8
  <2>5. turn' \in Steps
    <3> HIDE DEF Input, OrNone
    <3>1. QED BY <1>2, <1>8, <1>12 DEF At, Steps, Phases
  <2>6. turn'.in = turn.in /\ turn'.on = turn.on
    BY <1>12 DEF At
  <2>7. UnderWay(turn)'
    BY <2>2, <2>4, <2>5, <2>6, <1>2 DEF UnderWay
  <2>8. PointerIInv'
    BY <1>2, <1>6, <1>7, <1>10, <2>1, <2>2, <2>7, MovedOn
  <2>9. QED BY <2>8, <1>6
<1>13. CASE k \in {"up", "cancel"} /\ ~Clicks(i) /\ Ending(i)
  <2>1. /\ UNCHANGED <<live, nextId, queue, error, touching, conn, suppressed, stamp, scripts, firstId>>
        /\ pending' \in [Ids -> OrNone] /\ capture' \in [Ids -> OrNone]
        /\ \/ turn' = Idle /\ batch' = Tail(batch)
           \/ turn' \in Steps /\ turn'.in = turn.in /\ turn'.at # "click" /\ batch' = batch
    BY <1>1, <1>13, EndingMoves
  <2>2. BootTyped'
    BY <1>8, <1>9, <2>1 DEF BootTyped
  <2>3. \/ turn' = Idle /\ batch' = Tail(batch)
        \/ UnderWay(turn)' /\ batch' = batch
    BY <2>1, <1>2 DEF UnderWay
  <2>4. queue' = <<>> /\ UNCHANGED <<live, nextId, stamp, firstId>>
    BY <2>1, <1>2
  <2>5. PointerIInv'
    BY <1>2, <1>6, <1>7, <1>10, <2>2, <2>3, <2>4, MovedOn
  <2>6. QED BY <2>5, <1>6
<1>14. QED BY <1>4, <1>11, <1>12, <1>13

\* The click, or the release of the capture, has been heard.
LEMMA EndHeardKeeps ==
  ASSUME PointerIInv, ClickHeard \/ LastLostHeard PROVE PointerIInv'
<1>1. turn.at \in Phases
  BY DEF ClickHeard, LastLostHeard, Phases
<1>2. /\ batch # <<>> /\ turn.in = Head(batch) /\ turn.in.kind # "wheel" /\ turn.in.id \in Ids
      /\ queue = <<>>
      /\ turn.at = "click" => pressed[turn.in.id] = NoElement
  BY <1>1, AtWork
<1>3. /\ heard' = heard /\ pressed' = pressed
      /\ UNCHANGED <<live, nextId, queue, conn, stamp, firstId>>
      /\ pending' \in [Ids -> OrNone] /\ capture' \in [Ids -> OrNone]
      /\ \/ turn' = Idle /\ batch' = Tail(batch)
         \/ turn' \in Steps /\ turn'.in = turn.in /\ turn'.at # "click" /\ batch' = batch
  BY <1>1, EndingMoves DEF ClickHeard, LastLostHeard, Returned, PointerIInv, BootTyped
<1>4. lastDown' \in [Ids -> OrNone] /\ PressesWereHeard'
  BY <1>2, <1>3 DEF ClickHeard, PointerIInv, BootTyped, PressesWereHeard, OrNone, LastLostHeard
<1>5. BootTyped'
  BY <1>3, <1>4 DEF PointerIInv, BootTyped
<1>6. heard' \in [Ids -> Nat] /\ \A i \in Ids : heard'[i] <= stamp
  BY <1>3 DEF PointerIInv, Numbered
<1>7. InReportedOrder(batch, stamp, firstId, nextId, heard')
  BY <1>3 DEF PointerIInv
<1>8. \/ turn' = Idle /\ batch' = Tail(batch)
      \/ UnderWay(turn)' /\ batch' = batch
  BY <1>2, <1>3 DEF UnderWay
<1>9. queue' = <<>> /\ Head(batch).kind # "wheel" /\ UNCHANGED <<live, nextId, stamp, firstId>>
  BY <1>2, <1>3
<1>10. QED BY <1>2, <1>4, <1>5, <1>6, <1>7, <1>8, <1>9, MovedOn

\* A call of a listener or a timer changes what is asked for and what is in the document.
LEMMA ScriptKeeps ==
  ASSUME PointerIInv, Script, conn' \subseteq Elements, pending' \in [Ids -> OrNone]
  PROVE  PointerIInv'
<1>1. UNCHANGED <<inputVars, pressed, capture, turn, stamp, heard, lastDown, firstId>>
  BY DEF Script
<1>2. Numbered' /\ OneIsEmpty' /\ BootTyped' /\ PressesWereHeard' /\ TurnIsFirst'
  BY <1>1 DEF PointerIInv, Numbered, OneIsEmpty, BootTyped, PressesWereHeard, TurnIsFirst,
     UnderWay, inputVars
<1>3. QED BY <1>1, <1>2 DEF PointerIInv, inputVars

LEMMA PointersStart == PointerInit => PointerIInv
<1> SUFFICES ASSUME PointerInit PROVE PointerIInv
  OBVIOUS
<1>1. MaxId \in Nat \ {0} /\ nextId = 2 /\ firstId = 2 /\ MouseId = 1
  BY PointerAssumption DEF PointerInit, MouseId
<1>2. InReportedOrder(queue, stamp, firstId, nextId, heard) /\ InReportedOrder(batch, stamp, firstId, nextId, heard)
  BY NoneInOrder DEF PointerInit
<1>3. Numbered /\ OneIsEmpty /\ BootTyped /\ PressesWereHeard /\ TurnIsFirst
  BY <1>1 DEF PointerInit, Numbered, OneIsEmpty, BootTyped, PressesWereHeard, TurnIsFirst, OrNone
<1>4. QED BY <1>2, <1>3 DEF PointerIInv

LEMMA PointersStep == PointerIInv /\ [PointerNext]_pointerVars => PointerIInv'
<1> SUFFICES ASSUME PointerIInv, [PointerNext]_pointerVars PROVE PointerIInv'
  OBVIOUS
<1>1. ASSUME NEW c \in Contacts, Move(c) \/ Press(c) PROVE PointerIInv'
  <2>1. PICK kind \in {"move", "down", "up", "cancel"} : Reported(kind, c)
    BY <1>1 DEF Move, Press
  <2>2. /\ Queue(kind, c) /\ Allocated(c)
        /\ live' = IF c = "mouse" THEN live ELSE [live EXCEPT ![c] = IdFor(c)]
    BY <2>1 DEF Reported
  <2>3. IdFor(c) \in {0, IdFor(c)}
    OBVIOUS
  <2>4. QED BY <2>2, <2>3, ReportKeeps
<1>2. ASSUME NEW c \in Contacts, NEW kind \in {"up", "cancel"}, Finished(kind, c) PROVE PointerIInv'
  BY <1>2, ReportKeeps DEF Finished
<1>3. ASSUME NEW c \in Contacts, Release(c) PROVE PointerIInv'
  BY <1>2, <1>3 DEF Release
<1>4. ASSUME NEW f \in Fingers, Left(f) PROVE PointerIInv'
  BY <1>2, <1>4 DEF Contacts, Left
<1>5. CASE Wheel \/ Drain \/ CancelContacts \/ Reload
  BY <1>5, WheelKeeps, DrainKeepsOrder, CancelContactsKeeps, ReloadStartsPointers
<1>6. CASE Miss \/ Fail \/ DispatchWheel
  BY <1>6, SkipKeeps
<1>7. ASSUME NEW e \in Elements, Begin(e) PROVE PointerIInv'
  BY <1>7, BeginKeeps
<1>8. CASE LostHeard \/ GotHeard \/ ClickHeard \/ LastLostHeard
  BY <1>8, CaptureHeardKeeps, EndHeardKeeps
<1>9. ASSUME NEW prevented \in BOOLEAN, EventHeard(prevented) PROVE PointerIInv'
  BY <1>9, EventHeardKeeps
<1>10. ASSUME NEW i \in Ids, NEW e \in Elements,
              SetPointerCapture(i, e) \/ ReleasePointerCapture(i, e)
       PROVE  PointerIInv'
  BY <1>10, ScriptKeeps DEF SetPointerCapture, ReleasePointerCapture, PointerIInv, BootTyped,
     OrNone
<1>11. ASSUME NEW e \in Elements, Detach(e) PROVE PointerIInv'
  BY <1>11, ScriptKeeps DEF Detach, PointerIInv, BootTyped
<1>12. CASE Parked \/ UNCHANGED pointerVars
  <2>1. UNCHANGED pointerVars
    BY <1>12 DEF Parked
  <2>2. Numbered' /\ OneIsEmpty' /\ BootTyped' /\ PressesWereHeard' /\ TurnIsFirst'
    BY <2>1 DEF PointerIInv, Numbered, OneIsEmpty, BootTyped, PressesWereHeard, TurnIsFirst,
       UnderWay, pointerVars, inputVars, bootVars, pointerHist
  <2>3. QED BY <2>1, <2>2 DEF PointerIInv, pointerVars, inputVars, pointerHist
<1>13. QED
  BY <1>1, <1>3, <1>4, <1>5, <1>6, <1>7, <1>8, <1>9, <1>10, <1>11, <1>12 DEF PointerNext

\* Only an event that is heard, and a reload, change what a pointer was last heard with.
LEMMA HeardInOrder ==
  PointerIInv /\ [PointerNext]_pointerVars
    => [\A i \in Ids : heard'[i] >= heard[i] \/ heard'[i] = 0]_pointerVars
<1> SUFFICES ASSUME PointerIInv, [PointerNext]_pointerVars
             PROVE  \A i \in Ids : heard'[i] >= heard[i] \/ heard'[i] = 0
  OBVIOUS
<1>1. CASE heard' = heard
  BY <1>1 DEF PointerIInv, Numbered
<1>2. CASE Reload
  BY <1>2 DEF Reload
<1>3. ASSUME NEW prevented \in BOOLEAN, EventHeard(prevented)
      PROVE  \A i \in Ids : heard'[i] >= heard[i] \/ heard'[i] = 0
  BY <1>3, EventHeardKeeps
<1>4. ASSUME NEW c \in Contacts, Move(c) \/ Press(c) \/ Release(c) PROVE heard' = heard
  BY <1>4 DEF Move, Press, Release, Reported, Finished, Queue
<1>5. ASSUME NEW f \in Fingers, Left(f) PROVE heard' = heard
  BY <1>5 DEF Left, Finished, Queue
<1>6. CASE Wheel \/ Drain \/ CancelContacts \/ Miss \/ Fail \/ DispatchWheel
  BY <1>6, <1>1 DEF Wheel, Drain, CancelContacts, Miss, Fail, DispatchWheel, pointerHist
<1>7. ASSUME NEW e \in Elements, Begin(e) PROVE heard' = heard
  BY <1>7 DEF Begin, pointerHist
<1>8. CASE LostHeard \/ GotHeard \/ ClickHeard \/ LastLostHeard
  BY <1>8, <1>1 DEF LostHeard, GotHeard, ClickHeard, LastLostHeard, pointerHist
<1>9. ASSUME NEW i \in Ids, NEW e \in Elements,
             SetPointerCapture(i, e) \/ ReleasePointerCapture(i, e)
      PROVE  heard' = heard
  BY <1>9 DEF SetPointerCapture, ReleasePointerCapture, Script
<1>10. ASSUME NEW e \in Elements, Detach(e) PROVE heard' = heard
  BY <1>10 DEF Detach, Script
<1>11. CASE Parked \/ UNCHANGED pointerVars
  BY <1>11, <1>1 DEF Parked, pointerVars, pointerHist
<1>12. QED
  BY <1>1, <1>2, <1>3, <1>4, <1>5, <1>6, <1>7, <1>8, <1>9, <1>10, <1>11 DEF PointerNext

\* A document hears only contacts that began under it, clicks are where the last press
\* was, and what is heard of a pointer is in the order the window reported it.
THEOREM PointersHold == PointerSpec => PointersAreTrue
<1>1. PointerIInv => GestureIsWhole
  <2> SUFFICES ASSUME PointerIInv PROVE GestureIsWhole
    OBVIOUS
  <2>1. OwnContactsOnly
    <3> SUFFICES ASSUME turn # Idle PROVE turn.in.id = MouseId \/ turn.in.id >= firstId
      BY DEF OwnContactsOnly
    <3>1. batch # <<>> /\ turn.in = Head(batch) /\ turn.in.kind # "wheel"
      BY DEF PointerIInv, TurnIsFirst, UnderWay
    <3>2. turn.in.id \in Ids /\ (turn.in.id = MouseId \/ firstId <= turn.in.id)
      BY <3>1, FirstIsFit
    <3>3. turn.in.id \in Int /\ firstId \in Int
      BY <3>2 DEF Ids, PointerIInv, Numbered
    <3>4. QED BY <3>2, <3>3
  <2>2. ClickAgreesWithPress
    BY AtWork DEF ClickAgreesWithPress, Phases
  <2>3. QED BY <2>1, <2>2 DEF GestureIsWhole
<1>2. PointerInit /\ [][PointerNext]_pointerVars
        => []PointerIInv /\ [][\A i \in Ids : heard'[i] >= heard[i] \/ heard'[i] = 0]_pointerVars
  BY PointersStart, PointersStep, HeardInOrder, PTL
<1>3. QED BY <1>1, <1>2, PTL DEF PointerSpec, PointersAreTrue, HeardInReportedOrder

=============================================================================
