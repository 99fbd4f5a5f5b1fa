---------------------------- MODULE EventDispatch ----------------------------
(***************************************************************************)
(* How an event walks the document's tree while the listeners it calls     *)
(* register, remove, stop, move nodes and dispatch other events.           *)
(*                                                                         *)
(* One type of event; one element that moves between two parents or leaves *)
(* the document; the window stands for the window and the document.  The   *)
(* chain of events behind one native input (pointer, mouse, click) shares  *)
(* the path the hit test found, as long as the tree's revision stands.     *)
(* What a listener throws is reported and changes nothing; preventDefault  *)
(* and the default actions are left out.                                   *)
(***************************************************************************)
EXTENDS Naturals, Filters, FiniteSets

CONSTANTS MaxListeners, MaxDispatches, MaxEdits  \* bounds
ASSUME DispatchAssumption == {MaxListeners, MaxDispatches, MaxEdits} \subseteq Nat

VARIABLES
    parent,     \* the element's: "left", "right", "detached"
    revision,   \* treeRevision
    edits,      \* how often the tree has changed
    listeners,  \* every listener that was registered, in that order
    lists,      \* target -> its listeners
    events,     \* the dispatches under way, innermost last
    dispatches, \* how many were begun
    input       \* the native input: the events it still owes, and their path

listenerVars == <<listeners, lists>>
dispatchVars == <<events, dispatches>>
eventVars == <<parent, revision, edits, listenerVars, dispatchVars, input>>

EventTargets == {"window", "left", "right", "element"}
\* propagationPath
PathTo(target) ==
    CASE target = "window" -> <<"window">>
      [] parent = "detached" -> <<"element">>
      [] OTHER -> <<"window", parent, "element">>

NoInput == [left |-> 0, path |-> <<>>, revision |-> 0, hinted |-> FALSE, blind |-> FALSE]
NewEvent(path) ==
    [path |-> path, turn |-> 0, queue |-> <<>>, calling |-> FALSE, bubbles |-> TRUE,
     stopped |-> FALSE, now |-> FALSE,
     \* history: whether the path is the tree's, who was there, who heard it,
     \* and when it was stopped.
     sound |-> path = PathTo(Last(path)) \/ input.blind,
     known |-> {l \in DOMAIN listeners : ~listeners[l].removed}, heard |-> <<>>,
     until |-> 2 * Len(path)]

EventInit ==
    /\ parent = "left" /\ revision = 0 /\ edits = 0
    /\ listeners = <<>> /\ lists = [t \in EventTargets |-> <<>>]
    /\ events = <<>> /\ dispatches = 0 /\ input = NoInput

(***************************************************************************)
(* Dispatch: turn n of a path of k targets goes to the nth, until the kth  *)
(* is the event's own; then the path is walked backwards.                  *)
(***************************************************************************)
Event == Last(events)
Replaced(event) == Append(Front(events), event)
TargetOf(path, turn) == path[IF turn <= Len(path) THEN turn ELSE 2 * Len(path) - turn]

\* invokeListenerSnapshot: a turn's listeners are those there as it begins.
TurnOf(event, turn) ==
    LET there   == lists[TargetOf(event.path, turn)]
        capture == ItemsIn(there, {l \in DOMAIN listeners : listeners[l].capture})
        bubble  == ItemsIn(there, {l \in DOMAIN listeners : ~listeners[l].capture})
        size    == Len(event.path)
    IN  [event EXCEPT !.turn = turn, !.calling = FALSE,
                      !.queue = (IF turn <= size THEN capture ELSE <<>>)
                                \o (IF turn >= size THEN bubble ELSE <<>>)]

\* dispatchTo, up to the first turn
Dispatch(event) ==
    /\ dispatches < MaxDispatches /\ dispatches' = dispatches + 1
    /\ events' = Append(events, TurnOf(event, 1))

RemoveListenerRecord(l) ==
    /\ listeners' = [listeners EXCEPT ![l].removed = TRUE]
    /\ lists' = [lists EXCEPT ![listeners[l].at] = ItemsIn(@, DOMAIN listeners \ {l})]

\* The listener that runs, if any, returns, and the next one is called.
CallListener ==
    /\ events # <<>> /\ Event.queue # <<>>
    /\ LET l == Head(Event.queue)
           rest == [Event EXCEPT !.queue = Tail(@), !.calling = FALSE]
       IN  IF Event.now
           THEN /\ events' = Replaced([Event EXCEPT !.queue = <<>>, !.calling = FALSE])
                /\ UNCHANGED listenerVars
           ELSE IF listeners[l].removed
           THEN events' = Replaced(rest) /\ UNCHANGED listenerVars
           ELSE /\ events' = Replaced([rest EXCEPT !.calling = TRUE,
                                           !.heard = Append(@, [by |-> l, turn |-> Event.turn])])
                /\ IF listeners[l].once THEN RemoveListenerRecord(l)
                   ELSE UNCHANGED listenerVars
    /\ UNCHANGED <<parent, revision, edits, dispatches, input>>

IsOver(event) ==
    /\ event.queue = <<>>
    /\ IF event.stopped \/ event.turn = 2 * Len(event.path) - 1 THEN TRUE
       ELSE event.turn = Len(event.path) /\ ~event.bubbles

\* The turn is over, and perhaps the dispatch.
NextTurn ==
    /\ events # <<>> /\ Event.queue = <<>>
    /\ IF IsOver(Event) THEN events' = Front(events)
       ELSE events' = Replaced(TurnOf(Event, Event.turn + 1))
    /\ UNCHANGED <<parent, revision, edits, listenerVars, dispatches, input>>

(***************************************************************************)
(* Native input: the path comes with the hit test                          *)
(***************************************************************************)
NothingRuns == events = <<>> /\ input.left = 0

InputArrives ==
    /\ NothingRuns /\ parent # "detached"
    /\ input' = [NoInput EXCEPT !.left = 3, !.path = PathTo("element")]
    /\ UNCHANGED <<parent, revision, edits, listenerVars, dispatchVars>>

\* processPendingPointerCapture tells the element first, or nobody.
CaptureIsTold ==
    /\ events = <<>> /\ input.left = 3 /\ input' = [input EXCEPT !.left = 2]
    /\ Dispatch(NewEvent(PathTo("element"))) \/ UNCHANGED dispatchVars
    /\ UNCHANGED <<parent, revision, edits, listenerVars>>

\* makePropagationHint: the hit test's path under the revision of the first event
PathHint == IF input.hinted THEN input.revision ELSE revision
\* The bug looked for: the hit test's path although the tree has changed since.
HintedAnyway == input.path

HintedPropagationPath == IF PathHint = revision THEN input.path ELSE PathTo("element")

DispatchInput ==
    /\ events = <<>> /\ input.left \in 1..2
    /\ Dispatch(NewEvent(HintedPropagationPath))
    /\ input' = IF input.left = 1 THEN NoInput
                ELSE [input EXCEPT !.left = 1, !.hinted = TRUE, !.revision = PathHint]
    /\ UNCHANGED <<parent, revision, edits, listenerVars>>

(***************************************************************************)
(* Script, in a listener or between two inputs                             *)
(***************************************************************************)
ScriptRuns == IF events = <<>> THEN input.left = 0 ELSE Event.calling

AddEventListener ==
    /\ ScriptRuns /\ Len(listeners) < MaxListeners
    /\ \E at \in {"window", "element"}, capture, once \in BOOLEAN :
        /\ ~(capture /\ once)  \* a bound: neither reads the other
        /\ listeners' = Append(listeners, [at |-> at, capture |-> capture, once |-> once,
                                           removed |-> FALSE])
        /\ lists' = [lists EXCEPT ![at] = Append(@, Len(listeners) + 1)]
    /\ UNCHANGED <<parent, revision, edits, dispatchVars, input>>

RemoveEventListener ==
    /\ ScriptRuns
    /\ \E l \in DOMAIN listeners : ~listeners[l].removed /\ RemoveListenerRecord(l)
    /\ UNCHANGED <<parent, revision, edits, dispatchVars, input>>

DispatchEvent ==
    /\ ScriptRuns
    /\ \E bubbles \in BOOLEAN :
           Dispatch([NewEvent(PathTo("element")) EXCEPT !.bubbles = bubbles])
    /\ UNCHANGED <<parent, revision, edits, listenerVars, input>>

StopPropagation ==
    /\ events # <<>> /\ Event.calling /\ ~Event.now
    /\ \E now \in BOOLEAN :
           events' = Replaced([Event EXCEPT !.stopped = TRUE, !.now = now, !.until = Event.turn])
    /\ UNCHANGED <<parent, revision, edits, listenerVars, dispatches, input>>

TreeEdit(to) ==
    /\ edits < MaxEdits /\ edits' = edits + 1 /\ to # parent /\ parent' = to
    /\ UNCHANGED <<listenerVars, dispatchVars>>
\* An edit that notifyMutation hears of.
NotifyMutation ==
    /\ ScriptRuns /\ \E to \in {"left", "right", "detached"} : TreeEdit(to)
    /\ revision' = revision + 1
    /\ input' = [input EXCEPT !.blind = @ \/ (input.left > 0 /\ ~input.hinted)]
\* remove(), replaceWith() and innerHTML tell nobody.
RemoveElement ==
    /\ ScriptRuns /\ TreeEdit("detached")
    /\ input' = [input EXCEPT !.blind = input.left > 0]
    /\ UNCHANGED <<revision>>

EventNext ==
    \/ CallListener \/ NextTurn
    \/ InputArrives \/ CaptureIsTold \/ DispatchInput
    \/ AddEventListener \/ RemoveEventListener \/ DispatchEvent \/ StopPropagation
    \/ NotifyMutation \/ RemoveElement
EventSpec == EventInit /\ [][EventNext]_eventVars

(***************************************************************************)
(* Properties                                                              *)
(***************************************************************************)
\* Where listener l stands on the path of an event, as turns.
TurnsOf(event, l) ==
    {turn \in 1..2 * Len(event.path) - 1 :
        /\ TargetOf(event.path, turn) = listeners[l].at
        /\ turn = Len(event.path) \/ (turn < Len(event.path) <=> listeners[l].capture)}

\* A dispatch that is over went from the root to its target and back, was heard
\* at most once by a listener and in no turn after the one that stopped it, and
\* skipped no listener that was there before it and still is.
DispatchIsFair ==
    \A event \in {e \in ToSet(events) : IsOver(e)} :
        LET heard == event.heard
        IN  /\ \A i, j \in DOMAIN heard :
                   i < j => heard[i].by # heard[j].by /\ heard[i].turn <= heard[j].turn
            /\ \A i \in DOMAIN heard :
                   heard[i].turn \in TurnsOf(event, heard[i].by) /\ heard[i].turn <= event.until
            /\ \A l \in event.known : \A turn \in TurnsOf(event, l) :
                   \/ listeners[l].removed
                   \/ turn > event.until
                   \/ event.now /\ turn = event.until
                   \/ ~event.bubbles /\ turn > Len(event.path)
                   \/ \E i \in DOMAIN heard : heard[i].by = l

\* The path of an event is the tree's as its dispatch begins, although the hit
\* test found it earlier, unless the tree changed where no revision tells it.
PathIsTree == \A event \in ToSet(events) : event.sound

\* All of it, of every dispatch.
EventsAreHeard == DispatchIsFair /\ PathIsTree
=============================================================================
