------------------------------ MODULE DragDrop ------------------------------
(***************************************************************************)
(* Files dragged from the desktop into the window.                         *)
(*                                                                         *)
(* The platform names a drag first and hands its files over later, on some *)
(* platforms after the drop, in a delivery whose read may have to be tried *)
(* again.  A session holds the stages of the one drag until its files are  *)
(* known; what it lets go is queued for the frame, and the bootstrap turns *)
(* each stage into dragenter, dragleave, dragover and drop.                *)
(*                                                                         *)
(* A position is known or not; a hit test answers any element, none or an  *)
(* error.  External: the platform reports one drag at a time and ends each *)
(* with a drop or a leave.                                                 *)
(***************************************************************************)
EXTENDS Integers, Filters

CONSTANTS Zones,      \* elements a drag can be over
          NoZone,     \* no element
          MaxDrags,   \* bound: drags
          MaxMoves    \* bound: moves the platform reports, of all drags

ASSUME DragAssumption == NoZone \notin Zones /\ {MaxDrags, MaxMoves} \subseteq Nat

VARIABLES
    offer,     \* what each drag carries: local files, links only, text, or not named yet
    dragNo,    \* the platform's drag, 0 before the first
    dragAt,    \* how it stands: "none", "over", or "ended"
    moves,     \* history: moves reported so far
    session,   \* drag_session
    dragQueue, \* pending_drag_input
    dragging,  \* what drain_drag_input has taken
    dragError, \* an error is parked
    target,    \* dragTarget
    transfer,  \* the drag whose paths dragTransfer holds, 0 for null
    lit        \* history: elements that heard dragenter, and neither dragleave nor drop

platformVars == <<offer, dragNo, dragAt, moves>>
dropVars == <<target, transfer, lit>>
dragVars == <<platformVars, session, dragQueue, dragging, dragError, dropVars>>

Drags == 1..MaxDrags
NoSession == [id |-> 0, files |-> "none"]
Started(d, at) == [id |-> d, files |-> "awaiting", held |-> <<>>, unread |-> FALSE,
                   at |-> at, ended |-> FALSE]

DragInit ==
    /\ offer = [d \in Drags |-> "none"]
    /\ dragNo = 0 /\ dragAt = "none" /\ moves = 0 /\ session = NoSession
    /\ dragQueue = <<>> /\ dragging = <<>> /\ dragError = FALSE
    /\ target = NoZone /\ transfer = 0 /\ lit = {}

(***************************************************************************)
(* The session and the queue                                               *)
(***************************************************************************)
\* What is held while the files are awaited: nothing held has reached the document,
\* so a drag that leaves has nothing to tell it; of moves only the last counts.
HeldWith(held, stage) ==
    CASE stage = "none"  -> held
      [] stage = "leave" -> <<>>
      [] stage = "over" /\ held # <<>> /\ Last(held) = "over" -> held
      [] OTHER -> Append(held, stage)

\* The stages of a queue that are no moves, in order.
WithoutMoves(q) == ItemsIn(q, {o \in Range(q) : o.stage # "over"})

\* push_drag: a move takes the older moves out of the queue.
PushCancelling(q, item) ==
    LET rest == WithoutMoves(q)
    IN  IF item.stage = "leave" /\ rest # q THEN rest ELSE Append(rest, item)
Push(q, item) == Append(IF item.stage = "over" THEN WithoutMoves(q) ELSE q, item)

Pushed(stages, d) ==
    FoldLeft(LAMBDA q, s : Push(q, [stage |-> s, drag |-> d]), dragQueue, stages)

\* DragSession::advance and what queue_drag_input does with its answer: s is the
\* session as the event left it, "none" an event that is no stage.  The files are
\* read when a delivery waits, and the read may have to be tried again.
AdvancesAtOnce(s, stage) ==
    /\ dragQueue' = Pushed(IF stage = "none" THEN <<>> ELSE <<stage>>, s.id)
    /\ session' = IF s.ended THEN NoSession ELSE s
Advances(s, stage) ==
    LET held == HeldWith(s.held, stage)
        over(t) == IF t.ended THEN NoSession ELSE t
    IN  \/ /\ s.files = "known"
           /\ dragQueue' = Pushed(IF stage = "none" THEN <<>> ELSE <<stage>>, s.id)
           /\ session' = over(s)
        \/ /\ s.files = "refused"
           /\ session' = over(s) /\ UNCHANGED dragQueue
        \/ /\ s.files = "awaiting"        \* nothing delivered, or the read would block
           /\ session' = [s EXCEPT !.held = held] /\ UNCHANGED dragQueue
        \/ /\ s.files = "awaiting" /\ s.unread /\ offer[s.id] = "files"
           /\ dragQueue' = Pushed(held, s.id)
           /\ session' = over([s EXCEPT !.files = "known", !.held = <<>>])
        \/ /\ s.files = "awaiting" /\ s.unread   \* none is local, or the read failed
           /\ session' = over([s EXCEPT !.files = "refused", !.held = <<>>])
           /\ UNCHANGED dragQueue

Reporting == dragging = <<>> /\ UNCHANGED <<dragging, dragError, dropVars>>

\* DragEntered: a drag that offers a list of URIs is accepted, unless the platform
\* refuses; the session of the one before goes with it.
Entered(at, what) ==
    /\ Reporting /\ dragAt # "over" /\ dragNo < MaxDrags
    /\ dragNo' = dragNo + 1 /\ dragAt' = "over" /\ offer' = [offer EXCEPT ![dragNo + 1] = what]
    /\ \/ /\ what # "text"
          /\ Advances(Started(dragNo + 1, at), IF at THEN "over" ELSE "none")
       \/ session' = NoSession /\ UNCHANGED dragQueue
    /\ UNCHANGED moves

Ours == session.id # 0 /\ session.id = dragNo

Moved ==
    /\ Reporting /\ dragAt = "over" /\ moves < MaxMoves /\ moves' = moves + 1
    /\ Ours /\ Advances([session EXCEPT !.at = TRUE], "over")
    /\ UNCHANGED <<dragNo, dragAt, offer>>

\* DragDropped and DragLeft.  A drop at a point never reported is a leave.
DragEnds(stage) ==
    /\ Reporting /\ dragAt = "over" /\ dragAt' = "ended"
    /\ IF Ours
       THEN Advances([session EXCEPT !.ended = TRUE],
                     IF session.at THEN stage ELSE "leave")
       ELSE UNCHANGED <<session, dragQueue>>
    /\ UNCHANGED <<dragNo, moves, offer>>

\* DataTransferReceived, once, before the drag's end or after it.
Received ==
    /\ Reporting /\ Ours /\ session.files = "awaiting" /\ ~session.unread
    /\ Advances([session EXCEPT !.unread = TRUE], "none")
    /\ UNCHANGED <<dragNo, dragAt, moves, offer>>

\* A reload forgets the drag; what the platform still reports of it is ignored.
DragReload ==
    /\ dragging = <<>> /\ dragNo > 0
    /\ session' = NoSession /\ dragQueue' = <<>>
    /\ target' = NoZone /\ transfer' = 0 /\ lit' = {}
    /\ UNCHANGED <<platformVars, dragging, dragError>>

(***************************************************************************)
(* The frame: drain_drag_input and dispatchDragEvent                       *)
(***************************************************************************)
\* (The window is there: with it gone there is no document to tell.)
DrainDrags ==
    /\ dragging = <<>> /\ ~dragError /\ dragQueue # <<>>
    /\ dragging' = dragQueue /\ dragQueue' = <<>>
    /\ UNCHANGED <<platformVars, session, dragError, dropVars>>

\* A leave, or a drag over a point with nothing under it, which the document must
\* hear of as a leave.
DragLeaves ==
    /\ dragging # <<>>
    /\ lit' = lit \ {target} /\ target' = NoZone /\ transfer' = 0
    /\ dragging' = Tail(dragging)
    /\ UNCHANGED <<platformVars, session, dragQueue, dragError>>

\* A move or a drop at an element: the one the drag was over is left, this one is
\* entered, and a drop is dispatched only where dragover was cancelled.
DragsOver(z, accepted) ==
    /\ dragging # <<>> /\ Head(dragging).stage # "leave"
    /\ LET entered == IF target = z THEN lit ELSE (lit \ {target}) \union {z}
       IN  IF Head(dragging).stage = "over"
           THEN /\ target' = z /\ transfer' = Head(dragging).drag /\ lit' = entered
           ELSE /\ target' = NoZone /\ transfer' = 0
                /\ lit' = IF accepted THEN entered \ {z} ELSE entered
    /\ dragging' = Tail(dragging)
    /\ UNCHANGED <<platformVars, session, dragQueue, dragError>>

\* A hit test or a dispatch fails: the rest of the turn's drags is dropped.
DragFails ==
    /\ dragging # <<>> /\ dragging' = <<>> /\ dragError' = TRUE
    /\ UNCHANGED <<platformVars, session, dragQueue, dropVars>>

\* The loop waits.
DragWaits == dragging = <<>> /\ (dragError \/ dragQueue = <<>>) /\ UNCHANGED dragVars

DragNext ==
    \/ \E at \in BOOLEAN, what \in {"files", "links", "text"} : Entered(at, what)
    \/ Moved \/ Received \/ DragReload
    \/ \E stage \in {"drop", "leave"} : DragEnds(stage)
    \/ DrainDrags \/ DragLeaves \/ DragFails
    \/ \E z \in Zones, accepted \in BOOLEAN : DragsOver(z, accepted)
    \/ DragWaits

DragSpec == DragInit /\ [][DragNext]_dragVars

(***************************************************************************)
(* Properties                                                              *)
(***************************************************************************)
AllTold == dragAt # "over" /\ dragQueue = <<>> /\ dragging = <<>> /\ ~dragError

\* When a drag has ended and its stages have been dispatched, the document is not
\* over any element and holds no files: through moves that were coalesced, points
\* with nothing under them, a second drag in the same turn and late files.
DragIsForgotten == AllTold => target = NoZone /\ transfer = 0

\* The document holds only files the drag really has, of the platform's drag or one
\* whose end it is still to hear: nothing of a refused drag, or of one whose files
\* are not known yet, reaches it.
OnlyRealFiles ==
    transfer # 0 /\ ~dragError =>
                    /\ offer[transfer] = "files"
                    /\ \/ transfer = dragNo
                       \/ \E k \in 1..Len(dragging \o dragQueue) :
                             /\ (dragging \o dragQueue)[k].drag = transfer
                             /\ (dragging \o dragQueue)[k].stage # "over"

\* Both: what the document holds is its own drag's, and nothing once that is over.
DragIsItsOwn == DragIsForgotten /\ OnlyRealFiles

\* Whatever element was told that a drag is over it is told that it is not: no
\* highlight is left behind by a drag that is over.
NoHighlightLeft == AllTold => lit = {}

=============================================================================
