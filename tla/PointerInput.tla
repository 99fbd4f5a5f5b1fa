---------------------------- MODULE PointerInput ----------------------------
(***************************************************************************)
(* Pointer input from the operating system to the page's listeners.        *)
(*                                                                         *)
(* The host gives every contact a DOM pointer id, queues what the window   *)
(* reports, and dispatches the queue when the frame is drawn, each input   *)
(* at the element a hit test finds THEN.  The bootstrap keeps, for each    *)
(* pointer id, the element its button went down on and the capture asked   *)
(* for and in effect; every listener it calls may change both.             *)
(*                                                                         *)
(* A point on the screen is not modelled: layout may change at any time,   *)
(* so a hit test answers any connected element, nothing, or an error.      *)
(* Only the primary button is kept (no other one makes a click).           *)
(***************************************************************************)
EXTENDS Integers, FiniteSets, Filters

CONSTANTS Fingers,        \* the contacts a touch screen can report
          PrimaryFinger,  \* the one winit marks primary
          Elements,       \* the elements of a document
          NoElement,      \* no element: JavaScript's null
          MaxInputs,      \* bound: inputs the window reports
          MaxId,          \* bound: pointer ids handed out
          MaxScript       \* bound: calls the page's listeners make

ASSUME PointerAssumption ==
    /\ PrimaryFinger \in Fingers /\ "mouse" \notin Fingers
    /\ NoElement \notin Elements
    /\ MaxInputs \in Nat /\ MaxId \in Nat \ {0} /\ MaxScript \in Nat

VARIABLES
    live,       \* PointerIds.live: contact -> id (0: not live)
    nextId,     \* PointerIds.next
    queue,      \* pending_pointer_input
    batch,      \* what drain_pointer_input has taken and not dispatched yet
    error,      \* an error is parked: nothing more is dispatched
    touching,   \* fingers on the screen
    conn,       \* elements connected to the document
    active,     \* keys of activePointers
    pressed,    \* activePointers[id].downTargets[0]
    suppressed, \* ids whose compatibilitySuppressed is set
    capture,    \* pointerCaptures
    pending,    \* pendingPointerCaptures
    turn,       \* the dispatchPointerEvent call in progress, if any
    stamp,      \* history: inputs reported so far
    scripts,    \* history: calls made by listeners so far
    heard,      \* history: stamp of the last event each id was heard with
    lastDown,   \* history: where each id's last delivered pointerdown went
    firstId     \* history: ids from here on belong to the present document

inputVars == <<live, nextId, queue, batch, error, touching>>
bootVars  == <<conn, active, pressed, suppressed, capture, pending, turn>>
pointerHist == <<stamp, scripts, heard, lastDown, firstId>>
pointerVars == <<inputVars, bootVars, pointerHist>>

MouseId == 1
Ids == 1..MaxId
OrNone == Elements \union {NoElement}
Kinds == {"move", "down", "up", "cancel", "wheel"}
Input == [kind : Kinds, id : 0..MaxId, primary : BOOLEAN, stamp : Nat]
Idle == [at |-> "idle"]
Phases == {"lost", "got", "event", "click", "lastLost"}
Turn == {Idle} \union [at : Phases, in : Input, hit : Elements, on : Elements,
                       taker : OrNone]

PointerInit ==
    /\ live = [f \in Fingers |-> 0] /\ nextId = MouseId + 1
    /\ queue = <<>> /\ batch = <<>> /\ error = FALSE /\ touching = {}
    /\ conn = Elements /\ active = {} /\ pressed = [i \in Ids |-> NoElement]
    /\ suppressed = {}
    /\ capture = [i \in Ids |-> NoElement] /\ pending = [i \in Ids |-> NoElement]
    /\ turn = Idle
    /\ stamp = 0 /\ scripts = 0 /\ heard = [i \in Ids |-> 0]
    /\ lastDown = [i \in Ids |-> NoElement] /\ firstId = nextId

(***************************************************************************)
(* The host: ids, the queue, the drain                                     *)
(***************************************************************************)
\* Everything below runs on the window's thread: the next event is taken when
\* the last one, and the drain it caused, have been dealt with.
Ready == turn = Idle /\ batch = <<>>

\* PointerIds::details_for: the mouse has its own id, a live contact keeps the
\* one it has and any other contact is a new pointer.
IdFor(c) == IF c = "mouse" THEN MouseId
            ELSE IF live[c] # 0 THEN live[c] ELSE nextId

AllocatedTwice(c) == nextId' = IF IdFor(c) = nextId THEN nextId + 2 ELSE nextId

Allocated(c) == nextId' = IF IdFor(c) = nextId THEN nextId + 1 ELSE nextId

InputOf(kind, c) == [kind |-> kind, id |-> IdFor(c),
                     primary |-> c \in {"mouse", PrimaryFinger},
                     stamp |-> stamp + 1]

CoalescedInPlace(q, in) ==
    IF in.kind = "move" /\ \E k \in 1..Len(q) : q[k].kind = "move" /\ q[k].id = in.id
    THEN [k \in 1..Len(q) |-> IF q[k].kind = "move" /\ q[k].id = in.id THEN in ELSE q[k]]
    ELSE Append(q, in)

\* One move per pointer and turn: a new one replaces the older ones in the queue.
Coalesced(q, in) ==
    Append(IF in.kind = "move"
           THEN ItemsIn(q, {o \in Range(q) : ~(o.kind = "move" /\ o.id = in.id)})
           ELSE q, in)

Queue(kind, c) ==
    /\ Ready /\ stamp < MaxInputs /\ IdFor(c) <= MaxId
    /\ queue' = Coalesced(queue, InputOf(kind, c))
    /\ stamp' = stamp + 1
    /\ UNCHANGED <<batch, error, bootVars, scripts, heard, lastDown, firstId>>

\* PointerMoved and PointerButton(Pressed): the contact is on the books from now.
Reported(kind, c) ==
    /\ Queue(kind, c) /\ Allocated(c)
    /\ live' = IF c = "mouse" THEN live ELSE [live EXCEPT ![c] = IdFor(c)]

Move(c) == /\ c = "mouse" \/ c \in touching
           /\ Reported("move", c) /\ UNCHANGED touching
Press(c) == /\ c \notin touching
            /\ Reported("down", c)
            /\ touching' = touching \union ({c} \ {"mouse"})

\* PointerButton(Released) and a PointerLeft for a contact still on the books: the
\* contact is finished, and one numbered the same way later is a new pointer.
Finished(kind, c) ==
    /\ Queue(kind, c) /\ Allocated(c)
    /\ live' = IF c = "mouse" THEN live ELSE [live EXCEPT ![c] = 0]
    /\ touching' = touching \ {c}

Release(c) == (c = "mouse" \/ c \in touching) /\ Finished("up", c)
Left(f) == live[f] # 0 /\ Finished("cancel", f)

\* A wheel has no pointer behind it.
Wheel ==
    /\ Ready /\ stamp < MaxInputs
    /\ queue' = Append(queue, [kind |-> "wheel", id |-> 0, primary |-> FALSE,
                               stamp |-> stamp + 1])
    /\ stamp' = stamp + 1
    /\ UNCHANGED <<live, nextId, batch, error, touching, bootVars, scripts, heard, lastDown, firstId>>

\* drain_pointer_input, as take_queued_for guards it: with an error parked the
\* queue stays, without a window what was taken is dropped.
Drain ==
    /\ Ready /\ ~error /\ queue # <<>>
    /\ queue' = <<>> /\ batch' \in {queue, <<>>}
    /\ UNCHANGED <<live, nextId, error, touching, bootVars, pointerHist>>

\* cancel_live_contacts, when the surface goes: every contact is forgotten and its
\* cancellation queued behind what was waiting, in the order of their ids, and the
\* queue drained at once.
LiveIds == {live[f] : f \in Fingers} \ {0}
Allotted == {ids \in SetToSeqs(LiveIds) :
               \A j, k \in DOMAIN ids : j < k => ids[j] < ids[k]}
Cancellations(ids) ==
    [k \in DOMAIN ids |->
       [kind |-> "cancel", id |-> ids[k], primary |-> live[PrimaryFinger] = ids[k],
        stamp |-> stamp + 1]]

CancelContacts ==
    /\ Ready /\ LiveIds # {} /\ stamp < MaxInputs
    /\ live' = [f \in Fingers |-> 0]
    /\ stamp' = stamp + 1
    /\ \E ids \in Allotted :
         LET all == queue \o Cancellations(ids)
         IN  IF error THEN queue' = all /\ batch' = <<>>
                      ELSE queue' = <<>> /\ batch' = all
    /\ touching' \in {touching, {}}
    /\ UNCHANGED <<nextId, error, bootVars, scripts, heard, lastDown, firstId>>

ReloadKeepsContacts ==
    /\ Ready
    /\ queue' = <<>> /\ UNCHANGED live
    /\ conn' = Elements /\ active' = {} /\ pressed' = [i \in Ids |-> NoElement]
    /\ suppressed' = {} /\ capture' = [i \in Ids |-> NoElement]
    /\ pending' = [i \in Ids |-> NoElement]
    /\ heard' = [i \in Ids |-> 0] /\ firstId' = nextId
    /\ lastDown' = [i \in Ids |-> NoElement]
    /\ UNCHANGED <<nextId, batch, error, touching, turn, stamp, scripts>>

\* replace_document: the contacts and the queue are forgotten while fingers are
\* down, and the new document's bootstrap starts from nothing.
Reload ==
    /\ Ready
    /\ queue' = <<>> /\ live' = [f \in Fingers |-> 0]
    /\ conn' = Elements /\ active' = {} /\ pressed' = [i \in Ids |-> NoElement]
    /\ suppressed' = {} /\ capture' = [i \in Ids |-> NoElement]
    /\ pending' = [i \in Ids |-> NoElement]
    /\ heard' = [i \in Ids |-> 0] /\ firstId' = nextId
    /\ lastDown' = [i \in Ids |-> NoElement]
    /\ UNCHANGED <<nextId, batch, error, touching, turn, stamp, scripts>>

(***************************************************************************)
(* The bootstrap: dispatchPointerEvent                                     *)
(***************************************************************************)
Input1 == Head(batch)

\* The hit test finds nothing: the input is skipped.
Miss == /\ turn = Idle /\ batch # <<>>
        /\ batch' = Tail(batch)
        /\ UNCHANGED <<live, nextId, queue, error, touching, bootVars, pointerHist>>

\* The hit test or the dispatch fails: the error is parked, the rest dropped.
Fail == /\ batch # <<>>
        /\ error' = TRUE /\ batch' = <<>> /\ turn' = Idle
        /\ UNCHANGED <<live, nextId, queue, touching, conn, active, pressed,
                       suppressed, capture, pending, pointerHist>>

\* The wheel is dispatched as a mouse event and touches no pointer.
DispatchWheel ==
    /\ turn = Idle /\ batch # <<>> /\ Input1.kind = "wheel"
    /\ batch' = Tail(batch)
    /\ UNCHANGED <<live, nextId, queue, error, touching, bootVars, pointerHist>>

\* The event itself goes to the element that captured the pointer, or to the one hit.
At(phase, on, taker) ==
    [at |-> phase, in |-> turn.in, hit |-> turn.hit, on |-> on, taker |-> taker]
Aimed(cap, in, hit) ==
    [at |-> "event", in |-> in, hit |-> hit, taker |-> NoElement,
     on |-> IF cap[in.id] = NoElement THEN hit ELSE cap[in.id]]

\* The start of dispatchPointerEvent and of processPendingPointerCapture: a request
\* by an element that has left the document is dropped; the element losing the
\* capture hears of it before the one taking it.
Begin(hit) ==
    /\ turn = Idle /\ batch # <<>> /\ Input1.kind # "wheel" /\ hit \in conn
    /\ LET i == Input1.id
           req == IF pending[i] \in conn THEN pending[i] ELSE NoElement
           start(phase, on) == [at |-> phase, in |-> Input1, hit |-> hit, on |-> on,
                                taker |-> req]
       IN  /\ active' = active \union {i}
           /\ suppressed' = IF Input1.kind = "down" THEN suppressed \ {i} ELSE suppressed
           /\ pressed' = IF Input1.kind = "cancel" THEN [pressed EXCEPT ![i] = NoElement]
                         ELSE pressed
           /\ pending' = [pending EXCEPT ![i] = req]
           /\ \/ /\ req = capture[i]
                 /\ turn' = Aimed(capture, Input1, hit) /\ UNCHANGED capture
              \/ /\ req # capture[i] /\ capture[i] # NoElement
                 /\ capture' = [capture EXCEPT ![i] = NoElement]
                 /\ turn' = start("lost", capture[i])
              \/ /\ req # capture[i] /\ capture[i] = NoElement
                 /\ capture' = [capture EXCEPT ![i] = req]
                 /\ turn' = start("got", req)
    /\ UNCHANGED <<inputVars, conn, pointerHist>>

\* The listeners of lostpointercapture have run: the taker, as it was read before
\* they ran, has the capture now.
LostHeard ==
    /\ turn.at = "lost"
    /\ IF turn.taker = NoElement
       THEN turn' = Aimed(capture, turn.in, turn.hit) /\ UNCHANGED capture
       ELSE /\ capture' = [capture EXCEPT ![turn.in.id] = turn.taker]
            /\ turn' = At("got", turn.taker, NoElement)
    /\ UNCHANGED <<inputVars, conn, active, pressed, suppressed, pending, pointerHist>>

GotHeard ==
    /\ turn.at = "got"
    /\ turn' = Aimed(capture, turn.in, turn.hit)
    /\ UNCHANGED <<inputVars, conn, active, pressed, suppressed, capture, pending,
                   pointerHist>>

\* The call returns: a finger that has lifted no longer exists.
Returned(kind, i) ==
    /\ turn' = Idle /\ batch' = Tail(batch)
    /\ active' = IF kind \in {"up", "cancel"} /\ i # MouseId THEN active \ {i} ELSE active
    /\ UNCHANGED <<live, nextId, queue, error, touching, conn, suppressed, stamp,
                   scripts, firstId>>

\* The end of a contact releases its capture, after the event that ended it.
Ending(i) ==
    /\ pending' = [pending EXCEPT ![i] = NoElement]
    /\ IF capture[i] = NoElement
       THEN Returned(turn.in.kind, i) /\ UNCHANGED capture
       ELSE /\ capture' = [capture EXCEPT ![i] = NoElement]
            /\ turn' = At("lastLost", capture[i], NoElement)
            /\ UNCHANGED <<inputVars, conn, active, suppressed, stamp, scripts,
                           firstId>>

\* Activation, where the press and the lift agree, of the primary pointer.
ClicksAnywhere(i) == turn.in.kind = "up" /\ turn.in.primary /\ i \notin suppressed
Clicks(i) ==
    /\ turn.in.kind = "up" /\ pressed[i] = turn.on
    /\ turn.in.primary /\ i \notin suppressed

\* The listeners of the event and of the mouse event behind it have run; a
\* prevented pointerdown takes the contact's compatibility events away.
EventHeard(prevented) ==
    /\ turn.at = "event"
    /\ LET i == turn.in.id
           k == turn.in.kind
           clicks == Clicks(i)
       IN  /\ heard' = [heard EXCEPT ![i] = turn.in.stamp]
           /\ lastDown' = [lastDown EXCEPT ![i] = IF k = "down" THEN turn.on ELSE @]
           /\ pressed' = [pressed EXCEPT ![i] = CASE k = "down" -> turn.on
                                                  [] k = "up" -> NoElement
                                                  [] OTHER -> @]
           /\ \/ /\ k = "down"
                 /\ suppressed' = IF prevented THEN suppressed \union {i} ELSE suppressed
                 /\ turn' = Idle /\ batch' = Tail(batch)
                 /\ UNCHANGED <<live, nextId, queue, error, touching, conn, active,
                                capture, pending, stamp, scripts, firstId>>
              \/ k = "move" /\ Returned(k, i) /\ UNCHANGED <<capture, pending>>
              \/ /\ clicks
                 /\ turn' = At("click", turn.on, NoElement)
                 /\ UNCHANGED <<inputVars, conn, active, suppressed, capture, pending,
                                stamp, scripts, firstId>>
              \/ k \in {"up", "cancel"} /\ ~clicks /\ Ending(i)

\* The click has been heard: a press is spent by it.
ClickHeard ==
    /\ turn.at = "click"
    /\ Ending(turn.in.id)
    /\ lastDown' = [lastDown EXCEPT ![turn.in.id] = NoElement]
    /\ UNCHANGED <<pressed, heard>>

LastLostHeard ==
    /\ turn.at = "lastLost"
    /\ Returned(turn.in.kind, turn.in.id)
    /\ UNCHANGED <<pressed, capture, pending, heard, lastDown>>

(***************************************************************************)
(* The page: what a listener, or a timer between two inputs, may call      *)
(***************************************************************************)
Script == /\ ~error /\ scripts < MaxScript /\ scripts' = scripts + 1
          /\ turn # Idle \/ Ready
          /\ UNCHANGED <<inputVars, active, pressed, suppressed, capture, turn, stamp,
                         heard, lastDown, firstId>>

SetPointerCapture(i, e) ==
    /\ i \in active /\ e \in conn
    /\ pending' = [pending EXCEPT ![i] = e] /\ UNCHANGED conn /\ Script
ReleasePointerCapture(i, e) ==
    /\ i \in active /\ pending[i] = e
    /\ pending' = [pending EXCEPT ![i] = NoElement] /\ UNCHANGED conn /\ Script
Detach(e) == e \in conn /\ conn' = conn \ {e} /\ UNCHANGED pending /\ Script

\* An error ends the session: the queue is kept and nothing more is dispatched.
Parked == error /\ UNCHANGED pointerVars

Contacts == Fingers \union {"mouse"}

PointerNext ==
    \/ \E c \in Contacts : Move(c) \/ Press(c) \/ Release(c)
    \/ \E f \in Fingers : Left(f)
    \/ Wheel \/ Drain \/ CancelContacts \/ Reload
    \/ Miss \/ Fail \/ DispatchWheel
    \/ \E e \in Elements : Begin(e)
    \/ LostHeard \/ GotHeard \/ ClickHeard \/ LastLostHeard
    \/ \E prevented \in BOOLEAN : EventHeard(prevented)
    \/ \E i \in Ids, e \in Elements :
          SetPointerCapture(i, e) \/ ReleasePointerCapture(i, e)
    \/ \E e \in Elements : Detach(e)
    \/ Parked

PointerSpec == PointerInit /\ [][PointerNext]_pointerVars

(***************************************************************************)
(* Properties                                                              *)
(***************************************************************************)
\* Every variable holds values of its type.
PointerTypeOK ==
    /\ live \in [Fingers -> 0..MaxId] /\ nextId \in 2..MaxId + 1
    /\ queue \in Seq(Input) /\ batch \in Seq(Input) /\ error \in BOOLEAN
    /\ touching \subseteq Fingers /\ conn \subseteq Elements /\ active \subseteq Ids
    /\ suppressed \subseteq Ids
    /\ {pressed, capture, pending, lastDown} \subseteq [Ids -> OrNone]
    /\ turn \in Turn
    /\ heard \in [Ids -> 0..MaxInputs] /\ firstId \in 2..MaxId + 1

\* Inputs of one pointer reach the page in the order the window reported them,
\* although a move takes the older ones out of the queue (a new document has heard
\* nothing).
HeardInReportedOrder ==
    [][\A i \in Ids : heard'[i] >= heard[i] \/ heard'[i] = 0]_pointerVars

\* A document hears no contact that began under the document before it: a reload
\* while a finger is down gives what is left of the gesture a new pointer.
OwnContactsOnly ==
    turn # Idle => turn.in.id = MouseId \/ turn.in.id >= firstId

\* A click is dispatched only where the last press the page heard of that pointer
\* went down, and never twice for one press.
ClickAgreesWithPress ==
    turn.at = "click" => lastDown[turn.in.id] = turn.on

\* Both: a gesture is heard whole, by the document it began under.
GestureIsWhole == OwnContactsOnly /\ ClickAgreesWithPress

\* And in the order it was made.
PointersAreTrue == []GestureIsWhole /\ HeardInReportedOrder

=============================================================================
