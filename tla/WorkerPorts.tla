---------------------------- MODULE WorkerPorts ----------------------------
(***************************************************************************)
(* A document and a worker, each on a thread of its own, and the ports     *)
(* they post messages through.                                             *)
(*                                                                         *)
(* Every port lives in one registry: a queue, the context that drains it   *)
(* and whether delivery was started.  A script holds an object for each    *)
(* port it was given.  A message may carry a port along, which moves it to *)
(* the context that owns the other end.  The document drains its ports     *)
(* once in a frame; the worker once in a turn, and between two turns its   *)
(* thread sleeps on a flag.  What a thread does to the registry takes the  *)
(* lock several times: todo holds the steps it has left, and the other     *)
(* thread may act between them.                                            *)
(***************************************************************************)
EXTENDS Naturals, Sequences, SequencesExt, FiniteSets, FiniteSetsExt, Functions, TLC

CONSTANTS MaxPosts,      \* bound: messages
          MaxChannels,   \* bound: pairs of ports a script makes
          MaxEnds        \* bound: ports closed, workers and documents ended

Contexts == {"document", "worker"}
Near == 1                \* the document's end of the pair behind its worker
Far == 2
NoPort == 0

VARIABLES
    ports,       \* the registry: id -> [peer, owner, queue, started]
    signalled,   \* the flag of the worker's waker
    stop,        \* the worker's stop flag
    pc,          \* what each thread is at
    todo,        \* what it must finish before it runs any script
    batch,       \* what it drained and has not dispatched
    inbound,     \* payloads of drained messages a script has not read
    objects,        \* livePorts: id -> whether the script started it
    posted, channels, ends, worker,
    sentTo,      \* history: message -> the port it was queued at
    heardAt,       \* history: the messages dispatched at each port, in order
    dropped,     \* history: messages drained and never dispatched
    late,        \* history: what was queued when the worker started a port
    nested       \* history: ports in a message that moved with its port

registryVars == <<ports, signalled>>
threadVars == <<stop, pc, todo, batch, inbound>>
countVars == <<posted, channels, ends, worker>>
historyVars == <<sentTo, heardAt, dropped, late, nested>>
portVars == <<registryVars, threadVars, objects, countVars, historyVars>>

Drop(f, x) == Restrict(f, DOMAIN f \ {x})

PortsInit ==
    /\ ports = <<>> /\ signalled = FALSE /\ stop = FALSE
    /\ pc = [c \in Contexts |-> IF c = "document" THEN "script" ELSE "none"]
    /\ todo = [c \in Contexts |-> <<>>] /\ batch = [c \in Contexts |-> <<>>]
    /\ inbound = [c \in Contexts |-> {}]
    /\ objects = [c \in Contexts |-> <<>>]
    /\ posted = 0 /\ channels = 0 /\ ends = 0 /\ worker = "none"
    /\ sentTo = <<>> /\ heardAt = <<>> /\ dropped = {} /\ late = <<>> /\ nested = {}

(***************************************************************************)
(* The registry                                                            *)
(***************************************************************************)
Message(n, port) == [type |-> "message", n |-> n, port |-> port]
Failure(n) == [type |-> "error", n |-> n, port |-> NoPort]
Closed == [type |-> "close", n |-> 0, port |-> NoPort]

Port(peer, owner) == [peer |-> peer, owner |-> owner, queue |-> <<>>, started |-> FALSE]

Entangle(a, b, first, second) == (a :> Port(b, first)) @@ (b :> Port(a, second)) @@ ports

PeerOf(p) == IF p \in DOMAIN ports THEN ports[p].peer ELSE NoPort

\* The port a message carries is its new owner's, and stopped, before the
\* message is queued.
HandedOver(p, owner) ==
    IF p \in DOMAIN ports
    THEN [ports EXCEPT ![p].owner = owner, ![p].started = FALSE] ELSE ports

Step(op, p) == [op |-> op, port |-> p]
\* Only the worker has a waker.
WakeOf(c) == IF c = "worker" THEN <<Step("wake", NoPort)>> ELSE <<>>

Inside(p) == IF p \in DOMAIN ports
             THEN {ports[p].queue[i].port : i \in DOMAIN ports[p].queue} \ {NoPort} ELSE {}

\* Queues what thread c sends through p, and leaves the waking for a step of
\* its own.  Into a pair without its other end it goes nowhere.
Posted(c, p, delivery) ==
    LET peer == PeerOf(p) IN
    IF peer \notin DOMAIN ports THEN UNCHANGED <<ports, todo, sentTo, nested>>
    ELSE LET owner == ports[peer].owner
             moved == HandedOver(delivery.port, owner)
         IN  /\ ports' = [moved EXCEPT ![peer].queue = Append(@, delivery)]
             /\ todo' = [todo EXCEPT ![c] = WakeOf(owner) \o @]
             /\ sentTo' = (delivery.n :> peer) @@ sentTo
             /\ nested' = nested \union Inside(delivery.port)
                  \union (IF peer = delivery.port THEN {peer} ELSE {})

\* The payloads of a batch are the host's until the script takes each of them,
\* which it can do once.
Hold(c, records) == inbound[c] \union
    {records[i].delivery.n : i \in {x \in DOMAIN records : records[x].delivery.type = "message"}}
Take(c, n) == [inbound EXCEPT ![c] = @ \ {n}]

\* The started ports c owns, emptied port by port in the map's order.
Drainable(c) == {p \in DOMAIN ports : ports[p].owner = c /\ ports[p].started}

Drain(c) ==
    LET full == {p \in Drainable(c) : ports[p].queue /= <<>>}
        Of(p) == [i \in DOMAIN ports[p].queue |-> [at |-> p, delivery |-> ports[p].queue[i]]]
    IN  \E order \in SetToSeqs(full) :
            /\ batch' = [batch EXCEPT ![c] = FlattenSeq([i \in DOMAIN order |-> Of(order[i])])]
            /\ ports' = [p \in DOMAIN ports |->
                            IF p \in full THEN [ports[p] EXCEPT !.queue = <<>>] ELSE ports[p]]

\* Takes a port away and tells the other end.
Detached(p) ==
    LET rest == Drop(ports, p)
        peer == PeerOf(p)
    IN  IF peer \in DOMAIN rest
        THEN [rest EXCEPT ![peer].peer = NoPort, ![peer].queue = Append(@, Closed)]
        ELSE rest

Owned(c) == {p \in DOMAIN ports : ports[p].owner = c}

Idle(c) == todo[c] = <<>>

(***************************************************************************)
(* The steps a thread owes                                                 *)
(***************************************************************************)
\* wake, through the registry or the handle of the worker
Wake(c) ==
    /\ todo[c] /= <<>> /\ Head(todo[c]).op = "wake"
    /\ todo' = [todo EXCEPT ![c] = Tail(@)]
    /\ signalled' = TRUE
    /\ UNCHANGED <<ports, stop, pc, batch, inbound, objects, countVars, historyVars>>

Raise(c) ==
    /\ todo[c] /= <<>> /\ Head(todo[c]).op = "stop"
    /\ stop' = TRUE /\ todo' = [todo EXCEPT ![c] = Tail(@)]
    /\ UNCHANGED <<registryVars, pc, batch, inbound, objects, countVars, historyVars>>

\* close: the removal under the lock, then the waking of the other end.
ClosePort(c) ==
    /\ todo[c] /= <<>> /\ Head(todo[c]).op = "close"
    /\ LET p == Head(todo[c]).port
           peer == PeerOf(p)
       IN  /\ todo' = [todo EXCEPT ![c] =
                  (IF peer \in DOMAIN ports /\ peer /= p THEN WakeOf(ports[peer].owner)
                   ELSE <<>>) \o Tail(@)]
           /\ ports' = Detached(p)
    /\ UNCHANGED <<signalled, stop, pc, batch, inbound, objects, countVars, historyVars>>

\* release: the ports a context owns at one moment, closed one after the other
\* (in one of the orders the map may have).  Its waker goes last, when nobody
\* sleeps on it any more.
ClosesOf(owner) ==
    LET order == SetToSortSeq(Owned(owner), <)
    IN  [i \in DOMAIN order |-> Step("close", order[i])]

ReleaseContext(c) ==
    /\ todo[c] /= <<>> /\ Head(todo[c]).op \in {"release worker", "release document"}
    /\ LET owner == IF Head(todo[c]).op = "release worker" THEN "worker" ELSE "document"
       IN  todo' = [todo EXCEPT ![c] = ClosesOf(owner) \o Tail(@)]
    /\ UNCHANGED <<registryVars, stop, pc, batch, inbound, objects, countVars, historyVars>>

(***************************************************************************)
(* What a script calls                                                     *)
(***************************************************************************)
\* A script runs in a callback, never between a drain and its first event.
Runs(c) == pc[c] \in {"script", "booted"} /\ Idle(c)

PortObjects(c) == DOMAIN objects[c]

Ends == ends < MaxEnds /\ ends' = ends + 1

\* postMessage.  The transfer list detaches its ports here before the message
\* is posted, whatever becomes of it.
PostMessage(c, p, carried) ==
    /\ Runs(c) /\ posted < MaxPosts
    /\ posted' = posted + 1
    /\ objects' = [objects EXCEPT ![c] = Drop(@, carried)]
    /\ Posted(c, p, Message(posted + 1, carried))
    /\ UNCHANGED <<signalled, stop, pc, batch, inbound, channels, ends, worker, heardAt, dropped, late>>

Held(p) == IF p \in DOMAIN ports THEN {ports[p].queue[i].n : i \in DOMAIN ports[p].queue} ELSE {}

Started(p) ==
    IF p \in DOMAIN ports THEN [ports EXCEPT ![p].started = TRUE] ELSE ports

\* start, and the assignment of onmessage: nobody is woken.
Start(c, p) ==
    /\ Runs(c) /\ ~objects[c][p]
    /\ objects' = [objects EXCEPT ![c][p] = TRUE]
    /\ ports' = Started(p)
    /\ late' = IF c = "worker" THEN (p :> Held(p)) @@ late ELSE late
    /\ UNCHANGED <<signalled, threadVars, countVars, sentTo, heardAt, dropped, nested>>

CallClose(c, p) ==
    /\ Runs(c) /\ Ends
    /\ objects' = [objects EXCEPT ![c] = Drop(@, p)]
    /\ todo' = [todo EXCEPT ![c] = <<Step("close", p)>>]
    /\ UNCHANGED <<registryVars, stop, pc, batch, inbound, posted, channels, worker, historyVars>>

\* new MessageChannel
MakeChannel(c) ==
    /\ Runs(c) /\ channels < MaxChannels
    /\ LET a == 2 * channels + 3 IN
       /\ ports' = Entangle(a, a + 1, c, c)
       /\ objects' = [objects EXCEPT ![c] = (a :> FALSE) @@ (a + 1 :> FALSE) @@ @]
    /\ channels' = channels + 1
    /\ UNCHANGED <<signalled, threadVars, posted, ends, worker, historyVars>>

\* new Worker: the pair is entangled and the waker attached before the thread
\* exists.  A thread that cannot be spawned gives both ends back.
NewWorker(spawned) ==
    /\ Runs("document") /\ worker = "none"
    /\ IF spawned
       THEN /\ worker' = "objects" /\ pc' = [pc EXCEPT !["worker"] = "boot"]
            /\ objects' = [objects EXCEPT !["document"] = (Near :> TRUE) @@ @]
            /\ ports' = [Entangle(Near, Far, "document", "worker") EXCEPT ![Near].started = TRUE]
            /\ UNCHANGED todo
       ELSE /\ worker' = "refused"
            /\ ports' = Entangle(Near, Far, "document", "worker")
            /\ todo' = [todo EXCEPT !["document"] =
                           <<Step("release worker", NoPort), Step("close", Near)>>]
            /\ UNCHANGED <<pc, objects>>
    /\ UNCHANGED <<signalled, stop, batch, inbound, posted, channels, ends, historyVars>>

TerminateSteps ==
    <<Step("stop", NoPort), Step("wake", NoPort), Step("release worker", NoPort)>>

\* terminate: the host's part, then the document's own end.
Terminate ==
    /\ Runs("document") /\ worker = "objects" /\ Ends
    /\ worker' = "terminated"
    /\ todo' = [todo EXCEPT !["document"] =
                   TerminateSteps \o (IF Near \in PortObjects("document") THEN <<Step("close", Near)>>
                                      ELSE <<>>)]
    /\ objects' = [objects EXCEPT !["document"] = Drop(@, Near)]
    /\ UNCHANGED <<registryVars, stop, pc, batch, inbound, posted, channels, historyVars>>

\* The document goes: its worker with it, and every port it owns.
Dispose ==
    /\ Runs("document") /\ batch["document"] = <<>> /\ Ends
    /\ pc' = [pc EXCEPT !["document"] = "gone"]
    /\ objects' = [objects EXCEPT !["document"] = <<>>]
    /\ todo' = [todo EXCEPT !["document"] =
                   (IF worker = "objects" THEN TerminateSteps ELSE <<>>)
                   \o <<Step("release document", NoPort)>>]
    /\ worker' = IF worker = "objects" THEN "terminated" ELSE worker
    /\ UNCHANGED <<registryVars, stop, batch, inbound, posted, channels, historyVars>>

\* close() in the worker
CloseSelf ==
    /\ Runs("worker") /\ ~stop /\ Ends
    /\ stop' = TRUE
    /\ todo' = [todo EXCEPT !["worker"] = <<Step("wake", NoPort)>>]
    /\ UNCHANGED <<registryVars, pc, batch, inbound, objects, posted, channels, worker, historyVars>>

\* reportError: a listener of the worker threw.
ReportFailure ==
    /\ Runs("worker") /\ posted < MaxPosts
    /\ posted' = posted + 1
    /\ Posted("worker", Far, Failure(posted + 1))
    /\ UNCHANGED <<signalled, stop, pc, batch, inbound, objects, channels, ends, worker,
                   heardAt, dropped, late>>

(***************************************************************************)
(* Delivery                                                                *)
(***************************************************************************)
\* settlePorts drains once, and not at all for a script without a port.
Poll(c, next) ==
    /\ IF PortObjects(c) = {} THEN UNCHANGED <<ports, batch>> ELSE Drain(c)
    /\ inbound' = [inbound EXCEPT ![c] = Hold(c, batch'[c])]
    /\ pc' = [pc EXCEPT ![c] = IF batch'[c] = <<>> THEN next ELSE "polled"]

\* The animation frame of the document.
DocumentFrame ==
    /\ Runs("document") /\ batch["document"] = <<>>
    /\ \E p \in Owned("document") : ports[p].queue /= <<>>
    /\ Poll("document", "script")
    /\ UNCHANGED <<signalled, stop, todo, objects, countVars, historyVars>>

\* A port in a message gets an object of its own where it arrives.
Adopted(c, p) == IF p = NoPort THEN objects[c] ELSE (p :> FALSE) @@ objects[c]

\* One record: the object the port had, or none.
Dispatched(c) ==
    /\ pc[c] \in {"polled", "script"} /\ Idle(c) /\ batch[c] /= <<>>
    /\ LET p == Head(batch[c]).at
           d == Head(batch[c]).delivery
       IN  IF p \notin PortObjects(c)
           THEN /\ dropped' = dropped \union {d.n}
                /\ UNCHANGED <<objects, heardAt, inbound>>
           ELSE /\ heardAt' = (p :> Append(IF p \in DOMAIN heardAt THEN heardAt[p] ELSE <<>>, d)) @@ heardAt
                /\ objects' = [objects EXCEPT ![c] =
                               IF d.type = "close" THEN Drop(objects[c], p) ELSE Adopted(c, d.port)]
                /\ inbound' = Take(c, d.n)
                /\ UNCHANGED dropped
    /\ batch' = [batch EXCEPT ![c] = Tail(@)]
    /\ pc' = [pc EXCEPT ![c] = "script"]
    /\ UNCHANGED <<registryVars, stop, todo, countVars, sentTo, late, nested>>

(***************************************************************************)
(* The worker's thread                                                     *)
(***************************************************************************)
LeaveSteps == <<Step("release worker", NoPort)>>

\* The engine, the services and the script; whatever fails is told to the
\* document and ends the worker.
Boot(works) ==
    /\ pc["worker"] = "boot"
    /\ IF works
       THEN /\ pc' = [pc EXCEPT !["worker"] = "booted"]
            /\ objects' = [objects EXCEPT !["worker"] = (Far :> TRUE)]
            /\ ports' = Started(Far)
            /\ late' = (Far :> Held(Far)) @@ late
            /\ UNCHANGED <<todo, posted, sentTo, nested>>
       ELSE /\ pc' = [pc EXCEPT !["worker"] = "failed"]
            /\ posted < MaxPosts /\ posted' = posted + 1
            /\ Posted("worker", Far, Failure(posted + 1))
            /\ UNCHANGED <<objects, late>>
    /\ UNCHANGED <<signalled, stop, batch, inbound, channels, ends, worker, heardAt, dropped>>

WorkerGone == [pc EXCEPT !["worker"] = "gone"]

\* A thread that could not start releases its context once the failure is told.
BootFails ==
    /\ pc["worker"] = "failed" /\ Idle("worker")
    /\ pc' = WorkerGone /\ todo' = [todo EXCEPT !["worker"] = LeaveSteps]
    /\ UNCHANGED <<registryVars, stop, batch, inbound, objects, countVars, historyVars>>

BootEnds ==
    /\ pc["worker"] = "booted" /\ Idle("worker")
    /\ pc' = [pc EXCEPT !["worker"] = "check"]
    /\ UNCHANGED <<registryVars, stop, todo, batch, inbound, objects, countVars, historyVars>>

\* The head of the loop, and the turn it begins.
WorkerTurn ==
    /\ pc["worker"] = "check" /\ Idle("worker")
    /\ IF stop
       THEN /\ pc' = WorkerGone /\ todo' = [todo EXCEPT !["worker"] = LeaveSteps]
            /\ UNCHANGED <<ports, batch, inbound>>
       ELSE Poll("worker", "script") /\ UNCHANGED todo
    /\ UNCHANGED <<signalled, stop, objects, countVars, historyVars>>

\* The engine breaks off a script whose stop flag is up, and what it drained is lost.
Interrupted ==
    /\ pc["worker"] \in {"booted", "script"} /\ Idle("worker") /\ stop /\ posted < MaxPosts
    /\ batch' = [batch EXCEPT !["worker"] = <<>>]
    /\ dropped' = dropped \union
           {batch["worker"][i].delivery.n : i \in DOMAIN batch["worker"]}
    /\ posted' = posted + 1
    /\ Posted("worker", Far, Failure(posted + 1))
    /\ pc' = [pc EXCEPT !["worker"] = IF @ = "booted" THEN "failed" ELSE "turned"]
    /\ UNCHANGED <<signalled, stop, inbound, objects, channels, ends, worker, heardAt, late>>

TurnEnds ==
    /\ pc["worker"] = "script" /\ Idle("worker") /\ batch["worker"] = <<>>
    /\ pc' = [pc EXCEPT !["worker"] = "turned"]
    /\ UNCHANGED <<registryVars, stop, todo, batch, inbound, objects, countVars, historyVars>>

\* After a turn: the stop flag again, a timer that is due, or the waker.
AfterTurn ==
    /\ pc["worker"] = "turned" /\ Idle("worker")
    /\ IF stop
       THEN /\ pc' = WorkerGone /\ todo' = [todo EXCEPT !["worker"] = LeaveSteps]
       ELSE /\ \E next \in {"check", "rest"} : pc' = [pc EXCEPT !["worker"] = next]
            /\ UNCHANGED todo
    /\ UNCHANGED <<registryVars, stop, batch, inbound, objects, countVars, historyVars>>

RestBlindly ==
    /\ pc["worker"] = "rest"
    /\ \E how \in {"check", "parked"} : pc' = [pc EXCEPT !["worker"] = how]
    /\ signalled' = FALSE
    /\ UNCHANGED <<ports, stop, todo, batch, inbound, objects, countVars, historyVars>>

\* wait looks at the flag before it sleeps.  With a timer or a fetch outstanding
\* the sleep ends by itself.
Rest ==
    /\ pc["worker"] = "rest"
    /\ IF signalled THEN pc' = [pc EXCEPT !["worker"] = "check"]
       ELSE \E how \in {"check", "parked"} : pc' = [pc EXCEPT !["worker"] = how]
    /\ signalled' = FALSE
    /\ UNCHANGED <<ports, stop, todo, batch, inbound, objects, countVars, historyVars>>

Awake ==
    /\ pc["worker"] = "parked" /\ signalled
    /\ pc' = [pc EXCEPT !["worker"] = "check"]
    /\ signalled' = FALSE
    /\ UNCHANGED <<ports, stop, todo, batch, inbound, objects, countVars, historyVars>>

(***************************************************************************)
(* Both threads                                                            *)
(***************************************************************************)
Reachable(c) == PortObjects(c) \ (IF c = "document" THEN {Near} ELSE {Far})

ThreadStep(c) ==
    \/ Wake(c) \/ Raise(c) \/ ClosePort(c)
    \/ ReleaseContext(c)
    \/ Dispatched(c) \/ MakeChannel(c)
    \/ \E p \in PortObjects(c), carried \in {NoPort} \union Reachable(c) : PostMessage(c, p, carried)
    \/ \E p \in Reachable(c) : Start(c, p) \/ CallClose(c, p)

PortsNext ==
    \/ \E c \in Contexts : ThreadStep(c)
    \/ \E b \in BOOLEAN : NewWorker(b) \/ Boot(b)
    \/ Terminate \/ Dispose \/ CloseSelf \/ ReportFailure
    \/ DocumentFrame \/ BootFails \/ BootEnds
    \/ WorkerTurn \/ Interrupted \/ TurnEnds \/ AfterTurn \/ Rest \/ Awake

(***************************************************************************)
(* Properties                                                              *)
(***************************************************************************)
\* What is heardAt at a port was posted in that order and comes once, its end
\* comes last, and each message is queued at the port it was posted to, drained
\* and not dispatched yet, heardAt there, or went with its port.
HeardAsPosted ==
    /\ \A p \in DOMAIN heardAt : \A i, j \in DOMAIN heardAt[p] :
           i < j => /\ heardAt[p][i].type /= "close"
                    /\ heardAt[p][j].type /= "close" => heardAt[p][i].n < heardAt[p][j].n
    /\ \A n \in DOMAIN sentTo :
           \/ sentTo[n] \notin DOMAIN ports
           \/ n \in Held(sentTo[n])
           \/ \E c \in Contexts : \E i \in DOMAIN batch[c] : batch[c][i].delivery.n = n
           \/ sentTo[n] \in DOMAIN heardAt /\ \E i \in DOMAIN heardAt[sentTo[n]] : heardAt[sentTo[n]][i].n = n
           \/ n \in dropped

\* No message is drained before the script has an object for its port: not while
\* the message that brings the port is behind it or still queued.
AdoptedFirst ==
    \A c \in {x \in Contexts : pc[x] = "polled"} :
    \A i \in DOMAIN batch[c] : batch[c][i].at \notin nested =>
        /\ \A j \in DOMAIN batch[c] : j >= i => batch[c][j].delivery.port /= batch[c][i].at
        /\ \A p \in Owned(c) : batch[c][i].at \notin Inside(p)

\* A payload is held for a message still to be dispatched, or for one that found
\* no object; none is read twice.
PayloadsAgree ==
    \A c \in Contexts : \A n \in inbound[c] :
        \/ n \in dropped
        \/ \E i \in DOMAIN batch[c] : batch[c][i].delivery.n = n

\* The object of a script and the registry agree on whose a port is and on
\* whether it was started, across every hand-over; but not for a port that is in
\* a message queued at a port when that one is handed over.
ObjectsAgree ==
    \A c \in Contexts : \A p \in (PortObjects(c) \cap DOMAIN ports) \ nested :
        ports[p].owner = c /\ ports[p].started = objects[c][p]

\* A parked worker is owed nothing: no message was queued at a port after it was
\* started, and no stop, without a wake that is there or on its way.
Coming == signalled \/ \E c \in Contexts : \E i \in DOMAIN todo[c] :
                           todo[c][i].op = "wake"

NeverStranded ==
    pc["worker"] = "parked" =>
        \/ Coming
        \/ /\ ~stop
           /\ \A p \in Drainable("worker") \ nested : Held(p) \subseteq late[p] \union {0}

PortsDeliver ==
    HeardAsPosted /\ AdoptedFirst /\ PayloadsAgree /\ ObjectsAgree /\ NeverStranded
=============================================================================
