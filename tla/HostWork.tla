------------------------------ MODULE HostWork ------------------------------
(***************************************************************************)
(* The work a document leaves with the JavaScript host and hears of again: *)
(* fetches, sockets and workers, timers, posted messages and animation     *)
(* frames.                                                                 *)
(*                                                                         *)
(* The host calls back between native calls; what concerns a socket, a     *)
(* worker or a fetch is queued until the next frame and settled there, one *)
(* callback after the other, any of which may start and stop work.  A      *)
(* reload disposes of a document in the realm it shares with the next.     *)
(*                                                                         *)
(* External: Bun's fetch, WebSocket, Worker and timers.                    *)
(***************************************************************************)
EXTENDS Naturals, Sequences, Functions, TLC

CONSTANTS Calls, Links,   \* Links: sockets and workers
          Waits,           \* timers and posted messages
          MaxRealms,        \* bound: documents
          MaxMessages,      \* bound: events of the links
          MaxFrames         \* bound: animation frame callbacks

VARIABLES
    generation,                     \* the document
    hostFetch,                      \* fetch -> "no", "sent", "over"
    inFlight,                       \* inflightFetches, with the document each is of
    settled,                        \* history: fetch -> how often its promise was settled
    linkState,                      \* link -> "no", "open", "closing", "over", for the host
    liveLinks,                      \* liveSockets and liveWorkers
    workerMessages,                 \* history: events of the links so far
    completions,                    \* hostCompletions
    phase,                          \* "idle", or the part of a frame: "settling", "frames"
    batch,                          \* what this frame settles
    hostTimers,                     \* timer -> the document that armed it
    contextTimers,                  \* contextTimeouts and contextIntervals
    postedBy,                       \* a posted message -> the document it was posted by
    animations, running, nextFrame, \* animationFrames, runningAnimationFrames
    ran,                            \* history: the animation callbacks that ran
    cancelled,                      \* history: those that were cancelled
    strayed                         \* history: what one document heard of another

fetchesVars == <<hostFetch, inFlight, settled>>
linksVars == <<linkState, liveLinks, workerMessages>>
frameVars == <<completions, phase, batch>>
delayVars == <<hostTimers, contextTimers, postedBy>>
animationVars == <<animations, running, nextFrame, ran, cancelled>>
workVars == <<generation, fetchesVars, linksVars, frameVars, delayVars, animationVars, strayed>>

Without(f, x) == Restrict(f, DOMAIN f \ {x})

WorkInit ==
    /\ generation = 1 /\ strayed = {}
    /\ hostFetch = [f \in Calls |-> "no"] /\ inFlight = {}
    /\ settled = [f \in Calls |-> 0]
    /\ linkState = [l \in Links |-> "no"] /\ liveLinks = {} /\ workerMessages = 0
    /\ completions = <<>> /\ phase = "idle" /\ batch = <<>>
    /\ hostTimers = <<>> /\ contextTimers = {} /\ postedBy = <<>>
    /\ animations = {} /\ running = {} /\ nextFrame = 1 /\ ran = {} /\ cancelled = {}

(***************************************************************************)
(* What a script does, between frames or in a callback of one              *)
(***************************************************************************)
Fetch(f) ==
    /\ hostFetch[f] = "no" /\ hostFetch' = [hostFetch EXCEPT ![f] = "sent"]
    /\ inFlight' = inFlight \union {f}
    /\ UNCHANGED <<generation, settled, linksVars, frameVars, delayVars, animationVars, strayed>>

OpenLink(l) ==
    /\ linkState[l] = "no" /\ linkState' = [linkState EXCEPT ![l] = "open"]
    /\ liveLinks' = liveLinks \union {l}
    /\ UNCHANGED <<generation, fetchesVars, workerMessages, frameVars, delayVars, animationVars, strayed>>

\* Worker.terminate(): what it sent and is queued is not heard.
Terminate(l) ==
    /\ l \in liveLinks /\ liveLinks' = liveLinks \ {l}
    /\ linkState' = [linkState EXCEPT ![l] = "over"]
    /\ UNCHANGED <<generation, fetchesVars, workerMessages, frameVars, delayVars, animationVars, strayed>>

\* WebSocket.close(): the socket is live until the host says it has closed.
CloseSocket(l) ==
    /\ l \in liveLinks /\ linkState[l] = "open"
    /\ linkState' = [linkState EXCEPT ![l] = "closing"]
    /\ UNCHANGED <<generation, fetchesVars, liveLinks, workerMessages, frameVars, delayVars,
                   animationVars, strayed>>

SetTimer(d) ==
    /\ d \notin DOMAIN hostTimers \union DOMAIN postedBy
    /\ hostTimers' = (d :> generation) @@ hostTimers
    /\ contextTimers' = contextTimers \union {d}
    /\ UNCHANGED <<generation, fetchesVars, linksVars, frameVars, postedBy, animationVars, strayed>>

ClearTimer(d) ==
    /\ d \in contextTimers /\ contextTimers' = contextTimers \ {d}
    /\ hostTimers' = Without(hostTimers, d)
    /\ UNCHANGED <<generation, fetchesVars, linksVars, frameVars, postedBy, animationVars, strayed>>

\* windowPostMessage(): a timer of the host's, which the document does not list.
PostMessage(d) ==
    /\ d \notin DOMAIN hostTimers \union DOMAIN postedBy
    /\ postedBy' = (d :> generation) @@ postedBy
    /\ UNCHANGED <<generation, fetchesVars, linksVars, frameVars, hostTimers, contextTimers,
                   animationVars, strayed>>

RequestFrame ==
    /\ nextFrame <= MaxFrames /\ nextFrame' = nextFrame + 1
    /\ animations' = animations \union {nextFrame}
    /\ UNCHANGED <<generation, fetchesVars, linksVars, frameVars, delayVars, running, ran,
                   cancelled, strayed>>

CancelFrame(id) ==
    /\ id \in animations \union running
    /\ animations' = animations \ {id} /\ running' = running \ {id}
    /\ cancelled' = cancelled \union {id}
    /\ UNCHANGED <<generation, fetchesVars, linksVars, frameVars, delayVars, nextFrame, ran, strayed>>

Script ==
    \/ \E f \in Calls : Fetch(f)
    \/ \E l \in Links : OpenLink(l) \/ CloseSocket(l) \/ Terminate(l)
    \/ \E d \in Waits : SetTimer(d) \/ ClearTimer(d) \/ PostMessage(d)
    \/ RequestFrame \/ \E id \in 1..MaxFrames : CancelFrame(id)

(***************************************************************************)
(* The host calls back, between two native calls                           *)
(***************************************************************************)
\* queueHostCompletion(), of the document that waits; a document that is disposed of
\* queues nothing.
Queued(record, ours) == completions' = IF ours THEN Append(completions, record) ELSE completions

\* The response, the failure, or the abort of stop() or of the disposal.
Reply(f) ==
    /\ phase = "idle" /\ hostFetch[f] = "sent"
    /\ hostFetch' = [hostFetch EXCEPT ![f] = "over"]
    /\ Queued([kind |-> "fetch", of |-> f], f \in inFlight)
    /\ UNCHANGED <<generation, inFlight, settled, linksVars, phase, batch, delayVars,
                   animationVars, strayed>>

Hear(l, last) ==
    /\ phase = "idle" /\ linkState[l] \in {"open", "closing"} /\ workerMessages < MaxMessages
    /\ workerMessages' = workerMessages + 1
    /\ linkState' = IF last THEN [linkState EXCEPT ![l] = "over"] ELSE linkState
    /\ Queued([kind |-> IF last THEN "close" ELSE "message", of |-> l], l \in liveLinks)
    /\ UNCHANGED <<generation, fetchesVars, liveLinks, phase, batch, delayVars, animationVars,
                   strayed>>

TimerFires(d) ==
    /\ phase = "idle" /\ d \in DOMAIN hostTimers
    /\ strayed' = IF hostTimers[d] # generation THEN strayed \union {"timer"} ELSE strayed
    /\ hostTimers' = Without(hostTimers, d) /\ contextTimers' = contextTimers \ {d}
    /\ UNCHANGED <<generation, fetchesVars, linksVars, frameVars, postedBy, animationVars>>

\* The message is dispatched at the window there is now.
PostArrives(d) ==
    /\ phase = "idle" /\ d \in DOMAIN postedBy
    /\ strayed' = IF postedBy[d] # generation THEN strayed \union {"message"} ELSE strayed
    /\ postedBy' = Without(postedBy, d)
    /\ UNCHANGED <<generation, fetchesVars, linksVars, frameVars, hostTimers, contextTimers,
                   animationVars>>

(***************************************************************************)
(* animationFrameTick                                                      *)
(***************************************************************************)
FrameBegins ==
    /\ phase = "idle" /\ phase' = "settling"
    /\ batch' = completions /\ completions' = <<>>
    /\ UNCHANGED <<generation, fetchesVars, linksVars, delayVars, animationVars, strayed>>

SettledAnyway(f) == settled' = [settled EXCEPT ![f] = @ + 1] /\ UNCHANGED inFlight

\* complete(): only a fetch that is still listed.
SettledIfListed(f) ==
    IF f \in inFlight
    THEN inFlight' = inFlight \ {f} /\ settled' = [settled EXCEPT ![f] = @ + 1]
    ELSE UNCHANGED <<inFlight, settled>>

SettleNext ==
    /\ phase = "settling" /\ batch # <<>> /\ batch' = Tail(batch)
    /\ LET record == Head(batch)
       IN IF record.kind = "fetch"
          THEN SettledIfListed(record.of) /\ UNCHANGED liveLinks
          ELSE /\ liveLinks' = IF record.kind = "close" THEN liveLinks \ {record.of}
                               ELSE liveLinks
               /\ UNCHANGED <<inFlight, settled>>
    /\ UNCHANGED <<generation, hostFetch, linkState, workerMessages, completions, phase, delayVars,
                   animationVars, strayed>>

FramesBegin ==
    /\ phase = "settling" /\ batch = <<>> /\ phase' = "frames"
    /\ running' = animations /\ animations' = {}
    /\ UNCHANGED <<generation, fetchesVars, linksVars, completions, batch, delayVars, nextFrame,
                   ran, cancelled, strayed>>

RunFrame ==
    /\ phase = "frames" /\ running # {}
    /\ LET id == CHOOSE i \in running : \A j \in running : i <= j
       IN running' = running \ {id} /\ ran' = ran \union {id}
    /\ UNCHANGED <<generation, fetchesVars, linksVars, frameVars, delayVars, animations,
                   nextFrame, cancelled, strayed>>

FrameEnds ==
    /\ phase = "frames" /\ running = {} /\ phase' = "idle"
    /\ UNCHANGED <<generation, fetchesVars, linksVars, completions, batch, delayVars,
                   animationVars, strayed>>

(***************************************************************************)
(* __blitsenDisposeContext, and the next document                          *)
(***************************************************************************)
Dispose ==
    /\ phase = "idle" /\ generation < MaxRealms /\ generation' = generation + 1
    /\ hostTimers' = Restrict(hostTimers, DOMAIN hostTimers \ contextTimers)
    /\ contextTimers' = {} /\ completions' = <<>>
    /\ settled' = [f \in Calls |-> settled[f] + (IF f \in inFlight THEN 1 ELSE 0)]
    /\ inFlight' = {} /\ liveLinks' = {}
    /\ linkState' = [l \in Links |-> IF l \in liveLinks THEN "closing" ELSE linkState[l]]
    /\ animations' = {} /\ cancelled' = cancelled \union animations
    /\ UNCHANGED <<hostFetch, workerMessages, phase, batch, postedBy, running, nextFrame, ran,
                   strayed>>

WorkNext ==
    \/ Script \/ Dispose
    \/ \E f \in Calls : Reply(f)
    \/ \E l \in Links, last \in BOOLEAN : Hear(l, last)
    \/ \E d \in Waits : TimerFires(d) \/ PostArrives(d)
    \/ FrameBegins \/ SettleNext \/ FramesBegin \/ RunFrame \/ FrameEnds

WorkSpec == WorkInit /\ [][WorkNext]_workVars

(***************************************************************************)
(* Properties                                                              *)
(***************************************************************************)
InBatch(f) == \E i \in DOMAIN batch : batch[i].kind = "fetch" /\ batch[i].of = f
InQueue(f) == \E i \in DOMAIN completions :
                  completions[i].kind = "fetch" /\ completions[i].of = f

\* Every fetch is settled once: while its promise waits its answer is with the host,
\* queued or in the frame that settles it, and a disposal that overtakes the answer
\* settles it instead and for good (fetch.js:15-26, globals.js:127-131).
FetchSettlesOnce ==
    \A f \in Calls :
        /\ f \in inFlight => /\ settled[f] = 0
                             /\ hostFetch[f] = "sent" \/ InQueue(f) \/ InBatch(f)
        /\ f \notin inFlight /\ hostFetch[f] # "no" => settled[f] = 1

\* What a document armed is not heard once another has replaced it: postMessage is "the
\* same-window one: a message to yourself" (globals.js:33).
DocumentsApart == strayed = {}
=============================================================================
