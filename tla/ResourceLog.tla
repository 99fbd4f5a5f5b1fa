----------------------------- MODULE ResourceLog ------------------------------
(***************************************************************************)
(* The record of what a document has asked the network for.                *)
(*                                                                         *)
(* A request is registered with the handler the renderer waits on, carries *)
(* the signal of the current load and is answered, or dropped, on whatever *)
(* thread the provider uses; window.stop() aborts the load on the UI       *)
(* thread and completes what was still in flight itself.  Whoever takes    *)
(* the handler first settles the request.  Every lock is taken alone, so   *)
(* the steps between two locks interleave.                                 *)
(*                                                                         *)
(* External: the provider answers with bytes, with nothing, or drops the   *)
(* handler it was given; it drops it when the request's signal is aborted. *)
(***************************************************************************)
EXTENDS Naturals, FiniteSets

CONSTANTS Fetches,   \* requests the document makes
          Urls,      \* what they ask for
          MaxStops   \* bound: calls of stop()

VARIABLES
    stepOf,    \* how far fetch() has got: "no", "named", "listed", "sent"
    ours,      \* requests made on the UI thread
    urlOf,     \* the URL of a request
    signal,    \* the load whose signal it carries
    wire,      \* its transfer: "none", "flying", "over"
    taker,     \* who took its handler: "free", "arrival", "drop", "stop"
    brought,   \* the answer that took the handler has bytes
    settling,  \* requests whose taker has still to record the outcome
    handed,    \* how often the renderer's handler was completed
    urlState,  \* urls
    settlements,
    inflight,
    load,      \* the load of the controller
    stopping,  \* where stop() is: "no", "aborted", "walking"
    abandoned, \* the entries stop() has taken and not walked yet
    stops,     \* history: calls of stop() so far
    overtaken  \* history: what was in flight when a stop() began

fetchVars == <<stepOf, ours, urlOf, signal, wire>>
settleVars == <<taker, brought, settling, handed, urlState, settlements>>
stopVars == <<load, stopping, abandoned, stops, overtaken>>
logVars == <<fetchVars, settleVars, inflight, stopVars>>

LogInit ==
    /\ stepOf = [r \in Fetches |-> "no"] /\ ours = {}
    /\ urlOf = [r \in Fetches |-> CHOOSE u \in Urls : TRUE]
    /\ signal = [r \in Fetches |-> 0] /\ wire = [r \in Fetches |-> "none"]
    /\ taker = [r \in Fetches |-> "free"] /\ brought = {} /\ settling = {}
    /\ handed = [r \in Fetches |-> 0]
    /\ urlState = [u \in Urls |-> "none"] /\ settlements = 0 /\ inflight = {}
    /\ load = 0 /\ stopping = "no" /\ abandoned = {} /\ stops = 0 /\ overtaken = {}

(***************************************************************************)
(* TrackedProvider::fetch and the log's requested() and signal()           *)
(***************************************************************************)
\* The UI thread is in fetch() for another request, or between two steps of stop()
\* that call nothing of the renderer's.
UiBusy == (\E r \in ours : stepOf[r] \in {"named", "listed"})
          \/ (\E r \in settling : taker[r] = "stop") \/ stopping = "aborted"

\* requested(), as far as the URL: what is known of it already stays.
Name(r, u, byUi) ==
    /\ stepOf[r] = "no" /\ (byUi => ~UiBusy)
    /\ stepOf' = [stepOf EXCEPT ![r] = "named"] /\ urlOf' = [urlOf EXCEPT ![r] = u]
    /\ ours' = IF byUi THEN ours \union {r} ELSE ours
    /\ urlState' = [urlState EXCEPT ![u] = IF @ = "none" THEN "Loading" ELSE @]
    /\ UNCHANGED <<signal, wire, taker, brought, settling, handed, settlements,
                   inflight, stopVars>>

List(r) ==
    /\ stepOf[r] = "named"
    /\ stepOf' = [stepOf EXCEPT ![r] = "listed"] /\ inflight' = inflight \union {r}
    /\ UNCHANGED <<ours, urlOf, signal, wire, settleVars, stopVars>>

\* The request is stamped with the signal of the load as it is now, and sent.
Send(r) ==
    /\ stepOf[r] = "listed"
    /\ stepOf' = [stepOf EXCEPT ![r] = "sent"] /\ signal' = [signal EXCEPT ![r] = load]
    /\ wire' = [wire EXCEPT ![r] = "flying"]
    /\ UNCHANGED <<ours, urlOf, settleVars, inflight, stopVars>>

(***************************************************************************)
(* Whoever gets there first                                                *)
(***************************************************************************)
ClaimedByAll(r, who) ==
    /\ inflight' = inflight \ {r}
    /\ taker' = [taker EXCEPT ![r] = who] /\ settling' = settling \union {r}

\* claim(): the handler goes to the first who asks for it.
Claimed(r, who) ==
    /\ inflight' = inflight \ {r}
    /\ IF taker[r] = "free"
       THEN taker' = [taker EXCEPT ![r] = who] /\ settling' = settling \union {r}
       ELSE UNCHANGED <<taker, settling>>

\* TrackedHandler::bytes, as far as the claim.
Arrive(r, withBytes) ==
    /\ wire[r] = "flying" /\ wire' = [wire EXCEPT ![r] = "over"]
    /\ Claimed(r, "arrival")
    /\ brought' = IF withBytes THEN brought \union {r} ELSE brought
    /\ UNCHANGED <<stepOf, ours, urlOf, signal, handed, urlState, settlements, stopVars>>

\* The provider drops the handler: the transfer failed, or its signal is aborted.
Drop(r) ==
    /\ wire[r] = "flying" /\ wire' = [wire EXCEPT ![r] = "over"]
    /\ Claimed(r, "drop")
    /\ UNCHANGED <<stepOf, ours, urlOf, signal, brought, handed, urlState, settlements,
                   stopVars>>

\* settled(), and the handler completed by whoever took it: with the bytes, with an
\* empty body by stop(), and not at all when it was dropped.
Settle(r) ==
    /\ r \in settling /\ settling' = settling \ {r}
    /\ urlState' = [urlState EXCEPT ![urlOf[r]] =
                      IF taker[r] = "arrival" /\ r \in brought THEN "Loaded" ELSE "Failed"]
    /\ settlements' = settlements + 1
    /\ handed' = [handed EXCEPT ![r] = IF taker[r] = "drop" THEN @ ELSE @ + 1]
    /\ UNCHANGED <<fetchVars, taker, brought, inflight, stopVars>>

(***************************************************************************)
(* stop()                                                                  *)
(***************************************************************************)
\* The controller is replaced and the old one aborted.
StopAborts ==
    /\ stopping = "no" /\ ~UiBusy /\ stops < MaxStops /\ stops' = stops + 1
    /\ load' = load + 1 /\ stopping' = "aborted"
    /\ overtaken' = overtaken \union {r \in inflight : wire[r] = "flying"}
    /\ UNCHANGED <<fetchVars, settleVars, inflight, abandoned>>

StopTakes ==
    /\ stopping = "aborted" /\ stopping' = "walking"
    /\ abandoned' = inflight /\ inflight' = {}
    /\ UNCHANGED <<fetchVars, settleVars, load, stops, overtaken>>

StopWalks(r) ==
    /\ stopping = "walking" /\ ~UiBusy /\ r \in abandoned
    /\ abandoned' = abandoned \ {r}
    /\ IF taker[r] = "free"
       THEN taker' = [taker EXCEPT ![r] = "stop"] /\ settling' = settling \union {r}
       ELSE UNCHANGED <<taker, settling>>
    /\ UNCHANGED <<fetchVars, brought, handed, urlState, settlements, inflight, load,
                   stopping, stops, overtaken>>

StopReturns ==
    /\ stopping = "walking" /\ ~UiBusy /\ abandoned = {} /\ stopping' = "no"
    /\ UNCHANGED <<fetchVars, settleVars, inflight, load, abandoned, stops, overtaken>>

LogDone == (\A r \in Fetches : wire[r] = "over") /\ settling = {} /\ stopping = "no"
           /\ stops = MaxStops /\ UNCHANGED logVars

LogNext ==
    \/ \E r \in Fetches, u \in Urls, byUi \in BOOLEAN : Name(r, u, byUi)
    \/ \E r \in Fetches : \/ List(r) \/ Send(r) \/ Drop(r) \/ Settle(r) \/ StopWalks(r)
                          \/ \E withBytes \in BOOLEAN : Arrive(r, withBytes)
    \/ StopAborts \/ StopTakes \/ StopReturns \/ LogDone

LogSpec == LogInit /\ [][LogNext]_logVars

(***************************************************************************)
(* Properties                                                              *)
(***************************************************************************)
\* Nothing is left loading, and nothing is answered twice: a request whose transfer
\* is over, or that was in flight when a stop() that has returned began, has been
\* settled by exactly one of its answer, its loss and the stop, and the record of
\* its URL says so, whatever else was asked of the same URL meanwhile.
Quiet(r) == wire[r] = "over" \/ (r \in overtaken /\ stopping = "no" /\ abandoned = {})
SettledOnce ==
    /\ \A r \in Fetches : handed[r] <= 1
    /\ settlements = Cardinality({r \in Fetches : taker[r] # "free"} \ settling)
    /\ \A r \in Fetches : Quiet(r) => taker[r] # "free" /\ r \notin inflight
    /\ (\A r \in Fetches : stepOf[r] # "no" => Quiet(r)) /\ settling = {}
         => \A u \in Urls : urlState[u] # "Loading"

\* Whatever a stop() found in flight is completed and not merely dropped, because
\* "a dropped handler never completes" (resources.rs:78-82).
StopCompletes ==
    \A r \in overtaken :
        stopping = "no" /\ wire[r] = "over" /\ r \notin settling => handed[r] = 1

=============================================================================
