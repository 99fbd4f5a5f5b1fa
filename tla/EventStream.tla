---------------------------- MODULE EventStream ----------------------------
(***************************************************************************)
(* An EventSource: the task that reads the stream and connects again, the  *)
(* queue it leaves its findings in, and the frame that hears them.         *)
(*                                                                         *)
(* The server numbers its events and resumes after the one the client names*)
(* in Last-Event-ID.  Lines are read as what they say; how bytes become    *)
(* lines, named events, comments and the retry interval are left out.      *)
(*                                                                         *)
(* External: the server and the network.                                   *)
(***************************************************************************)
EXTENDS Naturals, Sequences

CONSTANTS MaxEvents,   \* bound: events of the server's feed
          MaxTries     \* bound: connections

VARIABLES
    task,            \* "connecting", "reading", "sleeping", "ended"
    aborted,         \* the task is told to stop at its next await
    tries,           \* history: connections so far
    upcoming,        \* the server: the event it sends
    sent,            \* the server: the fields of it that are sent
    lastId, hasData, \* Interpreter
    queue,           \* Shared::events
    openTable,       \* EventSourceHost::open has the stream
    live,            \* liveEventSources has it
    readyState,
    frame,           \* what the frame that runs has yet to hear
    disposed,
    heard,           \* history: the events the page heard
    late             \* history: it heard something of a stream it had closed

transportVars == <<task, aborted, tries, upcoming, sent, lastId, hasData>>
hostVars == <<queue, openTable>>
streamPageVars == <<live, readyState, frame, disposed, heard, late>>
streamVars == <<transportVars, hostVars, streamPageVars>>

\* open() and new EventSource().
StreamInit ==
    /\ task = "connecting" /\ aborted = FALSE /\ tries = 0
    /\ upcoming = 1 /\ sent = {} /\ lastId = 0 /\ hasData = FALSE
    /\ queue = <<>> /\ openTable = TRUE
    /\ live = TRUE /\ readyState = 0 /\ frame = <<>> /\ disposed = FALSE
    /\ heard = <<>> /\ late = FALSE

Push(record) == queue' = Append(queue, record)

(***************************************************************************)
(* run()                                                                   *)
(***************************************************************************)
Attempt == task = "connecting" /\ ~aborted /\ tries < MaxTries /\ tries' = tries + 1

Refused ==
    /\ Attempt /\ task' = "sleeping" /\ Push([kind |-> "error"])
    /\ UNCHANGED <<aborted, upcoming, sent, lastId, hasData, openTable, streamPageVars>>

\* Not a success, or not an event stream.
NotAStream ==
    /\ Attempt /\ task' = "ended" /\ Push([kind |-> "fatal"])
    /\ UNCHANGED <<aborted, upcoming, sent, lastId, hasData, openTable, streamPageVars>>

Connected ==
    /\ Attempt /\ task' = "reading" /\ Push([kind |-> "open"])
    /\ upcoming' = lastId + 1 /\ sent' = {}
    /\ UNCHANGED <<aborted, lastId, hasData, openTable, streamPageVars>>

\* line(): the id is taken at once, the data with the blank line that ends the event.
Line(field) ==
    /\ task = "reading" /\ upcoming <= MaxEvents /\ field \notin sent
    /\ sent' = sent \union {field}
    /\ IF field = "id" THEN lastId' = upcoming /\ UNCHANGED hasData
                       ELSE hasData' = TRUE /\ UNCHANGED lastId
    /\ UNCHANGED <<task, aborted, tries, upcoming, hostVars, streamPageVars>>

\* dispatch()
Blank ==
    /\ task = "reading" /\ sent = {"id", "data"}
    /\ Push([kind |-> "message", event |-> upcoming])
    /\ upcoming' = upcoming + 1 /\ sent' = {} /\ hasData' = FALSE
    /\ UNCHANGED <<task, aborted, tries, lastId, openTable, streamPageVars>>

\* The buffers of a half-read block are cleared.
Forgotten == hasData' = FALSE /\ UNCHANGED lastId

BodyEnds ==
    /\ task = "reading" /\ task' = "sleeping" /\ Push([kind |-> "error"])
    /\ Forgotten
    /\ UNCHANGED <<aborted, tries, upcoming, sent, openTable, streamPageVars>>

RetryIsDue ==
    /\ task = "sleeping" /\ ~aborted /\ task' = "connecting"
    /\ UNCHANGED <<aborted, tries, upcoming, sent, lastId, hasData, hostVars, streamPageVars>>

TaskStops ==
    /\ aborted /\ task # "ended" /\ task' = "ended"
    /\ UNCHANGED <<aborted, tries, upcoming, sent, lastId, hasData, hostVars, streamPageVars>>

(***************************************************************************)
(* The page                                                                *)
(***************************************************************************)
\* close(), in a script or in a listener of the frame.
CloseStream ==
    /\ ~disposed /\ readyState # 2 /\ readyState' = 2 /\ live' = FALSE
    /\ openTable' = FALSE /\ aborted' = (aborted \/ openTable)
    /\ UNCHANGED <<task, tries, upcoming, sent, lastId, hasData, queue, frame, disposed,
                   heard, late>>

\* poll(), in settleEventSources(); without a live stream it is not asked.
PollStream ==
    /\ ~disposed /\ live /\ frame = <<>> /\ queue # <<>>
    /\ frame' = queue /\ queue' = <<>>
    /\ openTable' = (openTable /\ \A i \in DOMAIN queue : queue[i].kind # "fatal")
    /\ UNCHANGED <<transportVars, live, readyState, disposed, heard, late>>

HeardOf(record) ==
    CASE record.kind = "message" ->
            /\ heard' = Append(heard, record.event)
            /\ UNCHANGED <<live, readyState>>
      [] record.kind = "open" -> readyState' = 1 /\ UNCHANGED <<live, heard>>
      [] record.kind = "error" -> readyState' = 0 /\ UNCHANGED <<live, heard>>
      [] record.kind = "fatal" -> readyState' = 2 /\ live' = FALSE /\ UNCHANGED heard

\* The bug looked for: a listener that closes the stream still hears the rest.
HearAnyway ==
    /\ ~disposed /\ frame # <<>> /\ frame' = Tail(frame)
    /\ HeardOf(Head(frame)) /\ late' = (late \/ readyState = 2)
    /\ UNCHANGED <<transportVars, hostVars, disposed>>

HearRecord ==
    /\ ~disposed /\ frame # <<>> /\ frame' = Tail(frame)
    /\ IF live THEN HeardOf(Head(frame)) /\ late' = (late \/ readyState = 2)
               ELSE UNCHANGED <<live, readyState, heard, late>>
    /\ UNCHANGED <<transportVars, hostVars, disposed>>

\* __blitsenEventSourceDispose, of a reload.
DisposeStream ==
    /\ ~disposed /\ frame = <<>> /\ disposed' = TRUE
    /\ aborted' = (aborted \/ openTable) /\ openTable' = FALSE /\ queue' = <<>>
    /\ live' = FALSE
    /\ UNCHANGED <<task, tries, upcoming, sent, lastId, hasData, readyState, frame, heard,
                   late>>

StreamNext ==
    \/ Refused \/ NotAStream \/ Connected \/ Blank \/ BodyEnds \/ RetryIsDue \/ TaskStops
    \/ \E field \in {"id", "data"} : Line(field)
    \/ CloseStream \/ PollStream \/ HearRecord \/ DisposeStream

StreamSpec == StreamInit /\ [][StreamNext]_streamVars

(***************************************************************************)
(* Properties                                                              *)
(***************************************************************************)
\* Nothing is heard twice or after close(), whatever connection it came by, and a page
\* that has heard everything reads the state the transport is in: a connection that
\* comes back starts where the last one got to (event_source.rs:134-137).
StreamAgrees ==
    /\ \A i, j \in DOMAIN heard : i < j => heard[i] < heard[j]
    /\ ~late
    /\ live /\ queue = <<>> /\ frame = <<>>
         => readyState = (CASE task = "reading" -> 1 [] task = "ended" -> 2 [] OTHER -> 0)

\* "A feed resumes where it stopped" (docs/COMPATIBILITY.md:238): no event is passed
\* over.
NothingSkipped == \A i \in DOMAIN heard : heard[i] = i
=============================================================================
