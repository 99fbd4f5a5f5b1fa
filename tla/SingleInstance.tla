--------------------------- MODULE SingleInstance ---------------------------
(***************************************************************************)
(* The Unix single-instance lock of blitsen-platform                       *)
(* (crates/blitsen-platform/src/app/single_instance.rs): processes of one  *)
(* application elect a primary by binding a filesystem socket, later       *)
(* invocations hand their command line to it, and a socket that outlived   *)
(* its process is reclaimed.                                               *)
(*                                                                         *)
(* A Call is one execution of `request`, made by the process Owner[call].  *)
(* A listener is named by the call that bound it.  The kernel objects      *)
(* (socket path, listening descriptors, flock, byte streams) are the       *)
(* variables path, open, election and chan; the rest is process memory.    *)
(***************************************************************************)
EXTENDS Sequences, FiniteSets, Naturals

CONSTANTS
  Proc,      \* OS processes of the application, each living once
  Call,      \* executions of request()
  Owner,     \* Owner[c]: the process that makes call c
  None,      \* no call: the path is absent, the election is free
  CloseFirst \* dropping a listener closes its descriptor before it unlinks
             \* the path (the order belongs to the external crate)

ASSUME OwnerAssumption == Owner \in [Call -> Proc]
ASSUME NoneAssumption == None \notin Call
ASSUME CloseFirstAssumption == CloseFirst \in BOOLEAN

VARIABLES
  alive,    \* processes that have not exited or crashed
  election, \* the call whose process holds the flock on <endpoint>.lock
  path,     \* the listener the socket path leads to
  open,     \* listeners whose descriptor is open
  req,      \* where each call of request() stands
  chan,     \* the byte stream of each call that connected
  backlog,  \* connections a listener has not accepted yet
  srv,      \* where each listener thread stands
  cur,      \* the connection a listener thread is serving
  servers,  \* SERVERS, per process
  stop,     \* listeners whose stop flag is set
  joining,  \* processes inside release()
  received, \* RECEIVED, per process
  taken     \* what take() has returned so far, per process

vars == <<alive, election, path, open, req, chan, backlog, srv, cur,
          servers, stop, joining, received, taken>>

clientVars == <<req, chan>>
serverVars == <<srv, cur, servers, stop, joining>>
queueVars  == <<received, taken>>

-----------------------------------------------------------------------------

\* Steps of request() that run while the election file is locked.
Electing == {"bind", "serve", "connect", "remove", "rebind"}
\* Steps of hand_over(), after the election file has been closed.
Handing  == {"write", "await", "confirm"}
Finished == {"primary", "secondary", "failed"}
ReqState == {"idle", "elect", "dead"} \cup Electing \cup Handing \cup Finished

SrvState == {"off", "loop", "accept", "receive", "push", "ack", "receipt",
             "close", "unlink", "done"}

\* States in which a listener thread holds an accepted stream.
Serving == {"receive", "push", "ack", "receipt"}

NoChan == [to |-> None, payload |-> FALSE, ack |-> FALSE, receipt |-> FALSE,
           client |-> FALSE, server |-> FALSE]

Chan == [to : Call \cup {None}, payload : BOOLEAN, ack : BOOLEAN,
         receipt : BOOLEAN, client : BOOLEAN, server : BOOLEAN]

CallsOf(p) == {c \in Call : Owner[c] = p}

\* The UI thread of a process runs one request() or release() at a time.
UiIdle(p) ==
  /\ p \in alive
  /\ p \notin joining
  /\ \A c \in CallsOf(p) : req[c] \in {"idle"} \cup Finished

\* What a call leaves behind when it returns: its end of the stream is closed.
Return(c, result) ==
  /\ req' = [req EXCEPT ![c] = result]
  /\ chan' = [chan EXCEPT ![c].client = FALSE]

Init ==
  /\ alive = Proc
  /\ election = None
  /\ path = None
  /\ open = {}
  /\ req = [c \in Call |-> "idle"]
  /\ chan = [c \in Call |-> NoChan]
  /\ backlog = [c \in Call |-> <<>>]
  /\ srv = [c \in Call |-> "off"]
  /\ cur = [c \in Call |-> None]
  /\ servers = [p \in Proc |-> {}]
  /\ stop = {}
  /\ joining = {}
  /\ received = [p \in Proc |-> <<>>]
  /\ taken = [p \in Proc |-> <<>>]

-----------------------------------------------------------------------------
(* request(): the election                                                 *)

Request(c) ==
  /\ UiIdle(Owner[c])
  /\ req[c] = "idle"
  /\ req' = [req EXCEPT ![c] = "elect"]
  /\ UNCHANGED <<alive, election, path, open, chan, backlog, serverVars, queueVars>>

\* No endpoint can be formed, or the election file cannot be opened.
RequestFails(c) ==
  /\ req[c] = "elect"
  /\ req' = [req EXCEPT ![c] = "failed"]
  /\ UNCHANGED <<alive, election, path, open, chan, backlog, serverVars, queueVars>>

\* Seeded bug: the election file is opened but never locked.
ElectionUnlocked(c) ==
  /\ req[c] = "elect"
  /\ election' = c
  /\ req' = [req EXCEPT ![c] = "bind"]
  /\ UNCHANGED <<alive, path, open, chan, backlog, serverVars, queueVars>>

\* election_lock: File::lock blocks until the flock is free.
ElectionLock(c) ==
  /\ req[c] = "elect"
  /\ election = None
  /\ election' = c
  /\ req' = [req EXCEPT ![c] = "bind"]
  /\ UNCHANGED <<alive, path, open, chan, backlog, serverVars, queueVars>>

\* The first bind() and the one after a stale socket was removed.
Bind(c) ==
  /\ req[c] \in {"bind", "rebind"}
  /\ path = None
  /\ path' = c
  /\ open' = open \cup {c}
  /\ req' = [req EXCEPT ![c] = "serve"]
  /\ UNCHANGED <<alive, election, chan, backlog, serverVars, queueVars>>

BindOccupied(c) ==
  /\ req[c] = "bind"
  /\ path # None
  /\ req' = [req EXCEPT ![c] = "connect"]
  /\ UNCHANGED <<alive, election, path, open, chan, backlog, serverVars, queueVars>>

\* Every error return between the lock and the hand-over: bind or rebind
\* fails, or connect fails for a reason that does not prove staleness.
\* Returning closes the election file.
ElectionFails(c) ==
  /\ req[c] \in {"bind", "connect", "rebind"}
  /\ Return(c, "failed")
  /\ election' = None
  /\ UNCHANGED <<alive, path, open, backlog, serverVars, queueVars>>

\* serve(): the thread starts, SERVERS records it and request() returns.
Serve(c) ==
  /\ req[c] = "serve"
  /\ srv' = [srv EXCEPT ![c] = "loop"]
  /\ servers' = [servers EXCEPT ![Owner[c]] = @ \cup {c}]
  /\ Return(c, "primary")
  /\ election' = None
  /\ UNCHANGED <<alive, path, open, backlog, cur, stop, joining, queueVars>>

\* The thread cannot be spawned: the listener is dropped, which unlinks
\* whatever the path leads to, before the election file is closed.
ServeFails(c) ==
  /\ req[c] = "serve"
  /\ path' = None
  /\ open' = open \ {c}
  /\ Return(c, "failed")
  /\ election' = None
  /\ UNCHANGED <<alive, backlog, serverVars, queueVars>>

\* A listener answers: the connection waits in its backlog and the election
\* file is closed before the hand-over starts.
Connect(c) ==
  /\ req[c] = "connect"
  /\ path \in open
  /\ chan' = [chan EXCEPT ![c] = [NoChan EXCEPT !.to = path, !.client = TRUE,
                                                 !.server = TRUE]]
  /\ backlog' = [backlog EXCEPT ![path] = Append(@, c)]
  /\ election' = None
  /\ req' = [req EXCEPT ![c] = "write"]
  /\ UNCHANGED <<alive, path, open, serverVars, queueVars>>

\* Seeded bug: any connect error counts as proof of a stale socket.
ConnectAnyError(c) ==
  /\ req[c] = "connect"
  /\ req' = [req EXCEPT ![c] = "remove"]
  /\ UNCHANGED <<alive, election, path, open, chan, backlog, serverVars, queueVars>>

\* ConnectionRefused or NotFound: nothing listens behind the path.
ConnectStale(c) ==
  /\ req[c] = "connect"
  /\ path \notin open
  /\ req' = [req EXCEPT ![c] = "remove"]
  /\ UNCHANGED <<alive, election, path, open, chan, backlog, serverVars, queueVars>>

RemoveStale(c) ==
  /\ req[c] = "remove"
  /\ path' = None
  /\ req' = [req EXCEPT ![c] = "rebind"]
  /\ UNCHANGED <<alive, election, open, chan, backlog, serverVars, queueVars>>

-----------------------------------------------------------------------------
(* hand_over(): the second invocation's side of the stream                 *)

WritePayload(c) ==
  /\ req[c] = "write"
  /\ chan[c].server
  /\ chan' = [chan EXCEPT ![c].payload = TRUE]
  /\ req' = [req EXCEPT ![c] = "await"]
  /\ UNCHANGED <<alive, election, path, open, backlog, serverVars, queueVars>>

\* Seeded bug: the second process does not wait for the acknowledgement.
AssumeAcknowledgement(c) ==
  /\ req[c] = "await"
  /\ req' = [req EXCEPT ![c] = "confirm"]
  /\ UNCHANGED <<alive, election, path, open, chan, backlog, serverVars, queueVars>>

ReadAcknowledgement(c) ==
  /\ req[c] = "await"
  /\ chan[c].ack
  /\ req' = [req EXCEPT ![c] = "confirm"]
  /\ UNCHANGED <<alive, election, path, open, chan, backlog, serverVars, queueVars>>

WriteReceipt(c) ==
  /\ req[c] = "confirm"
  /\ chan[c].server
  /\ req' = [req EXCEPT ![c] = "secondary"]
  /\ chan' = [chan EXCEPT ![c].receipt = TRUE, ![c].client = FALSE]
  /\ UNCHANGED <<alive, election, path, open, backlog, serverVars, queueVars>>

\* A five-second deadline passes, or the owner's end of the stream is closed.
HandOverFails(c) ==
  /\ req[c] \in Handing
  /\ Return(c, "failed")
  /\ UNCHANGED <<alive, election, path, open, backlog, serverVars, queueVars>>

-----------------------------------------------------------------------------
(* serve(): the listener thread of listener d                              *)

\* A listener thread runs as long as its process.
Runs(d, state) == Owner[d] \in alive /\ srv[d] = state

\* The stream of connection c is dropped by the listener thread.
Hangup(c) == chan' = [chan EXCEPT ![c].server = FALSE]

FinishConnection(d) ==
  /\ Hangup(cur[d])
  /\ cur' = [cur EXCEPT ![d] = None]
  /\ srv' = [srv EXCEPT ![d] = "loop"]

\* Seeded bug: the loop does not look at the stop flag.
LoopForever(d) ==
  /\ Runs(d, "loop")
  /\ srv' = [srv EXCEPT ![d] = "accept"]
  /\ UNCHANGED <<alive, election, path, open, clientVars, backlog, cur,
                 servers, stop, joining, queueVars>>

\* The load of the stop flag at the top of the loop.
LoopTop(d) ==
  /\ Runs(d, "loop")
  /\ srv' = [srv EXCEPT ![d] = IF d \notin stop THEN "accept"
                               ELSE IF CloseFirst THEN "close" ELSE "unlink"]
  /\ UNCHANGED <<alive, election, path, open, clientVars, backlog, cur,
                 servers, stop, joining, queueVars>>

Accept(d) ==
  /\ Runs(d, "accept")
  /\ backlog[d] # <<>>
  /\ cur' = [cur EXCEPT ![d] = Head(backlog[d])]
  /\ backlog' = [backlog EXCEPT ![d] = Tail(@)]
  /\ srv' = [srv EXCEPT ![d] = "receive"]
  /\ UNCHANGED <<alive, election, path, open, clientVars, servers, stop,
                 joining, queueVars>>

\* WouldBlock: the thread sleeps POLL_INTERVAL and looks at the flag again.
AcceptWouldBlock(d) ==
  /\ Runs(d, "accept")
  /\ backlog[d] = <<>>
  /\ srv' = [srv EXCEPT ![d] = "loop"]
  /\ UNCHANGED <<alive, election, path, open, clientVars, backlog, cur,
                 servers, stop, joining, queueVars>>

\* Seeded bug: the invocation is acknowledged before it is queued.
ReceiveUnqueued(d) ==
  /\ Runs(d, "receive")
  /\ chan[cur[d]].payload
  /\ srv' = [srv EXCEPT ![d] = "ack"]
  /\ UNCHANGED <<alive, election, path, open, clientVars, backlog, cur,
                 servers, stop, joining, queueVars>>

Receive(d) ==
  /\ Runs(d, "receive")
  /\ chan[cur[d]].payload
  /\ srv' = [srv EXCEPT ![d] = "push"]
  /\ UNCHANGED <<alive, election, path, open, clientVars, backlog, cur,
                 servers, stop, joining, queueVars>>

\* READ_TIMEOUT passes, the peer hangs up, or the frame is malformed.
ReceiveFails(d) ==
  /\ Runs(d, "receive")
  /\ FinishConnection(d)
  /\ UNCHANGED <<alive, election, path, open, req, backlog, servers, stop,
                 joining, queueVars>>

Push(d) ==
  /\ Runs(d, "push")
  /\ received' = [received EXCEPT ![Owner[d]] = Append(@, cur[d])]
  /\ srv' = [srv EXCEPT ![d] = "ack"]
  /\ UNCHANGED <<alive, election, path, open, clientVars, backlog, cur,
                 servers, stop, joining, taken>>

WriteAcknowledgement(d) ==
  /\ Runs(d, "ack")
  /\ chan[cur[d]].client
  /\ chan' = [chan EXCEPT ![cur[d]].ack = TRUE]
  /\ srv' = [srv EXCEPT ![d] = "receipt"]
  /\ UNCHANGED <<alive, election, path, open, req, backlog, cur, servers,
                 stop, joining, queueVars>>

\* The peer is gone or the deadline passed; the failure is only logged.
AcknowledgementFails(d) ==
  /\ Runs(d, "ack")
  /\ FinishConnection(d)
  /\ UNCHANGED <<alive, election, path, open, req, backlog, servers, stop,
                 joining, queueVars>>

\* The receipt is read, or its deadline passes and that is only logged:
\* either way the stream is dropped.
ReadReceipt(d) ==
  /\ Runs(d, "receipt")
  /\ FinishConnection(d)
  /\ UNCHANGED <<alive, election, path, open, req, backlog, servers, stop,
                 joining, queueVars>>

\* The thread returned and the listener is dropped: its descriptor closes,
\* which resets the connections nobody accepted, and the name is reclaimed.
CloseListener(d) ==
  /\ Runs(d, "close")
  /\ open' = open \ {d}
  /\ chan' = [c \in Call |-> IF chan[c].to = d
                             THEN [chan[c] EXCEPT !.server = FALSE]
                             ELSE chan[c]]
  /\ backlog' = [backlog EXCEPT ![d] = <<>>]
  /\ srv' = [srv EXCEPT ![d] = IF CloseFirst THEN "unlink" ELSE "done"]
  /\ UNCHANGED <<alive, election, path, req, cur, servers, stop, joining,
                 queueVars>>

\* unlink() takes a name: it removes whatever the path leads to by now.
UnlinkPath(d) ==
  /\ Runs(d, "unlink")
  /\ path' = None
  /\ srv' = [srv EXCEPT ![d] = IF CloseFirst THEN "done" ELSE "close"]
  /\ UNCHANGED <<alive, election, open, clientVars, backlog, cur, servers,
                 stop, joining, queueVars>>

-----------------------------------------------------------------------------
(* release(), take() and the end of a process                              *)

\* relaunch() calls release(): SERVERS is emptied and every flag is set ...
Release(p) ==
  /\ UiIdle(p)
  /\ stop' = stop \cup servers[p]
  /\ servers' = [servers EXCEPT ![p] = {}]
  /\ joining' = joining \cup {p}
  /\ UNCHANGED <<alive, election, path, open, clientVars, backlog, srv, cur,
                 queueVars>>

\* ... and the UI thread waits for the threads it stopped.
Joined(p) ==
  /\ p \in alive \cap joining
  /\ \A d \in CallsOf(p) \cap stop : srv[d] = "done"
  /\ joining' = joining \ {p}
  /\ UNCHANGED <<alive, election, path, open, clientVars, backlog, srv, cur,
                 servers, stop, queueVars>>

\* A frame drains RECEIVED on the UI thread.
Take(p) ==
  /\ UiIdle(p)
  /\ received[p] # <<>>
  /\ taken' = [taken EXCEPT ![p] = @ \o received[p]]
  /\ received' = [received EXCEPT ![p] = <<>>]
  /\ UNCHANGED <<alive, election, path, open, clientVars, backlog, serverVars>>

\* What the kernel leaves of a stream when process p ends.
Severed(stream, caller, p) ==
  [stream EXCEPT !.client = IF caller = p THEN FALSE ELSE @,
                 !.server = IF stream.to \in CallsOf(p) THEN FALSE ELSE @]

\* The process ends, by exit() or a crash, at any step: no destructor runs,
\* so the socket file stays; the kernel closes descriptors and drops the flock.
Die(p) ==
  /\ p \in alive
  /\ alive' = alive \ {p}
  /\ open' = open \ CallsOf(p)
  /\ election' = IF election \in CallsOf(p) THEN None ELSE election
  /\ req' = [c \in Call |->
               IF Owner[c] = p /\ req[c] \notin Finished THEN "dead" ELSE req[c]]
  /\ chan' = [c \in Call |-> Severed(chan[c], Owner[c], p)]
  /\ backlog' = [d \in Call |-> IF Owner[d] = p THEN <<>> ELSE backlog[d]]
  /\ UNCHANGED <<path, serverVars, queueVars>>

-----------------------------------------------------------------------------

Requester(c) ==
  \/ Request(c) \/ RequestFails(c) \/ ElectionLock(c)
  \/ Bind(c) \/ BindOccupied(c) \/ ElectionFails(c)
  \/ Serve(c) \/ ServeFails(c)
  \/ Connect(c) \/ ConnectStale(c) \/ RemoveStale(c)
  \/ WritePayload(c) \/ ReadAcknowledgement(c) \/ WriteReceipt(c)
  \/ HandOverFails(c)

Listener(d) ==
  \/ LoopTop(d) \/ Accept(d) \/ AcceptWouldBlock(d)
  \/ Receive(d) \/ ReceiveFails(d) \/ Push(d)
  \/ WriteAcknowledgement(d) \/ AcknowledgementFails(d) \/ ReadReceipt(d)
  \/ CloseListener(d) \/ UnlinkPath(d)

Process(p) == Release(p) \/ Joined(p) \/ Take(p) \/ Die(p)

Next ==
  \/ \E c \in Call : Requester(c)
  \/ \E d \in Call : Listener(d)
  \/ \E p \in Proc : Process(p)

Spec == Init /\ [][Next]_vars

-----------------------------------------------------------------------------
(* Properties                                                              *)

\* Every variable has its type, and a serving thread has a stream.
TypeOK ==
  /\ alive \subseteq Proc
  /\ election \in Call \cup {None}
  /\ path \in Call \cup {None}
  /\ open \subseteq Call
  /\ req \in [Call -> ReqState]
  /\ chan \in [Call -> Chan]
  /\ backlog \in [Call -> Seq(Call)]
  /\ srv \in [Call -> SrvState]
  /\ cur \in [Call -> Call \cup {None}]
  /\ \A d \in Call : srv[d] \in Serving => cur[d] \in Call
  /\ servers \in [Proc -> SUBSET Call]
  /\ stop \subseteq Call
  /\ joining \subseteq Proc
  /\ received \in [Proc -> Seq(Call)]
  /\ taken \in [Proc -> Seq(Call)]

\* Listener d holds the lock: it was handed to a thread that has not begun to
\* drop it, in a process that still runs.
Holds(d) == d \in open /\ srv[d] \notin {"unlink", "close", "done"}

\* While no dropped listener can unlink a name it has already given up:
\* the path is reclaimed before the descriptor closes, or nothing was released.
DropIsSafe == ~CloseFirst \/ stop = {}

\* Two processes are never primary at once, and a primary can be found: the
\* socket path leads to its listener (request's exclusive bind, and the
\* election that keeps recoveries apart).
ExclusivePrimary ==
  DropIsSafe =>
    \A d \in Call : Holds(d) => path = d /\ \A e \in Call : Holds(e) => e = d

\* The inductive core of ExclusivePrimary.  The election has one winner; a
\* listener exists only past the bind and stops being attached to the path only
\* through its own drop; and a recovery only removes a path nobody listens on.
Attached(d) == d \in open /\ srv[d] \notin {"close", "done"}

ElectionInv ==
  /\ \A c \in Call : req[c] \in Electing => election = c
  /\ \A c \in Call : req[c] = "remove" => path \notin open
  /\ \A c \in Call : req[c] = "serve" => c \in open
  /\ \A c \in Call : req[c] # "primary" => srv[c] = "off"
  /\ \A d \in Call : srv[d] \in {"close", "unlink", "done"} => d \in stop
  /\ ~CloseFirst =>
       \A d \in Call : Owner[d] \in alive /\ srv[d] \notin {"off", "done"} => d \in open
  /\ DropIsSafe => \A d \in Call : Attached(d) => path = d

\* The invocations each process has ever queued, drained or not.
Queued == [p \in Proc |-> {received[p][i] : i \in DOMAIN received[p]}
                            \cup {taken[p][i] : i \in DOMAIN taken[p]}]

\* A second process is only told `false` once the process it connected to has
\* queued its invocation, whatever timeouts, releases or crashes intervene.
AcknowledgedIsQueued ==
  \A c \in Call :
    req[c] \in {"confirm", "secondary"} => c \in Queued[Owner[chan[c].to]]

\* Its inductive core: a stream belongs to one listener from the moment it is
\* connected, only that listener acknowledges it, and only after queueing it.
HandOverInv ==
  /\ \A c \in Call :
       req[c] \in {"idle", "elect"} \cup Electing => chan[c].to = None
  /\ \A c \in Call : chan[c].ack =>
       chan[c].to \in Call /\ c \in Queued[Owner[chan[c].to]]
  /\ \A c \in Call : req[c] \in {"confirm", "secondary"} => chan[c].ack
  /\ \A d \in Call : \A i \in DOMAIN backlog[d] : chan[backlog[d][i]].to = d
  /\ \A d \in Call : srv[d] \in Serving => chan[cur[d]].to = d
  /\ \A d \in Call : srv[d] = "ack" => cur[d] \in Queued[Owner[d]]

\* No invocation reaches a second-instance handler twice, in one process or in
\* two successive owners.
DeliveredOnce ==
  \A p, q \in Proc : \A i \in DOMAIN taken[p], j \in DOMAIN taken[q] :
    taken[p][i] = taken[q][j] => p = q /\ i = j

\* A recovering process never unlinks the endpoint of a listener that is still
\* open: only a listener's own drop removes a path that leads somewhere.
RecoveryKeepsLiveEndpoint ==
  [][\A c \in Call : req[c] = "remove" /\ req'[c] = "rebind" => path \notin open]_vars

\* Refinement: the lock as the application sees it.  Under the reclaim-first
\* order the socket protocol implements InstanceLock step by step.
Lock == INSTANCE InstanceLock
          WITH holder <- {d \in Call : Holds(d)},
               queued <- UNION {Queued[p] : p \in Proc},
               told   <- {c \in Call : req[c] = "secondary"}

ImplementsLock == Lock!Spec

\* ExclusivePrimary without the proviso about released listeners.
AlwaysExclusive ==
  \A d, e \in Call : Holds(d) /\ Holds(e) => d = e

-----------------------------------------------------------------------------
(* Liveness.  A thread that can run does; the deadlines of hand_over() and *)
(* receive() are the failing alternatives of the two disjunctions, so they *)
(* are what fairness lets expire.  Nothing obliges a process to call       *)
(* request(), to release, to draw a frame or to die.                       *)

RequestStep(c) ==
  \/ ElectionLock(c) \/ Bind(c) \/ BindOccupied(c) \/ Serve(c)
  \/ Connect(c) \/ ConnectStale(c) \/ RemoveStale(c)
  \/ WritePayload(c) \/ ReadAcknowledgement(c) \/ WriteReceipt(c)
  \/ HandOverFails(c)

Fairness ==
  /\ \A c \in Call : WF_vars(RequestStep(c)) /\ WF_vars(Listener(c))
  /\ \A p \in Proc : WF_vars(Joined(p))

FairSpec == Spec /\ Fairness

\* The UI thread is never parked in request() for good, whoever crashes while
\* holding the election file or owning the endpoint.
RequestReturns ==
  \A c \in Call : req[c] = "elect" ~> req[c] \in Finished \cup {"dead"}

\* release() joins its listener threads: a silent or vanished peer cannot keep
\* relaunch() waiting.
ReleaseReturns ==
  \A p \in Proc : p \in joining ~> p \notin joining \/ p \notin alive

\* No call of the lock parks the UI thread for good.
CallsReturn == RequestReturns /\ ReleaseReturns

\* What a second process is promised: its call comes back, and what it handed over is
\* heard once, by one owner, through crashes, releases and calls made again.
InvocationsAreServed == []DeliveredOnce /\ CallsReturn

=============================================================================
