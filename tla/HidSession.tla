----------------------------- MODULE HidSession -----------------------------
(***************************************************************************)
(* Raw HID sessions of blitsen-host: the JavaScript handles and command    *)
(* channel of the document (dom_bridge/bootstrap/native.js), the request   *)
(* and message queues of the bridge (dom_bridge/hid.rs), the controller on *)
(* the UI thread (native_window/hid.rs, session.rs) and one worker thread  *)
(* per open device.                                                        *)
(*                                                                         *)
(* An Open is one call of hid.open(); it names the promise, the handle it  *)
(* resolves to and, once the host has the device, the worker.  A Transfer  *)
(* is one write, sendFeatureReport or receiveFeatureReport call on the     *)
(* handle Via[transfer].  JavaScript, the bridge and the controller share  *)
(* the UI thread, whose place in the frame turn is `ui`; workers interleave*)
(* with it at every step.                                                  *)
(***************************************************************************)
EXTENDS Sequences, FiniteSets, Naturals

CONSTANTS
  Device,          \* public device ids
  Open,            \* calls of hid.open()
  DeviceOf,        \* DeviceOf[o]: the device id passed to call o
  Transfer,        \* transfer calls
  Via,             \* Via[t]: the handle transfer t is made on
  None,            \* no opening
  MaxId,           \* bound on command ids
  MaxReports,      \* bound on the input reports one worker reads
  MaxFailures,     \* bound on the reads that fail
  MaxReloads,      \* bound on document reloads that succeed
  MaxFailedReloads \* bound on document reloads that fail to load

ASSUME DeviceOfAssumption == DeviceOf \in [Open -> Device]
ASSUME ViaAssumption == Via \in [Transfer -> Open]
ASSUME NoneAssumption == None \notin Open
ASSUME BoundAssumption ==
  /\ MaxId \in Nat
  /\ MaxReports \in Nat
  /\ MaxFailures \in Nat
  /\ MaxReloads \in Nat
  /\ MaxFailedReloads \in Nat

VARIABLES
             \* The document.
  handle,    \* where each hid.open() promise and its handle stand
  openDevs,  \* hidOpenDevices: the live handle of each device
  reactions, \* resolved opens whose .then(hidDevice) has not run
  awaiting,  \* the command channel's promises, by command id
  xfer,      \* where each transfer promise stands
  heard,     \* input reports delivered to the listeners of each handle
             \* The bridge.
  nextId, requests, messages,
             \* The controller, and the batch the UI thread is working through.
  ui, batch, hostOpen, waiting, inflight, joining,
             \* Device workers and the queue they signal through.
  wk, stop, mailbox, signals, readCount,
             \* History: transfers the device has carried out, reads that failed, reloads.
  performed, failures, reloads, failedReloads

jsVars     == <<handle, openDevs, reactions, awaiting, xfer, heard>>
bridgeVars == <<nextId, requests, messages>>
hostVars   == <<hostOpen, waiting, inflight>>
workerVars == <<wk, stop, mailbox, readCount, performed, failures>>
reloadVars == <<reloads, failedReloads>>

\* What a step of the UI thread leaves to others, and what a worker does.
otherThreads == <<workerVars, signals, reloadVars>>
uiThread     == <<jsVars, bridgeVars, ui, batch, joining, hostVars, reloadVars>>

vars == <<jsVars, bridgeVars, ui, batch, joining, hostVars, workerVars,
          signals, reloadVars>>

-----------------------------------------------------------------------------

Id == 1 .. MaxId

\* A queued command: the id the bridge gave it and the call it stands for.
OpenRequest     == [id : Id, op : {"open"}, of : Open]
CloseRequest    == [id : Id, op : {"close"}, of : Open]
TransferRequest == [id : Id, op : {"transfer"}, of : Transfer]
Request         == OpenRequest \cup CloseRequest \cup TransferRequest

NoRequest == [id |-> 0, op |-> "none", of |-> None]

\* The opening a request is about.
OpeningOf(r) == IF r.op = "transfer" THEN Via[r.of] ELSE r.of

\* Frame-turn messages and worker signals.  `open` is the opening whose worker
\* or handle caused one; the code carries only its device id.
Completion(r, ok) == [type |-> "completion", req |-> r, ok |-> ok]
Input(o, n)       == [type |-> "input", open |-> o, n |-> n]
Disconnected(o)   == [type |-> "disconnected", open |-> o]
Disconnect(o)     == [type |-> "disconnect", open |-> o]

Signal ==
  [type : {"completion"}, req : Request, ok : BOOLEAN] \cup
  [type : {"input"}, open : Open, n : Nat] \cup
  [type : {"disconnected"}, open : Open]

Message ==
  [type : {"completion"}, req : Request, ok : BOOLEAN] \cup
  [type : {"input"}, open : Open, n : Nat] \cup
  [type : {"disconnect"}, open : Open]

HandleState == {"none", "opening", "granted", "live", "ended", "closed",
                "refused", "orphan"}
XferState == {"none", "pending", "resolved", "rejected", "orphan"}
WorkerState == {"none", "drain", "check", "read", "gone"}
UiState == {"js", "settle", "listener", "callbacks", "apply", "poll",
            "resolve", "reload"}

Running(o) == wk[o] \in {"drain", "check", "read"}

\* Application code runs: in a task or microtask between turns, in an event
\* listener, or in the callbacks a frame runs after it has settled.
AppRuns == ui \in {"js", "listener", "callbacks"}

Init ==
  /\ handle = [o \in Open |-> "none"]
  /\ openDevs = [d \in Device |-> None]
  /\ reactions = <<>>
  /\ awaiting = [i \in Id |-> NoRequest]
  /\ xfer = [t \in Transfer |-> "none"]
  /\ heard = [o \in Open |-> <<>>]
  /\ nextId = 1
  /\ requests = <<>>
  /\ messages = <<>>
  /\ ui = "js"
  /\ batch = <<>>
  /\ hostOpen = [d \in Device |-> None]
  /\ waiting = [d \in Device |-> NoRequest]
  /\ inflight = {}
  /\ joining = None
  /\ wk = [o \in Open |-> "none"]
  /\ stop = {}
  /\ mailbox = [o \in Open |-> <<>>]
  /\ signals = <<>>
  /\ readCount = [o \in Open |-> 0]
  /\ performed = {}
  /\ failures = 0
  /\ reloads = 0
  /\ failedReloads = 0

-----------------------------------------------------------------------------
(* The document: nativeHid.open and the members of a handle                *)

\* CommandChannel::request numbers and queues a command; the channel's run()
\* keeps its promise under that id.
RunCommand(op, of) ==
  /\ nextId <= MaxId
  /\ LET r == [id |-> nextId, op |-> op, of |-> of]
     IN /\ requests' = Append(requests, r)
        /\ awaiting' = [awaiting EXCEPT ![nextId] = r]
  /\ nextId' = nextId + 1

\* open() throws while the device has a live handle.
OpenDevice(o) ==
  /\ AppRuns
  /\ handle[o] = "none"
  /\ openDevs[DeviceOf[o]] = None
  /\ RunCommand("open", o)
  /\ handle' = [handle EXCEPT ![o] = "opening"]
  /\ UNCHANGED <<openDevs, reactions, xfer, heard, messages, ui, batch,
                 joining, hostVars, otherThreads>>

\* A transfer throws unless live(): the handle exists and is still opened.
StartTransfer(t) ==
  /\ AppRuns
  /\ xfer[t] = "none"
  /\ handle[Via[t]] = "live"
  /\ RunCommand("transfer", t)
  /\ xfer' = [xfer EXCEPT ![t] = "pending"]
  /\ UNCHANGED <<handle, openDevs, reactions, heard, messages, ui, batch,
                 joining, hostVars, otherThreads>>

\* Closing a handle that is not opened resolves without a command.
CloseHandle(o) ==
  /\ AppRuns
  /\ handle[o] = "live"
  /\ RunCommand("close", o)
  /\ handle' = [handle EXCEPT ![o] = "closed"]
  /\ openDevs' = [openDevs EXCEPT ![DeviceOf[o]] = None]
  /\ UNCHANGED <<reactions, xfer, heard, messages, ui, batch, joining,
                 hostVars, otherThreads>>

\* The microtask .then(opened => hidDevice(id, opened)).
React ==
  /\ ui = "js"
  /\ reactions # <<>>
  /\ LET o == Head(reactions)
     IN /\ handle' = [handle EXCEPT ![o] = "live"]
        /\ openDevs' = [openDevs EXCEPT ![DeviceOf[o]] = o]
  /\ reactions' = Tail(reactions)
  /\ UNCHANGED <<awaiting, xfer, heard, bridgeVars, ui, batch, joining,
                 hostVars, otherThreads>>

-----------------------------------------------------------------------------
(* The frame turn: settleHid                                               *)

\* pump_for delivers a redraw: the frame takes every message there is.
BeginFrame ==
  /\ ui = "js"
  /\ reactions = <<>>
  /\ ui' = "settle"
  /\ batch' = messages
  /\ messages' = <<>>
  /\ UNCHANGED <<jsVars, nextId, requests, joining, hostVars, otherThreads>>

Settling == ui \in {"settle", "listener"}

\* The promise kept under a completion's id, if any, settles as it says.
Settle(r, ok) ==
  /\ handle' = IF r.op # "open" THEN handle
               ELSE [handle EXCEPT ![r.of] = IF ok THEN "granted" ELSE "refused"]
  /\ reactions' = IF r.op = "open" /\ ok THEN Append(reactions, r.of) ELSE reactions
  /\ xfer' = IF r.op # "transfer" THEN xfer
             ELSE [xfer EXCEPT ![r.of] = IF ok THEN "resolved" ELSE "rejected"]

\* Seeded bug: the handle is installed as its open settles, as a process
\* handle is, and not in a later microtask.
SettleInstalls ==
  /\ Settling
  /\ batch # <<>>
  /\ Head(batch).type = "completion"
  /\ LET r == awaiting[Head(batch).req.id]
         opened == r.op = "open" /\ Head(batch).ok
     IN /\ Settle(r, Head(batch).ok)
        /\ openDevs' = IF opened THEN [openDevs EXCEPT ![DeviceOf[r.of]] = r.of]
                       ELSE openDevs
        /\ awaiting' = [awaiting EXCEPT ![Head(batch).req.id] = NoRequest]
  /\ batch' = Tail(batch)
  /\ ui' = "settle"
  /\ UNCHANGED <<heard, bridgeVars, joining, hostVars, otherThreads>>

SettleCompletion ==
  /\ Settling
  /\ batch # <<>>
  /\ Head(batch).type = "completion"
  /\ LET id == Head(batch).req.id
     IN /\ Settle(awaiting[id], Head(batch).ok)
        /\ awaiting' = [awaiting EXCEPT ![id] = NoRequest]
  /\ batch' = Tail(batch)
  /\ ui' = "settle"
  /\ UNCHANGED <<openDevs, heard, bridgeVars, joining, hostVars, otherThreads>>

\* An event for a device without a live handle is dropped.
SettleInput ==
  /\ Settling
  /\ batch # <<>>
  /\ Head(batch).type = "input"
  /\ LET o == openDevs[DeviceOf[Head(batch).open]]
     IN IF o = None
        THEN ui' = "settle" /\ UNCHANGED heard
        ELSE /\ ui' = "listener"
             /\ heard' = [heard EXCEPT ![o] = Append(@, Head(batch))]
  /\ batch' = Tail(batch)
  /\ UNCHANGED <<handle, openDevs, reactions, awaiting, xfer, bridgeVars,
                 joining, hostVars, otherThreads>>

SettleDisconnect ==
  /\ Settling
  /\ batch # <<>>
  /\ Head(batch).type = "disconnect"
  /\ LET d == DeviceOf[Head(batch).open]
         o == openDevs[d]
     IN IF o = None
        THEN ui' = "settle" /\ UNCHANGED <<openDevs, handle>>
        ELSE /\ ui' = "listener"
             /\ openDevs' = [openDevs EXCEPT ![d] = None]
             /\ handle' = [handle EXCEPT ![o] = "ended"]
  /\ batch' = Tail(batch)
  /\ UNCHANGED <<reactions, awaiting, xfer, heard, bridgeVars, joining,
                 hostVars, otherThreads>>

\* The batch is settled; animation-frame callbacks follow.
SettleDone ==
  /\ Settling
  /\ batch = <<>>
  /\ ui' = "callbacks"
  /\ UNCHANGED <<jsVars, bridgeVars, batch, joining, hostVars, otherThreads>>

-----------------------------------------------------------------------------
(* The session: apply_hid_requests                                         *)

\* After the frame, or at once when pump_for delivered no redraw.
BeginApply ==
  /\ ui = "callbacks" \/ (ui = "js" /\ reactions = <<>>)
  /\ ui' = "apply"
  /\ batch' = requests
  /\ requests' = <<>>
  /\ UNCHANGED <<jsVars, nextId, messages, joining, hostVars, otherThreads>>

Applying(op) ==
  /\ ui = "apply"
  /\ joining = None
  /\ batch # <<>>
  /\ Head(batch).op = op

Answer(r, ok) == messages' = Append(messages, Completion(r, ok))

\* start(): the backend hands over a device and its worker is spawned.
Start(o) ==
  /\ hostOpen' = [hostOpen EXCEPT ![DeviceOf[o]] = o]
  /\ wk' = [wk EXCEPT ![o] = "drain"]

ApplyOpenRefused ==
  /\ Applying("open")
  /\ Answer(Head(batch), FALSE)
  /\ batch' = Tail(batch)
  /\ UNCHANGED <<jsVars, nextId, requests, ui, joining, hostVars,
                 otherThreads>>

\* Seeded bug: an open device can be opened again.
FreeUnlessWaiting(d) == waiting[d] = NoRequest

\* The device is neither open nor waiting for permission here.
Free(d) == hostOpen[d] = None /\ waiting[d] = NoRequest

ApplyOpenGranted ==
  /\ Applying("open")
  /\ Free(DeviceOf[Head(batch).of])
  /\ Start(Head(batch).of)
  /\ Answer(Head(batch), TRUE)
  /\ batch' = Tail(batch)
  /\ UNCHANGED <<jsVars, nextId, requests, ui, joining, waiting, inflight,
                 stop, mailbox, readCount, performed, failures, signals,
                 reloadVars>>

\* Ok(None): the platform is asking a person; the command id is kept.
ApplyOpenWaits ==
  /\ Applying("open")
  /\ Free(DeviceOf[Head(batch).of])
  /\ waiting' = [waiting EXCEPT ![DeviceOf[Head(batch).of]] = Head(batch)]
  /\ batch' = Tail(batch)
  /\ UNCHANGED <<jsVars, bridgeVars, ui, joining, hostOpen, inflight,
                 otherThreads>>

\* The device is open and its worker still holds the receiving end.
Reachable(d) == hostOpen[d] # None /\ wk[hostOpen[d]] # "gone"

\* Seeded bug: the transfer is answered when it is queued.
ApplyTransferAnswered ==
  /\ Applying("transfer")
  /\ Reachable(DeviceOf[Via[Head(batch).of]])
  /\ mailbox' = [mailbox EXCEPT ![hostOpen[DeviceOf[Via[Head(batch).of]]]] =
                                Append(@, Head(batch))]
  /\ Answer(Head(batch), TRUE)
  /\ batch' = Tail(batch)
  /\ UNCHANGED <<jsVars, nextId, requests, ui, joining, hostVars, wk, stop,
                 readCount, performed, failures, signals, reloadVars>>

\* queue(): the transfer goes to the worker's mailbox and is recorded.
ApplyTransfer ==
  /\ Applying("transfer")
  /\ Reachable(DeviceOf[Via[Head(batch).of]])
  /\ mailbox' = [mailbox EXCEPT ![hostOpen[DeviceOf[Via[Head(batch).of]]]] =
                                Append(@, Head(batch))]
  /\ inflight' = inflight \cup {Head(batch)}
  /\ batch' = Tail(batch)
  /\ UNCHANGED <<jsVars, bridgeVars, ui, joining, hostOpen, waiting, wk,
                 stop, readCount, performed, failures, signals, reloadVars>>

\* The device is not open, or its worker has returned.  (The handle checked
\* the length of the report against the same bounds.)
ApplyTransferRefused ==
  /\ Applying("transfer")
  /\ ~Reachable(DeviceOf[Via[Head(batch).of]])
  /\ Answer(Head(batch), FALSE)
  /\ batch' = Tail(batch)
  /\ UNCHANGED <<jsVars, nextId, requests, ui, joining, hostVars,
                 otherThreads>>

ApplyCloseNotOpen ==
  /\ Applying("close")
  /\ hostOpen[DeviceOf[Head(batch).of]] = None
  /\ Answer(Head(batch), FALSE)
  /\ batch' = Tail(batch)
  /\ UNCHANGED <<jsVars, nextId, requests, ui, joining, hostVars,
                 otherThreads>>

\* shutdown() up to the join: the device leaves the table, its worker is told
\* to stop.
BeginShutdown(o) ==
  /\ hostOpen' = [hostOpen EXCEPT ![DeviceOf[o]] = None]
  /\ stop' = stop \cup {o}
  /\ joining' = o

ApplyClose ==
  /\ Applying("close")
  /\ hostOpen[DeviceOf[Head(batch).of]] # None
  /\ BeginShutdown(hostOpen[DeviceOf[Head(batch).of]])
  /\ UNCHANGED <<jsVars, bridgeVars, ui, batch, waiting, inflight, wk,
                 mailbox, readCount, performed, failures, signals, reloadVars>>

\* The worker is joined; every command the device still owes is failed.
Owed(d) == {r \in inflight : DeviceOf[OpeningOf(r)] = d}

Joined(o) == joining = o /\ wk[o] = "gone"

Abandon(r) ==
  /\ joining # None
  /\ Joined(joining)
  /\ r \in Owed(DeviceOf[joining])
  /\ inflight' = inflight \ {r}
  /\ Answer(r, FALSE)
  /\ UNCHANGED <<jsVars, nextId, requests, ui, batch, joining, hostOpen,
                 waiting, otherThreads>>

\* shutdown() returns to its caller, which pushes its own message.
EndShutdown(caller) ==
  /\ ui = caller
  /\ joining # None
  /\ Joined(joining)
  /\ Owed(DeviceOf[joining]) = {}
  /\ joining' = None

CloseDone ==
  /\ EndShutdown("apply")
  /\ Answer(Head(batch), TRUE)
  /\ batch' = Tail(batch)
  /\ UNCHANGED <<jsVars, nextId, requests, ui, hostVars, otherThreads>>

-----------------------------------------------------------------------------
(* HidController::poll                                                     *)

BeginPoll ==
  /\ ui = "apply"
  /\ joining = None
  /\ batch = <<>>
  /\ ui' = "poll"
  /\ batch' = signals
  /\ signals' = <<>>
  /\ UNCHANGED <<jsVars, bridgeVars, joining, hostVars, workerVars,
                 reloadVars>>

Polling(type) ==
  /\ ui = "poll"
  /\ joining = None
  /\ batch # <<>>
  /\ Head(batch).type = type

PollInput ==
  /\ Polling("input")
  /\ messages' = IF hostOpen[DeviceOf[Head(batch).open]] = None THEN messages
                 ELSE Append(messages, Head(batch))
  /\ batch' = Tail(batch)
  /\ UNCHANGED <<jsVars, nextId, requests, ui, joining, hostVars,
                 otherThreads>>

PollCompletion ==
  /\ Polling("completion")
  /\ inflight' = {r \in inflight : r.id # Head(batch).req.id}
  /\ messages' = Append(messages, Head(batch))
  /\ batch' = Tail(batch)
  /\ UNCHANGED <<jsVars, nextId, requests, ui, joining, hostOpen, waiting,
                 otherThreads>>

PollDisconnectedClosed ==
  /\ Polling("disconnected")
  /\ hostOpen[DeviceOf[Head(batch).open]] = None
  /\ batch' = Tail(batch)
  /\ UNCHANGED <<jsVars, bridgeVars, ui, joining, hostVars, otherThreads>>

\* Whichever opening has the device now is shut down, even one that was
\* started after the worker that failed had been closed.
PollDisconnected ==
  /\ Polling("disconnected")
  /\ hostOpen[DeviceOf[Head(batch).open]] # None
  /\ BeginShutdown(hostOpen[DeviceOf[Head(batch).open]])
  /\ UNCHANGED <<jsVars, bridgeVars, ui, batch, waiting, inflight, wk,
                 mailbox, readCount, performed, failures, signals, reloadVars>>

DisconnectDone ==
  /\ EndShutdown("poll")
  /\ messages' = Append(messages, Disconnect(joining))
  /\ batch' = Tail(batch)
  /\ UNCHANGED <<jsVars, nextId, requests, ui, hostVars, otherThreads>>

BeginResolve ==
  /\ ui = "poll"
  /\ joining = None
  /\ batch = <<>>
  /\ ui' = "resolve"
  /\ UNCHANGED <<jsVars, bridgeVars, batch, joining, hostVars, otherThreads>>

\* resolve_pending(): the backend has an answer for a waiting open.
ResolveGranted(d) ==
  /\ ui = "resolve"
  /\ waiting[d] # NoRequest
  /\ Start(waiting[d].of)
  /\ Answer(waiting[d], TRUE)
  /\ waiting' = [waiting EXCEPT ![d] = NoRequest]
  /\ UNCHANGED <<jsVars, nextId, requests, ui, batch, joining, inflight,
                 stop, mailbox, readCount, performed, failures, signals,
                 reloadVars>>

ResolveRefused(d) ==
  /\ ui = "resolve"
  /\ waiting[d] # NoRequest
  /\ Answer(waiting[d], FALSE)
  /\ waiting' = [waiting EXCEPT ![d] = NoRequest]
  /\ UNCHANGED <<jsVars, nextId, requests, ui, batch, joining, hostOpen,
                 inflight, otherThreads>>

\* pump_for returns to Bun's event loop.
EndPump ==
  /\ ui = "resolve"
  /\ ui' = "js"
  /\ UNCHANGED <<jsVars, bridgeVars, batch, joining, hostVars, otherThreads>>

-----------------------------------------------------------------------------
(* The worker thread of opening o                                          *)

Emit(signal) == signals' = Append(signals, signal)

\* A command leaves the mailbox and the platform carries it out, or fails it.
WorkerCommand(o, ok) ==
  /\ wk[o] = "drain"
  /\ mailbox[o] # <<>>
  /\ Emit(Completion(Head(mailbox[o]), ok))
  /\ performed' = IF ok THEN performed \cup {Head(mailbox[o]).of} ELSE performed
  /\ mailbox' = [mailbox EXCEPT ![o] = Tail(@)]
  /\ UNCHANGED <<wk, stop, readCount, failures, uiThread>>

WorkerIdle(o) ==
  /\ wk[o] = "drain"
  /\ mailbox[o] = <<>>
  /\ wk' = [wk EXCEPT ![o] = "check"]
  /\ UNCHANGED <<stop, mailbox, readCount, performed, failures, signals,
                 uiThread>>

\* Returning drops the receiver, and whatever the mailbox still held.
WorkerReturns(o) ==
  /\ wk' = [wk EXCEPT ![o] = "gone"]
  /\ mailbox' = [mailbox EXCEPT ![o] = <<>>]

WorkerStops(o) ==
  /\ wk[o] = "check"
  /\ o \in stop
  /\ WorkerReturns(o)
  /\ UNCHANGED <<stop, readCount, performed, failures, signals, uiThread>>

\* Seeded bug: the loop goes on reading whatever the stop flag says.
WorkerReadsOn(o) ==
  /\ wk[o] = "check"
  /\ wk' = [wk EXCEPT ![o] = "read"]
  /\ UNCHANGED <<stop, mailbox, readCount, performed, failures, signals,
                 uiThread>>

WorkerReads(o) ==
  /\ wk[o] = "check"
  /\ o \notin stop
  /\ wk' = [wk EXCEPT ![o] = "read"]
  /\ UNCHANGED <<stop, mailbox, readCount, performed, failures, signals,
                 uiThread>>

ReadTimeout(o) ==
  /\ wk[o] = "read"
  /\ wk' = [wk EXCEPT ![o] = "drain"]
  /\ UNCHANGED <<stop, mailbox, readCount, performed, failures, signals,
                 uiThread>>

ReadReport(o) ==
  /\ wk[o] = "read"
  /\ readCount[o] < MaxReports
  /\ readCount' = [readCount EXCEPT ![o] = @ + 1]
  /\ Emit(Input(o, readCount[o] + 1))
  /\ wk' = [wk EXCEPT ![o] = "drain"]
  /\ UNCHANGED <<stop, mailbox, performed, failures, uiThread>>

ReadFails(o) ==
  /\ wk[o] = "read"
  /\ failures < MaxFailures
  /\ failures' = failures + 1
  /\ Emit(Disconnected(o))
  /\ WorkerReturns(o)
  /\ UNCHANGED <<stop, readCount, performed, uiThread>>

-----------------------------------------------------------------------------
(* WindowSession::reload                                                   *)

\* The controller is replaced: dropping the old one shuts every device down.
BeginReload ==
  /\ ui = "js"
  /\ reactions = <<>>
  /\ reloads < MaxReloads \/ failedReloads < MaxFailedReloads
  /\ ui' = "reload"
  /\ UNCHANGED <<jsVars, bridgeVars, batch, joining, hostVars, otherThreads>>

ReloadShutdown(d) ==
  /\ ui = "reload"
  /\ joining = None
  /\ hostOpen[d] # None
  /\ BeginShutdown(hostOpen[d])
  /\ UNCHANGED <<jsVars, bridgeVars, ui, batch, waiting, inflight, wk,
                 mailbox, readCount, performed, failures, signals, reloadVars>>

ReloadJoined ==
  /\ EndShutdown("reload")
  /\ UNCHANGED <<jsVars, bridgeVars, ui, batch, hostVars, otherThreads>>

\* Seeded bug: the command channel is reset before the old controller is
\* dropped, so the messages of its shutdown survive.
ResetKeepsMessages ==
  /\ ui = "reload"
  /\ joining = None
  /\ \A d \in Device : hostOpen[d] = None
  /\ waiting' = [d \in Device |-> NoRequest]
  /\ inflight' = {}
  /\ signals' = <<>>
  /\ nextId' = 1
  /\ requests' = <<>>
  /\ ui' = "js"
  /\ UNCHANGED messages

\* hid::reset(), after the old controller is gone.  Its signals, waiting opens
\* and in-flight table went with it.
Reset ==
  /\ ui = "reload"
  /\ joining = None
  /\ \A d \in Device : hostOpen[d] = None
  /\ waiting' = [d \in Device |-> NoRequest]
  /\ inflight' = {}
  /\ signals' = <<>>
  /\ nextId' = 1
  /\ requests' = <<>>
  /\ messages' = <<>>
  /\ ui' = "js"

\* The bootstrap runs again: the new document has no promise and no handle,
\* and nothing it runs reaches the ones of the old document.
Reload ==
  /\ Reset
  /\ reloads < MaxReloads
  /\ reloads' = reloads + 1
  /\ handle' = [o \in Open |-> IF handle[o] = "none" THEN "none" ELSE "orphan"]
  /\ xfer' = [t \in Transfer |-> IF xfer[t] = "none" THEN "none" ELSE "orphan"]
  /\ openDevs' = [d \in Device |-> None]
  /\ awaiting' = [i \in Id |-> NoRequest]
  /\ UNCHANGED <<reactions, heard, batch, joining, hostOpen, workerVars,
                 failedReloads>>

\* The entrypoint cannot be read: reload() returns its error, and the frame
\* loop goes on with the old document.
ReloadFails ==
  /\ Reset
  /\ failedReloads < MaxFailedReloads
  /\ failedReloads' = failedReloads + 1
  /\ UNCHANGED <<jsVars, batch, joining, hostOpen, workerVars, reloads>>

-----------------------------------------------------------------------------

App ==
  \/ \E o \in Open : OpenDevice(o) \/ CloseHandle(o)
  \/ \E t \in Transfer : StartTransfer(t)

Frame == SettleCompletion \/ SettleInput \/ SettleDisconnect \/ SettleDone

Apply ==
  \/ BeginApply
  \/ ApplyOpenRefused
  \/ ApplyOpenGranted
  \/ ApplyOpenWaits
  \/ ApplyTransfer
  \/ ApplyTransferRefused
  \/ ApplyCloseNotOpen
  \/ ApplyClose
  \/ CloseDone

Poll ==
  \/ BeginPoll
  \/ PollInput
  \/ PollCompletion
  \/ PollDisconnectedClosed
  \/ PollDisconnected
  \/ DisconnectDone
  \/ BeginResolve
  \/ \E d \in Device : ResolveGranted(d) \/ ResolveRefused(d)
  \/ EndPump

Worker(o) ==
  \/ \E ok \in BOOLEAN : WorkerCommand(o, ok)
  \/ WorkerIdle(o)
  \/ WorkerStops(o)
  \/ WorkerReads(o)
  \/ ReadTimeout(o)
  \/ ReadReport(o)
  \/ ReadFails(o)

Reloading ==
  \/ \E d \in Device : ReloadShutdown(d)
  \/ ReloadJoined
  \/ Reload
  \/ ReloadFails

\* Everything the UI thread does of its own accord.
Turn ==
  \/ React
  \/ BeginFrame
  \/ Frame
  \/ Apply
  \/ Poll
  \/ Reloading
  \/ \E r \in inflight : Abandon(r)

Next ==
  \/ App
  \/ Turn
  \/ BeginReload
  \/ \E o \in Open : Worker(o)

Spec == Init /\ [][Next]_vars

\* The CLI pumps the window for as long as it is open, the worker threads are
\* scheduled and the platform's reads and transfers return.  A redraw that was
\* requested is delivered at some later pump.  Applications, people answering
\* permission dialogs and reloads owe nothing.
FairSpec ==
  /\ Spec
  /\ WF_vars(Turn)
  /\ SF_vars(BeginFrame)
  /\ \A o \in Open : WF_vars(Worker(o))

-----------------------------------------------------------------------------
(* Properties                                                              *)

\* Every variable keeps its type; the items of a batch are those of the queue
\* the UI thread took it from, and while it joins a worker it still holds the
\* item that made it.
TypeOK ==
  /\ handle \in [Open -> HandleState]
  /\ openDevs \in [Device -> Open \cup {None}]
  /\ reactions \in Seq(Open)
  /\ awaiting \in [Id -> Request \cup {NoRequest}]
  /\ xfer \in [Transfer -> XferState]
  /\ heard \in [Open -> Seq([type : {"input"}, open : Open, n : Nat])]
  /\ nextId \in 1 .. MaxId + 1
  /\ requests \in Seq(Request)
  /\ messages \in Seq(Message)
  /\ ui \in UiState
  /\ ui = "apply" => batch \in Seq(Request)
  /\ ui = "poll" => batch \in Seq(Signal)
  /\ ui \notin {"apply", "poll"} => batch \in Seq(Message)
  /\ joining # None => ui = "reload" \/ (ui \in {"apply", "poll"} /\ batch # <<>>)
  /\ hostOpen \in [Device -> Open \cup {None}]
  /\ waiting \in [Device -> OpenRequest \cup {NoRequest}]
  /\ inflight \subseteq TransferRequest
  /\ joining \in Open \cup {None}
  /\ wk \in [Open -> WorkerState]
  /\ stop \subseteq Open
  /\ mailbox \in [Open -> Seq(TransferRequest)]
  /\ signals \in Seq(Signal)
  /\ readCount \in [Open -> Nat]
  /\ performed \subseteq Transfer
  /\ <<failures, reloads, failedReloads>> \in Nat \X Nat \X Nat

\* A HID handle is owned by one thread: whatever opens, closes, disconnects
\* and reloads interleave, a device never has two workers (hid.rs: the join
\* in shutdown(), before the device can be opened again).
OneWorker ==
  \A o, p \in Open :
    Running(o) /\ Running(p) /\ DeviceOf[o] = DeviceOf[p] => o = p

\* Its inductive core: a worker runs for the opening that has the device, or
\* for the one being joined, and a device is only given away while free.
WorkerInv ==
  /\ \A o \in Open : Running(o) => hostOpen[DeviceOf[o]] = o \/ joining = o
  /\ \A d \in Device : hostOpen[d] # None =>
       DeviceOf[hostOpen[d]] = d /\ wk[hostOpen[d]] # "none"
  /\ joining # None => hostOpen[DeviceOf[joining]] = None
  /\ \A d \in Device : waiting[d] # NoRequest =>
       /\ hostOpen[d] = None
       /\ waiting[d].op = "open"
       /\ DeviceOf[waiting[d].of] = d

ItemsOf(s) == {s[i] : i \in DOMAIN s}

\* Every completion on its way to the document.
Answers ==
  {m \in ItemsOf(messages) \cup ItemsOf(signals) \cup
         (IF ui = "apply" THEN {} ELSE ItemsOf(batch)) : m.type = "completion"}

\* A promise is settled by the answer to its own command only.  Ids restart at
\* one on every reload while workers still owe answers, so no completion of
\* the old document may survive into the new one's numbering
\* (command_channel.rs: reset; session.rs: the order of drop and reset).
OwnAnswer ==
  \A m \in Answers : awaiting[m.req.id] \in {NoRequest, m.req}

\* Requests with an id given since the last reset, under which nobody else's
\* promise is kept; and the traffic that speaks of no other request.
Numbered        == {r \in Request : r.id < nextId /\ awaiting[r.id] \in {NoRequest, r}}
NumberedSignal  == {m \in Signal : m.type = "completion" => m.req \in Numbered}
NumberedMessage == {m \in Message : m.type = "completion" => m.req \in Numbered}

\* Its inductive core: every request that may still be answered is Numbered.
ChannelInv ==
  /\ requests \in Seq(Numbered)
  /\ ui = "apply" => batch \in Seq(Numbered)
  /\ ui = "poll" => batch \in Seq(NumberedSignal)
  /\ ui \notin {"apply", "poll"} => batch \in Seq(NumberedMessage)
  /\ ui \in {"js", "callbacks", "resolve", "reload"} => batch = <<>>
  /\ messages \in Seq(NumberedMessage)
  /\ signals \in Seq(NumberedSignal)
  /\ inflight \subseteq Numbered
  /\ \A d \in Device : waiting[d] \in Numbered \cup {NoRequest}
  /\ mailbox \in [Open -> Seq(Numbered)]
  /\ \A o \in Open : mailbox[o] # <<>> => Running(o)

\* A transfer promise that resolved was carried out by the device.
ResolvedWasPerformed ==
  \A t \in Transfer : xfer[t] = "resolved" => t \in performed

\* A listener hears the reports of its own handle, in the order they were read
\* and with none missing in between, although the messages carry device ids
\* and a device id is opened again and again.  (A handle whose disconnect was
\* lost, which takes a read that failed, also hears its successor's reports.)
HeardInOrder ==
  failures = 0 =>
    \A o \in Open : \A i \in DOMAIN heard[o] :
      /\ heard[o][i].open = o
      /\ i > 1 => heard[o][i].n = heard[o][i - 1].n + 1

\* The disconnect of opening o is on its way to the document.
DisconnectQueued(o) ==
  \E m \in ItemsOf(messages) \cup (IF ui = "settle" THEN ItemsOf(batch) ELSE {}) :
    m.type = "disconnect" /\ m.open = o

\* A handle that says it is opened has its device open in the host, unless the
\* event that will say otherwise is on its way (native.js: hidDevice against
\* hid.rs: the open table).
HandleIsBacked ==
  \A o \in Open :
    handle[o] = "live" /\ ui # "reload" =>
      hostOpen[DeviceOf[o]] = o \/ joining = o \/ DisconnectQueued(o)

\* The same until a read or a reload fails, through every close, reopening and
\* reload; each of the two failures alone can leave a handle behind.
BackedUntilFailure == failures = 0 /\ failedReloads = 0 => HandleIsBacked

\* What a document is told of its devices is so: a transfer that resolved was
\* carried out, reports are a handle's own and in order, and a live handle has
\* its device.
WhatIsHeardIsTrue == ResolvedWasPerformed /\ HeardInOrder /\ BackedUntilFailure

\* Every transfer promise settles, or its document goes away (hid.rs:660: one
\* that never settled would keep the frame loop awake for ever).
TransferSettles ==
  \A t \in Transfer : (xfer[t] = "pending") ~> (xfer[t] # "pending")

\* Every open settles unless a person is being asked about it.
OpenSettles ==
  \A o \in Open :
    (handle[o] = "opening") ~>
      (handle[o] # "opening" \/ waiting[DeviceOf[o]].of = o)

\* The UI thread never waits for a worker for good.
JoinReturns == (joining # None) ~> (joining = None)

\* Whatever is closed or fails, nothing is left waiting: neither a promise nor the
\* UI thread.
CommandsSettle == TransferSettles /\ OpenSettles /\ JoinReturns

=============================================================================
