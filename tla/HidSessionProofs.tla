-------------------------- MODULE HidSessionProofs --------------------------
(***************************************************************************)
(* Proofs about HidSession, for every set of devices, openings, transfers  *)
(* and every bound.                                                        *)
(***************************************************************************)
EXTENDS HidSession, SequenceTheorems, TLAPS

(***************************************************************************)
(* Type correctness.                                                       *)
(***************************************************************************)

\* What a request is about, and that no request is mistaken for its absence.
LEMMA RequestFacts ==
  ASSUME NEW r \in Request
  PROVE  /\ r # NoRequest
         /\ r.id \in Id
         /\ r.op \in {"open", "close", "transfer"}
         /\ r.op \in {"open", "close"} => r.of \in Open
         /\ r.op = "transfer" => r.of \in Transfer
         /\ r.op = "open" => r \in OpenRequest
         /\ r.op = "transfer" => r \in TransferRequest
BY DEF Request, OpenRequest, CloseRequest, TransferRequest, NoRequest

\* A request made from its parts is a request.
LEMMA RequestMade ==
  ASSUME NEW i \in Id
  PROVE  /\ \A o \in Open : [id |-> i, op |-> "open", of |-> o] \in Request
         /\ \A o \in Open : [id |-> i, op |-> "close", of |-> o] \in Request
         /\ \A t \in Transfer : [id |-> i, op |-> "transfer", of |-> t] \in Request
BY DEF Request, OpenRequest, CloseRequest, TransferRequest

\* What the queues between the threads may hold.
LEMMA SignalFacts ==
  ASSUME NEW s \in Signal
  PROVE  /\ s.type = "completion" => s \in Message /\ s.req \in Request /\ s.ok \in BOOLEAN
         /\ s.type = "input" => s \in Message /\ s.open \in Open
         /\ s.type = "disconnected" => s.open \in Open
BY DEF Signal, Message

\* What a message to the document holds.
LEMMA MessageFacts ==
  ASSUME NEW s \in Message
  PROVE  /\ s.type = "completion" => s.req \in Request /\ s.ok \in BOOLEAN
         /\ s.type = "input" => s.open \in Open /\ s \in [type : {"input"}, open : Open, n : Nat]
         /\ s.type = "disconnect" => s.open \in Open
BY DEF Message

\* An answer or an event made from its parts is a message.
LEMMA MessageMade ==
  /\ \A r \in Request, ok \in BOOLEAN :
       Completion(r, ok) \in Message /\ Completion(r, ok) \in Signal
  /\ \A o \in Open, n \in Nat : Input(o, n) \in Signal
  /\ \A o \in Open : Disconnected(o) \in Signal /\ Disconnect(o) \in Message
BY DEF Completion, Input, Disconnected, Disconnect, Message, Signal

\* A session starts well typed.
LEMMA InitTypeOK == Init => TypeOK
BY BoundAssumption DEF Init, TypeOK, HandleState, XferState, WorkerState, UiState

\* Calls of the document keep the types.
LEMMA AppTypeOK ==
  ASSUME TypeOK, App
  PROVE  TypeOK'
<1> USE DEF TypeOK, HandleState, XferState, otherThreads, hostVars, workerVars,
            reloadVars, AppRuns
<1>1. ASSUME NEW op \in {"open", "close", "transfer"}, NEW of, RunCommand(op, of),
             nextId \in Id => [id |-> nextId, op |-> op, of |-> of] \in Request
      PROVE  /\ requests' \in Seq(Request)
             /\ awaiting' \in [Id -> Request \cup {NoRequest}]
             /\ nextId' \in 1 .. MaxId + 1
  <2>1. nextId \in Id
    BY <1>1, BoundAssumption DEF RunCommand, Id
  <2> DEFINE r == [id |-> nextId, op |-> op, of |-> of]
  <2>2. r \in Request
    BY <1>1, <2>1
  <2>3. requests' = Append(requests, r) /\ awaiting' = [awaiting EXCEPT ![nextId] = r]
    BY <1>1 DEF RunCommand
  <2> HIDE DEF r
  <2>4. requests' \in Seq(Request)
    BY <2>2, <2>3
  <2>5. awaiting' \in [Id -> Request \cup {NoRequest}]
    BY <2>1, <2>2, <2>3
  <2>6. nextId' \in 1 .. MaxId + 1
    BY <1>1, BoundAssumption DEF RunCommand
  <2> QED
    BY <2>4, <2>5, <2>6
<1>2. ASSUME NEW o \in Open, OpenDevice(o) PROVE TypeOK'
  BY <1>2, RequestMade, <1>1 DEF OpenDevice
<1>3. ASSUME NEW o \in Open, CloseHandle(o) PROVE TypeOK'
  BY <1>3, RequestMade, <1>1, DeviceOfAssumption DEF CloseHandle
<1>4. ASSUME NEW t \in Transfer, StartTransfer(t) PROVE TypeOK'
  BY <1>4, RequestMade, <1>1 DEF StartTransfer
<1> QED
  BY <1>2, <1>3, <1>4 DEF App

\* The frame turn, which drains the messages, keeps the types.
LEMMA FrameTypeOK ==
  ASSUME TypeOK, React \/ BeginFrame \/ Frame
  PROVE  TypeOK'
<1> USE DEF TypeOK, HandleState, XferState, UiState, otherThreads, hostVars,
            workerVars, reloadVars, bridgeVars, jsVars, Settling
<1>1. CASE React
  <2>1. Head(reactions) \in Open /\ Tail(reactions) \in Seq(Open)
    BY <1>1 DEF React
  <2> QED
    BY <1>1, <2>1, DeviceOfAssumption DEF React
<1>2. CASE BeginFrame
  <2>1. batch' \in Seq(Message) /\ messages' \in Seq(Message) /\ ui' = "settle"
    BY <1>2 DEF BeginFrame
  <2> QED
    BY <1>2, <2>1 DEF BeginFrame
<1>3. CASE SettleCompletion
  <2>1. batch \in Seq(Message)
    BY <1>3 DEF SettleCompletion
  <2>2. /\ Head(batch).req \in Request /\ Head(batch).ok \in BOOLEAN
        /\ Tail(batch) \in Seq(Message)
    BY <1>3, <2>1, MessageFacts DEF SettleCompletion
  <2>3. Head(batch).req.id \in Id
    BY <2>2, RequestFacts
  <2> DEFINE r == awaiting[Head(batch).req.id]
  <2>4. r \in Request \cup {NoRequest}
    BY <2>3
  <2>5. /\ r.op = "open" => r.of \in Open
        /\ r.op = "transfer" => r.of \in Transfer
    BY <2>4, RequestFacts DEF NoRequest
  <2>6. Settle(r, Head(batch).ok)
    BY <1>3 DEF SettleCompletion
  <2> HIDE DEF r
  <2>7. /\ handle' \in [Open -> HandleState]
        /\ reactions' \in Seq(Open)
        /\ xfer' \in [Transfer -> XferState]
    BY <2>5, <2>6 DEF Settle
  <2>8. awaiting' \in [Id -> Request \cup {NoRequest}]
    BY <1>3, <2>3 DEF SettleCompletion
  <2> QED
    BY <1>3, <2>2, <2>7, <2>8 DEF SettleCompletion
<1>4. CASE SettleInput
  <2>1. batch \in Seq(Message)
    BY <1>4 DEF SettleInput
  <2>2. /\ Head(batch).open \in Open /\ Tail(batch) \in Seq(Message)
        /\ Head(batch) \in [type : {"input"}, open : Open, n : Nat]
    BY <1>4, <2>1, MessageFacts DEF SettleInput
  <2>3. openDevs[DeviceOf[Head(batch).open]] \in Open \cup {None}
    BY <2>2, DeviceOfAssumption
  <2> DEFINE o == openDevs[DeviceOf[Head(batch).open]]
             R == [type : {"input"}, open : Open, n : Nat]
  <2>4. heard' = heard \/ (o # None /\ heard' = [heard EXCEPT ![o] = Append(@, Head(batch))])
    BY <1>4 DEF SettleInput
  <2>5. heard' \in [Open -> Seq(R)] /\ ui' \in UiState /\ ui' \in {"settle", "listener"}
    <3>1. o \in Open \cup {None} /\ Head(batch) \in R /\ heard \in [Open -> Seq(R)]
      BY <2>2, <2>3
    <3>2. ui' \in {"settle", "listener"}
      BY <1>4 DEF SettleInput
    <3> HIDE DEF o, R
    <3>3. CASE o # None /\ heard' = [heard EXCEPT ![o] = Append(@, Head(batch))]
      BY <3>1, <3>2, <3>3
    <3> QED
      BY <2>4, <3>1, <3>2, <3>3
  <2> QED
    BY <1>4, <2>2, <2>5 DEF SettleInput
<1>5. CASE SettleDisconnect
  <2>1. batch \in Seq(Message)
    BY <1>5 DEF SettleDisconnect
  <2>2. Head(batch).open \in Open /\ Tail(batch) \in Seq(Message)
    BY <1>5, <2>1, MessageFacts DEF SettleDisconnect
  <2>3. /\ DeviceOf[Head(batch).open] \in Device
        /\ openDevs[DeviceOf[Head(batch).open]] \in Open \cup {None}
    BY <2>2, DeviceOfAssumption
  <2> QED
    BY <1>5, <2>2, <2>3 DEF SettleDisconnect
<1>6. CASE SettleDone
  BY <1>6 DEF SettleDone
<1> QED
  BY <1>1, <1>2, <1>3, <1>4, <1>5, <1>6 DEF Frame

\* The step adds an answer to the message queue.
LEMMA AnswerType ==
  ASSUME TypeOK, NEW r \in Request, NEW ok \in BOOLEAN, Answer(r, ok)
  PROVE  messages' \in Seq(Message)
<1>1. Completion(r, ok) \in Message
  BY MessageMade
<1> QED
  BY <1>1 DEF Answer, TypeOK

\* What the head of a batch of requests is.
LEMMA ApplyingFacts ==
  ASSUME TypeOK, NEW op, Applying(op)
  PROVE  /\ ui = "apply" /\ joining = None
         /\ Head(batch) \in Request /\ Head(batch).op = op
         /\ Tail(batch) \in Seq(Request)
         /\ DeviceOf[OpeningOf(Head(batch))] \in Device
         /\ op # "transfer" => OpeningOf(Head(batch)) = Head(batch).of
         /\ op # "transfer" => Head(batch).of \in Open /\ DeviceOf[Head(batch).of] \in Device
         /\ op = "transfer" => OpeningOf(Head(batch)) = Via[Head(batch).of]
         /\ op = "open" => Head(batch) \in OpenRequest
         /\ op = "transfer" => Head(batch) \in TransferRequest
<1>1. ui = "apply" /\ joining = None /\ batch \in Seq(Request) /\ batch # <<>>
  BY DEF Applying, TypeOK
<1>2. Head(batch) \in Request /\ Tail(batch) \in Seq(Request) /\ Head(batch).op = op
  BY <1>1 DEF Applying
<1>3. /\ op # "transfer" => Head(batch).of \in Open
      /\ op = "transfer" => Head(batch).of \in Transfer
      /\ op = "open" => Head(batch) \in OpenRequest
      /\ op = "transfer" => Head(batch) \in TransferRequest
  BY <1>2, RequestFacts
<1> QED
  BY <1>1, <1>2, <1>3, DeviceOfAssumption, ViaAssumption DEF OpeningOf

\* The device and opening that shutdown() works on.
LEMMA ShutdownType ==
  ASSUME TypeOK, NEW d \in Device, hostOpen[d] # None, BeginShutdown(hostOpen[d])
  PROVE  /\ hostOpen' \in [Device -> Open \cup {None}]
         /\ stop' \subseteq Open
         /\ joining' \in Open
BY DeviceOfAssumption DEF BeginShutdown, TypeOK

\* Starting a worker keeps the types of the devices and workers.
LEMMA StartType ==
  ASSUME TypeOK, NEW o \in Open, Start(o)
  PROVE  /\ hostOpen' \in [Device -> Open \cup {None}]
         /\ wk' \in [Open -> WorkerState]
BY DeviceOfAssumption DEF Start, TypeOK, WorkerState

\* The controller applying what it was asked keeps the types.
LEMMA ApplyTypeOK ==
  ASSUME TypeOK, Apply
  PROVE  TypeOK'
<1> USE DEF otherThreads, hostVars, workerVars, reloadVars, bridgeVars, jsVars
<1>1. CASE BeginApply
  <2>1. /\ batch' \in Seq(Request) /\ requests' \in Seq(Request) /\ ui' = "apply"
        /\ joining' = joining /\ joining = None
    BY <1>1 DEF BeginApply, TypeOK
  <2> QED
    BY <1>1, <2>1 DEF BeginApply, TypeOK, UiState
<1>2. CASE ApplyOpenRefused
  BY <1>2, ApplyingFacts, AnswerType DEF ApplyOpenRefused, TypeOK
<1>3. CASE ApplyOpenGranted
  <2>1. Applying("open") /\ Answer(Head(batch), TRUE) /\ Start(Head(batch).of)
    BY <1>3 DEF ApplyOpenGranted
  <2>2. /\ Head(batch) \in Request /\ Tail(batch) \in Seq(Request) /\ ui = "apply" /\ joining = None
        /\ Head(batch).of \in Open
    BY <2>1, ApplyingFacts
  <2>3. messages' \in Seq(Message)
    BY <2>1, <2>2, AnswerType
  <2>4. /\ hostOpen' \in [Device -> Open \cup {None}]
        /\ wk' \in [Open -> WorkerState]
    BY <2>1, <2>2, StartType
  <2> QED
    BY <1>3, <2>2, <2>3, <2>4 DEF ApplyOpenGranted, TypeOK
<1>4. CASE ApplyOpenWaits
  BY <1>4, ApplyingFacts DEF ApplyOpenWaits, TypeOK
<1>5. CASE ApplyTransfer
  <2>1. Applying("transfer")
    BY <1>5 DEF ApplyTransfer
  <2>2. /\ Head(batch) \in TransferRequest /\ Tail(batch) \in Seq(Request)
        /\ ui = "apply" /\ joining = None
        /\ DeviceOf[Via[Head(batch).of]] \in Device
    BY <2>1, ApplyingFacts
  <2> DEFINE o == hostOpen[DeviceOf[Via[Head(batch).of]]]
  <2>3. o \in Open
    BY <1>5, <2>2 DEF ApplyTransfer, Reachable, TypeOK
  <2>4. mailbox' = [mailbox EXCEPT ![o] = Append(@, Head(batch))]
    BY <1>5 DEF ApplyTransfer
  <2> HIDE DEF o
  <2>5. mailbox' \in [Open -> Seq(TransferRequest)] /\ inflight' \subseteq TransferRequest
    <3>1. mailbox \in [Open -> Seq(TransferRequest)] /\ inflight \subseteq TransferRequest
      BY DEF TypeOK
    <3>2. inflight' = inflight \cup {Head(batch)}
      BY <1>5 DEF ApplyTransfer
    <3> QED
      BY <2>2, <2>3, <2>4, <3>1, <3>2
  <2>6. /\ UNCHANGED <<jsVars, bridgeVars, ui, joining, hostOpen, waiting, wk, stop,
                       readCount, performed, failures, signals, reloadVars>>
        /\ batch' = Tail(batch)
    BY <1>5 DEF ApplyTransfer
  <2> QED
    BY <2>2, <2>5, <2>6 DEF TypeOK
<1>6. CASE ApplyTransferRefused
  BY <1>6, ApplyingFacts, AnswerType DEF ApplyTransferRefused, TypeOK
<1>7. CASE ApplyCloseNotOpen
  BY <1>7, ApplyingFacts, AnswerType DEF ApplyCloseNotOpen, TypeOK
<1>8. CASE ApplyClose
  BY <1>8, ApplyingFacts, ShutdownType DEF ApplyClose, Applying, TypeOK
<1>9. CASE CloseDone
  <2>1. batch \in Seq(Request) /\ batch # <<>> /\ ui = "apply"
    BY <1>9 DEF CloseDone, EndShutdown, TypeOK
  <2>2. /\ Head(batch) \in Request /\ Tail(batch) \in Seq(Request)
        /\ Answer(Head(batch), TRUE)
    <3>1. Head(batch) \in Request /\ Tail(batch) \in Seq(Request)
      BY <2>1
    <3> QED
      BY <1>9, <3>1 DEF CloseDone
  <2>3. messages' \in Seq(Message)
    BY <2>2, AnswerType
  <2> QED
    BY <1>9, <2>1, <2>2, <2>3 DEF CloseDone, EndShutdown, TypeOK
<1> QED
  BY <1>1, <1>2, <1>3, <1>4, <1>5, <1>6, <1>7, <1>8, <1>9 DEF Apply

\* What the head of a batch of signals is.
LEMMA PollingFacts ==
  ASSUME TypeOK, NEW type, Polling(type)
  PROVE  /\ ui = "poll" /\ joining = None /\ batch # <<>>
         /\ Head(batch) \in Signal /\ Head(batch).type = type
         /\ Tail(batch) \in Seq(Signal)
         /\ type \in {"input", "disconnected"} => DeviceOf[Head(batch).open] \in Device
         /\ type \in {"input", "completion"} => Head(batch) \in Message
<1>1. ui = "poll" /\ joining = None /\ batch \in Seq(Signal) /\ batch # <<>>
  BY DEF Polling, TypeOK
<1>2. Head(batch) \in Signal /\ Tail(batch) \in Seq(Signal) /\ Head(batch).type = type
  BY <1>1 DEF Polling
<1> QED
  BY <1>1, <1>2, SignalFacts, DeviceOfAssumption

\* The controller taking what its workers signalled keeps the types.
LEMMA PollTypeOK ==
  ASSUME TypeOK, Poll
  PROVE  TypeOK'
<1> USE DEF otherThreads, hostVars, workerVars, reloadVars, bridgeVars, jsVars
<1>1. CASE BeginPoll
  <2>1. batch' \in Seq(Signal) /\ signals' \in Seq(Signal) /\ ui' = "poll" /\ joining' = None
    BY <1>1 DEF BeginPoll, TypeOK
  <2> QED
    BY <1>1, <2>1 DEF BeginPoll, TypeOK, UiState
<1>2. CASE PollInput
  <2>1. Polling("input")
    BY <1>2 DEF PollInput
  <2>2. /\ Tail(batch) \in Seq(Signal) /\ ui = "poll" /\ joining = None
        /\ Head(batch) \in Message
    BY <2>1, PollingFacts
  <2>3. messages' = messages \/ messages' = Append(messages, Head(batch))
    BY <1>2 DEF PollInput
  <2>4. messages \in Seq(Message)
    BY DEF TypeOK
  <2>5. messages' \in Seq(Message)
    BY <2>2, <2>3, <2>4
  <2> QED
    BY <1>2, <2>2, <2>5 DEF PollInput, TypeOK
<1>3. CASE PollCompletion
  <2>1. Polling("completion")
    BY <1>3 DEF PollCompletion
  <2>2. /\ Tail(batch) \in Seq(Signal) /\ ui = "poll" /\ joining = None
        /\ Head(batch) \in Message
    BY <2>1, PollingFacts
  <2>3. messages' \in Seq(Message) /\ inflight' \subseteq TransferRequest
    BY <1>3, <2>2 DEF PollCompletion, TypeOK
  <2> QED
    BY <1>3, <2>2, <2>3 DEF PollCompletion, TypeOK
<1>4. CASE PollDisconnectedClosed
  BY <1>4, PollingFacts DEF PollDisconnectedClosed, TypeOK
<1>5. CASE PollDisconnected
  BY <1>5, PollingFacts, ShutdownType DEF PollDisconnected, TypeOK
<1>6. CASE DisconnectDone
  <2>1. batch \in Seq(Signal) /\ batch # <<>> /\ ui = "poll" /\ joining \in Open
    BY <1>6 DEF DisconnectDone, EndShutdown, TypeOK
  <2>2. Tail(batch) \in Seq(Signal)
    BY <2>1
  <2>3. Disconnect(joining) \in Message
    BY <2>1, MessageMade
  <2>4. messages' \in Seq(Message)
    BY <1>6, <2>3 DEF DisconnectDone, TypeOK
  <2> QED
    BY <1>6, <2>1, <2>2, <2>4 DEF DisconnectDone, EndShutdown, TypeOK
<1>7. CASE BeginResolve
  <2>1. batch' = <<>> /\ batch' \in Seq(Message) /\ ui' = "resolve" /\ joining' = None
    BY <1>7 DEF BeginResolve
  <2> QED
    BY <1>7, <2>1 DEF BeginResolve, TypeOK, UiState
<1>8. ASSUME NEW d \in Device, ResolveGranted(d) \/ ResolveRefused(d) PROVE TypeOK'
  <2>1. waiting[d] \in Request /\ waiting[d].of \in Open /\ ui = "resolve"
    BY <1>8 DEF ResolveGranted, ResolveRefused, TypeOK, OpenRequest, Request
  <2>2. waiting' \in [Device -> OpenRequest \cup {NoRequest}]
    BY <1>8 DEF ResolveGranted, ResolveRefused, TypeOK
  <2>3. \E ok \in BOOLEAN : Answer(waiting[d], ok)
    BY <1>8 DEF ResolveGranted, ResolveRefused
  <2>4. messages' \in Seq(Message)
    BY <2>1, <2>3, AnswerType
  <2>5. CASE ResolveGranted(d)
    BY <2>1, <2>5, StartType, <2>2, <2>4 DEF ResolveGranted, TypeOK
  <2>6. CASE ResolveRefused(d)
    BY <2>1, <2>2, <2>4, <2>6 DEF ResolveRefused, TypeOK
  <2> QED
    BY <1>8, <2>5, <2>6
<1>9. CASE EndPump
  BY <1>9 DEF EndPump, TypeOK, UiState
<1> QED
  BY <1>1, <1>2, <1>3, <1>4, <1>5, <1>6, <1>7, <1>8, <1>9 DEF Poll

\* A worker's step keeps the types.
LEMMA WorkerTypeOK ==
  ASSUME TypeOK, NEW o \in Open, Worker(o)
  PROVE  TypeOK'
<1> USE DEF uiThread, hostVars, reloadVars, bridgeVars, jsVars
<1>1. ASSUME NEW ok \in BOOLEAN, WorkerCommand(o, ok) PROVE TypeOK'
  <2>1. mailbox[o] \in Seq(TransferRequest) /\ mailbox[o] # <<>>
    BY <1>1 DEF WorkerCommand, TypeOK
  <2>2. Head(mailbox[o]) \in TransferRequest /\ Tail(mailbox[o]) \in Seq(TransferRequest)
    BY <2>1
  <2>3. Completion(Head(mailbox[o]), ok) \in Signal
    BY <2>2, MessageMade DEF Request
  <2>4. signals' \in Seq(Signal) /\ mailbox' \in [Open -> Seq(TransferRequest)]
    BY <1>1, <2>2, <2>3 DEF WorkerCommand, Emit, TypeOK
  <2>5. performed' \subseteq Transfer
    BY <1>1, <2>2, RequestFacts DEF WorkerCommand, TypeOK, TransferRequest
  <2> QED
    BY <1>1, <2>4, <2>5 DEF WorkerCommand, TypeOK
<1>2. CASE WorkerIdle(o)
  BY <1>2 DEF WorkerIdle, TypeOK, WorkerState
<1>3. ASSUME WorkerReturns(o)
      PROVE  wk' \in [Open -> WorkerState] /\ mailbox' \in [Open -> Seq(TransferRequest)]
  BY <1>3 DEF WorkerReturns, TypeOK, WorkerState
<1>4. CASE WorkerStops(o)
  BY <1>3, <1>4 DEF WorkerStops, TypeOK
<1>5. CASE WorkerReads(o)
  BY <1>5 DEF WorkerReads, TypeOK, WorkerState
<1>6. CASE ReadTimeout(o)
  BY <1>6 DEF ReadTimeout, TypeOK, WorkerState
<1>7. CASE ReadReport(o)
  <2>1. readCount[o] + 1 \in Nat
    BY DEF TypeOK
  <2>2. Input(o, readCount[o] + 1) \in Signal
    BY <2>1, MessageMade
  <2>3. signals' \in Seq(Signal)
    BY <1>7, <2>2 DEF ReadReport, Emit, TypeOK
  <2>4. readCount' \in [Open -> Nat] /\ wk' \in [Open -> WorkerState]
    BY <1>7, <2>1 DEF ReadReport, TypeOK, WorkerState
  <2> QED
    BY <1>7, <2>3, <2>4 DEF ReadReport, TypeOK
<1>8. CASE ReadFails(o)
  <2>1. Disconnected(o) \in Signal
    BY MessageMade
  <2>2. signals' \in Seq(Signal)
    BY <1>8, <2>1 DEF ReadFails, Emit, TypeOK
  <2>3. WorkerReturns(o) /\ failures' \in Nat
    BY <1>8 DEF ReadFails, TypeOK
  <2> QED
    BY <1>3, <1>8, <2>2, <2>3 DEF ReadFails, TypeOK
<1> QED
  BY <1>1, <1>2, <1>4, <1>5, <1>6, <1>7, <1>8 DEF Worker

\* A reload and the end of a shutdown keep the types.
LEMMA ReloadTypeOK ==
  ASSUME TypeOK, Reloading \/ BeginReload \/ \E r \in inflight : Abandon(r)
  PROVE  TypeOK'
<1> USE DEF otherThreads, hostVars, workerVars, reloadVars, bridgeVars, jsVars
<1>1. CASE BeginReload
  BY <1>1 DEF BeginReload, TypeOK, UiState
<1>2. ASSUME NEW d \in Device, ReloadShutdown(d) PROVE TypeOK'
  BY <1>2, ShutdownType DEF ReloadShutdown, TypeOK
<1>3. CASE ReloadJoined
  BY <1>3 DEF ReloadJoined, EndShutdown, TypeOK
<1>4. ASSUME Reset
      PROVE  /\ waiting' \in [Device -> OpenRequest \cup {NoRequest}]
             /\ inflight' \subseteq TransferRequest /\ signals' \in Seq(Signal)
             /\ nextId' \in 1 .. MaxId + 1 /\ requests' \in Seq(Request)
             /\ messages' \in Seq(Message) /\ ui' = "js" /\ ui = "reload"
             /\ joining = None
  BY <1>4, BoundAssumption DEF Reset
<1>5. CASE Reload
  <2>1. Reset
    BY <1>5 DEF Reload
  <2>2. /\ handle' \in [Open -> HandleState] /\ xfer' \in [Transfer -> XferState]
        /\ openDevs' \in [Device -> Open \cup {None}]
        /\ awaiting' \in [Id -> Request \cup {NoRequest}]
        /\ reloads' \in Nat
    BY <1>5 DEF Reload, TypeOK, HandleState, XferState
  <2> QED
    BY <1>4, <1>5, <2>1, <2>2 DEF Reload, TypeOK, UiState
<1>6. CASE ReloadFails
  <2>1. Reset /\ failedReloads' \in Nat
    BY <1>6 DEF ReloadFails, TypeOK
  <2> QED
    BY <1>4, <1>6, <2>1 DEF ReloadFails, TypeOK, UiState
<1>7. ASSUME NEW r \in inflight, Abandon(r) PROVE TypeOK'
  BY <1>7, AnswerType DEF Abandon, TypeOK, Request
<1> QED
  BY <1>1, <1>2, <1>3, <1>5, <1>6, <1>7 DEF Reloading

\* Types are an invariant of every HID session.
THEOREM TypeCorrect == Spec => []TypeOK
<1>1. TypeOK /\ [Next]_vars => TypeOK'
  <2> SUFFICES ASSUME TypeOK, [Next]_vars PROVE TypeOK'
    OBVIOUS
  <2>1. CASE UNCHANGED vars
    BY <2>1 DEF vars, jsVars, bridgeVars, hostVars, workerVars, reloadVars, TypeOK
  <2>2. CASE Next
    BY <2>2, AppTypeOK, FrameTypeOK, ApplyTypeOK, PollTypeOK, WorkerTypeOK, ReloadTypeOK
       DEF Next, Turn
  <2> QED
    BY <2>1, <2>2
<1> QED
  BY <1>1, InitTypeOK, PTL DEF Spec

(***************************************************************************)
(* One worker per device.                                                  *)
(***************************************************************************)

\* What WorkerInv is about changes in few steps only.
workerState == <<hostOpen, waiting, joining, wk>>

\* A session starts without workers.
LEMMA InitWorkerInv == Init => WorkerInv
BY DEF Init, WorkerInv, Running

\* A step that changes none of it.
LEMMA QuietWorkerInv ==
  ASSUME WorkerInv, UNCHANGED workerState
  PROVE  WorkerInv'
BY DEF WorkerInv, workerState, Running

\* A device is handed to an opening of it while it is neither open nor being
\* closed.
LEMMA StartWorkerInv ==
  ASSUME TypeOK, WorkerInv, NEW o \in Open, Start(o),
         hostOpen[DeviceOf[o]] = None, joining = None, joining' = joining,
         waiting' \in [Device -> OpenRequest \cup {NoRequest}],
         waiting'[DeviceOf[o]] = NoRequest,
         \A d \in Device \ {DeviceOf[o]} : waiting'[d] = waiting[d]
  PROVE  WorkerInv'
<1>1. /\ DeviceOf[o] \in Device
      /\ hostOpen' = [hostOpen EXCEPT ![DeviceOf[o]] = o]
      /\ wk' = [wk EXCEPT ![o] = "drain"]
      /\ hostOpen \in [Device -> Open \cup {None}] /\ wk \in [Open -> WorkerState]
  BY DeviceOfAssumption DEF Start, TypeOK
<1>2. \A p \in Open : Running(p)' => hostOpen'[DeviceOf[p]] = p
  BY <1>1, DeviceOfAssumption, NoneAssumption DEF WorkerInv, Running
<1>3. \A d \in Device : hostOpen'[d] # None =>
        DeviceOf[hostOpen'[d]] = d /\ wk'[hostOpen'[d]] # "none"
  BY <1>1 DEF WorkerInv
<1>4. \A d \in Device : waiting'[d] # NoRequest =>
        /\ hostOpen'[d] = None /\ waiting'[d].op = "open" /\ DeviceOf[waiting'[d].of] = d
  BY <1>1 DEF WorkerInv
<1> QED
  BY <1>2, <1>3, <1>4 DEF WorkerInv

\* A device is taken from its opening, whose worker is to be joined.
LEMMA ShutdownWorkerInv ==
  ASSUME TypeOK, WorkerInv, NEW d \in Device, hostOpen[d] # None,
         BeginShutdown(hostOpen[d]), joining = None, UNCHANGED <<waiting, wk>>
  PROVE  WorkerInv'
<1> DEFINE o == hostOpen[d]
<1>1. o \in Open /\ DeviceOf[o] = d
  BY DEF TypeOK, WorkerInv
<1>2. /\ hostOpen' = [hostOpen EXCEPT ![d] = None] /\ joining' = o
      /\ hostOpen \in [Device -> Open \cup {None}] /\ wk' = wk /\ waiting' = waiting
  BY <1>1 DEF BeginShutdown, TypeOK
<1>3. \A p \in Open : Running(p)' => hostOpen'[DeviceOf[p]] = p \/ joining' = p
  <2> SUFFICES ASSUME NEW p \in Open, Running(p)'
               PROVE  hostOpen'[DeviceOf[p]] = p \/ joining' = p
    OBVIOUS
  <2>1. hostOpen[DeviceOf[p]] = p
    BY <1>2, NoneAssumption DEF WorkerInv, Running
  <2> QED
    BY <1>2, <2>1, DeviceOfAssumption
<1>4. joining' # None => hostOpen'[DeviceOf[joining']] = None
  BY <1>1, <1>2
<1>5. \A e \in Device : hostOpen'[e] # None =>
        DeviceOf[hostOpen'[e]] = e /\ wk'[hostOpen'[e]] # "none"
  BY <1>2 DEF WorkerInv
<1>6. \A e \in Device : waiting'[e] # NoRequest =>
        /\ hostOpen'[e] = None /\ waiting'[e].op = "open" /\ DeviceOf[waiting'[e].of] = e
  BY <1>2 DEF WorkerInv
<1> QED
  BY <1>3, <1>4, <1>5, <1>6 DEF WorkerInv

\* The joined worker is gone and forgotten.
LEMMA JoinedWorkerInv ==
  ASSUME WorkerInv, NEW caller, EndShutdown(caller), UNCHANGED <<hostOpen, waiting, wk>>
  PROVE  WorkerInv'
BY DEF WorkerInv, EndShutdown, Joined, Running

\* Workers only ever end, and never begin, of their own accord.
LEMMA WorkerWorkerInv ==
  ASSUME TypeOK, WorkerInv, NEW o \in Open, Worker(o)
  PROVE  WorkerInv'
<1>1. UNCHANGED <<hostOpen, waiting, joining>>
  BY DEF Worker, WorkerCommand, WorkerIdle, WorkerStops, WorkerReads, ReadTimeout,
         ReadReport, ReadFails, uiThread, hostVars
<1>2. /\ Running(o)
      /\ wk' = wk \/ \E w \in {"drain", "check", "read", "gone"} : wk' = [wk EXCEPT ![o] = w]
  BY DEF Worker, WorkerCommand, WorkerIdle, WorkerStops, WorkerReads, ReadTimeout,
         ReadReport, ReadFails, WorkerReturns, Running
<1>3. \A p \in Open : /\ Running(p)' => Running(p)
                      /\ wk[p] # "none" => wk'[p] # "none"
  BY <1>2 DEF Running, TypeOK
<1>4. \A d \in Device : hostOpen[d] \in Open \cup {None}
  BY DEF TypeOK
<1>5. \A p \in Open : Running(p)' => hostOpen'[DeviceOf[p]] = p \/ joining' = p
  <2> SUFFICES ASSUME NEW p \in Open, Running(p)'
               PROVE  hostOpen'[DeviceOf[p]] = p \/ joining' = p
    OBVIOUS
  <2>1. Running(p)
    BY <1>3 DEF Running
  <2>2. hostOpen[DeviceOf[p]] = p \/ joining = p
    BY <2>1 DEF WorkerInv
  <2> QED
    BY <1>1, <2>2
<1>6. \A d \in Device : hostOpen'[d] # None =>
        DeviceOf[hostOpen'[d]] = d /\ wk'[hostOpen'[d]] # "none"
  BY <1>3, <1>1, <1>4 DEF WorkerInv
<1>7. joining' # None => hostOpen'[DeviceOf[joining']] = None
  BY <1>1 DEF WorkerInv
<1>8. \A d \in Device : waiting'[d] # NoRequest =>
        /\ hostOpen'[d] = None /\ waiting'[d].op = "open" /\ DeviceOf[waiting'[d].of] = d
  BY <1>1 DEF WorkerInv
<1> QED
  BY <1>5, <1>6, <1>7, <1>8 DEF WorkerInv, Running

\* Every step keeps the worker invariant.
LEMMA NextWorkerInv ==
  ASSUME TypeOK, WorkerInv, Next
  PROVE  WorkerInv'
<1> USE DEF otherThreads, hostVars, workerVars, workerState
<1>1. CASE App \/ React \/ BeginFrame \/ Frame
  <2>1. CASE App
    BY <2>1, QuietWorkerInv DEF App, OpenDevice, CloseHandle, StartTransfer
  <2>2. CASE React \/ BeginFrame \/ Frame
    BY <2>2, QuietWorkerInv DEF React, BeginFrame, Frame, SettleCompletion, SettleInput,
       SettleDisconnect, SettleDone
  <2> QED
    BY <1>1, <2>1, <2>2
<1>2. CASE Apply
  <2>1. CASE \/ BeginApply \/ ApplyOpenRefused \/ ApplyTransfer \/ ApplyTransferRefused
             \/ ApplyCloseNotOpen
    BY <2>1, QuietWorkerInv DEF BeginApply, ApplyOpenRefused, ApplyTransfer,
       ApplyTransferRefused, ApplyCloseNotOpen
  <2>2. CASE ApplyOpenGranted
    BY <2>2, ApplyingFacts, StartWorkerInv DEF ApplyOpenGranted, Applying, TypeOK, Free
  <2>3. CASE ApplyOpenWaits
    <3>1. Applying("open")
      BY <2>3 DEF ApplyOpenWaits
    <3>2. Head(batch) \in OpenRequest /\ DeviceOf[Head(batch).of] \in Device
      BY <3>1, ApplyingFacts
    <3>3. /\ hostOpen[DeviceOf[Head(batch).of]] = None
          /\ waiting' = [waiting EXCEPT ![DeviceOf[Head(batch).of]] = Head(batch)]
          /\ UNCHANGED <<hostOpen, joining, wk>>
          /\ waiting \in [Device -> OpenRequest \cup {NoRequest}]
      BY <2>3 DEF ApplyOpenWaits, Free, TypeOK
    <3>4. \A d \in Device : waiting'[d] # NoRequest =>
            /\ hostOpen'[d] = None /\ waiting'[d].op = "open" /\ DeviceOf[waiting'[d].of] = d
      BY <3>2, <3>3 DEF WorkerInv, OpenRequest
    <3> QED
      BY <3>3, <3>4 DEF WorkerInv, Running
  <2>4. CASE ApplyClose
    BY <2>4, ApplyingFacts, ShutdownWorkerInv DEF ApplyClose
  <2>5. CASE CloseDone
    BY <2>5, JoinedWorkerInv DEF CloseDone
  <2> QED
    BY <1>2, <2>1, <2>2, <2>3, <2>4, <2>5 DEF Apply
<1>3. CASE Poll
  <2>1. CASE \/ BeginPoll \/ PollInput \/ PollCompletion \/ PollDisconnectedClosed
             \/ BeginResolve \/ EndPump
    BY <2>1, QuietWorkerInv DEF BeginPoll, PollInput, PollCompletion, PollDisconnectedClosed,
       BeginResolve, EndPump
  <2>2. CASE PollDisconnected
    BY <2>2, PollingFacts, ShutdownWorkerInv DEF PollDisconnected
  <2>3. CASE DisconnectDone
    BY <2>3, JoinedWorkerInv DEF DisconnectDone
  <2>4. ASSUME NEW d \in Device, ResolveGranted(d) PROVE WorkerInv'
    <3>1. /\ ui = "resolve" /\ waiting[d] # NoRequest /\ Start(waiting[d].of)
          /\ waiting' = [waiting EXCEPT ![d] = NoRequest] /\ joining' = joining
      BY <2>4 DEF ResolveGranted
    <3>2. joining = None /\ waiting \in [Device -> OpenRequest \cup {NoRequest}]
      BY <3>1 DEF TypeOK
    <3>3. waiting[d].of \in Open
      BY <3>1, <3>2 DEF OpenRequest
    <3>4. hostOpen[d] = None /\ DeviceOf[waiting[d].of] = d
      BY <3>1 DEF WorkerInv
    <3>5. /\ waiting' \in [Device -> OpenRequest \cup {NoRequest}]
          /\ waiting'[d] = NoRequest
          /\ \A e \in Device \ {d} : waiting'[e] = waiting[e]
      BY <3>1, <3>2
    <3> QED
      BY <3>1, <3>2, <3>3, <3>4, <3>5, StartWorkerInv
  <2>5. ASSUME NEW d \in Device, ResolveRefused(d) PROVE WorkerInv'
    BY <2>5 DEF ResolveRefused, TypeOK, WorkerInv, Running
  <2> QED
    BY <1>3, <2>1, <2>2, <2>3, <2>4, <2>5 DEF Poll
<1>4. CASE Reloading
  BY ShutdownWorkerInv, JoinedWorkerInv, <1>4 DEF ReloadShutdown, ReloadJoined, Reload,
     ReloadFails, Reset, WorkerInv, Running, Reloading
<1>5. CASE BeginReload \/ \E r \in inflight : Abandon(r)
  BY <1>5, QuietWorkerInv DEF BeginReload, Abandon
<1>6. ASSUME NEW o \in Open, Worker(o) PROVE WorkerInv'
  BY <1>6, WorkerWorkerInv
<1> QED
  BY <1>1, <1>2, <1>3, <1>4, <1>5, <1>6 DEF Next, Turn

\* WorkerInv is an invariant, with the types it needs.
THEOREM WorkerCorrect == Spec => []WorkerInv
<1>1. TypeOK /\ WorkerInv /\ [Next]_vars => WorkerInv'
  <2> SUFFICES ASSUME TypeOK, WorkerInv, [Next]_vars PROVE WorkerInv'
    OBVIOUS
  <2>1. CASE UNCHANGED vars
    BY <2>1, QuietWorkerInv DEF vars, hostVars, workerVars, workerState
  <2> QED
    BY <2>1, NextWorkerInv
<1> QED
  BY <1>1, InitWorkerInv, TypeCorrect, PTL DEF Spec

\* A device never has two workers, however many openings, devices, transfers,
\* failures and reloads there are.
THEOREM OneWorkerHolds == Spec => []OneWorker
<1>1. TypeOK /\ WorkerInv => OneWorker
  BY NoneAssumption, DeviceOfAssumption DEF OneWorker, WorkerInv, Running
<1> QED
  BY <1>1, TypeCorrect, WorkerCorrect, PTL

(***************************************************************************)
(* A promise is settled by the answer to its own command.                  *)
(***************************************************************************)

\* The next state's traffic speaks of requests that are Numbered in this one.
Carried ==
  /\ requests' \in Seq(Numbered)
  /\ ui' = "apply" => batch' \in Seq(Numbered)
  /\ ui' = "poll" => batch' \in Seq(NumberedSignal)
  /\ ui' \notin {"apply", "poll"} => batch' \in Seq(NumberedMessage)
  /\ ui' \in {"js", "callbacks", "resolve", "reload"} => batch' = <<>>
  /\ messages' \in Seq(NumberedMessage)
  /\ signals' \in Seq(NumberedSignal)
  /\ inflight' \subseteq Numbered
  /\ \A d \in Device : waiting'[d] \in Numbered \cup {NoRequest}
  /\ mailbox' \in [Open -> Seq(Numbered)]
  /\ \A o \in Open : mailbox'[o] # <<>> => wk'[o] \in {"drain", "check", "read"}

\* A sequence over a set is one over every larger set.
LEMMA SeqMonotone ==
  ASSUME NEW S, NEW T, S \subseteq T
  PROVE  Seq(S) \subseteq Seq(T)
OBVIOUS

\* Every place but the batch where a request may be, and who empties a mailbox.
traffic == <<requests, messages, signals, inflight, waiting, mailbox, wk>>

\* A step that leaves the queues alone carries every request over.
LEMMA QuietCarried ==
  ASSUME ChannelInv, UNCHANGED traffic,
         ui' = "apply" => batch' \in Seq(Numbered),
         ui' = "poll" => batch' \in Seq(NumberedSignal),
         ui' \notin {"apply", "poll"} => batch' \in Seq(NumberedMessage),
         ui' \in {"js", "callbacks", "resolve", "reload"} => batch' = <<>>
  PROVE  Carried
BY DEF traffic, Carried, ChannelInv, Running

\* While nobody is numbered anew, a Numbered request stays so.
LEMMA NumberedKept ==
  ASSUME TypeOK, UNCHANGED <<nextId, awaiting>>
  PROVE  Numbered \subseteq Numbered'
BY DEF Numbered

\* Traffic that is carried over keeps the invariant.
LEMMA CarriedKeeps ==
  ASSUME Carried, Numbered \subseteq Numbered'
  PROVE  ChannelInv'
<1>1. /\ NumberedSignal \subseteq NumberedSignal'
      /\ NumberedMessage \subseteq NumberedMessage'
  BY DEF NumberedSignal, NumberedMessage
<1>2. /\ Seq(Numbered) \subseteq Seq(Numbered')
      /\ Seq(NumberedSignal) \subseteq Seq(NumberedSignal')
      /\ Seq(NumberedMessage) \subseteq Seq(NumberedMessage')
  BY <1>1, SeqMonotone
<1>3. mailbox' \in [Open -> Seq(Numbered')]
  BY <1>2 DEF Carried
<1> QED
  BY <1>1, <1>2, <1>3 DEF Carried, ChannelInv, Running

\* The answer to a numbered request is a numbered message.
LEMMA NumberedMade ==
  ASSUME NEW r \in Numbered, NEW ok \in BOOLEAN
  PROVE  /\ r \in Request
         /\ Completion(r, ok) \in NumberedMessage
         /\ Completion(r, ok) \in NumberedSignal
BY MessageMade DEF Numbered, NumberedMessage, NumberedSignal, Completion

\* Answering a numbered request adds a numbered message.
LEMMA AnswerCarried ==
  ASSUME ChannelInv, NEW r \in Numbered, NEW ok \in BOOLEAN, Answer(r, ok)
  PROVE  messages' \in Seq(NumberedMessage)
<1>1. Completion(r, ok) \in NumberedMessage
  BY NumberedMade
<1> QED
  BY <1>1 DEF Answer, ChannelInv

\* A session starts with nothing on its way.
LEMMA InitChannelInv == Init => ChannelInv
BY DEF Init, ChannelInv

\* Calls of the document: one of them numbers a request.
LEMMA AppChannelInv ==
  ASSUME TypeOK, ChannelInv, App
  PROVE  ChannelInv'
<1> USE DEF otherThreads, hostVars, workerVars
<1>1. PICK op \in {"open", "close", "transfer"}, of \in Open \cup Transfer :
        /\ RunCommand(op, of)
        /\ [id |-> nextId, op |-> op, of |-> of] \in Request
  <2>1. ASSUME NEW o \in Open, OpenDevice(o) \/ CloseHandle(o)
        PROVE  nextId \in Id /\ \E op \in {"open", "close"} : RunCommand(op, o)
    BY <2>1 DEF OpenDevice, CloseHandle, RunCommand, TypeOK, Id
  <2>2. ASSUME NEW t \in Transfer, StartTransfer(t)
        PROVE  nextId \in Id /\ RunCommand("transfer", t)
    BY <2>2 DEF StartTransfer, RunCommand, TypeOK, Id
  <2> QED
    BY <2>1, <2>2, RequestMade DEF App
<1>2. UNCHANGED <<messages, ui, batch, signals, inflight, waiting, mailbox, wk>>
  BY DEF App, OpenDevice, CloseHandle, StartTransfer
<1> DEFINE r == [id |-> nextId, op |-> op, of |-> of]
<1>3. /\ requests' = Append(requests, r) /\ awaiting' = [awaiting EXCEPT ![nextId] = r]
      /\ nextId' = nextId + 1 /\ r \in Request /\ r.id = nextId
  BY <1>1 DEF RunCommand
<1>4. r.id \in Id /\ nextId \in Nat
  BY <1>3, RequestFacts, BoundAssumption DEF Id
<1> HIDE DEF r
<1>5. Numbered \subseteq Numbered'
  <2> SUFFICES ASSUME NEW q \in Numbered PROVE q \in Numbered'
    OBVIOUS
  <2>1. q \in Request /\ q.id < nextId /\ awaiting[q.id] \in {NoRequest, q}
    BY DEF Numbered
  <2>2. q.id \in Nat
    BY <2>1, RequestFacts, BoundAssumption DEF Id
  <2>3. q.id < nextId' /\ awaiting'[q.id] = awaiting[q.id]
    BY <1>3, <1>4, <2>1, <2>2, RequestFacts DEF TypeOK
  <2> QED
    BY <2>1, <2>3 DEF Numbered
<1>6. r \in Numbered'
  BY <1>3, <1>4 DEF Numbered, TypeOK
<1>7. requests' \in Seq(Numbered')
  BY <1>5, SeqMonotone, <1>3, <1>6 DEF ChannelInv
<1>8. /\ NumberedSignal \subseteq NumberedSignal'
      /\ NumberedMessage \subseteq NumberedMessage'
  BY <1>5 DEF NumberedSignal, NumberedMessage
<1>9. /\ Seq(Numbered) \subseteq Seq(Numbered')
      /\ Seq(NumberedSignal) \subseteq Seq(NumberedSignal')
      /\ Seq(NumberedMessage) \subseteq Seq(NumberedMessage')
  BY <1>5, <1>8, SeqMonotone
<1>10. mailbox' \in [Open -> Seq(Numbered')]
  BY <1>2, <1>9 DEF ChannelInv
<1> QED
  BY <1>2, <1>5, <1>7, <1>9, <1>10 DEF ChannelInv, Running

\* The frame turn hands messages to the document.
LEMMA FrameChannelInv ==
  ASSUME TypeOK, ChannelInv, React \/ BeginFrame \/ Frame
  PROVE  ChannelInv'
<1> USE DEF otherThreads, hostVars, workerVars, bridgeVars, jsVars
<1>1. Numbered \subseteq Numbered'
  <2>1. nextId' = nextId /\ \A i \in Id : awaiting'[i] \in {awaiting[i], NoRequest}
    BY DEF TypeOK, React, BeginFrame, Frame, SettleCompletion, SettleInput, SettleDisconnect,
           SettleDone
  <2> QED
    BY <2>1, RequestFacts DEF Numbered
<1> SUFFICES Carried
  BY <1>1, CarriedKeeps
<1>2. CASE React
  BY <1>2, QuietCarried DEF React, traffic, ChannelInv
<1>3. CASE BeginFrame
  BY <1>3 DEF BeginFrame, Carried, ChannelInv, Running
<1>4. CASE SettleCompletion \/ SettleInput \/ SettleDisconnect
  <2>1. /\ UNCHANGED traffic
        /\ batch # <<>> /\ batch' = Tail(batch) /\ ui \in {"settle", "listener"}
        /\ ui' \in {"settle", "listener"}
    BY <1>4 DEF SettleCompletion, SettleInput, SettleDisconnect, Settling, traffic
  <2>2. batch' \in Seq(NumberedMessage)
    BY <2>1 DEF ChannelInv
  <2> QED
    BY <2>1, <2>2, QuietCarried
<1>5. CASE SettleDone
  BY <1>5, QuietCarried DEF SettleDone, traffic
<1> QED
  BY <1>2, <1>3, <1>4, <1>5 DEF Frame

\* Applying requests moves them to the device they are about, or answers them.
LEMMA ApplyChannelInv ==
  ASSUME TypeOK, WorkerInv, ChannelInv, Apply
  PROVE  ChannelInv'
<1> USE DEF otherThreads, hostVars, workerVars, bridgeVars
<1>1. Numbered \subseteq Numbered'
  <2>1. UNCHANGED <<nextId, awaiting>>
    BY DEF Apply, BeginApply, ApplyOpenRefused, ApplyOpenGranted, ApplyOpenWaits, ApplyTransfer,
           ApplyTransferRefused, ApplyCloseNotOpen, ApplyClose, CloseDone, jsVars
  <2> QED
    BY <2>1, NumberedKept
<1> SUFFICES Carried
  BY <1>1, CarriedKeeps
<1>2. ASSUME NEW op, Applying(op)
      PROVE  /\ ui = "apply" /\ Head(batch) \in Numbered /\ Tail(batch) \in Seq(Numbered)
  BY <1>2 DEF Applying, ChannelInv
<1>3. CASE BeginApply
  BY <1>3 DEF BeginApply, Carried, ChannelInv, Running
<1>4. CASE ApplyOpenRefused \/ ApplyTransferRefused \/ ApplyCloseNotOpen
  BY <1>4, <1>2, AnswerCarried DEF ApplyOpenRefused, ApplyTransferRefused, ApplyCloseNotOpen,
     Carried, ChannelInv, Running
<1>5. CASE ApplyOpenGranted
  BY <1>5, <1>2, AnswerCarried DEF ApplyOpenGranted, Start, Running, TypeOK, Carried, ChannelInv
<1>6. CASE ApplyOpenWaits
  BY <1>6, <1>2 DEF ApplyOpenWaits, TypeOK, Carried, ChannelInv, Running
<1>7. CASE ApplyTransfer
  <2> DEFINE o == hostOpen[DeviceOf[Via[Head(batch).of]]]
  <2>1. /\ Applying("transfer") /\ Reachable(DeviceOf[Via[Head(batch).of]])
        /\ mailbox' = [mailbox EXCEPT ![o] = Append(@, Head(batch))]
        /\ inflight' = inflight \cup {Head(batch)} /\ batch' = Tail(batch)
        /\ UNCHANGED <<ui, requests, messages, signals, waiting, wk>>
    BY <1>7 DEF ApplyTransfer
  <2>2. DeviceOf[Via[Head(batch).of]] \in Device
    BY <2>1, ApplyingFacts
  <2>3. o \in Open /\ Running(o)
    BY <2>1, <2>2 DEF Reachable, TypeOK, WorkerInv, Running, WorkerState
  <2> HIDE DEF o
  <2>4. mailbox \in [Open -> Seq(Numbered)] /\ \A p \in Open : mailbox[p] # <<>> => Running(p)
    BY DEF ChannelInv
  <2>5. mailbox' \in [Open -> Seq(Numbered)]
    BY <1>2, <2>1, <2>3, <2>4
  <2>6. \A p \in Open : mailbox'[p] # <<>> => wk'[p] \in {"drain", "check", "read"}
    BY <2>1, <2>3, <2>4 DEF Running
  <2> QED
    BY <1>2, <2>1, <2>5, <2>6 DEF Carried, ChannelInv
<1>8. CASE ApplyClose
  BY <1>8, QuietCarried DEF ApplyClose, traffic, Applying, ChannelInv
<1>9. CASE CloseDone
  <2>1. /\ ui = "apply" /\ joining # None /\ Answer(Head(batch), TRUE) /\ batch' = Tail(batch)
        /\ UNCHANGED <<ui, requests, signals, inflight, waiting, mailbox, wk>>
    BY <1>9 DEF CloseDone, EndShutdown
  <2>2. batch # <<>> /\ batch \in Seq(Numbered)
    BY <2>1 DEF TypeOK, ChannelInv
  <2>3. Head(batch) \in Numbered /\ Tail(batch) \in Seq(Numbered)
    BY <2>2
  <2>4. messages' \in Seq(NumberedMessage)
    BY <2>1, <2>3, AnswerCarried
  <2> QED
    BY <2>1, <2>3, <2>4 DEF Carried, ChannelInv, Running
<1> QED
  BY <1>3, <1>4, <1>5, <1>6, <1>7, <1>8, <1>9 DEF Apply

\* The controller passes its workers' signals on.
LEMMA PollChannelInv ==
  ASSUME TypeOK, ChannelInv, Poll
  PROVE  ChannelInv'
<1> USE DEF otherThreads, hostVars, workerVars, bridgeVars
<1>1. Numbered \subseteq Numbered'
  <2>1. UNCHANGED <<nextId, awaiting>>
    BY DEF Poll, BeginPoll, PollInput, PollCompletion, PollDisconnectedClosed, PollDisconnected,
           DisconnectDone, BeginResolve, ResolveGranted, ResolveRefused, EndPump, jsVars
  <2> QED
    BY <2>1, NumberedKept
<1> SUFFICES Carried
  BY <1>1, CarriedKeeps
<1>2. ASSUME NEW type, Polling(type)
      PROVE  /\ ui = "poll" /\ Head(batch) \in NumberedSignal
             /\ Tail(batch) \in Seq(NumberedSignal)
             /\ type \in {"input", "completion"} => Head(batch) \in NumberedMessage
  BY <1>2, PollingFacts DEF Polling, ChannelInv, NumberedSignal, NumberedMessage
<1>3. CASE BeginPoll
  BY <1>3 DEF BeginPoll, Carried, ChannelInv, Running
<1>4. CASE PollInput \/ PollCompletion
  <2>1. /\ \E type \in {"input", "completion"} : Polling(type)
        /\ messages' \in {messages, Append(messages, Head(batch))}
        /\ inflight' \subseteq inflight /\ batch' = Tail(batch)
        /\ UNCHANGED <<ui, requests, signals, waiting, mailbox, wk>>
    BY <1>4 DEF PollInput, PollCompletion
  <2>2. Head(batch) \in NumberedMessage /\ messages \in Seq(NumberedMessage)
    BY <1>2, <2>1 DEF ChannelInv
  <2>3. messages' \in Seq(NumberedMessage)
    BY <2>1, <2>2
  <2> QED
    BY <1>2, <2>1, <2>3 DEF Carried, ChannelInv, Running
<1>5. CASE PollDisconnectedClosed
  BY <1>5, <1>2, QuietCarried DEF PollDisconnectedClosed, traffic
<1>6. CASE PollDisconnected
  BY <1>6, QuietCarried DEF PollDisconnected, Polling, traffic, ChannelInv
<1>7. CASE DisconnectDone
  BY <1>7, MessageMade DEF DisconnectDone, EndShutdown, TypeOK, NumberedMessage, Disconnect,
     ChannelInv, Carried, Running
<1>8. CASE BeginResolve \/ EndPump
  BY <1>8, QuietCarried DEF BeginResolve, EndPump, ChannelInv, traffic
<1>9. ASSUME NEW d \in Device, ResolveGranted(d) \/ ResolveRefused(d) PROVE Carried
  BY <1>9, AnswerCarried DEF ResolveGranted, ResolveRefused, TypeOK, ChannelInv, Start, Running,
     Carried
<1> QED
  BY <1>3, <1>4, <1>5, <1>6, <1>7, <1>8, <1>9 DEF Poll

\* A worker answers what is in its own mailbox, and takes the rest with it.
LEMMA WorkerChannelInv ==
  ASSUME TypeOK, ChannelInv, NEW o \in Open, Worker(o)
  PROVE  ChannelInv'
<1> USE DEF uiThread, bridgeVars, hostVars
<1>1. /\ UNCHANGED <<ui, batch, requests, messages, inflight, waiting>>
      /\ UNCHANGED <<nextId, awaiting>>
  BY DEF Worker, WorkerCommand, WorkerIdle, WorkerStops, WorkerReads, ReadTimeout, ReadReport,
         ReadFails, jsVars
<1>2. Numbered \subseteq Numbered'
  BY <1>1, NumberedKept
<1>3. /\ mailbox \in [Open -> Seq(Numbered)] /\ signals \in Seq(NumberedSignal)
      /\ \A p \in Open : mailbox[p] # <<>> => Running(p)
      /\ wk \in [Open -> WorkerState]
  BY DEF ChannelInv, TypeOK
<1> DEFINE Served ==
      /\ signals' \in Seq(NumberedSignal)
      /\ mailbox' \in [Open -> Seq(Numbered)]
      /\ \A p \in Open : mailbox'[p] # <<>> => wk'[p] \in {"drain", "check", "read"}
<1>4. ASSUME NEW ok \in BOOLEAN, WorkerCommand(o, ok) PROVE Served
  BY <1>4, <1>3, NumberedMade DEF WorkerCommand, Emit, Running
<1>5. CASE WorkerIdle(o) \/ WorkerReads(o) \/ ReadTimeout(o)
  BY <1>5, <1>3, <1>1, <1>2, CarriedKeeps DEF WorkerIdle, WorkerReads, ReadTimeout, Running,
     Carried, ChannelInv
<1>6. ASSUME ReadReport(o) PROVE Served
  <2>1. /\ signals' = Append(signals, Input(o, readCount[o] + 1)) /\ mailbox' = mailbox
        /\ wk' = [wk EXCEPT ![o] = "drain"]
    BY <1>6 DEF ReadReport, Emit
  <2>2. readCount[o] + 1 \in Nat
    BY DEF TypeOK
  <2>3. Input(o, readCount[o] + 1) \in NumberedSignal
    BY <2>2, MessageMade DEF NumberedSignal, Input
  <2> QED
    BY <1>3, <2>1, <2>3 DEF Running
<1>7. ASSUME WorkerStops(o) \/ ReadFails(o) PROVE Served
  <2>1. /\ mailbox' = [mailbox EXCEPT ![o] = <<>>] /\ wk' = [wk EXCEPT ![o] = "gone"]
        /\ signals' \in {signals, Append(signals, Disconnected(o))}
    BY <1>7 DEF WorkerStops, ReadFails, WorkerReturns, Emit
  <2>2. Disconnected(o) \in NumberedSignal
    BY MessageMade DEF NumberedSignal, Disconnected
  <2>3. signals' \in Seq(NumberedSignal)
    <3>1. Append(signals, Disconnected(o)) \in Seq(NumberedSignal)
      BY <1>3, <2>2
    <3> QED
      BY <1>3, <2>1, <3>1
  <2>4. <<>> \in Seq(Numbered)
    OBVIOUS
  <2>5. mailbox' \in [Open -> Seq(Numbered)]
    BY <1>3, <2>1, <2>4
  <2>6. \A p \in Open : mailbox'[p] # <<>> => wk'[p] \in {"drain", "check", "read"}
    BY <1>3, <2>1 DEF Running
  <2> QED
    BY <2>3, <2>5, <2>6
<1> QED
  <2>1. ASSUME Served PROVE ChannelInv'
    BY <1>1, <2>1, <1>2, CarriedKeeps DEF ChannelInv, Carried
  <2> HIDE DEF Served
  <2> QED
    BY <1>4, <1>5, <1>6, <1>7, <2>1 DEF Worker

\* A reset happens when every worker is gone, and forgets every request.
LEMMA ReloadChannelInv ==
  ASSUME TypeOK, WorkerInv, ChannelInv,
         Reloading \/ BeginReload \/ \E r \in inflight : Abandon(r)
  PROVE  ChannelInv'
<1> USE DEF otherThreads, hostVars, workerVars, bridgeVars
<1>1. CASE \/ BeginReload \/ ReloadJoined \/ \E d \in Device : ReloadShutdown(d)
  BY <1>1, NumberedKept, QuietCarried, CarriedKeeps DEF BeginReload, ReloadJoined, EndShutdown,
     ReloadShutdown, ChannelInv, traffic, jsVars
<1>2. CASE Reload \/ ReloadFails
  <2>1. /\ ui = "reload" /\ joining = None /\ \A d \in Device : hostOpen[d] = None
        /\ waiting' = [d \in Device |-> NoRequest] /\ inflight' = {} /\ signals' = <<>>
        /\ requests' = <<>> /\ messages' = <<>> /\ ui' = "js"
        /\ UNCHANGED <<batch, mailbox, wk>>
    BY <1>2 DEF Reload, ReloadFails, Reset
  <2>2. \A o \in Open : mailbox[o] = <<>>
    BY <2>1, NoneAssumption, DeviceOfAssumption DEF WorkerInv, ChannelInv
  <2>3. mailbox' \in [Open -> Seq(Numbered')]
    BY <2>1, <2>2 DEF ChannelInv
  <2> QED
    BY <2>1, <2>2, <2>3 DEF ChannelInv
<1>3. ASSUME NEW r \in inflight, Abandon(r) PROVE ChannelInv'
  BY <1>3, AnswerCarried, NumberedKept, CarriedKeeps DEF Abandon, jsVars, ChannelInv, Carried,
     Running
<1> QED
  BY <1>1, <1>2, <1>3 DEF Reloading

\* ChannelInv is an invariant, with the types and WorkerInv, which says that a
\* reset finds every mailbox empty.
THEOREM ChannelCorrect == Spec => []ChannelInv
<1>1. TypeOK /\ WorkerInv /\ ChannelInv /\ [Next]_vars => ChannelInv'
  <2> SUFFICES ASSUME TypeOK, WorkerInv, ChannelInv, [Next]_vars PROVE ChannelInv'
    OBVIOUS
  <2>1. CASE UNCHANGED vars
    BY <2>1, QuietCarried, NumberedKept, CarriedKeeps DEF vars, jsVars, bridgeVars, hostVars,
       workerVars, traffic, ChannelInv
  <2>2. CASE Next
    BY <2>2, AppChannelInv, FrameChannelInv, ApplyChannelInv, PollChannelInv, WorkerChannelInv,
       ReloadChannelInv DEF Next, Turn
  <2> QED
    BY <2>1, <2>2
<1> QED
  BY <1>1, InitChannelInv, TypeCorrect, WorkerCorrect, PTL DEF Spec

\* Every item of a sequence over a set is in that set.
LEMMA ItemsOfSeq ==
  ASSUME NEW S, NEW s \in Seq(S)
  PROVE  ItemsOf(s) \subseteq S
<1>1. \A i \in DOMAIN s : s[i] \in S
  BY LenProperties
<1> QED
  BY <1>1 DEF ItemsOf

\* A promise of the command channel is only ever settled by the answer to the
\* command it was made for, across any number of reloads.
THEOREM OwnAnswerHolds == Spec => []OwnAnswer
<1>1. ChannelInv => OwnAnswer
  <2> SUFFICES ASSUME ChannelInv, NEW m \in Answers
               PROVE  awaiting[m.req.id] \in {NoRequest, m.req}
    BY DEF OwnAnswer
  <2>1. m.type = "completion"
    BY DEF Answers
  <2>2. m \in NumberedMessage \cup NumberedSignal
    BY ItemsOfSeq DEF Answers, ChannelInv
  <2> QED
    BY <2>1, <2>2 DEF NumberedMessage, NumberedSignal, Numbered
<1> QED
  BY <1>1, ChannelCorrect, PTL

-----------------------------------------------------------------------------
(* What a document is told of its HID devices is so.                       *)

(***************************************************************************)
(* The queues, whatever the UI thread is doing with its batch.             *)
(***************************************************************************)

\* The requests the controller is applying, the messages the frame is
\* delivering and the signals the controller is polling.
Commands == IF ui = "apply" THEN batch ELSE <<>>
Frames   == IF ui \in {"settle", "listener"} THEN batch ELSE <<>>
Polled   == IF ui = "poll" THEN batch ELSE <<>>

queues == <<Commands, requests, Frames, messages, Polled, signals>>

\* What the document has asked for and the controller has not looked at, and
\* what is on its way from a worker to the document.
Asked   == ItemsOf(Commands) \cup ItemsOf(requests)
Sent    == ItemsOf(Polled) \cup ItemsOf(signals)
Traffic == ItemsOf(Frames) \cup ItemsOf(messages) \cup Sent

(***************************************************************************)
(* The invariant, which holds until a read fails.                          *)
(***************************************************************************)

\* A promise is kept under the id of its command, an open is awaited while its
\* handle is opening, and once.
PromiseInv ==
  /\ \A i \in Id : awaiting[i] # NoRequest =>
       awaiting[i].id = i /\ (awaiting[i].op = "open" => handle[awaiting[i].of] = "opening")
  /\ \A i, j \in Id : awaiting[i].op = "open" /\ awaiting[j].op = "open"
                      /\ awaiting[i].of = awaiting[j].of => i = j

\* The resolved opens are those whose reaction is queued, and the live handles
\* those of the document's device table.
HandleInv ==
  /\ \A i \in DOMAIN reactions : handle[reactions[i]] = "granted"
  /\ \A i, j \in DOMAIN reactions : reactions[i] = reactions[j] => i = j
  /\ \A o \in Open : handle[o] = "granted" => o \in ItemsOf(reactions)
  /\ ui = "reload" => reactions = <<>>
  /\ \A d \in Device, o \in Open : openDevs[d] = o <=> handle[o] = "live" /\ DeviceOf[o] = d
  /\ \A o \in Open : heard[o] # <<>> => handle[o] \in {"live", "ended", "closed", "orphan"}
  /\ \A o \in Open : handle[o] = "none" => wk[o] = "none"

\* Two requests for the same, and an open that comes before a close which
\* would shut down the worker it starts.
Twin(q, r)   == q.op # "transfer" /\ q.op = r.op /\ q.of = r.of
Bare(c)      == ui # "reload" /\ hostOpen[DeviceOf[c.of]] = None /\ joining # c.of
Passes(q, c) == /\ q.op = "open" /\ c.op = "close"
                /\ DeviceOf[q.of] = DeviceOf[c.of] /\ Bare(c)

\* What was asked is in an order the controller can carry out.
Allowed == {p \in Request \X Request : ~Twin(p[1], p[2]) /\ ~Passes(p[1], p[2])}
InOrder(s, R) == \A i, j \in DOMAIN s : i < j => <<s[i], s[j]>> \in R
InTurn ==
  /\ InOrder(Commands, Allowed) /\ InOrder(requests, Allowed)
  /\ \A q \in ItemsOf(Commands), r \in ItemsOf(requests) : <<q, r>> \in Allowed

\* An opening has no worker while the controller has not come to it.
AskedInv ==
  /\ InTurn
  /\ \A r \in Asked : r.op = "open" =>
       handle[r.of] \in {"opening", "refused"} /\ wk[r.of] = "none"
  /\ \A r \in Asked : r.op = "close" => handle[r.of] = "closed"
  /\ \A d \in Device : waiting[d] # NoRequest =>
       /\ handle[waiting[d].of] \in {"opening", "refused"} /\ wk[waiting[d].of] = "none"
       /\ \A r \in Asked : ~Twin(waiting[d], r)

\* Workers complete transfers only, nothing disconnects, and a worker is
\* joined for the close of its handle or for a reload.
JoinInv ==
  /\ \A m \in Sent : m.type = "completion" => m.req.op = "transfer"
  /\ \A m \in Traffic : m.type \notin {"disconnect", "disconnected"}
  /\ joining # None => ui \in {"apply", "reload"}
  /\ ui = "apply" /\ joining # None =>
       /\ Commands # <<>> /\ Head(Commands).op = "close" /\ Head(Commands).of = joining
       /\ \A o \in Open : handle[o] = "live" => DeviceOf[o] # DeviceOf[joining]

\* The document will hear that opening o succeeded.
Grants(m, o) ==
  /\ m.type = "completion" /\ m.ok /\ m.req.op = "open" /\ m.req.of = o
  /\ awaiting[m.req.id] = m.req
Landing(o) == handle[o] = "granted" \/ \E m \in ItemsOf(Frames) : Grants(m, o)
Granted(o) == Landing(o) \/ \E m \in ItemsOf(messages) : Grants(m, o)

\* The document's handles against the controller's open table.  A reload that
\* failed leaves handles behind, whose devices nobody opens until they are closed.
HostInv ==
  ui # "reload" =>
    /\ \A c \in Asked : c.op = "close" =>
         \/ hostOpen[DeviceOf[c.of]] = c.of
         \/ joining = c.of
         \/ failedReloads > 0 /\ hostOpen[DeviceOf[c.of]] = None
    /\ \A c \in Asked : c.op = "close" /\ Bare(c) => waiting[DeviceOf[c.of]] = NoRequest
    /\ \A o \in Open : Granted(o) =>
         hostOpen[DeviceOf[o]] = o /\ openDevs[DeviceOf[o]] = None
    /\ \A o \in Open : handle[o] = "live" =>
         \/ hostOpen[DeviceOf[o]] = o
         \/ failedReloads > 0 /\ hostOpen[DeviceOf[o]] = None
    /\ \A o \in Open : handle[o] = "live" /\ hostOpen[DeviceOf[o]] = None =>
         /\ waiting[DeviceOf[o]] = NoRequest
         /\ \A r \in Asked : r.op = "open" => DeviceOf[r.of] # DeviceOf[o]

\* Whose reports are on their way while a handle is, or is about to be, live.
ForeignTo(m, o) == m.type = "input" /\ DeviceOf[m.open] = DeviceOf[o] /\ m.open # o
InputInv ==
  /\ \A m \in Traffic : m.type = "input" => wk[m.open] # "none"
  /\ ui \notin {"apply", "reload"} =>
       \A m \in ItemsOf(signals) : m.type = "input" => hostOpen[DeviceOf[m.open]] = m.open
  /\ ui # "reload" => \A o \in Open : Landing(o) =>
       \A m \in ItemsOf(messages) \cup Sent : ~ForeignTo(m, o)
  /\ ui # "reload" => \A o \in Open : handle[o] = "live" =>
       \A m \in Traffic : m.type = "input" /\ DeviceOf[m.open] = DeviceOf[o] =>
         m.open = o /\ hostOpen[DeviceOf[o]] = o

\* The reports of an opening travel in the order they were read.
Later(x, y) == x.type = "input" /\ y.type = "input" /\ x.open = y.open => x.n < y.n
Ordered(s)  == \A i, j \in DOMAIN s : i < j => Later(s[i], s[j])
After(S, T) == \A x \in S, y \in T : Later(x, y)
OrderInv ==
  /\ Ordered(Frames) /\ Ordered(messages) /\ Ordered(Polled) /\ Ordered(signals)
  /\ After(ItemsOf(Frames), ItemsOf(messages) \cup Sent)
  /\ After(ItemsOf(messages), Sent)
  /\ After(ItemsOf(Polled), ItemsOf(signals))

\* Every report of opening o read after its n-th is on its way.
Complete(o, n) == \A k \in n + 1 .. readCount[o] : Input(o, k) \in Traffic
Last(o) == heard[o][Len(heard[o])].n

\* No report that was read is missing between those that are heard.
GapInv ==
  /\ \A m \in Traffic : m.type = "input" => m.n <= readCount[m.open]
  /\ \A o \in Open : heard[o] # <<>> => Last(o) <= readCount[o]
  /\ \A m \in Traffic : m.type = "input" /\ hostOpen[DeviceOf[m.open]] = m.open =>
       Complete(m.open, m.n)
  /\ \A o \in Open : handle[o] = "live" /\ hostOpen[DeviceOf[o]] = o /\ heard[o] # <<>> =>
       /\ Complete(o, Last(o))
       /\ \A m \in Traffic : m.type = "input" /\ m.open = o => m.n > Last(o)
  /\ \A o \in Open : \A i \in DOMAIN heard[o] :
       /\ heard[o][i].open = o
       /\ i > 1 => heard[o][i].n = heard[o][i - 1].n + 1

Truth == PromiseInv /\ HandleInv /\ AskedInv /\ JoinInv /\ HostInv /\ InputInv
         /\ OrderInv /\ GapInv

(***************************************************************************)
(* Lemmas about sequences.                                                 *)
(***************************************************************************)

\* What the ends of a queue hold.
LEMMA AppendItems ==
  ASSUME NEW S, NEW s \in Seq(S), NEW e \in S
  PROVE  ItemsOf(Append(s, e)) = ItemsOf(s) \cup {e}
<1>1. DOMAIN Append(s, e) = 1 .. Len(s) + 1 /\ DOMAIN s = 1 .. Len(s) /\ Len(s) \in Nat
  OBVIOUS
<1>2. Append(s, e)[Len(s) + 1] = e /\ \A i \in 1 .. Len(s) : Append(s, e)[i] = s[i]
  OBVIOUS
<1> QED
  BY <1>1, <1>2 DEF ItemsOf

\* What the head of a queue and the rest of it hold.
LEMMA HeadItems ==
  ASSUME NEW S, NEW s \in Seq(S), s # <<>>
  PROVE  /\ ItemsOf(s) = {Head(s)} \cup ItemsOf(Tail(s))
         /\ Head(s) \in S /\ Tail(s) \in Seq(S)
<1>1. DOMAIN Tail(s) = 1 .. Len(s) - 1 /\ DOMAIN s = 1 .. Len(s) /\ Len(s) \in Nat \ {0}
  OBVIOUS
<1>2. Head(s) = s[1] /\ \A i \in 1 .. Len(s) - 1 : Tail(s)[i] = s[i + 1]
  OBVIOUS
<1>3. \A i \in 1 .. Len(s) : i = 1 \/ i - 1 \in 1 .. Len(s) - 1
  BY <1>1
<1>4. \A i \in 1 .. Len(s) : s[i] = Head(s) \/ s[i] \in ItemsOf(Tail(s))
  <2> SUFFICES ASSUME NEW i \in 1 .. Len(s), i # 1 PROVE s[i] \in ItemsOf(Tail(s))
    BY <1>2
  <2>1. i - 1 \in DOMAIN Tail(s) /\ Tail(s)[i - 1] = s[i]
    BY <1>1, <1>2, <1>3
  <2> QED
    BY <2>1 DEF ItemsOf
<1>5. \A i \in 1 .. Len(s) - 1 : i + 1 \in 1 .. Len(s)
  BY <1>1
<1>6. ItemsOf(Tail(s)) \subseteq ItemsOf(s)
  BY <1>1, <1>2, <1>5 DEF ItemsOf
<1>7. Head(s) \in ItemsOf(s)
  BY <1>1, <1>2 DEF ItemsOf
<1> QED
  BY <1>1, <1>4, <1>6, <1>7 DEF ItemsOf

\* A queue that is not empty has a last item.
LEMMA LastItem ==
  ASSUME NEW S, NEW s \in Seq(S), s # <<>>
  PROVE  Len(s) \in DOMAIN s /\ s[Len(s)] \in S
OBVIOUS

\* An empty queue holds nothing.
LEMMA EmptyItems == ItemsOf(<<>>) = {}
BY DEF ItemsOf

\* Order survives at both ends.
LEMMA OrderedAppend ==
  ASSUME NEW S, NEW s \in Seq(S), NEW e \in S, Ordered(s), \A x \in ItemsOf(s) : Later(x, e)
  PROVE  Ordered(Append(s, e))
<1>1. DOMAIN Append(s, e) = 1 .. Len(s) + 1 /\ DOMAIN s = 1 .. Len(s) /\ Len(s) \in Nat
  OBVIOUS
<1>2. Append(s, e)[Len(s) + 1] = e /\ \A i \in 1 .. Len(s) : Append(s, e)[i] = s[i]
  OBVIOUS
<1>3. \A i \in 1 .. Len(s) : Later(s[i], e)
  BY <1>1 DEF ItemsOf
<1>4. \A i, j \in 1 .. Len(s) : i < j => Later(s[i], s[j])
  BY <1>1 DEF Ordered
<1> SUFFICES ASSUME NEW i \in DOMAIN Append(s, e), NEW j \in DOMAIN Append(s, e), i < j
             PROVE  Later(Append(s, e)[i], Append(s, e)[j])
  BY DEF Ordered
<1>5. i \in 1 .. Len(s) /\ (j \in 1 .. Len(s) \/ j = Len(s) + 1)
  BY <1>1
<1> QED
  BY <1>2, <1>3, <1>4, <1>5

\* The head of an ordered queue comes before the rest, which is ordered.
LEMMA OrderedTail ==
  ASSUME NEW S, NEW s \in Seq(S), s # <<>>, Ordered(s)
  PROVE  Ordered(Tail(s)) /\ \A x \in ItemsOf(Tail(s)) : Later(Head(s), x)
<1>1. DOMAIN Tail(s) = 1 .. Len(s) - 1 /\ DOMAIN s = 1 .. Len(s) /\ Len(s) \in Nat \ {0}
  OBVIOUS
<1>2. Head(s) = s[1] /\ \A i \in 1 .. Len(s) - 1 : Tail(s)[i] = s[i + 1]
  OBVIOUS
<1>3. \A i, j \in 1 .. Len(s) : i < j => Later(s[i], s[j])
  BY <1>1 DEF Ordered
<1>4. \A i \in 1 .. Len(s) - 1 : 1 \in 1 .. Len(s) /\ i + 1 \in 1 .. Len(s) /\ 1 < i + 1
  BY <1>1
<1>5. \A i \in 1 .. Len(s) - 1 : Later(Head(s), Tail(s)[i])
  BY <1>2, <1>3, <1>4
<1>6. \A i, j \in 1 .. Len(s) - 1 : i < j => i + 1 < j + 1
  BY <1>1
<1>7. \A i, j \in 1 .. Len(s) - 1 : i < j => Later(Tail(s)[i], Tail(s)[j])
  BY <1>2, <1>3, <1>4, <1>6
<1> QED
  BY <1>1, <1>5, <1>7 DEF Ordered, ItemsOf

\* An empty queue is in order.
LEMMA OrderedEmpty == Ordered(<<>>)
BY DEF Ordered

\* The same for any relation.
LEMMA InOrderAppend ==
  ASSUME NEW S, NEW s \in Seq(S), NEW e \in S, NEW R, InOrder(s, R),
         \A x \in ItemsOf(s) : <<x, e>> \in R
  PROVE  InOrder(Append(s, e), R)
<1>1. DOMAIN Append(s, e) = 1 .. Len(s) + 1 /\ DOMAIN s = 1 .. Len(s) /\ Len(s) \in Nat
  OBVIOUS
<1>2. Append(s, e)[Len(s) + 1] = e /\ \A i \in 1 .. Len(s) : Append(s, e)[i] = s[i]
  OBVIOUS
<1>3. \A i \in 1 .. Len(s) : <<s[i], e>> \in R
  BY <1>1 DEF ItemsOf
<1>4. \A i, j \in 1 .. Len(s) : i < j => <<s[i], s[j]>> \in R
  BY <1>1 DEF InOrder
<1> SUFFICES ASSUME NEW i \in DOMAIN Append(s, e), NEW j \in DOMAIN Append(s, e), i < j
             PROVE  <<Append(s, e)[i], Append(s, e)[j]>> \in R
  BY DEF InOrder
<1>5. i \in 1 .. Len(s) /\ (j \in 1 .. Len(s) \/ j = Len(s) + 1)
  BY <1>1
<1> QED
  BY <1>2, <1>3, <1>4, <1>5

\* The head of a queue in order is related to the rest, which is in order.
LEMMA InOrderTail ==
  ASSUME NEW S, NEW s \in Seq(S), s # <<>>, NEW R, InOrder(s, R)
  PROVE  InOrder(Tail(s), R) /\ \A x \in ItemsOf(Tail(s)) : <<Head(s), x>> \in R
<1>1. DOMAIN Tail(s) = 1 .. Len(s) - 1 /\ DOMAIN s = 1 .. Len(s) /\ Len(s) \in Nat \ {0}
  OBVIOUS
<1>2. Head(s) = s[1] /\ \A i \in 1 .. Len(s) - 1 : Tail(s)[i] = s[i + 1]
  OBVIOUS
<1>3. \A i, j \in 1 .. Len(s) : i < j => <<s[i], s[j]>> \in R
  BY <1>1 DEF InOrder
<1>4. \A i \in 1 .. Len(s) - 1 : 1 \in 1 .. Len(s) /\ i + 1 \in 1 .. Len(s) /\ 1 < i + 1
  BY <1>1
<1>5. \A i \in 1 .. Len(s) - 1 : <<Head(s), Tail(s)[i]>> \in R
  BY <1>2, <1>3, <1>4
<1>6. \A i, j \in 1 .. Len(s) - 1 : i < j => i + 1 < j + 1
  BY <1>1
<1>7. \A i, j \in 1 .. Len(s) - 1 : i < j => <<Tail(s)[i], Tail(s)[j]>> \in R
  BY <1>2, <1>3, <1>4, <1>6
<1> QED
  BY <1>1, <1>5, <1>7 DEF InOrder, ItemsOf

\* Order is kept where the relation between the items is.
LEMMA InOrderMonotone ==
  ASSUME NEW s, NEW R, NEW T, InOrder(s, R),
         \A x, y \in ItemsOf(s) : <<x, y>> \in R => <<x, y>> \in T
  PROVE  InOrder(s, T)
BY DEF InOrder, ItemsOf

\* An empty queue is in any order.
LEMMA InOrderEmpty == ASSUME NEW R PROVE InOrder(<<>>, R)
BY DEF InOrder

(***************************************************************************)
(* The queues and their order.                                             *)
(***************************************************************************)

\* What kind of items each queue holds.
LEMMA QueueTypes ==
  ASSUME TypeOK
  PROVE  /\ Commands \in Seq(Request) /\ requests \in Seq(Request)
         /\ Frames \in Seq(Message) /\ messages \in Seq(Message)
         /\ Polled \in Seq(Signal) /\ signals \in Seq(Signal)
<1>1. <<>> \in Seq(Request) /\ <<>> \in Seq(Message) /\ <<>> \in Seq(Signal)
  OBVIOUS
<1> QED
  BY <1>1 DEF TypeOK, Commands, Frames, Polled

\* What the queues hold.
LEMMA QueueItems ==
  ASSUME TypeOK
  PROVE  /\ Asked \subseteq Request
         /\ Sent \subseteq Signal
         /\ Traffic \subseteq Signal \cup Message
         /\ \A m \in Traffic : m.type = "input" =>
              /\ m.open \in Open /\ DeviceOf[m.open] \in Device
              /\ m.n \in Nat /\ m = Input(m.open, m.n)
<1>1. /\ Asked \subseteq Request /\ Sent \subseteq Signal
      /\ Traffic \subseteq Signal \cup Message
  BY QueueTypes, ItemsOfSeq DEF Asked, Sent, Traffic
<1>2. \A m \in Signal \cup Message : m.type = "input" =>
        m.open \in Open /\ m.n \in Nat /\ m = Input(m.open, m.n)
  BY DEF Signal, Message, Input
<1> QED
  BY <1>1, <1>2, DeviceOfAssumption

\* An answer is added to the messages.
LEMMA OrderAnswer ==
  ASSUME TypeOK, OrderInv, NEW m \in Message, m.type = "completion",
         messages' = Append(messages, m), UNCHANGED <<Frames, Polled, signals>>
  PROVE  OrderInv'
<1>1. ItemsOf(messages') = ItemsOf(messages) \cup {m}
  BY QueueTypes, AppendItems
<1>2. \A x : Later(x, m) /\ Later(m, x)
  BY DEF Later
<1>3. Ordered(Append(messages, m))
  BY <1>2, QueueTypes, OrderedAppend DEF OrderInv
<1>4. Ordered(messages')
  BY <1>3
<1> QED
  BY <1>1, <1>2, <1>4 DEF OrderInv, After, Sent

\* The frame takes every message there is.
LEMMA OrderFrame ==
  ASSUME OrderInv, Frames' = messages, messages' = <<>>, UNCHANGED <<Polled, signals>>
  PROVE  OrderInv'
BY EmptyItems, OrderedEmpty DEF OrderInv, After, Sent

\* The frame delivers a message.
LEMMA OrderDeliver ==
  ASSUME TypeOK, OrderInv, Frames # <<>>, Frames' = Tail(Frames),
         UNCHANGED <<messages, Polled, signals>>
  PROVE  /\ OrderInv'
         /\ \A x \in Traffic' : Later(Head(Frames), x)
<1>1. /\ ItemsOf(Frames) = {Head(Frames)} \cup ItemsOf(Tail(Frames))
      /\ Ordered(Tail(Frames)) /\ \A x \in ItemsOf(Tail(Frames)) : Later(Head(Frames), x)
  BY QueueTypes, HeadItems, OrderedTail DEF OrderInv
<1> QED
  BY <1>1 DEF OrderInv, After, Sent, Traffic

\* The controller takes every signal there is.
LEMMA OrderPoll ==
  ASSUME OrderInv, Polled = <<>>, Polled' = signals, signals' = <<>>,
         UNCHANGED <<Frames, messages>>
  PROVE  OrderInv'
BY EmptyItems, OrderedEmpty DEF OrderInv, After, Sent

\* The controller forwards a signal or drops it.
LEMMA OrderForward ==
  ASSUME TypeOK, OrderInv, Polled # <<>>, Polled' = Tail(Polled), Head(Polled) \in Message,
         messages' \in {messages, Append(messages, Head(Polled))},
         UNCHANGED <<Frames, signals>>
  PROVE  OrderInv'
<1>1. /\ ItemsOf(Polled) = {Head(Polled)} \cup ItemsOf(Tail(Polled))
      /\ Ordered(Tail(Polled)) /\ \A x \in ItemsOf(Tail(Polled)) : Later(Head(Polled), x)
  BY QueueTypes, HeadItems, OrderedTail DEF OrderInv
<1>2. ItemsOf(Append(messages, Head(Polled))) = ItemsOf(messages) \cup {Head(Polled)}
  BY QueueTypes, AppendItems
<1>3. \A x \in ItemsOf(messages) : Later(x, Head(Polled))
  BY <1>1 DEF OrderInv, After, Sent
<1>4. Ordered(Append(messages, Head(Polled)))
  BY <1>3, QueueTypes, OrderedAppend DEF OrderInv
<1>5. CASE messages' = messages
  BY <1>1, <1>5 DEF OrderInv, After, Sent
<1>6. CASE messages' = Append(messages, Head(Polled))
  BY <1>1, <1>2, <1>4, <1>6 DEF OrderInv, After, Sent
<1> QED
  BY <1>5, <1>6

\* A worker signals.
LEMMA OrderEmit ==
  ASSUME TypeOK, OrderInv, NEW e \in Signal, \A x \in Traffic : Later(x, e),
         signals' = Append(signals, e), UNCHANGED <<Frames, messages, Polled>>
  PROVE  OrderInv'
<1>1. ItemsOf(signals') = ItemsOf(signals) \cup {e}
  BY QueueTypes, AppendItems
<1>2. Ordered(Append(signals, e))
  BY QueueTypes, OrderedAppend DEF OrderInv, Traffic, Sent
<1>3. Ordered(signals')
  BY <1>2
<1> QED
  BY <1>1, <1>3 DEF OrderInv, After, Sent, Traffic

\* No request that was asked becomes one an open would pass.
BareKept == \A c \in Asked : c.op = "close" /\ Bare(c)' => Bare(c)

\* Then what could be carried out in this order still can.
LEMMA AllowedKept ==
  ASSUME BareKept, TypeOK
  PROVE  \A q, r \in Asked : <<q, r>> \in Allowed => <<q, r>> \in Allowed'
<1> SUFFICES ASSUME NEW q \in Asked, NEW r \in Asked, <<q, r>> \in Allowed
             PROVE  <<q, r>> \in Allowed'
  OBVIOUS
<1>1. q \in Request /\ r \in Request
  BY QueueItems
<1>2. ~Twin(q, r) /\ ~Passes(q, r)
  BY DEF Allowed
<1>3. ~Passes(q, r)'
  BY <1>2 DEF Passes, BareKept
<1> QED
  BY <1>1, <1>2, <1>3 DEF Allowed, Twin

\* The queues of requests stay as they are, or the controller takes them all.
LEMMA TurnSame ==
  ASSUME TypeOK, InTurn, BareKept,
         \/ UNCHANGED <<Commands, requests>>
         \/ Commands = <<>> /\ Commands' = requests /\ requests' = <<>>
  PROVE  InTurn' /\ Asked' = Asked
<1>1. /\ InOrder(Commands, Allowed') /\ InOrder(requests, Allowed')
      /\ \A q \in ItemsOf(Commands), r \in ItemsOf(requests) : <<q, r>> \in Allowed'
  BY AllowedKept, InOrderMonotone DEF InTurn, Asked
<1> QED
  BY <1>1, InOrderEmpty, EmptyItems DEF InTurn, Asked

\* The first request of the batch, and those that come after it.
LEMMA TurnHead ==
  ASSUME TypeOK, InTurn, Commands # <<>>
  PROVE  /\ Head(Commands) \in Asked
         /\ ItemsOf(Tail(Commands)) \cup ItemsOf(requests) \subseteq Asked
         /\ \A r \in ItemsOf(Tail(Commands)) \cup ItemsOf(requests) :
              <<Head(Commands), r>> \in Allowed
<1>1. /\ ItemsOf(Commands) = {Head(Commands)} \cup ItemsOf(Tail(Commands))
      /\ \A x \in ItemsOf(Tail(Commands)) : <<Head(Commands), x>> \in Allowed
  BY QueueTypes, HeadItems, InOrderTail DEF InTurn
<1> QED
  BY <1>1 DEF InTurn, Asked

\* The controller has dealt with the first of its requests.
LEMMA TurnTail ==
  ASSUME TypeOK, InTurn, Commands # <<>>, Commands' = Tail(Commands), requests' = requests,
         \A c \in Asked' : c.op = "close" /\ Bare(c)' => Bare(c)
  PROVE  InTurn'
<1>1. /\ ItemsOf(Commands) = {Head(Commands)} \cup ItemsOf(Tail(Commands))
      /\ InOrder(Tail(Commands), Allowed)
  BY QueueTypes, HeadItems, InOrderTail DEF InTurn
<1>2. Asked' \subseteq Asked /\ Asked \subseteq Request
  BY <1>1, QueueItems DEF Asked
<1>3. \A q, r \in Asked' : <<q, r>> \in Allowed => <<q, r>> \in Allowed'
  <2> SUFFICES ASSUME NEW q \in Asked', NEW r \in Asked', <<q, r>> \in Allowed
               PROVE  <<q, r>> \in Allowed'
    OBVIOUS
  <2>1. ~Twin(q, r) /\ ~Passes(q, r)
    BY DEF Allowed
  <2>2. ~Passes(q, r)'
    BY <2>1 DEF Passes
  <2> QED
    BY <1>2, <2>1, <2>2 DEF Allowed, Twin
<1>4. /\ \A q, r \in ItemsOf(Tail(Commands)) : <<q, r>> \in Allowed => <<q, r>> \in Allowed'
      /\ \A q, r \in ItemsOf(requests) : <<q, r>> \in Allowed => <<q, r>> \in Allowed'
      /\ \A q \in ItemsOf(Tail(Commands)), r \in ItemsOf(requests) :
           <<q, r>> \in Allowed => <<q, r>> \in Allowed'
  BY <1>3 DEF Asked
<1>5. InOrder(Tail(Commands), Allowed') /\ InOrder(requests, Allowed')
  BY <1>1, <1>4, InOrderMonotone DEF InTurn
<1>6. \A q \in ItemsOf(Tail(Commands)), r \in ItemsOf(requests) : <<q, r>> \in Allowed'
  BY <1>1, <1>4 DEF InTurn
<1> QED
  BY <1>5, <1>6 DEF InTurn

\* The document asks for something more.
LEMMA TurnAsked ==
  ASSUME TypeOK, InTurn, BareKept, NEW r \in Request,
         \A q \in Asked : <<q, r>> \in Allowed',
         requests' = Append(requests, r), Commands' = Commands
  PROVE  InTurn' /\ Asked' = Asked \cup {r}
<1>1. /\ InOrder(Commands, Allowed') /\ InOrder(requests, Allowed')
      /\ \A q \in ItemsOf(Commands), p \in ItemsOf(requests) : <<q, p>> \in Allowed'
  BY AllowedKept, InOrderMonotone DEF InTurn, Asked
<1>2. InOrder(Append(requests, r), Allowed')
  BY <1>1, QueueTypes, InOrderAppend DEF Asked
<1>3. ItemsOf(Append(requests, r)) = ItemsOf(requests) \cup {r}
  BY QueueTypes, AppendItems
<1> QED
  BY <1>1, <1>2, <1>3 DEF InTurn, Asked

(***************************************************************************)
(* Steps that move requests, answers and reports along, and leave the      *)
(* handles and the open table as they are.                                 *)
(***************************************************************************)

\* Reports that are on their way stay so.
SameInputs ==
  /\ \A m \in Traffic' : m.type = "input" => m \in Traffic
  /\ \A m \in Traffic : m.type = "input" => m \in Traffic'

\* What the document and the controller agree on is untouched.
agreed == <<handle, reactions, openDevs, heard, hostOpen, readCount, failedReloads>>

\* No report is missed when one leaves that its device is closed for, or that
\* comes before every other of its opening.
LEMMA GapShrinks ==
  ASSUME TypeOK, GapInv, UNCHANGED <<heard, readCount>>,
         \A o \in Open : handle'[o] = "live" /\ heard[o] # <<>> => handle[o] = "live",
         \A o \in Open : hostOpen'[DeviceOf[o]] = o /\ hostOpen[DeviceOf[o]] # o =>
           handle'[o] # "live" /\ \A m \in Traffic : m.type = "input" => m.open # o,
         \A m \in Traffic' : m.type = "input" => m \in Traffic,
         \A x \in Traffic : x.type = "input" /\ x \notin Traffic' /\ hostOpen'[DeviceOf[x.open]] = x.open =>
           /\ handle'[x.open] # "live" \/ heard[x.open] = <<>>
           /\ \A m \in Traffic' : Later(x, m)
  PROVE  GapInv'
<1>1. \A o \in Open : heard[o] # <<>> => Last(o) \in Nat
  <2> SUFFICES ASSUME NEW o \in Open, heard[o] # <<>> PROVE Last(o) \in Nat
    OBVIOUS
  <2> DEFINE R == [type : {"input"}, open : Open, n : Nat]
  <2>1. heard[o] \in Seq(R)
    BY DEF TypeOK
  <2> HIDE DEF R
  <2>2. heard[o][Len(heard[o])] \in R
    BY <2>1, LastItem
  <2> QED
    BY <2>2 DEF Last, R
<1>2. \A m \in Traffic : m.type = "input" => m.open \in Open /\ m.n \in Nat
  BY QueueItems
<1>3. \A o \in Open, n, k \in Nat :
        /\ Input(o, k).type = "input" /\ Input(o, k).open = o /\ Input(o, k).n = k
        /\ readCount[o] \in Nat
  BY DEF Input, TypeOK
<1>4. \A m \in Traffic' : m.type = "input" => m.n <= readCount'[m.open]
  BY DEF GapInv
<1>5. \A o \in Open : heard'[o] # <<>> => Last(o)' <= readCount'[o]
  BY DEF GapInv, Last
<1>6. \A m \in Traffic' : m.type = "input" /\ hostOpen'[DeviceOf[m.open]] = m.open =>
        Complete(m.open, m.n)'
  <2> SUFFICES ASSUME NEW m \in Traffic', m.type = "input", hostOpen'[DeviceOf[m.open]] = m.open,
                      NEW k \in m.n + 1 .. readCount[m.open]
               PROVE  Input(m.open, k) \in Traffic'
    BY DEF Complete
  <2>1. m \in Traffic /\ m.open \in Open /\ m.n \in Nat
    BY <1>2
  <2>2. hostOpen[DeviceOf[m.open]] = m.open
    BY <2>1
  <2>3. Input(m.open, k) \in Traffic
    BY <2>1, <2>2 DEF GapInv, Complete
  <2> DEFINE x == Input(m.open, k)
  <2>4. k \in Nat /\ ~(k < m.n)
    BY <2>1 DEF TypeOK
  <2>5. x.type = "input" /\ x.open = m.open /\ x.n = k /\ ~(k < m.n)
    BY <2>1, <2>4, <1>3
  <2> HIDE DEF x
  <2>6. ~Later(x, m)
    BY <2>5 DEF Later
  <2>7. x \in Traffic'
    BY <2>3, <2>5, <2>6 DEF x
  <2> QED
    BY <2>7 DEF x
<1>7. \A o \in Open : handle'[o] = "live" /\ hostOpen'[DeviceOf[o]] = o /\ heard'[o] # <<>> =>
        /\ Complete(o, Last(o))'
        /\ \A m \in Traffic' : m.type = "input" /\ m.open = o => m.n > Last(o)'
  <2> SUFFICES ASSUME NEW o \in Open, handle'[o] = "live", hostOpen'[DeviceOf[o]] = o,
                      heard'[o] # <<>>
               PROVE  /\ Complete(o, Last(o))'
                      /\ \A m \in Traffic' : m.type = "input" /\ m.open = o => m.n > Last(o)'
    OBVIOUS
  <2>1. handle[o] = "live" /\ hostOpen[DeviceOf[o]] = o /\ heard[o] # <<>> /\ Last(o)' = Last(o)
    BY DEF Last
  <2>2. /\ Complete(o, Last(o)) /\ Last(o) \in Nat
        /\ \A m \in Traffic : m.type = "input" /\ m.open = o => m.n > Last(o)
    BY <2>1, <1>1 DEF GapInv
  <2>3. ASSUME NEW k \in Last(o) + 1 .. readCount[o] PROVE Input(o, k) \in Traffic'
    BY <2>2, <1>3, <2>1 DEF Complete
  <2>4. Complete(o, Last(o))'
    BY <2>1, <2>3 DEF Complete
  <2> QED
    BY <2>1, <2>2, <2>4
<1>8. \A o \in Open : \A i \in DOMAIN heard'[o] :
        /\ heard'[o][i].open = o
        /\ i > 1 => heard'[o][i].n = heard'[o][i - 1].n + 1
  BY DEF GapInv
<1> QED
  BY <1>4, <1>5, <1>6, <1>7, <1>8 DEF GapInv

\* A step that hands on or drops what is in the queues, and changes nothing
\* that the document and the controller agree on, keeps the invariant.
LEMMA Passing ==
  ASSUME TypeOK, Truth, UNCHANGED agreed, UNCHANGED awaiting, SameInputs,
         \A d \in Device : waiting'[d] \in {waiting[d], NoRequest},
         \A o \in Open : wk[o] = "none" <=> wk'[o] = "none",
         Asked' \subseteq Asked, InTurn', OrderInv', JoinInv',
         ui' = "reload" => ui = "reload" \/ reactions = <<>>,
         ui' # "reload" => ui # "reload",
         \A c \in Asked' : c.op = "close" /\ joining = c.of => joining' = c.of,
         ui' \notin {"apply", "reload"} =>
           \A m \in ItemsOf(signals') : m.type = "input" => hostOpen[DeviceOf[m.open]] = m.open,
         \A o \in Open : Granted(o)' => Granted(o),
         ui' # "reload" => \A o \in Open : Landing(o)' =>
           \A m \in ItemsOf(messages') \cup Sent' : ~ForeignTo(m, o)
  PROVE  Truth'
<1> USE DEF agreed
<1>1. PromiseInv'
  BY DEF Truth, PromiseInv
<1>2. HandleInv'
  BY DEF Truth, HandleInv
<1>3. AskedInv'
  <2>1. \A r \in Asked' : r.op = "open" => r.of \in Open
    BY QueueItems, RequestFacts
  <2>2. \A d \in Device : waiting[d] # NoRequest => waiting[d].of \in Open
    BY DEF TypeOK, OpenRequest
  <2>3. \A r \in Asked' : r.op = "open" =>
          handle'[r.of] \in {"opening", "refused"} /\ wk'[r.of] = "none"
    BY <2>1 DEF Truth, AskedInv
  <2>4. \A r \in Asked' : r.op = "close" => handle'[r.of] = "closed"
    BY DEF Truth, AskedInv
  <2>5. \A d \in Device : waiting'[d] # NoRequest =>
          /\ handle'[waiting'[d].of] \in {"opening", "refused"} /\ wk'[waiting'[d].of] = "none"
          /\ \A r \in Asked' : ~Twin(waiting'[d], r)
    BY <2>2 DEF Truth, AskedInv
  <2> QED
    BY <2>3, <2>4, <2>5 DEF AskedInv
<1>4. HostInv'
  <2> SUFFICES ASSUME ui' # "reload" PROVE HostInv'
    BY DEF HostInv
  <2>1. ui # "reload" /\ HostInv
    BY DEF Truth
  <2>2. \A c \in Asked' : c.op = "close" =>
         \/ hostOpen'[DeviceOf[c.of]] = c.of
         \/ joining' = c.of
         \/ failedReloads' > 0 /\ hostOpen'[DeviceOf[c.of]] = None
    BY <2>1 DEF HostInv
  <2>3. \A c \in Asked' : c.op = "close" /\ Bare(c)' => waiting'[DeviceOf[c.of]] = NoRequest
    <3> SUFFICES ASSUME NEW c \in Asked', c.op = "close", Bare(c)'
                 PROVE  waiting'[DeviceOf[c.of]] = NoRequest
      OBVIOUS
    <3>1. Bare(c)
      BY <2>1 DEF Bare
    <3>2. DeviceOf[c.of] \in Device
      BY QueueItems, RequestFacts, DeviceOfAssumption
    <3> QED
      BY <2>1, <3>1, <3>2 DEF HostInv
  <2>4. \A o \in Open : Granted(o)' =>
         hostOpen'[DeviceOf[o]] = o /\ openDevs'[DeviceOf[o]] = None
    BY <2>1 DEF HostInv
  <2>5. \A o \in Open : handle'[o] = "live" =>
         \/ hostOpen'[DeviceOf[o]] = o
         \/ failedReloads' > 0 /\ hostOpen'[DeviceOf[o]] = None
    BY <2>1 DEF HostInv
  <2>6. \A o \in Open : handle'[o] = "live" /\ hostOpen'[DeviceOf[o]] = None =>
         /\ waiting'[DeviceOf[o]] = NoRequest
         /\ \A r \in Asked' : r.op = "open" => DeviceOf[r.of] # DeviceOf[o]
    BY <2>1, DeviceOfAssumption DEF HostInv
  <2> QED
    BY <2>2, <2>3, <2>4, <2>5, <2>6 DEF HostInv
<1>5. InputInv'
  BY QueueItems DEF Truth, InputInv, SameInputs, ForeignTo
<1>6. GapInv'
  BY GapShrinks DEF Truth, SameInputs
<1> QED
  BY <1>1, <1>2, <1>3, <1>4, <1>5, <1>6 DEF Truth

\* A step that leaves every queue alone.
LEMMA StillTruth ==
  ASSUME TypeOK, Truth, UNCHANGED agreed, UNCHANGED <<awaiting, waiting, joining>>,
         UNCHANGED queues,
         \A o \in Open : wk[o] = "none" <=> wk'[o] = "none",
         joining # None => ui' = ui,
         ui' = "reload" => ui = "reload" \/ reactions = <<>>,
         ui' # "reload" => ui # "reload",
         ui' \notin {"apply", "reload"} => ui \notin {"apply", "reload"}
  PROVE  Truth'
<1>1. /\ Commands' = Commands /\ requests' = requests /\ Frames' = Frames
      /\ messages' = messages /\ Polled' = Polled /\ signals' = signals
  BY DEF queues
<1>2. Asked' = Asked /\ Sent' = Sent /\ Traffic' = Traffic /\ SameInputs
  BY <1>1 DEF Asked, Sent, Traffic, SameInputs
<1>3. BareKept
  BY DEF BareKept, Bare, agreed
<1>4. InTurn'
  BY <1>1, <1>3, TurnSame DEF Truth, AskedInv
<1>5. OrderInv'
  BY <1>1, <1>2 DEF Truth, OrderInv
<1>6. JoinInv'
  BY <1>1, <1>2 DEF Truth, JoinInv, agreed
<1>7. \A o \in Open : (Granted(o)' => Granted(o)) /\ (Landing(o)' => Landing(o))
  BY <1>1 DEF Granted, Landing, Grants, agreed
<1>8. ui' # "reload" => \A o \in Open : Landing(o)' =>
        \A m \in ItemsOf(messages') \cup Sent' : ~ForeignTo(m, o)
  BY <1>1, <1>2, <1>7 DEF Truth, InputInv
<1>9. ui' \notin {"apply", "reload"} =>
        \A m \in ItemsOf(signals') : m.type = "input" => hostOpen[DeviceOf[m.open]] = m.open
  BY <1>1 DEF Truth, InputInv
<1> QED
  BY <1>2, <1>4, <1>5, <1>6, <1>7, <1>8, <1>9, Passing

\* The phases of the turn, and what a worker does between two reports.
LEMMA PhaseTruth ==
  ASSUME TypeOK, WorkerInv, ChannelInv, Truth, SettleDone \/ BeginResolve \/ EndPump \/ BeginReload
  PROVE  Truth'
<1>1. /\ UNCHANGED agreed /\ UNCHANGED <<awaiting, waiting, joining, wk>>
      /\ UNCHANGED <<requests, messages, signals, batch>>
      /\ ui' # "apply" /\ ui # "apply" /\ ui # "reload"
  BY DEF SettleDone, BeginResolve, EndPump, BeginReload, jsVars, bridgeVars, hostVars,
         otherThreads, workerVars, reloadVars, agreed, Settling
<1>2. batch = <<>>
  BY DEF SettleDone, BeginResolve, EndPump, BeginReload, ChannelInv
<1>3. UNCHANGED queues
  BY <1>1, <1>2 DEF queues, Commands, Frames, Polled
<1>4. joining = None
  BY <1>1 DEF Truth, JoinInv
<1>5. ui' = "reload" => reactions = <<>>
  BY DEF SettleDone, BeginResolve, EndPump, BeginReload
<1> QED
  BY <1>1, <1>3, <1>4, <1>5, StillTruth

\* A worker that changes its phase says nothing.
LEMMA WorkerPhaseTruth ==
  ASSUME TypeOK, WorkerInv, ChannelInv, Truth, NEW o \in Open,
         WorkerIdle(o) \/ WorkerStops(o) \/ WorkerReads(o) \/ ReadTimeout(o)
  PROVE  Truth'
<1>1. /\ UNCHANGED agreed /\ UNCHANGED <<awaiting, waiting, joining, ui>>
      /\ UNCHANGED <<requests, messages, signals, batch>>
  BY DEF WorkerIdle, WorkerStops, WorkerReads, ReadTimeout, uiThread, jsVars, bridgeVars,
         hostVars, reloadVars, agreed
<1>2. UNCHANGED queues
  BY <1>1 DEF queues, Commands, Frames, Polled
<1>3. \A p \in Open : wk[p] = "none" <=> wk'[p] = "none"
  BY DEF WorkerIdle, WorkerStops, WorkerReads, ReadTimeout, WorkerReturns, TypeOK
<1> QED
  BY <1>1, <1>2, <1>3, StillTruth

\* The frame takes the messages.
LEMMA BeginFrameTruth ==
  ASSUME TypeOK, WorkerInv, ChannelInv, Truth, BeginFrame
  PROVE  Truth'
<1>1. /\ UNCHANGED agreed /\ UNCHANGED <<awaiting, waiting, joining, wk, requests, signals>>
      /\ ui = "js" /\ ui' = "settle" /\ batch' = messages /\ messages' = <<>> /\ batch = <<>>
  BY DEF BeginFrame, jsVars, hostVars, otherThreads, workerVars, reloadVars, agreed, ChannelInv
<1>2. /\ Commands = <<>> /\ Commands' = <<>> /\ Frames = <<>> /\ Frames' = messages
      /\ Polled = <<>> /\ Polled' = <<>>
  BY <1>1 DEF Commands, Frames, Polled
<1>3. /\ Asked' = Asked /\ Sent' = Sent /\ Traffic' = Traffic /\ SameInputs
  BY <1>1, <1>2, EmptyItems DEF Asked, Sent, Traffic, SameInputs
<1>4. joining = None
  BY <1>1 DEF Truth, JoinInv
<1>5. InTurn'
  BY <1>1, <1>2, TurnSame DEF BareKept, Bare, agreed, Truth, AskedInv
<1>6. OrderInv'
  BY <1>1, <1>2, OrderFrame DEF Truth
<1>7. JoinInv'
  BY <1>1, <1>3, <1>4 DEF Truth, JoinInv
<1>8. \A o \in Open : (Granted(o)' => Granted(o)) /\ (Landing(o)' => Granted(o))
  BY <1>1, <1>2, EmptyItems DEF Granted, Landing, Grants, agreed
<1>9. \A m \in ItemsOf(signals) : m.type = "input" => hostOpen[DeviceOf[m.open]] = m.open
  BY <1>1 DEF Truth, InputInv
<1>10. \A o \in Open : Landing(o)' =>
        \A m \in ItemsOf(messages') \cup Sent' : ~ForeignTo(m, o)
  <2> SUFFICES ASSUME NEW o \in Open, Landing(o)', NEW m \in ItemsOf(signals)
               PROVE  ~ForeignTo(m, o)
    BY <1>1, <1>2, EmptyItems DEF Sent
  <2>1. hostOpen[DeviceOf[o]] = o
    BY <1>1, <1>8 DEF Truth, HostInv
  <2> QED
    BY <1>9, <2>1 DEF ForeignTo
<1> QED
  BY <1>1, <1>3, <1>5, <1>6, <1>7, <1>8, <1>9, <1>10, Passing

\* The controller takes the requests, or the signals.
LEMMA BeginApplyTruth ==
  ASSUME TypeOK, WorkerInv, ChannelInv, Truth, BeginApply
  PROVE  Truth'
<1>1. /\ UNCHANGED agreed /\ UNCHANGED <<awaiting, waiting, joining, wk, messages, signals>>
      /\ ui \in {"js", "callbacks"} /\ ui' = "apply" /\ batch' = requests /\ requests' = <<>>
  BY DEF BeginApply, jsVars, hostVars, otherThreads, workerVars, reloadVars, agreed
<1>2. /\ Commands = <<>> /\ Commands' = requests /\ Frames = <<>> /\ Frames' = <<>>
      /\ Polled = <<>> /\ Polled' = <<>>
  BY <1>1 DEF Commands, Frames, Polled
<1>3. joining = None
  BY <1>1 DEF Truth, JoinInv
<1>4. InTurn' /\ Asked' = Asked
  BY <1>1, <1>2, TurnSame DEF BareKept, Bare, agreed, Truth, AskedInv
<1>5. Sent' = Sent /\ Traffic' = Traffic /\ SameInputs
  BY <1>1, <1>2 DEF Sent, Traffic, SameInputs
<1>6. OrderInv'
  BY <1>1, <1>2, <1>5 DEF Truth, OrderInv
<1>7. JoinInv'
  BY <1>1, <1>3, <1>5 DEF Truth, JoinInv
<1>8. \A o \in Open : (Granted(o)' => Granted(o)) /\ (Landing(o)' => Landing(o))
  BY <1>1, <1>2 DEF Granted, Landing, Grants, agreed
<1>9. \A o \in Open : Landing(o)' => \A m \in ItemsOf(messages') \cup Sent' : ~ForeignTo(m, o)
  BY <1>1, <1>5, <1>8 DEF Truth, InputInv
<1> QED
  BY <1>1, <1>4, <1>5, <1>6, <1>7, <1>8, <1>9, Passing

\* The controller takes what its workers signalled.
LEMMA BeginPollTruth ==
  ASSUME TypeOK, WorkerInv, ChannelInv, Truth, BeginPoll
  PROVE  Truth'
<1>1. /\ UNCHANGED agreed /\ UNCHANGED <<awaiting, waiting, joining, wk, messages, requests>>
      /\ ui = "apply" /\ ui' = "poll" /\ joining = None
      /\ batch = <<>> /\ batch' = signals /\ signals' = <<>>
  BY DEF BeginPoll, jsVars, bridgeVars, hostVars, workerVars, reloadVars, agreed
<1>2. /\ Commands = <<>> /\ Commands' = <<>> /\ Frames = <<>> /\ Frames' = <<>>
      /\ Polled = <<>> /\ Polled' = signals
  BY <1>1 DEF Commands, Frames, Polled
<1>3. InTurn' /\ Asked' = Asked
  BY <1>1, <1>2, TurnSame DEF BareKept, Bare, agreed, Truth, AskedInv
<1>4. Sent' = Sent /\ Traffic' = Traffic /\ SameInputs
  BY <1>1, <1>2, EmptyItems DEF Sent, Traffic, SameInputs
<1>5. OrderInv'
  BY <1>1, <1>2, OrderPoll DEF Truth
<1>6. JoinInv'
  BY <1>1, <1>4 DEF Truth, JoinInv
<1>7. \A o \in Open : (Granted(o)' => Granted(o)) /\ (Landing(o)' => Landing(o))
  BY <1>1, <1>2 DEF Granted, Landing, Grants, agreed
<1>8. \A o \in Open : Landing(o)' => \A m \in ItemsOf(messages') \cup Sent' : ~ForeignTo(m, o)
  BY <1>1, <1>4, <1>7 DEF Truth, InputInv
<1>9. \A m \in ItemsOf(signals') : m.type = "input" => hostOpen[DeviceOf[m.open]] = m.open
  BY <1>1, EmptyItems
<1> QED
  BY <1>1, <1>3, <1>4, <1>5, <1>6, <1>7, <1>8, <1>9, Passing

\* The controller deals with a request or a waiting open without giving the
\* device away, and answers it or hands it on.
LEMMA AnswerTruth ==
  ASSUME TypeOK, Truth, UNCHANGED agreed,
         UNCHANGED <<awaiting, wk, ui, requests, signals, Frames, Polled>>,
         NEW m \in Message, m.type = "completion", m.req.op = "open" => ~m.ok,
         messages' \in {messages, Append(messages, m)},
         \/ Commands' = Commands /\ joining' = joining
         \/ /\ Commands # <<>> /\ Commands' = Tail(Commands) /\ joining' = None
            /\ joining = None \/ (Head(Commands).op = "close" /\ Head(Commands).of = joining),
         \A d \in Device : waiting'[d] \in {waiting[d], NoRequest}
  PROVE  Truth'
<1> DEFINE ends == /\ Commands # <<>> /\ Commands' = Tail(Commands) /\ joining' = None
                   /\ joining = None \/ (Head(Commands).op = "close" /\ Head(Commands).of = joining)
<1>1. InTurn /\ JoinInv /\ OrderInv /\ InputInv
  BY DEF Truth, AskedInv
<1>2. ItemsOf(messages') \in {ItemsOf(messages), ItemsOf(messages) \cup {m}}
  <2>1. messages \in Seq(Message)
    BY QueueTypes
  <2>2. ItemsOf(Append(messages, m)) = ItemsOf(messages) \cup {m}
    BY <2>1, AppendItems
  <2> QED
    BY <2>2
<1>3. /\ Sent' = Sent /\ SameInputs
      /\ \A x \in Traffic' : x \in Traffic \/ x = m
  BY <1>2 DEF Sent, Traffic, SameInputs
<1>4. /\ Asked' \subseteq Asked
      /\ \A c \in Asked' : c.op = "close" /\ joining = c.of => joining' = c.of
  BY <1>1, TurnHead, QueueItems, RequestFacts, NoneAssumption DEF Asked, Allowed, Twin
<1>5. \A c \in Asked' : c.op = "close" /\ Bare(c)' => Bare(c)
  BY <1>4 DEF Bare, agreed
<1>6. InTurn'
  BY <1>1, <1>5, TurnSame, TurnTail DEF BareKept, Asked
<1>7. OrderInv'
  BY <1>1, <1>3, OrderAnswer DEF OrderInv
<1>8. JoinInv'
  BY <1>1, <1>3 DEF JoinInv, agreed
<1>9. \A o \in Open : (Granted(o)' => Granted(o)) /\ (Landing(o)' => Landing(o))
  BY <1>2 DEF Granted, Landing, Grants, agreed
<1>10. ui' # "reload" => \A o \in Open : Landing(o)' =>
         \A x \in ItemsOf(messages') \cup Sent' : ~ForeignTo(x, o)
  BY <1>1, <1>2, <1>3, <1>9 DEF InputInv, ForeignTo
<1>11. ui' \notin {"apply", "reload"} =>
         \A x \in ItemsOf(signals') : x.type = "input" => hostOpen[DeviceOf[x.open]] = x.open
  BY <1>1 DEF InputInv
<1> QED
  BY <1>3, <1>4, <1>6, <1>7, <1>8, <1>9, <1>10, <1>11, Passing

\* A request is answered by the controller, or handed to a worker.
LEMMA RefusalTruth ==
  ASSUME TypeOK, WorkerInv, ChannelInv, Truth,
         ApplyOpenRefused \/ ApplyTransfer \/ ApplyTransferRefused \/ ApplyCloseNotOpen \/ CloseDone
  PROVE  Truth'
<1> DEFINE r == Head(batch)
           ok == joining # None
<1>1. ui = "apply" /\ batch # <<>> /\ batch \in Seq(Request)
  BY DEF ApplyOpenRefused, ApplyTransfer, ApplyTransferRefused, ApplyCloseNotOpen, CloseDone,
         Applying, EndShutdown, TypeOK
<1>2. /\ UNCHANGED agreed /\ UNCHANGED <<awaiting, wk, ui, requests, signals, waiting>>
      /\ batch' = Tail(batch) /\ joining' = None
      /\ messages' \in {messages, Append(messages, Completion(r, ok))}
      /\ ok => CloseDone
  BY NoneAssumption DEF ApplyOpenRefused, ApplyTransfer, ApplyTransferRefused, ApplyCloseNotOpen,
         CloseDone, Applying, EndShutdown, Answer, jsVars, bridgeVars, hostVars, otherThreads,
         workerVars, reloadVars, agreed
<1>3. r \in Request
  BY <1>1
<1>4. joining = None \/ (r.op = "close" /\ r.of = joining)
  BY <1>1 DEF Truth, JoinInv, Commands
<1>5. /\ Commands = batch /\ Commands' = Tail(batch)
      /\ UNCHANGED <<Frames, Polled>>
  BY <1>1, <1>2 DEF Commands, Frames, Polled
<1> DEFINE m == Completion(r, ok)
<1>6. m \in Message /\ m.type = "completion" /\ m.req = r /\ m.ok = ok
  BY <1>3, MessageMade DEF Completion
<1>7. m.req.op = "open" => ~m.ok
  BY <1>4, <1>6
<1>8. messages' \in {messages, Append(messages, m)}
  BY <1>2
<1>9. joining = None \/ (Head(Commands).op = "close" /\ Head(Commands).of = joining)
  BY <1>4, <1>5
<1> HIDE DEF m, r, ok
<1> QED
  BY <1>1, <1>2, <1>5, <1>6, <1>7, <1>8, <1>9, AnswerTruth

\* An open that waited is refused, and what a closed device still owed.
LEMMA LateRefusalTruth ==
  ASSUME TypeOK, WorkerInv, ChannelInv, Truth,
         \/ \E d \in Device : ResolveRefused(d)
         \/ \E r \in inflight : Abandon(r)
  PROVE  Truth'
<1>1. PICK r \in Request :
        /\ Answer(r, FALSE)
        /\ UNCHANGED agreed /\ UNCHANGED <<awaiting, wk, ui, batch, requests, signals, joining>>
        /\ \A d \in Device : waiting'[d] \in {waiting[d], NoRequest}
  <2>1. CASE \E d \in Device : ResolveRefused(d)
    <3>1. PICK d \in Device : ResolveRefused(d)
      BY <2>1
    <3>2. waiting[d] \in Request
      BY <3>1 DEF ResolveRefused, TypeOK, Request
    <3>3. /\ Answer(waiting[d], FALSE)
          /\ UNCHANGED agreed /\ UNCHANGED <<awaiting, wk, ui, batch, requests, signals, joining>>
      BY <3>1 DEF ResolveRefused, jsVars, otherThreads, workerVars, reloadVars, agreed
    <3>4. \A e \in Device : waiting'[e] \in {waiting[e], NoRequest}
      BY <3>1 DEF ResolveRefused, TypeOK
    <3> QED
      BY <3>2, <3>3, <3>4
  <2>2. CASE \E r \in inflight : Abandon(r)
    <3>1. PICK r \in inflight : Abandon(r)
      BY <2>2
    <3>2. r \in Request
      BY DEF TypeOK, Request
    <3> QED
      BY <3>1, <3>2 DEF Abandon, jsVars, otherThreads, workerVars, reloadVars, agreed
  <2> QED
    BY <2>1, <2>2
<1> DEFINE m == Completion(r, FALSE)
<1>2. m \in Message /\ m.type = "completion" /\ ~m.ok
  BY MessageMade DEF Completion
<1>3. messages' \in {messages, Append(messages, m)}
  BY <1>1 DEF Answer
<1>4. UNCHANGED <<Commands, Frames, Polled>>
  BY <1>1 DEF Commands, Frames, Polled
<1> HIDE DEF m
<1> QED
  BY <1>1, <1>2, <1>3, <1>4, AnswerTruth

\* The controller forwards a signal.
LEMMA ForwardTruth ==
  ASSUME TypeOK, WorkerInv, ChannelInv, Truth,
         \/ PollCompletion
         \/ PollInput /\ hostOpen[DeviceOf[Head(batch).open]] # None
  PROVE  Truth'
<1> DEFINE x == Head(batch)
<1>1. /\ ui = "poll" /\ joining = None /\ batch # <<>> /\ batch \in Seq(Signal)
      /\ x.type \in {"completion", "input"}
  BY DEF PollCompletion, PollInput, Polling, TypeOK
<1>2. /\ UNCHANGED agreed /\ UNCHANGED <<awaiting, wk, ui, requests, signals, waiting, joining>>
      /\ batch' = Tail(batch)
      /\ messages' = Append(messages, x)
  BY DEF PollCompletion, PollInput, jsVars, hostVars, otherThreads, workerVars, reloadVars, agreed
<1>3. /\ Commands = <<>> /\ Commands' = <<>> /\ Frames = <<>> /\ Frames' = <<>>
      /\ Polled = batch /\ Polled' = Tail(batch)
  BY <1>1, <1>2 DEF Commands, Frames, Polled
<1>4. x \in Signal /\ x \in Message
  BY <1>1, SignalFacts
<1>5. /\ ItemsOf(Polled) = {x} \cup ItemsOf(Tail(batch))
      /\ ItemsOf(messages') = ItemsOf(messages) \cup {x}
  BY QueueTypes, <1>4, AppendItems, <1>1, HeadItems, <1>2, <1>3
<1>6. OrderInv'
  BY <1>1, <1>2, <1>3, <1>4, OrderForward DEF Truth
<1> HIDE DEF x
<1>7. /\ Traffic' = Traffic /\ Sent' \subseteq Sent /\ x \in Sent /\ SameInputs
      /\ ItemsOf(messages') \cup Sent' = ItemsOf(messages) \cup Sent
  BY <1>2, <1>3, <1>5 DEF Traffic, Sent, SameInputs
<1>8. InTurn' /\ Asked' = Asked
  BY <1>2, <1>3, TurnSame DEF BareKept, Bare, agreed, Truth, AskedInv
<1>9. JoinInv'
  BY <1>1, <1>2, <1>7 DEF Truth, JoinInv
<1>10. \A o \in Open : (Granted(o)' => Granted(o)) /\ (Landing(o)' => Landing(o))
  BY <1>7, <1>2, <1>3, <1>5, EmptyItems DEF Grants, Truth, JoinInv, agreed, Granted, Landing
<1>11. \A o \in Open : Landing(o)' => \A m \in ItemsOf(messages') \cup Sent' : ~ForeignTo(m, o)
  BY <1>1, <1>7, <1>10 DEF Truth, InputInv
<1>12. \A m \in ItemsOf(signals') : m.type = "input" => hostOpen[DeviceOf[m.open]] = m.open
  BY <1>1, <1>2 DEF Truth, InputInv
<1> QED
  BY <1>1, <1>2, <1>6, <1>7, <1>8, <1>9, <1>10, <1>11, <1>12, Passing

\* A worker completes a transfer.
LEMMA WorkerCommandTruth ==
  ASSUME TypeOK, WorkerInv, ChannelInv, Truth, NEW o \in Open, NEW ok \in BOOLEAN,
         WorkerCommand(o, ok)
  PROVE  Truth'
<1>1. /\ UNCHANGED agreed /\ UNCHANGED <<awaiting, wk, ui, batch, requests, messages, waiting, joining>>
      /\ signals' = Append(signals, Completion(Head(mailbox[o]), ok))
  BY DEF WorkerCommand, Emit, uiThread, jsVars, bridgeVars, hostVars, reloadVars, agreed
<1> DEFINE r == Head(mailbox[o])
           x == Completion(r, ok)
<1>2. r \in TransferRequest /\ r \in Request
  BY DEF WorkerCommand, TypeOK, Request
<1>3. x \in Signal /\ x.type = "completion" /\ x.req.op = "transfer"
  BY <1>2, MessageMade DEF Completion, TransferRequest
<1>4. signals' = Append(signals, x)
  BY <1>1
<1> HIDE DEF x, r
<1>5. UNCHANGED <<Commands, Frames, Polled>>
  BY <1>1 DEF Commands, Frames, Polled
<1>6. ItemsOf(signals') = ItemsOf(signals) \cup {x}
  BY QueueTypes, <1>3, <1>4, AppendItems
<1>7. OrderInv'
  BY <1>3, <1>1, <1>4, <1>5, OrderEmit DEF Later, Truth
<1>8. /\ Traffic' = Traffic \cup {x} /\ Sent' = Sent \cup {x} /\ SameInputs
  BY <1>1, <1>3, <1>5, <1>6 DEF Traffic, Sent, SameInputs
<1>9. InTurn' /\ Asked' = Asked
  BY <1>1, <1>5, TurnSame DEF BareKept, Bare, agreed, Truth, AskedInv
<1>10. JoinInv'
  BY <1>1, <1>3, <1>5, <1>8 DEF Truth, JoinInv, agreed
<1>11. \A p \in Open : (Granted(p)' => Granted(p)) /\ (Landing(p)' => Landing(p))
  BY <1>1, <1>5 DEF Granted, Landing, Grants, agreed
<1>12. ui' # "reload" => \A p \in Open : Landing(p)' =>
         \A m \in ItemsOf(messages') \cup Sent' : ~ForeignTo(m, p)
  BY <1>1, <1>3, <1>8, <1>11 DEF Truth, InputInv, ForeignTo
<1>13. ui' \notin {"apply", "reload"} =>
         \A m \in ItemsOf(signals') : m.type = "input" => hostOpen[DeviceOf[m.open]] = m.open
  BY <1>1, <1>3, <1>6 DEF Truth, InputInv
<1> QED
  BY <1>1, <1>7, <1>8, <1>9, <1>10, <1>11, <1>12, <1>13, Passing

\* The report of a device that is not open is dropped.
LEMMA DropTruth ==
  ASSUME TypeOK, WorkerInv, ChannelInv, Truth,
         PollInput, hostOpen[DeviceOf[Head(batch).open]] = None
  PROVE  Truth'
<1> DEFINE x == Head(batch)
<1>1. /\ ui = "poll" /\ joining = None /\ batch # <<>> /\ batch \in Seq(Signal)
      /\ x.type = "input" /\ hostOpen[DeviceOf[x.open]] = None
  BY DEF PollInput, Polling, TypeOK
<1>2. /\ UNCHANGED agreed
      /\ UNCHANGED <<awaiting, wk, ui, requests, messages, signals, waiting, joining>>
      /\ batch' = Tail(batch)
  BY DEF PollInput, jsVars, hostVars, otherThreads, workerVars, reloadVars, agreed
<1>3. /\ Commands = <<>> /\ Commands' = <<>> /\ Frames = <<>> /\ Frames' = <<>>
      /\ Polled = batch /\ Polled' = Tail(batch)
  BY <1>1, <1>2 DEF Commands, Frames, Polled
<1>4. x \in Signal /\ x \in Message /\ x.open \in Open
  BY <1>1, SignalFacts
<1>5. ItemsOf(Polled) = {x} \cup ItemsOf(Tail(batch))
  BY <1>1, <1>3, HeadItems
<1>6. OrderInv'
  BY <1>1, <1>2, <1>3, <1>4, OrderForward DEF Truth
<1> HIDE DEF x
<1>7. Traffic = Traffic' \cup {x} /\ Sent' \subseteq Sent
  BY <1>2, <1>3, <1>5 DEF Traffic, Sent
<1>8. InTurn' /\ Asked' = Asked
  BY <1>2, <1>3, TurnSame DEF BareKept, Bare, agreed, Truth, AskedInv
<1>9. \A o \in Open : (Granted(o)' => Granted(o)) /\ (Landing(o)' => Landing(o))
  BY <1>2, <1>3 DEF Granted, Landing, Grants, agreed
<1>10. PromiseInv' /\ HandleInv'
  BY <1>2 DEF Truth, PromiseInv, HandleInv, agreed
<1>11. AskedInv'
  BY <1>2, <1>8 DEF Truth, AskedInv, Twin, agreed
<1>12. JoinInv'
  BY <1>1, <1>2, <1>7 DEF Truth, JoinInv
<1>13. HostInv'
  BY <1>2, <1>8, <1>9 DEF Truth, HostInv, Bare, agreed
<1>14. InputInv'
  BY <1>1, <1>2, <1>7, <1>9 DEF Truth, InputInv, ForeignTo, agreed
<1>15. GapInv'
  BY <1>4, NoneAssumption, <1>1, <1>2, <1>7, GapShrinks DEF Truth, agreed
<1> QED
  BY <1>6, <1>10, <1>11, <1>12, <1>13, <1>14, <1>15 DEF Truth

(***************************************************************************)
(* The frame.                                                              *)
(***************************************************************************)

\* A completion is delivered: an awaited open is granted or refused.
LEMMA SettleCompletionTruth ==
  ASSUME TypeOK, WorkerInv, ChannelInv, Truth, SettleCompletion
  PROVE  Truth'
<1> DEFINE x == Head(batch)
           id == x.req.id
           r == awaiting[id]
<1>1. /\ ui \in {"settle", "listener"} /\ ui' = "settle" /\ batch # <<>>
      /\ batch \in Seq(NumberedMessage) /\ x.type = "completion" /\ batch' = Tail(batch)
      /\ Settle(r, x.ok) /\ awaiting' = [awaiting EXCEPT ![id] = NoRequest]
      /\ UNCHANGED <<openDevs, heard, requests, messages, joining, hostOpen, waiting, wk,
                     readCount, signals, failedReloads>>
  BY DEF SettleCompletion, Settling, ChannelInv, bridgeVars, hostVars, otherThreads, workerVars,
         reloadVars
<1>2. x \in NumberedMessage
  BY <1>1
<1>3. x \in Message /\ x.req \in Numbered /\ x.req \in Request /\ id \in Id
  BY <1>1, <1>2, RequestFacts DEF NumberedMessage, Numbered
<1>4. r \in {NoRequest, x.req}
  BY <1>3 DEF Numbered
<1>5. /\ Commands = <<>> /\ Commands' = <<>> /\ Frames = batch /\ Frames' = Tail(batch)
      /\ Polled = <<>> /\ Polled' = <<>>
  BY <1>1 DEF Commands, Frames, Polled
<1>6. batch \in Seq(Message)
  BY <1>1 DEF TypeOK
<1>7. ItemsOf(Frames) = {x} \cup ItemsOf(Frames') /\ Asked' = Asked
  BY <1>1, <1>5, <1>6, HeadItems DEF Asked
<1>8. OrderInv'
  BY <1>1, <1>5, OrderDeliver DEF Truth
<1>9. joining = None
  BY <1>1 DEF Truth, JoinInv
<1>10. Traffic = {x} \cup Traffic' /\ Sent' = Sent
  BY <1>1, <1>5, <1>7 DEF Traffic, Sent
<1>11. \A i \in Id : awaiting'[i] = IF i = id THEN NoRequest ELSE awaiting[i]
  BY <1>1, <1>3 DEF TypeOK
<1>12. r.op = "open" => /\ r = x.req /\ r.of \in Open /\ handle[r.of] = "opening"
  BY <1>3, <1>4, RequestFacts DEF NoRequest, Truth, PromiseInv
<1>13. \A o \in Open : handle'[o] = IF r.op = "open" /\ o = r.of
                                    THEN IF x.ok THEN "granted" ELSE "refused"
                                    ELSE handle[o]
  BY <1>1, <1>12 DEF Settle, TypeOK
<1>14. reactions' = IF r.op = "open" /\ x.ok THEN Append(reactions, r.of) ELSE reactions
  BY <1>1 DEF Settle
<1> HIDE DEF x, id, r
<1>15. \A o \in Open : \A h \in {"none", "live", "closed", "ended", "orphan"} :
         handle'[o] = h <=> handle[o] = h
  BY <1>12, <1>13
<1>16. PromiseInv'
  <2>1. \A i \in Id : awaiting[i] \in Request \cup {NoRequest}
    BY DEF TypeOK
  <2>2. \A i \in Id : awaiting[i].op = "open" => awaiting[i].of \in Open
    BY <2>1, RequestFacts DEF NoRequest
  <2>3. \A i \in Id : awaiting'[i] # NoRequest =>
          awaiting'[i].id = i /\ (awaiting'[i].op = "open" => handle'[awaiting'[i].of] = "opening")
    <3> SUFFICES ASSUME NEW i \in Id, i # id, awaiting[i] # NoRequest
                 PROVE  /\ awaiting[i].id = i
                        /\ awaiting[i].op = "open" => handle'[awaiting[i].of] = "opening"
      BY <1>11
    <3>1. awaiting[i].id = i /\ (awaiting[i].op = "open" => handle[awaiting[i].of] = "opening")
      BY DEF Truth, PromiseInv
    <3>2. awaiting[i].op = "open" => ~(r.op = "open" /\ awaiting[i].of = r.of)
      BY <1>3 DEF Truth, PromiseInv, r
    <3> QED
      BY <1>13, <2>2, <3>1, <3>2
  <2>4. \A i, j \in Id : awaiting'[i].op = "open" /\ awaiting'[j].op = "open"
                         /\ awaiting'[i].of = awaiting'[j].of => i = j
    BY <1>11 DEF Truth, PromiseInv, NoRequest
  <2> QED
    BY <2>3, <2>4 DEF PromiseInv
<1>17. HandleInv'
  <2>1. reactions \in Seq(Open)
    BY DEF TypeOK
  <2>2. \A i \in DOMAIN reactions : reactions[i] \in Open /\ handle[reactions[i]] = "granted"
    BY <2>1 DEF Truth, HandleInv
  <2>3. r.op = "open" => r.of \in Open /\ \A i \in DOMAIN reactions : reactions[i] # r.of
    BY <1>12, <2>2
  <2>4. /\ \A i \in DOMAIN reactions' : handle'[reactions'[i]] = "granted"
        /\ \A i, j \in DOMAIN reactions' : reactions'[i] = reactions'[j] => i = j
        /\ \A o \in Open : handle'[o] = "granted" => o \in ItemsOf(reactions')
    <3>1. CASE ~(r.op = "open" /\ x.ok)
      BY <1>12, <1>13, <3>1, <1>14, <2>2 DEF Truth, HandleInv
    <3>2. CASE r.op = "open" /\ x.ok
      <4>1. reactions' = Append(reactions, r.of) /\ r.of \in Open
        BY <1>14, <2>3, <3>2
      <4>2. /\ DOMAIN reactions' = 1 .. Len(reactions) + 1 /\ DOMAIN reactions = 1 .. Len(reactions)
            /\ Len(reactions) \in Nat /\ reactions'[Len(reactions) + 1] = r.of
            /\ \A i \in 1 .. Len(reactions) : reactions'[i] = reactions[i]
        BY <2>1, <4>1
      <4>3. ItemsOf(reactions') = ItemsOf(reactions) \cup {r.of}
        BY <2>1, <4>1, AppendItems
      <4>4. \A i \in DOMAIN reactions' : i \in DOMAIN reactions \/ i = Len(reactions) + 1
        BY <4>2
      <4>5. \A i \in DOMAIN reactions' : handle'[reactions'[i]] = "granted"
        BY <1>13, <2>2, <2>3, <3>2, <4>2, <4>4
      <4>6. \A i, j \in DOMAIN reactions' : reactions'[i] = reactions'[j] => i = j
        BY <2>3, <3>2, <4>2, <4>4 DEF Truth, HandleInv
      <4>7. \A o \in Open : handle'[o] = "granted" => o \in ItemsOf(reactions')
        BY <1>13, <3>2, <4>3 DEF Truth, HandleInv
      <4> QED
        BY <4>5, <4>6, <4>7
    <3> QED
      BY <3>1, <3>2
  <2>5. /\ ui' # "reload"
        /\ \A d \in Device, o \in Open : openDevs'[d] = o <=> handle'[o] = "live" /\ DeviceOf[o] = d
        /\ \A o \in Open : heard'[o] # <<>> => handle'[o] \in {"live", "ended", "closed", "orphan"}
        /\ \A o \in Open : handle'[o] = "none" => wk'[o] = "none"
    BY <1>1, <1>15 DEF Truth, HandleInv
  <2> QED
    BY <2>4, <2>5 DEF HandleInv
<1>18. AskedInv'
  <2>1. BareKept
    BY <1>1 DEF BareKept, Bare
  <2>2. InTurn'
    BY <1>1, <1>5, <2>1, TurnSame DEF Truth, AskedInv
  <2>3. \A q \in Asked' : /\ q.op = "open" => q.of \in Open
                          /\ q.op = "close" => q.of \in Open
    BY <1>7, QueueItems, RequestFacts
  <2>4. \A d \in Device : waiting[d] # NoRequest => waiting[d].of \in Open
    BY DEF TypeOK, OpenRequest
  <2>5. \A o \in Open : handle[o] \in {"opening", "refused"} /\ wk[o] = "none" =>
          handle'[o] \in {"opening", "refused"}
    <3> SUFFICES ASSUME NEW o \in Open, handle[o] \in {"opening", "refused"}, wk[o] = "none",
                        r.op = "open", o = r.of, x.ok
                 PROVE  FALSE
      BY <1>13
    <3>1. Grants(x, o)
      BY <1>1, <1>3, <1>12 DEF Grants, r, id, x
    <3>2. hostOpen[DeviceOf[o]] = o
      BY <1>1, <1>7, <3>1 DEF Landing, Granted, Truth, HostInv
    <3> QED
      BY <3>2, DeviceOfAssumption, NoneAssumption DEF WorkerInv
  <2>6. \A q \in Asked' : q.op = "open" =>
          handle'[q.of] \in {"opening", "refused"} /\ wk'[q.of] = "none"
    BY <1>1, <1>7, <2>3, <2>5 DEF Truth, AskedInv
  <2>7. \A q \in Asked' : q.op = "close" => handle'[q.of] = "closed"
    BY <1>7, <1>15, <2>3 DEF Truth, AskedInv
  <2>8. \A d \in Device : waiting'[d] # NoRequest =>
          /\ handle'[waiting'[d].of] \in {"opening", "refused"} /\ wk'[waiting'[d].of] = "none"
          /\ \A q \in Asked' : ~Twin(waiting'[d], q)
    BY <1>1, <1>7, <2>4, <2>5 DEF Truth, AskedInv
  <2> QED
    BY <2>2, <2>6, <2>7, <2>8 DEF AskedInv
<1>19. JoinInv'
  BY <1>1, <1>9, <1>10 DEF Truth, JoinInv
<1>20. \A o \in Open, m \in ItemsOf(Frames) \cup ItemsOf(messages) : Grants(m, o)' => Grants(m, o)
  <2> SUFFICES ASSUME NEW o \in Open, NEW m \in ItemsOf(Frames) \cup ItemsOf(messages), Grants(m, o)'
               PROVE  Grants(m, o)
    OBVIOUS
  <2>1. m.type = "completion" /\ m.req.op = "open" /\ awaiting'[m.req.id] = m.req
    BY DEF Grants
  <2>2. m \in Message
    BY QueueTypes, ItemsOfSeq
  <2>3. m.req \in Request /\ m.req.id \in Id
    BY <2>1, <2>2, MessageFacts, RequestFacts
  <2>4. m.req # NoRequest
    BY <2>1 DEF NoRequest
  <2> QED
    BY <1>11, <2>1, <2>3, <2>4 DEF Grants
<1>21. \A o \in Open : (Granted(o)' => Granted(o)) /\ (Landing(o)' => Landing(o))
  <2> SUFFICES ASSUME NEW o \in Open
               PROVE  (Granted(o)' => Granted(o)) /\ (Landing(o)' => Landing(o))
    OBVIOUS
  <2>1. (\E m \in ItemsOf(Frames)' : Grants(m, o)') => Landing(o)
    BY <1>7, <1>20 DEF Landing
  <2>2. handle'[o] = "granted" => Landing(o)
    BY <1>1, <1>3, <1>12, <1>7, <1>13 DEF Landing, Grants, r, id, x
  <2>3. Landing(o)' => Landing(o)
    BY <2>1, <2>2 DEF Landing
  <2>4. (\E m \in ItemsOf(messages)' : Grants(m, o)') => \E m \in ItemsOf(messages) : Grants(m, o)
    BY <1>1, <1>20
  <2> QED
    BY <2>3, <2>4 DEF Granted
<1>22. HostInv'
  BY <1>1, <1>7, <1>15, <1>21 DEF Truth, HostInv, Bare
<1>23. InputInv'
  BY <1>1, <1>10, <1>15, <1>21 DEF Truth, InputInv, ForeignTo
<1>24. GapInv'
  BY <1>1, <1>10, <1>15, GapShrinks DEF x, Truth
<1> QED
  BY <1>8, <1>16, <1>17, <1>18, <1>19, <1>22, <1>23, <1>24 DEF Truth

\* A report is delivered: it is the next one of the handle that hears it.
LEMMA SettleInputTruth ==
  ASSUME TypeOK, WorkerInv, ChannelInv, Truth, SettleInput
  PROVE  Truth'
<1> DEFINE x == Head(batch)
           o == openDevs[DeviceOf[x.open]]
           R == [type : {"input"}, open : Open, n : Nat]
<1>1. /\ ui \in {"settle", "listener"} /\ ui' \in {"settle", "listener"} /\ batch # <<>>
      /\ batch \in Seq(Message) /\ x.type = "input" /\ batch' = Tail(batch)
      /\ o = None => heard' = heard
      /\ o # None => heard' = [heard EXCEPT ![o] = Append(@, x)]
      /\ UNCHANGED <<handle, openDevs, reactions, awaiting, requests, messages, joining, hostOpen,
                     waiting, wk, readCount, signals, failedReloads>>
  BY DEF SettleInput, Settling, TypeOK, bridgeVars, hostVars, otherThreads, workerVars, reloadVars
<1>2. /\ Commands = <<>> /\ Commands' = <<>> /\ Frames = batch /\ Frames' = Tail(batch)
      /\ Polled = <<>> /\ Polled' = <<>>
  BY <1>1 DEF Commands, Frames, Polled
<1>3. x \in Message /\ x.open \in Open /\ x \in R /\ x.n \in Nat /\ DeviceOf[x.open] \in Device
  BY <1>1, MessageFacts, DeviceOfAssumption
<1>4. ItemsOf(Frames) = {x} \cup ItemsOf(Frames') /\ Asked' = Asked
  BY <1>1, <1>2, HeadItems DEF Asked
<1>5. OrderInv' /\ \A m \in Traffic' : Later(x, m)
  BY <1>1, <1>2, OrderDeliver DEF Truth
<1>6. joining = None
  BY <1>1 DEF Truth, JoinInv
<1>7. Traffic = {x} \cup Traffic' /\ Sent' = Sent /\ x \in Traffic
  BY <1>1, <1>2, <1>4 DEF Traffic, Sent
<1>8. o \in Open \cup {None} /\ heard \in [Open -> Seq(R)]
  BY <1>3 DEF TypeOK
<1>9. o # None => o \in Open /\ handle[o] = "live" /\ DeviceOf[o] = DeviceOf[x.open]
  BY <1>3, <1>8 DEF Truth, HandleInv
<1> HIDE DEF x, o, R
<1>10. o # None => x.open = o /\ hostOpen[DeviceOf[o]] = o
  BY <1>1, <1>7, <1>9 DEF Truth, InputInv
<1>11. \A p \in Open : heard'[p] = IF p = o THEN Append(heard[p], x) ELSE heard[p]
  BY <1>1, <1>8, NoneAssumption
<1>12. PromiseInv'
  BY <1>1 DEF Truth, PromiseInv
<1>13. HandleInv'
  BY <1>1, <1>9, <1>11, NoneAssumption DEF Truth, HandleInv
<1>14. AskedInv'
  BY <1>1, <1>2, TurnSame, <1>4 DEF BareKept, Bare, Truth, AskedInv, Twin
<1>15. JoinInv'
  BY <1>1, <1>6, <1>7 DEF Truth, JoinInv
<1>16. \A p \in Open : (Granted(p)' => Granted(p)) /\ (Landing(p)' => Landing(p))
  BY <1>1, <1>4 DEF Granted, Landing, Grants
<1>17. HostInv'
  BY <1>1, <1>4, <1>16 DEF Truth, HostInv, Bare
<1>18. InputInv'
  BY <1>1, <1>7, <1>16 DEF Truth, InputInv, ForeignTo
<1>19. GapInv'
  <2>1. CASE o = None
    BY <1>3, <2>1, NoneAssumption, <1>1, <1>5, <1>7, GapShrinks DEF Truth, HandleInv, o
  <2>2. CASE o # None
    <3>1. heard[o] \in Seq(R) /\ o \in Open
      BY <1>8, <1>9, <2>2
    <3>2. /\ heard'[o] = Append(heard[o], x) /\ Len(heard[o]) \in Nat
          /\ Len(heard'[o]) = Len(heard[o]) + 1 /\ heard'[o][Len(heard[o]) + 1] = x
          /\ \A i \in 1 .. Len(heard[o]) : heard'[o][i] = heard[o][i]
          /\ DOMAIN heard[o] = 1 .. Len(heard[o])
          /\ DOMAIN heard'[o] = 1 .. Len(heard[o]) + 1
      <4>1. heard'[o] = Append(heard[o], x) /\ x \in R
        BY <1>3, <1>11, <3>1 DEF R
      <4> QED
        BY <3>1, <4>1
    <3>3. PICK q \in Open : q = o
      BY <3>1
    <3>4. Last(q)' = x.n
      BY <3>2, <3>3 DEF Last
    <3>5. \A p \in Open : p # o => heard'[p] = heard[p] /\ Last(p)' = Last(p)
      BY <1>11 DEF Last
    <3>6. x.n <= readCount[o] /\ Complete(o, x.n)
      BY <1>1, <1>7, <1>10, <2>2 DEF Truth, GapInv, x
    <3>7. heard[o] # <<>> => x.n = Last(o) + 1
      <4> SUFFICES ASSUME heard[o] # <<>> PROVE x.n = Last(o) + 1
        OBVIOUS
      <4>1. x.type = "input" /\ x.open = o
        BY <1>1, <1>10, <2>2 DEF x
      <4>2. Complete(o, Last(o)) /\ x.n > Last(o)
        BY <1>7, <1>9, <1>10, <2>2, <3>1, <4>1 DEF Truth, GapInv
      <4>3. Last(o) \in Nat
        <5>1. heard[o][Len(heard[o])] \in R
          BY <3>1, LastItem
        <5> QED
          BY <5>1 DEF Last, R
      <4>4. readCount[o] \in Nat
        BY <3>1 DEF TypeOK
      <4>5. Last(o) + 1 \in Last(o) + 1 .. readCount[o]
        BY <1>3, <3>6, <4>2, <4>3, <4>4
      <4>6. Input(o, Last(o) + 1) \in Traffic
        BY <4>2, <4>5 DEF Complete
      <4> DEFINE y == Input(o, Last(o) + 1)
      <4>7. y.type = "input" /\ y.open = o /\ y.n = Last(o) + 1
        BY DEF Input
      <4>8. y \in Traffic
        BY <4>6
      <4> HIDE DEF y
      <4>9. y = x \/ Later(x, y)
        BY <1>5, <1>7, <4>8
      <4>10. y = x \/ x.n < y.n
        BY <4>1, <4>7, <4>9 DEF Later
      <4> QED
        BY <1>3, <4>2, <4>3, <4>7, <4>10
    <3>8. \A m \in Traffic' : m.type = "input" => m.n <= readCount'[m.open]
      BY <1>1, <1>7 DEF Truth, GapInv
    <3>9. \A p \in Open : heard'[p] # <<>> => Last(p)' <= readCount'[p]
      BY <1>1, <3>4, <3>5, <3>6, <3>3 DEF Truth, GapInv
    <3>10. ASSUME NEW p \in Open, NEW k \in Nat, Input(p, k) \in Traffic, p # o \/ k > x.n
          PROVE  Input(p, k) \in Traffic'
      BY <1>3, <1>7, <1>10, <2>2, <3>10 DEF Input
    <3>11. \A m \in Traffic' : m.type = "input" /\ hostOpen'[DeviceOf[m.open]] = m.open =>
             Complete(m.open, m.n)'
      <4> SUFFICES ASSUME NEW m \in Traffic', m.type = "input",
                          hostOpen'[DeviceOf[m.open]] = m.open,
                          NEW k \in m.n + 1 .. readCount[m.open]
                   PROVE  Input(m.open, k) \in Traffic'
        BY <1>1 DEF Complete
      <4>1. m \in Traffic /\ m.open \in Open /\ m.n \in Nat
        BY <1>7, QueueItems
      <4>2. readCount[m.open] \in Nat
        BY <4>1 DEF TypeOK
      <4>3. Input(m.open, k) \in Traffic
        BY <1>1, <4>1 DEF Truth, GapInv, Complete
      <4>4. k \in Nat /\ k > m.n
        BY <4>1, <4>2
      <4>5. m.open = o => x.n < m.n
        BY <1>1, <1>5, <1>10, <2>2 DEF Later, x
      <4>6. m.open # o \/ k > x.n
        BY <1>3, <4>1, <4>4, <4>5
      <4> QED
        BY <3>10, <4>1, <4>3, <4>4, <4>6
    <3>12. \A p \in Open :
             handle'[p] = "live" /\ hostOpen'[DeviceOf[p]] = p /\ heard'[p] # <<>> =>
               /\ Complete(p, Last(p))'
               /\ \A m \in Traffic' : m.type = "input" /\ m.open = p => m.n > Last(p)'
      <4> SUFFICES ASSUME NEW p \in Open, handle[p] = "live", hostOpen[DeviceOf[p]] = p,
                          heard'[p] # <<>>
                   PROVE  /\ \A k \in Last(p)' + 1 .. readCount[p] : Input(p, k) \in Traffic'
                          /\ \A m \in Traffic' : m.type = "input" /\ m.open = p => m.n > Last(p)'
        BY <1>1 DEF Complete
      <4>1. readCount[p] \in Nat
        BY DEF TypeOK
      <4>2. CASE p = o
        <5>1. \A k \in x.n + 1 .. readCount[p] : k \in Nat /\ k > x.n /\ Input(o, k) \in Traffic
          BY <1>3, <3>6, <4>1, <4>2 DEF Complete
        <5>2. \A k \in x.n + 1 .. readCount[p] : Input(o, k) \in Traffic'
          BY <3>1, <3>10, <5>1
        <5>3. \A m \in Traffic' : m.type = "input" /\ m.open = o => x.n < m.n
          BY <1>1, <1>5, <1>10, <2>2 DEF Later, x
        <5>4. \A m \in Traffic' : m.type = "input" => m.n \in Nat
          BY <1>7, QueueItems
        <5> QED
          BY <1>3, <3>4, <3>3, <4>2, <5>2, <5>3, <5>4
      <4>3. CASE p # o
        <5>1. heard[p] # <<>> /\ Last(p)' = Last(p)
          BY <3>5, <4>3
        <5>2. /\ Complete(p, Last(p))
              /\ \A m \in Traffic : m.type = "input" /\ m.open = p => m.n > Last(p)
          BY <5>1 DEF Truth, GapInv
        <5>3. Last(p) \in Nat
          <6>1. heard[p] \in Seq(R)
            BY <1>8
          <6>2. heard[p][Len(heard[p])] \in R
            BY <5>1, <6>1, LastItem
          <6> QED
            BY <6>2 DEF Last, R
        <5>4. \A k \in Last(p) + 1 .. readCount[p] : k \in Nat /\ Input(p, k) \in Traffic
          BY <4>1, <5>2, <5>3 DEF Complete
        <5>5. \A k \in Last(p) + 1 .. readCount[p] : Input(p, k) \in Traffic'
          BY <3>10, <4>3, <5>4
        <5> QED
          BY <1>7, <5>1, <5>2, <5>5
      <4> QED
        BY <4>2, <4>3
    <3>13. \A p \in Open : \A i \in DOMAIN heard'[p] :
             /\ heard'[p][i].open = p
             /\ i > 1 => heard'[p][i].n = heard'[p][i - 1].n + 1
      <4> SUFFICES ASSUME NEW p \in Open, NEW i \in DOMAIN heard'[p]
                   PROVE  /\ heard'[p][i].open = p
                          /\ i > 1 => heard'[p][i].n = heard'[p][i - 1].n + 1
        OBVIOUS
      <4>1. \A j \in DOMAIN heard[p] :
              /\ heard[p][j].open = p
              /\ j > 1 => heard[p][j].n = heard[p][j - 1].n + 1
        BY DEF Truth, GapInv
      <4>2. CASE p # o
        BY <3>5, <4>1, <4>2
      <4>3. CASE p = o /\ i \in 1 .. Len(heard[o])
        <5>1. i > 1 => i - 1 \in 1 .. Len(heard[o])
          BY <3>2, <4>3
        <5> QED
          BY <3>2, <4>1, <4>3, <5>1
      <4>4. CASE p = o /\ i = Len(heard[o]) + 1
        <5>1. heard'[p][i] = x /\ x.open = p
          BY <1>10, <2>2, <3>2, <4>4
        <5>2. i > 1 => heard'[p][i].n = heard'[p][i - 1].n + 1
          <6> SUFFICES ASSUME i > 1 PROVE heard'[p][i].n = heard'[p][i - 1].n + 1
            OBVIOUS
          <6>1. i - 1 = Len(heard[o]) /\ i - 1 \in 1 .. Len(heard[o])
            BY <3>2, <4>4
          <6>2. heard[o] # <<>> /\ heard'[o][i - 1] = heard[o][Len(heard[o])]
            BY <3>2, <6>1
          <6> QED
            BY <3>7, <4>4, <5>1, <6>2 DEF Last
        <5> QED
          BY <5>1, <5>2
      <4>5. p = o => i \in 1 .. Len(heard[o]) \/ i = Len(heard[o]) + 1
        BY <3>2
      <4> QED
        BY <4>2, <4>3, <4>4, <4>5
    <3> QED
      BY <3>8, <3>9, <3>11, <3>12, <3>13 DEF GapInv
  <2> QED
    BY <2>1, <2>2
<1> QED
  BY <1>5, <1>12, <1>13, <1>14, <1>15, <1>17, <1>18, <1>19 DEF Truth

\* The reaction of a resolved open makes its handle.
LEMMA ReactTruth ==
  ASSUME TypeOK, WorkerInv, ChannelInv, Truth, React
  PROVE  Truth'
<1>1. PICK o \in Open :
        /\ ui = "js" /\ reactions # <<>> /\ o = Head(reactions)
        /\ handle' = [handle EXCEPT ![o] = "live"]
        /\ openDevs' = [openDevs EXCEPT ![DeviceOf[o]] = o]
        /\ reactions' = Tail(reactions)
        /\ UNCHANGED <<awaiting, heard, requests, messages, ui, batch, joining, hostOpen,
                       waiting, wk, readCount, signals, failedReloads>>
  <2>1. Head(reactions) \in Open
    BY DEF React, TypeOK
  <2> QED
    BY <2>1 DEF React, bridgeVars, hostVars, otherThreads, workerVars, reloadVars
<1>2. /\ Commands = <<>> /\ Commands' = <<>> /\ Frames = <<>> /\ Frames' = <<>>
      /\ Polled = <<>> /\ Polled' = <<>>
  BY <1>1 DEF Commands, Frames, Polled
<1>3. Asked' = Asked /\ Sent' = Sent /\ Traffic' = Traffic
  BY <1>1, <1>2 DEF Asked, Sent, Traffic
<1>4. joining = None
  BY <1>1 DEF Truth, JoinInv
<1>5. /\ reactions \in Seq(Open) /\ o \in ItemsOf(reactions)
      /\ ItemsOf(reactions) = {o} \cup ItemsOf(reactions')
      /\ DOMAIN reactions' = 1 .. Len(reactions) - 1 /\ DOMAIN reactions = 1 .. Len(reactions)
      /\ Len(reactions) \in Nat \ {0} /\ reactions[1] = o
      /\ \A i \in 1 .. Len(reactions) - 1 : reactions'[i] = reactions[i + 1]
  <2>1. reactions \in Seq(Open)
    BY DEF TypeOK
  <2>2. ItemsOf(reactions) = {Head(reactions)} \cup ItemsOf(Tail(reactions))
    BY <1>1, <2>1, HeadItems
  <2> QED
    BY <1>1, <2>1, <2>2
<1>6. handle[o] = "granted" /\ DeviceOf[o] \in Device
  BY <1>5, DeviceOfAssumption DEF Truth, HandleInv
<1>7. \A p \in Open : handle'[p] = IF p = o THEN "live" ELSE handle[p]
  BY <1>1 DEF TypeOK
<1>8. \A d \in Device : openDevs'[d] = IF d = DeviceOf[o] THEN o ELSE openDevs[d]
  BY <1>1 DEF TypeOK
<1>9. hostOpen[DeviceOf[o]] = o /\ openDevs[DeviceOf[o]] = None
  BY <1>1, <1>6 DEF Truth, HostInv, Granted, Landing
<1>10. \A p \in Open : handle[p] = "live" => DeviceOf[p] # DeviceOf[o]
  BY <1>6, <1>9, NoneAssumption DEF Truth, HandleInv
<1>11. heard[o] = <<>>
  BY <1>6 DEF Truth, HandleInv
<1>12. PromiseInv'
  <2>1. \A i \in Id : awaiting[i].op = "open" => handle[awaiting[i].of] = "opening" /\ awaiting[i].of \in Open
    BY RequestFacts DEF TypeOK, NoRequest, Truth, PromiseInv
  <2> QED
    BY <1>1, <1>6, <1>7, <2>1 DEF Truth, PromiseInv
<1>13. HandleInv'
  <2>1. \A i \in DOMAIN reactions' : i + 1 \in DOMAIN reactions /\ i + 1 # 1
    BY <1>5
  <2>2. \A i \in DOMAIN reactions' : reactions'[i] # o /\ reactions'[i] \in Open
    BY <1>5, <2>1 DEF Truth, HandleInv
  <2>3. \A i \in DOMAIN reactions' : handle'[reactions'[i]] = "granted"
    BY <1>5, <1>7, <2>1, <2>2 DEF Truth, HandleInv
  <2>4. \A i, j \in DOMAIN reactions' : reactions'[i] = reactions'[j] => i = j
    BY <1>5, <2>1 DEF Truth, HandleInv
  <2>5. \A p \in Open : handle'[p] = "granted" => p \in ItemsOf(reactions')
    BY <1>5, <1>7 DEF Truth, HandleInv
  <2>6. \A d \in Device, p \in Open : openDevs'[d] = p <=> handle'[p] = "live" /\ DeviceOf[p] = d
    BY <1>7, <1>8, <1>10 DEF Truth, HandleInv
  <2>7. \A p \in Open : heard'[p] # <<>> => handle'[p] \in {"live", "ended", "closed", "orphan"}
    BY <1>1, <1>7 DEF Truth, HandleInv
  <2>8. \A p \in Open : handle'[p] = "none" => wk'[p] = "none"
    BY <1>1, <1>7 DEF Truth, HandleInv
  <2> QED
    BY <1>1, <2>3, <2>4, <2>5, <2>6, <2>7, <2>8 DEF HandleInv
<1>14. AskedInv'
  <2>1. BareKept
    BY <1>1 DEF BareKept, Bare
  <2>2. InTurn'
    BY <1>1, <1>2, <2>1, TurnSame DEF Truth, AskedInv
  <2>3. \A q \in Asked' : /\ q.op = "open" => q.of \in Open
                          /\ q.op = "close" => q.of \in Open
    BY <1>3, QueueItems, RequestFacts
  <2>4. \A d \in Device : waiting[d] # NoRequest => waiting[d].of \in Open
    BY DEF TypeOK, OpenRequest
  <2> QED
    BY <1>1, <1>3, <1>6, <1>7, <2>2, <2>3, <2>4 DEF Truth, AskedInv, Twin
<1>15. JoinInv'
  BY <1>1, <1>3, <1>4 DEF Truth, JoinInv
<1>16. \A p \in Open : /\ Landing(p)' => Landing(p) /\ p # o
                       /\ Granted(p)' => Granted(p) /\ p # o
  <2> SUFFICES ASSUME NEW p \in Open
               PROVE  /\ Landing(p)' => Landing(p) /\ p # o
                      /\ Granted(p)' => Granted(p) /\ p # o
    OBVIOUS
  <2>1. ~Landing(p)' \/ (handle'[p] = "granted" /\ Landing(p) /\ p # o)
    BY <1>2, <1>7, EmptyItems DEF Landing
  <2>2. \A m \in ItemsOf(messages) : Grants(m, p)' => Grants(m, p) /\ p # o
    <3> SUFFICES ASSUME NEW m \in ItemsOf(messages), Grants(m, p)' PROVE Grants(m, p) /\ p # o
      OBVIOUS
    <3>1. Grants(m, p)
      BY <1>1 DEF Grants
    <3>2. m \in Message /\ m.type = "completion"
      BY <3>1, QueueTypes, ItemsOfSeq DEF Grants
    <3>3. m.req.id \in Id /\ m.req # NoRequest
      BY <3>2, MessageFacts, RequestFacts
    <3>4. handle[p] = "opening"
      BY <3>1, <3>3 DEF Grants, Truth, PromiseInv
    <3> QED
      BY <1>6, <3>1, <3>4
  <2> QED
    BY <1>1, <2>1, <2>2 DEF Granted
<1>17. HostInv'
  <2>1. HostInv /\ ui # "reload" /\ ui' # "reload"
    BY <1>1 DEF Truth
  <2>2. \A p \in Open : Granted(p)' => hostOpen'[DeviceOf[p]] = p /\ openDevs'[DeviceOf[p]] = None
    <3> SUFFICES ASSUME NEW p \in Open, Granted(p)'
                 PROVE  hostOpen'[DeviceOf[p]] = p /\ openDevs'[DeviceOf[p]] = None
      OBVIOUS
    <3>1. Granted(p) /\ p # o
      BY <1>16
    <3>2. hostOpen[DeviceOf[p]] = p /\ openDevs[DeviceOf[p]] = None
      BY <2>1, <3>1 DEF HostInv
    <3> QED
      BY <1>1, <1>8, <1>9, <3>1, <3>2, DeviceOfAssumption
  <2>3. \A p \in Open : handle'[p] = "live" =>
          \/ hostOpen'[DeviceOf[p]] = p
          \/ failedReloads' > 0 /\ hostOpen'[DeviceOf[p]] = None
    BY <1>1, <1>7, <1>9, <2>1 DEF HostInv
  <2>4. \A p \in Open : handle'[p] = "live" /\ hostOpen'[DeviceOf[p]] = None =>
          /\ waiting'[DeviceOf[p]] = NoRequest
          /\ \A r \in Asked' : r.op = "open" => DeviceOf[r.of] # DeviceOf[p]
    BY <1>1, <1>3, <1>7, <1>9, <2>1, NoneAssumption DEF HostInv
  <2> QED
    BY <1>1, <1>3, <2>1, <2>2, <2>3, <2>4 DEF HostInv, Bare
<1>18. InputInv'
  BY <1>2, EmptyItems, <1>6, <1>1, <1>3, <1>7, <1>9, <1>16 DEF Traffic, Landing, Truth, InputInv,
     ForeignTo
<1>19. OrderInv'
  BY <1>1, <1>2, <1>3 DEF Truth, OrderInv
<1>20. GapInv'
  BY <1>1, <1>3, <1>7, <1>11, GapShrinks DEF Truth
<1> QED
  BY <1>12, <1>13, <1>14, <1>15, <1>17, <1>18, <1>19, <1>20 DEF Truth

(***************************************************************************)
(* Calls of the document.                                                  *)
(***************************************************************************)

\* A call of the document numbers a command; what is on its way keeps its
\* meaning.
LEMMA CommandFacts ==
  ASSUME TypeOK, ChannelInv, Truth, NEW op \in {"open", "close", "transfer"}, NEW of,
         AppRuns, RunCommand(op, of), UNCHANGED <<messages, ui, batch, joining, signals>>,
         nextId \in Id => [id |-> nextId, op |-> op, of |-> of] \in Request
  PROVE  /\ nextId \in Id
         /\ \E r \in Request :
              /\ r.id = nextId /\ r.op = op /\ r.of = of /\ r # NoRequest
              /\ requests' = Append(requests, r)
              /\ awaiting' = [awaiting EXCEPT ![nextId] = r]
              /\ \A i \in Id : awaiting'[i] = IF i = nextId THEN r ELSE awaiting[i]
         /\ joining = None /\ ui # "reload" /\ ui \notin {"apply", "reload"}
         /\ Commands' = Commands /\ Frames' = Frames /\ Polled' = Polled
         /\ Sent' = Sent /\ Traffic' = Traffic
         /\ \A m \in ItemsOf(Frames) \cup ItemsOf(messages), o \in Open :
              Grants(m, o)' => Grants(m, o)
<1>1. nextId \in Id
  BY BoundAssumption DEF RunCommand, TypeOK, Id
<1> DEFINE r == [id |-> nextId, op |-> op, of |-> of]
<1>2. /\ r \in Request /\ r.id = nextId /\ r.op = op /\ r.of = of
      /\ requests' = Append(requests, r) /\ awaiting' = [awaiting EXCEPT ![nextId] = r]
  BY <1>1 DEF RunCommand
<1> HIDE DEF r
<1>3. r # NoRequest
  BY <1>2 DEF NoRequest
<1>4. \A i \in Id : awaiting'[i] = IF i = nextId THEN r ELSE awaiting[i]
  BY <1>1, <1>2 DEF TypeOK
<1>5. ui \in {"js", "listener", "callbacks"} /\ joining = None
  BY DEF AppRuns, Truth, JoinInv
<1>6. Commands' = Commands /\ Frames' = Frames /\ Polled' = Polled
  BY DEF Commands, Frames, Polled
<1>7. Sent' = Sent /\ Traffic' = Traffic
  BY <1>6 DEF Sent, Traffic
<1>8. \A m \in ItemsOf(Frames) \cup ItemsOf(messages), o \in Open : Grants(m, o)' => Grants(m, o)
  <2> SUFFICES ASSUME NEW m \in ItemsOf(Frames) \cup ItemsOf(messages), NEW o \in Open, Grants(m, o)'
               PROVE  Grants(m, o)
    OBVIOUS
  <2>1. <<>> \in Seq(NumberedMessage)
    OBVIOUS
  <2>2. Frames \in Seq(NumberedMessage) /\ messages \in Seq(NumberedMessage)
    BY <2>1 DEF ChannelInv, Frames
  <2>3. m \in NumberedMessage
    BY <2>2, ItemsOfSeq
  <2>4. m.type = "completion" /\ awaiting'[m.req.id] = m.req
    BY DEF Grants
  <2>5. m.req \in Numbered
    BY <2>3, <2>4 DEF NumberedMessage
  <2>6. m.req.id \in Id /\ m.req.id # nextId
    BY <2>5, RequestFacts, <1>1 DEF Numbered, Id
  <2> QED
    BY <1>4, <2>4, <2>6 DEF Grants
<1> QED
  BY <1>1, <1>2, <1>3, <1>4, <1>5, <1>6, <1>7, <1>8

\* A new promise is kept under its command's id, and once.
LEMMA PromiseAsked ==
  ASSUME TypeOK, PromiseInv, NEW r \in Request, r.id = nextId, nextId \in Id,
         \A i \in Id : awaiting'[i] = IF i = nextId THEN r ELSE awaiting[i],
         \A o \in Open : handle[o] = "opening" => handle'[o] = "opening",
         r.op = "open" => handle[r.of] # "opening" /\ handle'[r.of] = "opening"
  PROVE  PromiseInv'
<1>1. \A i \in Id : awaiting[i].op = "open" => awaiting[i].of \in Open /\ handle[awaiting[i].of] = "opening"
  BY RequestFacts DEF TypeOK, NoRequest, PromiseInv
<1> QED
  BY <1>1 DEF PromiseInv

\* A command is queued behind those it may follow.
LEMMA AskedMore ==
  ASSUME TypeOK, AskedInv, NEW r \in Request, requests' = Append(requests, r), Commands' = Commands,
         UNCHANGED <<waiting, wk, hostOpen, joining, ui>>,
         \A q \in Asked : ~Twin(q, r) /\ ~Passes(q, r),
         \A d \in Device : waiting[d] # NoRequest => ~Twin(waiting[d], r),
         \A o \in Open : handle[o] \in {"opening", "refused", "closed"} => handle'[o] = handle[o],
         r.op = "open" => handle'[r.of] = "opening" /\ wk[r.of] = "none",
         r.op = "close" => handle'[r.of] = "closed"
  PROVE  AskedInv' /\ Asked' = Asked \cup {r}
<1>1. Asked \subseteq Request
  BY QueueItems
<1>2. \A q \in Asked : <<q, r>> \in Allowed'
  BY <1>1 DEF Allowed, Twin, Passes, Bare
<1>3. BareKept
  BY DEF BareKept, Bare
<1>4. InTurn' /\ Asked' = Asked \cup {r}
  BY <1>2, <1>3, TurnAsked DEF AskedInv
<1>5. \A q \in Asked : q.op \in {"open", "close"} => q.of \in Open
  BY <1>1, RequestFacts
<1>6. \A q \in Asked' : q.op = "open" =>
        handle'[q.of] \in {"opening", "refused"} /\ wk'[q.of] = "none"
  BY <1>4, <1>5 DEF AskedInv
<1>7. \A q \in Asked' : q.op = "close" => handle'[q.of] = "closed"
  BY <1>4, <1>5 DEF AskedInv
<1>8. \A d \in Device : waiting[d] # NoRequest => waiting[d].of \in Open
  BY DEF TypeOK, OpenRequest
<1>9. \A d \in Device : waiting'[d] # NoRequest =>
        /\ handle'[waiting'[d].of] \in {"opening", "refused"} /\ wk'[waiting'[d].of] = "none"
        /\ \A q \in Asked' : ~Twin(waiting'[d], q)
  BY <1>4, <1>8 DEF AskedInv
<1> QED
  BY <1>4, <1>6, <1>7, <1>9 DEF AskedInv

\* hid.open() is called.
LEMMA OpenDeviceTruth ==
  ASSUME TypeOK, WorkerInv, ChannelInv, Truth, NEW o \in Open, OpenDevice(o)
  PROVE  Truth'
<1>1. /\ RunCommand("open", o) /\ AppRuns /\ handle[o] = "none" /\ openDevs[DeviceOf[o]] = None
      /\ handle' = [handle EXCEPT ![o] = "opening"]
      /\ UNCHANGED <<openDevs, reactions, heard, messages, ui, batch, joining, hostOpen, waiting,
                     wk, readCount, signals, failedReloads>>
      /\ nextId \in Id => [id |-> nextId, op |-> "open", of |-> o] \in Request
  BY RequestMade DEF OpenDevice, hostVars, otherThreads, workerVars, reloadVars
<1>2. PICK r \in Request :
        /\ nextId \in Id /\ r.id = nextId /\ r.op = "open" /\ r.of = o /\ r # NoRequest
        /\ requests' = Append(requests, r)
        /\ \A i \in Id : awaiting'[i] = IF i = nextId THEN r ELSE awaiting[i]
  BY <1>1, CommandFacts
<1>3. /\ joining = None /\ ui # "reload" /\ ui \notin {"apply", "reload"}
      /\ Commands' = Commands /\ Frames' = Frames /\ Polled' = Polled
      /\ Sent' = Sent /\ Traffic' = Traffic
      /\ \A m \in ItemsOf(Frames) \cup ItemsOf(messages), p \in Open : Grants(m, p)' => Grants(m, p)
  BY <1>1, CommandFacts
<1>4. \A p \in Open : handle'[p] = IF p = o THEN "opening" ELSE handle[p]
  BY <1>1 DEF TypeOK
<1>5. PromiseInv'
  BY <1>1, <1>2, <1>4, PromiseAsked DEF Truth
<1>6. HandleInv'
  <2>1. \A i \in DOMAIN reactions : reactions[i] \in Open
    BY DEF TypeOK
  <2> QED
    BY <1>1, <1>3, <1>4, <2>1 DEF Truth, HandleInv
<1>7. AskedInv' /\ Asked' = Asked \cup {r}
  BY <1>1, <1>2, <1>3, <1>4, AskedMore DEF Truth, AskedInv, Twin, Passes, HandleInv
<1>8. JoinInv'
  BY <1>1, <1>3 DEF Truth, JoinInv
<1>9. \A p \in Open : (Granted(p)' => Granted(p)) /\ (Landing(p)' => Landing(p))
  BY <1>1, <1>3, <1>4 DEF Granted, Landing
<1>10. HostInv'
  <2>1. \A p \in Open : handle[p] = "live" => DeviceOf[p] # DeviceOf[o]
    BY <1>1, NoneAssumption, DeviceOfAssumption DEF Truth, HandleInv
  <2>2. HostInv
    BY DEF Truth
  <2>3. \A p \in Open : handle'[p] = "live" <=> handle[p] = "live"
    BY <1>1, <1>4
  <2>4. \A c \in Asked' : c.op = "close" => c \in Asked
    BY <1>2, <1>7
  <2>5. \A q \in Asked' : q.op = "open" => q \in Asked \/ q.of = o
    BY <1>2, <1>7
  <2> QED
    BY <1>1, <1>3, <1>9, <2>1, <2>2, <2>3, <2>4, <2>5 DEF HostInv, Bare
<1>11. InputInv'
  BY <1>1, <1>3, <1>4, <1>9 DEF Truth, InputInv, ForeignTo
<1>12. OrderInv'
  BY <1>1, <1>3 DEF Truth, OrderInv
<1>13. GapInv'
  BY <1>1, <1>3, <1>4, GapShrinks DEF Truth
<1> QED
  BY <1>5, <1>6, <1>7, <1>8, <1>10, <1>11, <1>12, <1>13 DEF Truth

\* A live handle is closed.
LEMMA CloseHandleTruth ==
  ASSUME TypeOK, WorkerInv, ChannelInv, Truth, NEW o \in Open, CloseHandle(o)
  PROVE  Truth'
<1>1. /\ RunCommand("close", o) /\ AppRuns /\ handle[o] = "live"
      /\ handle' = [handle EXCEPT ![o] = "closed"]
      /\ openDevs' = [openDevs EXCEPT ![DeviceOf[o]] = None]
      /\ UNCHANGED <<reactions, heard, messages, ui, batch, joining, hostOpen, waiting,
                     wk, readCount, signals, failedReloads>>
      /\ nextId \in Id => [id |-> nextId, op |-> "close", of |-> o] \in Request
  BY RequestMade DEF CloseHandle, hostVars, otherThreads, workerVars, reloadVars
<1>2. PICK r \in Request :
        /\ nextId \in Id /\ r.id = nextId /\ r.op = "close" /\ r.of = o /\ r # NoRequest
        /\ requests' = Append(requests, r)
        /\ \A i \in Id : awaiting'[i] = IF i = nextId THEN r ELSE awaiting[i]
  BY <1>1, CommandFacts
<1>3. /\ joining = None /\ ui # "reload" /\ ui \notin {"apply", "reload"}
      /\ Commands' = Commands /\ Frames' = Frames /\ Polled' = Polled
      /\ Sent' = Sent /\ Traffic' = Traffic
      /\ \A m \in ItemsOf(Frames) \cup ItemsOf(messages), p \in Open : Grants(m, p)' => Grants(m, p)
  BY <1>1, CommandFacts
<1>4. /\ \A p \in Open : handle'[p] = IF p = o THEN "closed" ELSE handle[p]
      /\ \A d \in Device : openDevs'[d] = IF d = DeviceOf[o] THEN None ELSE openDevs[d]
      /\ DeviceOf[o] \in Device
  BY <1>1, DeviceOfAssumption DEF TypeOK
<1>5. PromiseInv'
  BY <1>1, <1>2, <1>4, PromiseAsked DEF Truth
<1>6. HandleInv'
  BY <1>1, <1>4, NoneAssumption, <1>3 DEF TypeOK, Truth, HandleInv
<1>7. HostInv /\ AskedInv
  BY DEF Truth
<1>8. /\ hostOpen[DeviceOf[o]] = o \/ (failedReloads > 0 /\ hostOpen[DeviceOf[o]] = None)
      /\ hostOpen[DeviceOf[o]] = None =>
           /\ waiting[DeviceOf[o]] = NoRequest
           /\ \A q \in Asked : q.op = "open" => DeviceOf[q.of] # DeviceOf[o]
  BY <1>1, <1>3, <1>7 DEF HostInv
<1>9. AskedInv' /\ Asked' = Asked \cup {r}
  BY <1>1, <1>2, <1>7, <1>8, <1>3, <1>4, AskedMore DEF AskedInv, Twin, Passes, Bare, WorkerInv
<1>10. JoinInv'
  BY <1>1, <1>3 DEF Truth, JoinInv
<1>11. \A p \in Open : (Granted(p)' => Granted(p)) /\ (Landing(p)' => Landing(p))
  BY <1>1, <1>3, <1>4 DEF Granted, Landing
<1>12. HostInv'
  <2>1. \A c \in Asked' : c.op = "close" =>
         \/ hostOpen'[DeviceOf[c.of]] = c.of
         \/ joining' = c.of
         \/ failedReloads' > 0 /\ hostOpen'[DeviceOf[c.of]] = None
    BY <1>1, <1>2, <1>3, <1>7, <1>8, <1>9 DEF HostInv
  <2>2. \A c \in Asked' : c.op = "close" /\ Bare(c)' => waiting'[DeviceOf[c.of]] = NoRequest
    BY <1>1, <1>2, <1>3, <1>7, <1>8, <1>9 DEF HostInv, Bare
  <2>3. \A p \in Open : Granted(p)' => hostOpen'[DeviceOf[p]] = p /\ openDevs'[DeviceOf[p]] = None
    BY <1>1, <1>3, <1>4, <1>7, <1>11, DeviceOfAssumption DEF HostInv
  <2>4. \A p \in Open : handle'[p] = "live" => handle[p] = "live" /\ p # o
    BY <1>4
  <2>5. \A q \in Asked' : q.op = "open" => q \in Asked
    BY <1>2, <1>9
  <2> QED
    BY <1>1, <1>3, <1>7, <2>1, <2>2, <2>3, <2>4, <2>5 DEF HostInv
<1>13. InputInv'
  BY <1>1, <1>3, <1>4, <1>11 DEF Truth, InputInv, ForeignTo
<1>14. OrderInv'
  BY <1>1, <1>3 DEF Truth, OrderInv
<1>15. GapInv'
  BY <1>1, <1>3, <1>4, GapShrinks DEF Truth
<1> QED
  BY <1>5, <1>6, <1>9, <1>10, <1>12, <1>13, <1>14, <1>15 DEF Truth

\* A transfer is called on a live handle.
LEMMA StartTransferTruth ==
  ASSUME TypeOK, WorkerInv, ChannelInv, Truth, NEW t \in Transfer, StartTransfer(t)
  PROVE  Truth'
<1>1. /\ RunCommand("transfer", t) /\ AppRuns
      /\ UNCHANGED <<handle, openDevs, reactions, heard, messages, ui, batch, joining, hostOpen,
                     waiting, wk, readCount, signals, failedReloads>>
      /\ nextId \in Id => [id |-> nextId, op |-> "transfer", of |-> t] \in Request
  BY RequestMade DEF StartTransfer, hostVars, otherThreads, workerVars, reloadVars
<1>2. PICK r \in Request :
        /\ nextId \in Id /\ r.id = nextId /\ r.op = "transfer" /\ r.of = t /\ r # NoRequest
        /\ requests' = Append(requests, r)
        /\ \A i \in Id : awaiting'[i] = IF i = nextId THEN r ELSE awaiting[i]
  BY <1>1, CommandFacts
<1>3. /\ joining = None /\ ui # "reload" /\ ui \notin {"apply", "reload"}
      /\ Commands' = Commands /\ Frames' = Frames /\ Polled' = Polled
      /\ Sent' = Sent /\ Traffic' = Traffic
      /\ \A m \in ItemsOf(Frames) \cup ItemsOf(messages), p \in Open : Grants(m, p)' => Grants(m, p)
  BY <1>1, CommandFacts
<1>4. PromiseInv'
  BY <1>1, <1>2, PromiseAsked DEF Truth
<1>5. HandleInv'
  BY <1>1, <1>3 DEF Truth, HandleInv
<1>6. AskedInv' /\ Asked' = Asked \cup {r}
  BY <1>2, <1>1, <1>3, AskedMore DEF Twin, Passes, WorkerInv, Truth
<1>7. JoinInv'
  BY <1>1, <1>3 DEF Truth, JoinInv
<1>8. \A p \in Open : (Granted(p)' => Granted(p)) /\ (Landing(p)' => Landing(p))
  BY <1>1, <1>3 DEF Granted, Landing
<1>9. HostInv'
  BY <1>2, <1>6, <1>1, <1>3, <1>8 DEF Truth, HostInv, Bare
<1>10. InputInv'
  BY <1>1, <1>3, <1>8 DEF Truth, InputInv, ForeignTo
<1>11. OrderInv'
  BY <1>1, <1>3 DEF Truth, OrderInv
<1>12. GapInv'
  BY <1>1, <1>3, GapShrinks DEF Truth
<1> QED
  BY <1>4, <1>5, <1>6, <1>7, <1>9, <1>10, <1>11, <1>12 DEF Truth

(***************************************************************************)
(* The session gives devices away and takes them back.                     *)
(***************************************************************************)

\* The controller opens a device that nobody has, for an opening the document
\* still waits for.
LEMMA StartTruth ==
  ASSUME TypeOK, WorkerInv, ChannelInv, Truth, NEW r \in Request, r.op = "open",
         NEW o \in Open, o = r.of, Start(o), Answer(r, TRUE),
         ui \in {"apply", "resolve"}, hostOpen[DeviceOf[o]] = None, joining = None,
         handle[o] \in {"opening", "refused"}, wk[o] = "none",
         UNCHANGED <<handle, openDevs, reactions, heard, awaiting, ui, joining, readCount, signals,
                     failedReloads, Frames, Polled>>,
         \A d \in Device : waiting'[d] = IF d = DeviceOf[o] THEN NoRequest ELSE waiting[d],
         Asked' \subseteq Asked, InTurn',
         \A q \in Asked' : ~Twin(r, q),
         \A c \in Asked' : c.op = "close" => DeviceOf[c.of] # DeviceOf[o],
         \A p \in Open : handle[p] = "live" => DeviceOf[p] # DeviceOf[o]
  PROVE  Truth'
<1> DEFINE d == DeviceOf[o]
           m == Completion(r, TRUE)
<1>1. /\ d \in Device
      /\ \A e \in Device : hostOpen'[e] = IF e = d THEN o ELSE hostOpen[e]
      /\ \A p \in Open : wk'[p] = IF p = o THEN "drain" ELSE wk[p]
  BY DeviceOfAssumption DEF Start, TypeOK
<1>2. /\ m \in Message /\ m.type = "completion" /\ m.req = r /\ m.ok
      /\ messages' = Append(messages, m)
  BY MessageMade DEF Completion, Answer
<1> HIDE DEF m
<1>3. ItemsOf(messages') = ItemsOf(messages) \cup {m}
  BY QueueTypes, <1>2, AppendItems
<1>4. Sent' = Sent /\ Traffic' = Traffic \cup {m}
  BY <1>3 DEF Sent, Traffic
<1>5. Frames = <<>>
  BY DEF Frames
<1>6. PromiseInv'
  BY DEF Truth, PromiseInv
<1>7. HandleInv'
  BY <1>1 DEF Truth, HandleInv
<1>8. AskedInv'
  <2>1. \A q \in Asked' : q.op = "open" => q.of \in Open /\ q.of # o
    BY QueueItems, RequestFacts DEF Twin
  <2>2. \A q \in Asked' : q.op = "open" =>
          handle'[q.of] \in {"opening", "refused"} /\ wk'[q.of] = "none"
    BY <1>1, <2>1 DEF Truth, AskedInv
  <2>3. \A q \in Asked' : q.op = "close" => handle'[q.of] = "closed"
    BY DEF Truth, AskedInv
  <2>4. \A e \in Device : waiting[e] # NoRequest => waiting[e].of \in Open /\ DeviceOf[waiting[e].of] = e
    BY DEF TypeOK, OpenRequest, WorkerInv
  <2>5. \A e \in Device : waiting'[e] # NoRequest =>
          /\ handle'[waiting'[e].of] \in {"opening", "refused"} /\ wk'[waiting'[e].of] = "none"
          /\ \A q \in Asked' : ~Twin(waiting'[e], q)
    BY <1>1, <2>4 DEF Truth, AskedInv
  <2> QED
    BY <2>2, <2>3, <2>5 DEF AskedInv
<1>9. JoinInv'
  BY <1>2, <1>4 DEF Truth, JoinInv
<1>10. \A p \in Open : /\ Landing(p)' => Landing(p)
                       /\ Granted(p)' => Granted(p) \/ p = o
  BY <1>2, <1>3 DEF Granted, Landing, Grants
<1>11. HostInv'
  <2>1. HostInv /\ ui # "reload"
    BY DEF Truth
  <2>2. \A c \in Asked' : c.op = "close" => c.of \in Open /\ DeviceOf[c.of] \in Device
    BY QueueItems, RequestFacts, DeviceOfAssumption
  <2>3. \A c \in Asked' : c.op = "close" =>
          /\ \/ hostOpen'[DeviceOf[c.of]] = c.of
             \/ joining' = c.of
             \/ failedReloads' > 0 /\ hostOpen'[DeviceOf[c.of]] = None
          /\ Bare(c)' => waiting'[DeviceOf[c.of]] = NoRequest
    BY <1>1, <2>1, <2>2 DEF HostInv, Bare
  <2>4. \A p \in Open : Granted(p)' => hostOpen'[DeviceOf[p]] = p /\ openDevs'[DeviceOf[p]] = None
    <3>1. openDevs[d] = None
      <4>1. openDevs[d] \in Open \cup {None}
        BY <1>1 DEF TypeOK
      <4>2. \A p \in Open : openDevs[d] = p => handle[p] = "live" /\ DeviceOf[p] = d
        BY <1>1 DEF Truth, HandleInv
      <4> QED
        BY <4>1, <4>2
    <3>2. \A p \in Open : Granted(p) => DeviceOf[p] # d /\ hostOpen[DeviceOf[p]] = p /\ openDevs[DeviceOf[p]] = None
      BY <2>1, NoneAssumption DEF HostInv
    <3> QED
      BY <1>1, <1>10, <3>1, <3>2, DeviceOfAssumption
  <2>5. \A p \in Open : handle'[p] = "live" =>
          /\ \/ hostOpen'[DeviceOf[p]] = p
             \/ failedReloads' > 0 /\ hostOpen'[DeviceOf[p]] = None
          /\ hostOpen'[DeviceOf[p]] = None =>
               /\ waiting'[DeviceOf[p]] = NoRequest
               /\ \A q \in Asked' : q.op = "open" => DeviceOf[q.of] # DeviceOf[p]
    BY <1>1, <2>1, DeviceOfAssumption DEF HostInv
  <2> QED
    BY <2>3, <2>4, <2>5 DEF HostInv
<1>12. \A x \in Traffic : x.type = "input" => x.open \in Open /\ x.open # o /\ DeviceOf[x.open] \in Device
  BY QueueItems DEF Truth, InputInv
<1>13. InputInv'
  <2>1. InputInv
    BY DEF Truth
  <2>2. \A x \in Traffic' : x.type = "input" => x \in Traffic
    BY <1>2, <1>4
  <2>3. \A x \in Traffic' : x.type = "input" => wk'[x.open] # "none"
    BY <1>1, <1>12, <2>1, <2>2 DEF InputInv
  <2>4. ui' \notin {"apply", "reload"} =>
          \A x \in ItemsOf(signals') : x.type = "input" => hostOpen'[DeviceOf[x.open]] = x.open
    <3> SUFFICES ASSUME ui \notin {"apply", "reload"}, NEW x \in ItemsOf(signals), x.type = "input"
                 PROVE  hostOpen'[DeviceOf[x.open]] = x.open
      OBVIOUS
    <3>1. hostOpen[DeviceOf[x.open]] = x.open
      BY <2>1 DEF InputInv
    <3>2. x.open \in Open /\ DeviceOf[x.open] \in Device
      BY <1>12 DEF Traffic, Sent
    <3> QED
      BY <1>1, <3>1, <3>2, NoneAssumption
  <2>5. \A p \in Open : Landing(p)' => \A x \in ItemsOf(messages') \cup Sent' : ~ForeignTo(x, p)
    BY <1>2, <1>3, <1>4, <1>10, <2>1 DEF InputInv, ForeignTo
  <2>6. \A p \in Open : handle'[p] = "live" =>
          \A x \in Traffic' : x.type = "input" /\ DeviceOf[x.open] = DeviceOf[p] =>
            x.open = p /\ hostOpen'[DeviceOf[p]] = p
    BY <1>1, <2>1, <2>2, DeviceOfAssumption DEF InputInv
  <2> QED
    BY <2>3, <2>4, <2>5, <2>6 DEF InputInv
<1>14. OrderInv'
  BY <1>2, OrderAnswer DEF Truth
<1>15. GapInv'
  BY <1>1, DeviceOfAssumption, <1>2, <1>4, <1>12, GapShrinks DEF Truth
<1> QED
  BY <1>6, <1>7, <1>8, <1>9, <1>11, <1>13, <1>14, <1>15 DEF Truth

\* The platform grants an open at once.
LEMMA ApplyOpenGrantedTruth ==
  ASSUME TypeOK, WorkerInv, ChannelInv, Truth, ApplyOpenGranted
  PROVE  Truth'
<1>1. PICK r \in Request, o \in Open :
        /\ r = Head(batch) /\ r.op = "open" /\ r.of = o /\ Start(o) /\ Answer(r, TRUE)
        /\ hostOpen[DeviceOf[o]] = None /\ waiting[DeviceOf[o]] = NoRequest
        /\ ui = "apply" /\ joining = None /\ batch # <<>> /\ batch' = Tail(batch)
        /\ UNCHANGED <<handle, openDevs, reactions, heard, awaiting, requests, ui, joining, waiting,
                       readCount, signals, failedReloads>>
  BY ApplyingFacts, RequestFacts DEF ApplyOpenGranted, Applying, Free, jsVars, reloadVars
<1>2. /\ Commands = batch /\ Commands' = Tail(batch) /\ Frames = <<>> /\ Frames' = <<>>
      /\ Polled = <<>> /\ Polled' = <<>>
  BY <1>1 DEF Commands, Frames, Polled
<1>3. /\ r \in Asked /\ Asked' \subseteq Asked
      /\ \A q \in Asked' : <<r, q>> \in Allowed
  BY <1>1, <1>2, TurnHead DEF Asked, Truth, AskedInv
<1>4. \A q \in Asked' : ~Twin(r, q) /\ ~Passes(r, q)
  BY <1>3 DEF Allowed
<1>5. HostInv /\ AskedInv
  BY DEF Truth
<1>6. \A c \in Asked' : c.op = "close" => c.of \in Open /\ DeviceOf[c.of] # DeviceOf[o]
  <2> SUFFICES ASSUME NEW c \in Asked', c.op = "close"
               PROVE  c.of \in Open /\ DeviceOf[c.of] # DeviceOf[o]
    OBVIOUS
  <2>1. c.of \in Open
    BY <1>3, QueueItems, RequestFacts
  <2>2. Bare(c) \/ hostOpen[DeviceOf[c.of]] # None
    BY <1>1, <2>1, NoneAssumption DEF Bare
  <2> QED
    BY <1>1, <1>4, <2>1, <2>2 DEF Passes
<1>7. \A p \in Open : handle[p] = "live" => DeviceOf[p] # DeviceOf[o]
  BY <1>1, <1>3, <1>5, NoneAssumption DEF HostInv
<1>8. InTurn'
  BY <1>1, <1>6, DeviceOfAssumption, <1>2, <1>5, TurnTail DEF Start, TypeOK, Bare, AskedInv
<1>9. handle[o] \in {"opening", "refused"} /\ wk[o] = "none"
  BY <1>1, <1>3, <1>5 DEF AskedInv
<1>10. \A d \in Device : waiting'[d] = IF d = DeviceOf[o] THEN NoRequest ELSE waiting[d]
  BY <1>1
<1> QED
  BY <1>1, <1>2, <1>3, <1>4, <1>6, <1>7, <1>8, <1>9, <1>10, StartTruth

\* A person allows an open that waited.
LEMMA ResolveGrantedTruth ==
  ASSUME TypeOK, WorkerInv, ChannelInv, Truth, NEW d \in Device, ResolveGranted(d)
  PROVE  Truth'
<1>1. PICK r \in Request, o \in Open :
        /\ r = waiting[d] /\ r # NoRequest /\ r.op = "open" /\ r.of = o /\ DeviceOf[o] = d
        /\ Start(o) /\ Answer(r, TRUE) /\ hostOpen[d] = None
        /\ ui = "resolve" /\ waiting' = [waiting EXCEPT ![d] = NoRequest]
        /\ UNCHANGED <<handle, openDevs, reactions, heard, awaiting, requests, ui, batch, joining,
                       readCount, signals, failedReloads>>
  <2>1. waiting[d] \in OpenRequest /\ waiting[d] # NoRequest
    BY DEF TypeOK, ResolveGranted
  <2>2. /\ waiting[d] \in Request /\ waiting[d].op = "open" /\ waiting[d].of \in Open
        /\ DeviceOf[waiting[d].of] = d /\ hostOpen[d] = None
    BY <2>1 DEF OpenRequest, Request, WorkerInv
  <2> QED
    BY <2>1, <2>2 DEF ResolveGranted, jsVars, reloadVars
<1>2. UNCHANGED <<Commands, Frames, Polled>>
  BY <1>1 DEF Commands, Frames, Polled
<1>3. Asked' = Asked /\ joining = None
  BY <1>1, <1>2 DEF Asked, Truth, JoinInv
<1>4. HostInv /\ AskedInv
  BY DEF Truth
<1>5. \A q \in Asked : ~Twin(r, q)
  BY <1>1, <1>4 DEF AskedInv
<1>6. \A c \in Asked : c.op = "close" => DeviceOf[c.of] # d
  <2> SUFFICES ASSUME NEW c \in Asked, c.op = "close", DeviceOf[c.of] = d PROVE FALSE
    OBVIOUS
  <2>1. c.of \in Open
    BY QueueItems, RequestFacts
  <2>2. Bare(c)
    BY <1>1, <1>3, <2>1, NoneAssumption DEF Bare
  <2> QED
    BY <1>1, <1>4, <2>2 DEF HostInv
<1>7. \A p \in Open : handle[p] = "live" => DeviceOf[p] # d
  BY <1>1, <1>4, NoneAssumption DEF HostInv
<1>8. InTurn'
  BY <1>1, QueueItems, RequestFacts, DeviceOfAssumption, <1>2, <1>4, TurnSame DEF Start, TypeOK,
     BareKept, Bare, AskedInv
<1>9. handle[o] \in {"opening", "refused"} /\ wk[o] = "none"
  BY <1>1, <1>4 DEF AskedInv
<1>10. \A e \in Device : waiting'[e] = IF e = DeviceOf[o] THEN NoRequest ELSE waiting[e]
  BY <1>1 DEF TypeOK
<1> QED
  BY <1>1, <1>2, <1>3, <1>5, <1>6, <1>7, <1>8, <1>9, <1>10, StartTruth

\* The platform asks a person first.
LEMMA ApplyOpenWaitsTruth ==
  ASSUME TypeOK, WorkerInv, ChannelInv, Truth, ApplyOpenWaits
  PROVE  Truth'
<1>1. PICK r \in Request, o \in Open :
        /\ r = Head(batch) /\ r.op = "open" /\ r.of = o
        /\ hostOpen[DeviceOf[o]] = None /\ waiting' = [waiting EXCEPT ![DeviceOf[o]] = r]
        /\ ui = "apply" /\ joining = None /\ batch # <<>> /\ batch' = Tail(batch)
        /\ UNCHANGED <<awaiting, wk, ui, joining, requests, messages, signals>>
        /\ UNCHANGED agreed
  <2>1. Head(batch) \in Request /\ Head(batch).op = "open"
    BY ApplyingFacts DEF ApplyOpenWaits
  <2>2. Head(batch).of \in Open
    BY <2>1, RequestFacts
  <2> QED
    BY <2>1, <2>2 DEF ApplyOpenWaits, Applying, Free, jsVars, bridgeVars, otherThreads, workerVars,
       reloadVars, agreed
<1> USE DEF agreed
<1>2. /\ Commands = batch /\ Commands' = Tail(batch) /\ Frames = <<>> /\ Frames' = <<>>
      /\ Polled = <<>> /\ Polled' = <<>>
  BY <1>1 DEF Commands, Frames, Polled
<1>3. /\ r \in Asked /\ Asked' \subseteq Asked
      /\ \A q \in Asked' : <<r, q>> \in Allowed
  BY <1>1, <1>2, TurnHead DEF Asked, Truth, AskedInv
<1>4. \A q \in Asked' : ~Twin(r, q) /\ ~Passes(r, q)
  BY <1>3 DEF Allowed
<1>5. HostInv /\ AskedInv
  BY DEF Truth
<1>6. \A c : Bare(c)' <=> Bare(c)
  BY <1>1 DEF Bare
<1>7. /\ DeviceOf[o] \in Device
      /\ \A e \in Device : waiting'[e] = IF e = DeviceOf[o] THEN r ELSE waiting[e]
  BY <1>1, DeviceOfAssumption DEF TypeOK
<1>8. Sent' = Sent /\ Traffic' = Traffic
  BY <1>1, <1>2 DEF Sent, Traffic
<1>9. PromiseInv' /\ HandleInv'
  BY <1>1 DEF Truth, PromiseInv, HandleInv
<1>10. AskedInv'
  BY <1>1, <1>2, <1>5, <1>6, TurnTail, <1>3, <1>4, <1>7 DEF AskedInv
<1>11. JoinInv'
  BY <1>1, <1>8 DEF Truth, JoinInv
<1>12. \A p \in Open : (Granted(p)' => Granted(p)) /\ (Landing(p)' => Landing(p))
  BY <1>1, <1>2 DEF Granted, Landing, Grants
<1>13. HostInv'
  <2>1. ui # "reload"
    BY <1>1
  <2>2. \A c \in Asked' : c.op = "close" /\ Bare(c)' => waiting'[DeviceOf[c.of]] = NoRequest
    <3> SUFFICES ASSUME NEW c \in Asked', c.op = "close", Bare(c)
                 PROVE  waiting'[DeviceOf[c.of]] = NoRequest
      BY <1>6
    <3>1. DeviceOf[c.of] \in Device
      BY <1>3, QueueItems, RequestFacts, DeviceOfAssumption
    <3>2. DeviceOf[c.of] # DeviceOf[o]
      BY <1>1, <1>4 DEF Passes
    <3> QED
      BY <1>3, <1>5, <1>7, <2>1, <3>1, <3>2 DEF HostInv
  <2>3. \A p \in Open : handle'[p] = "live" /\ hostOpen'[DeviceOf[p]] = None =>
          /\ waiting'[DeviceOf[p]] = NoRequest
          /\ \A q \in Asked' : q.op = "open" => DeviceOf[q.of] # DeviceOf[p]
    BY <1>1, <1>3, <1>5, <1>7, <2>1, DeviceOfAssumption DEF HostInv
  <2> QED
    BY <1>1, <1>3, <1>5, <1>12, <2>1, <2>2, <2>3 DEF HostInv
<1>14. InputInv'
  BY <1>1, <1>8, <1>12 DEF Truth, InputInv, ForeignTo
<1>15. OrderInv'
  BY <1>1, <1>2, <1>8 DEF Truth, OrderInv
<1>16. GapInv'
  BY <1>1, <1>8, GapShrinks DEF Truth
<1> QED
  BY <1>9, <1>10, <1>11, <1>13, <1>14, <1>15, <1>16 DEF Truth

\* The controller shuts down the worker of the handle that was closed.
LEMMA ApplyCloseTruth ==
  ASSUME TypeOK, WorkerInv, ChannelInv, Truth, ApplyClose
  PROVE  Truth'
<1>1. PICK r \in Request, o \in Open :
        /\ r = Head(batch) /\ r.op = "close" /\ r.of = o
        /\ hostOpen[DeviceOf[o]] # None /\ BeginShutdown(hostOpen[DeviceOf[o]])
        /\ ui = "apply" /\ joining = None /\ batch # <<>>
        /\ UNCHANGED <<handle, openDevs, reactions, heard, awaiting, requests, messages, ui, batch,
                       waiting, wk, readCount, signals, failedReloads>>
  BY ApplyingFacts, RequestFacts DEF ApplyClose, Applying, jsVars, bridgeVars, reloadVars
<1>2. UNCHANGED queues /\ Commands = batch
  BY <1>1 DEF queues, Commands, Frames, Polled
<1>3. Asked' = Asked /\ Sent' = Sent /\ Traffic' = Traffic /\ r \in Asked
  BY <1>1, <1>2, TurnHead DEF queues, Asked, Sent, Traffic, Truth, AskedInv
<1>4. HostInv /\ AskedInv
  BY DEF Truth
<1>5. handle[o] = "closed" /\ hostOpen[DeviceOf[o]] = o
  BY <1>1, <1>3, <1>4, NoneAssumption DEF HostInv, AskedInv
<1>6. /\ DeviceOf[o] \in Device /\ joining' = o
      /\ \A e \in Device : hostOpen'[e] = IF e = DeviceOf[o] THEN None ELSE hostOpen[e]
  BY <1>1, <1>5, DeviceOfAssumption DEF BeginShutdown, TypeOK
<1>7. \A c \in Asked : c.op = "close" =>
        c.of \in Open /\ DeviceOf[c.of] \in Device /\ (DeviceOf[c.of] = DeviceOf[o] => c.of = o)
  BY QueueItems, RequestFacts, DeviceOfAssumption, <1>1, <1>4, <1>5, NoneAssumption DEF HostInv
<1>8. \A c \in Asked : c.op = "close" /\ Bare(c)' => Bare(c) /\ DeviceOf[c.of] # DeviceOf[o]
  BY <1>1, <1>6, <1>7, NoneAssumption DEF Bare
<1>9. \A p \in Open : handle[p] = "live" => DeviceOf[p] # DeviceOf[o]
  BY <1>1, <1>4, <1>5, NoneAssumption DEF HostInv
<1>10. PromiseInv' /\ HandleInv'
  BY <1>1 DEF Truth, PromiseInv, HandleInv
<1>11. AskedInv'
  BY <1>2, <1>4, <1>8, TurnSame, <1>1, <1>3 DEF BareKept, AskedInv, queues, Twin
<1>12. JoinInv'
  BY <1>1, <1>2, <1>3, <1>6, <1>9 DEF Truth, JoinInv, queues
<1>13. \A p \in Open : (Granted(p)' => Granted(p)) /\ (Landing(p)' => Landing(p))
  BY <1>1, <1>2 DEF Granted, Landing, Grants, queues
<1>14. \A p \in Open : Granted(p) => p # o
  <2> SUFFICES ASSUME Granted(o) PROVE FALSE
    OBVIOUS
  <2>1. PICK m \in ItemsOf(Frames) \cup ItemsOf(messages) : Grants(m, o)
    BY <1>5 DEF Granted, Landing
  <2>2. m \in Message /\ m.type = "completion"
    BY <2>1, QueueTypes, ItemsOfSeq DEF Grants
  <2>3. m.req.id \in Id /\ m.req # NoRequest
    BY <2>2, MessageFacts, RequestFacts
  <2>4. handle[o] = "opening"
    BY <2>1, <2>3 DEF Grants, Truth, PromiseInv
  <2> QED
    BY <1>5, <2>4
<1>15. \A p \in Open : Granted(p) => DeviceOf[p] # DeviceOf[o]
  BY <1>1, <1>4, <1>5, <1>14 DEF HostInv
<1>16. HostInv'
  <2>1. \A c \in Asked' : c.op = "close" =>
         \/ hostOpen'[DeviceOf[c.of]] = c.of
         \/ joining' = c.of
         \/ failedReloads' > 0 /\ hostOpen'[DeviceOf[c.of]] = None
    BY <1>1, <1>3, <1>4, <1>6, <1>7, NoneAssumption DEF HostInv
  <2>2. \A c \in Asked' : c.op = "close" /\ Bare(c)' => waiting'[DeviceOf[c.of]] = NoRequest
    BY <1>1, <1>3, <1>4, <1>8 DEF HostInv
  <2>3. \A p \in Open : Granted(p)' => hostOpen'[DeviceOf[p]] = p /\ openDevs'[DeviceOf[p]] = None
    BY <1>1, <1>4, <1>6, <1>13, <1>15, DeviceOfAssumption DEF HostInv
  <2>4. \A p \in Open : handle'[p] = "live" =>
          /\ \/ hostOpen'[DeviceOf[p]] = p
             \/ failedReloads' > 0 /\ hostOpen'[DeviceOf[p]] = None
          /\ hostOpen'[DeviceOf[p]] = None =>
               /\ waiting'[DeviceOf[p]] = NoRequest
               /\ \A q \in Asked' : q.op = "open" => DeviceOf[q.of] # DeviceOf[p]
    BY <1>1, <1>3, <1>4, <1>6, <1>9, DeviceOfAssumption DEF HostInv
  <2> QED
    BY <2>1, <2>2, <2>3, <2>4 DEF HostInv
<1>17. InputInv'
  BY <1>1, <1>3, <1>6, <1>9, DeviceOfAssumption, <1>2, <1>13 DEF Truth, InputInv, ForeignTo,
     queues
<1>18. OrderInv'
  BY <1>2, <1>3 DEF Truth, OrderInv, queues
<1>19. GapInv'
  BY <1>6, DeviceOfAssumption, NoneAssumption, <1>1, <1>3, GapShrinks DEF Truth
<1> QED
  BY <1>10, <1>11, <1>12, <1>16, <1>17, <1>18, <1>19 DEF Truth

\* A worker reads a report.
LEMMA ReadReportTruth ==
  ASSUME TypeOK, WorkerInv, ChannelInv, Truth, NEW o \in Open, ReadReport(o)
  PROVE  Truth'
<1> DEFINE x == Input(o, readCount[o] + 1)
<1>1. /\ wk[o] = "read" /\ readCount' = [readCount EXCEPT ![o] = @ + 1]
      /\ signals' = Append(signals, x) /\ wk' = [wk EXCEPT ![o] = "drain"]
      /\ UNCHANGED <<handle, openDevs, reactions, heard, awaiting, requests, messages, ui, batch,
                     joining, hostOpen, waiting, failedReloads>>
  BY DEF ReadReport, Emit, uiThread, jsVars, bridgeVars, hostVars, reloadVars
<1>2. readCount[o] \in Nat /\ DeviceOf[o] \in Device
  BY DeviceOfAssumption DEF TypeOK
<1>3. /\ \A p \in Open : readCount'[p] = IF p = o THEN readCount[o] + 1 ELSE readCount[p]
      /\ \A p \in Open : wk'[p] = IF p = o THEN "drain" ELSE wk[p]
  BY <1>1 DEF TypeOK
<1>4. x \in Signal /\ x.type = "input" /\ x.open = o /\ x.n = readCount[o] + 1
  BY <1>2, MessageMade DEF Input
<1> HIDE DEF x
<1>5. UNCHANGED <<Commands, Frames, Polled>>
  BY <1>1 DEF Commands, Frames, Polled
<1>6. ItemsOf(signals') = ItemsOf(signals) \cup {x}
  BY QueueTypes, <1>1, <1>4, AppendItems
<1>7. Asked' = Asked /\ Sent' = Sent \cup {x} /\ Traffic' = Traffic \cup {x}
  BY <1>1, <1>5, <1>6 DEF Asked, Sent, Traffic
<1>8. hostOpen[DeviceOf[o]] = o \/ (joining = o /\ hostOpen[DeviceOf[o]] = None)
  BY <1>1, NoneAssumption DEF WorkerInv, Running
<1>9. \A m \in Traffic : m.type = "input" =>
        m.open \in Open /\ m.n \in Nat /\ m.n <= readCount[m.open]
  BY QueueItems DEF Truth, GapInv
<1>10. PromiseInv'
  BY <1>1 DEF Truth, PromiseInv
<1>11. HandleInv'
  BY <1>1, <1>3 DEF Truth, HandleInv
<1>12. AskedInv'
  <2>1. InTurn'
    BY <1>1, <1>5, TurnSame DEF BareKept, Bare, Truth, AskedInv
  <2>2. \A q \in Asked' : /\ q.op = "open" => q.of \in Open
    BY <1>7, QueueItems, RequestFacts
  <2>3. \A d \in Device : waiting[d] # NoRequest => waiting[d].of \in Open
    BY DEF TypeOK, OpenRequest
  <2>4. \A p \in Open : wk[p] = "none" => wk'[p] = "none"
    BY <1>1, <1>3
  <2> QED
    BY <1>1, <1>7, <2>1, <2>2, <2>3, <2>4 DEF Truth, AskedInv, Twin
<1>13. JoinInv'
  BY <1>1, <1>4, <1>5, <1>7 DEF Truth, JoinInv
<1>14. \A p \in Open : (Granted(p)' => Granted(p)) /\ (Landing(p)' => Landing(p))
  BY <1>1, <1>5 DEF Granted, Landing, Grants
<1>15. HostInv'
  BY <1>1, <1>7, <1>14 DEF Truth, HostInv, Bare
<1>16. InputInv'
  <2>1. InputInv /\ HostInv /\ JoinInv
    BY DEF Truth
  <2>2. \A m \in Traffic' : m.type = "input" => wk'[m.open] # "none"
    BY <1>3, <1>4, <1>7, <1>9, <2>1 DEF InputInv
  <2>3. ui' \notin {"apply", "reload"} =>
          \A m \in ItemsOf(signals') : m.type = "input" => hostOpen'[DeviceOf[m.open]] = m.open
    BY <1>1, <1>4, <1>6, <1>8, <2>1, NoneAssumption DEF InputInv, JoinInv
  <2>4. ui' # "reload" => \A p \in Open : Landing(p)' =>
          \A m \in ItemsOf(messages') \cup Sent' : ~ForeignTo(m, p)
    BY <1>4, <1>8, <2>1, NoneAssumption, <1>1, <1>7, <1>14 DEF HostInv, Granted, ForeignTo,
       InputInv
  <2>5. ui' # "reload" => \A p \in Open : handle'[p] = "live" =>
          \A m \in Traffic' : m.type = "input" /\ DeviceOf[m.open] = DeviceOf[p] =>
            m.open = p /\ hostOpen'[DeviceOf[p]] = p
    BY <1>8, <2>1, NoneAssumption, <1>1, <1>4, <1>7 DEF HostInv, JoinInv, InputInv
  <2> QED
    BY <2>2, <2>3, <2>4, <2>5 DEF InputInv
<1>17. OrderInv'
  BY <1>2, <1>4, <1>9, <1>1, <1>5, OrderEmit DEF Later, Truth
<1>18. GapInv'
  <2>1. GapInv /\ \A p \in Open : readCount[p] \in Nat
    BY DEF Truth, TypeOK
  <2>2. \A m \in Traffic' : m.type = "input" => m.n <= readCount'[m.open]
    BY <1>2, <1>3, <1>4, <1>7, <1>9
  <2>3. \A p \in Open : heard[p] # <<>> => Last(p) \in Nat /\ Last(p)' = Last(p)
    <3> SUFFICES ASSUME NEW p \in Open, heard[p] # <<>> PROVE Last(p) \in Nat
      BY <1>1 DEF Last
    <3> DEFINE R == [type : {"input"}, open : Open, n : Nat]
    <3>1. heard[p] \in Seq(R)
      BY DEF TypeOK
    <3> HIDE DEF R
    <3>2. heard[p][Len(heard[p])] \in R
      BY <3>1, LastItem
    <3> QED
      BY <3>2 DEF Last, R
  <2>4. \A p \in Open : heard'[p] # <<>> => Last(p)' <= readCount'[p]
    BY <1>1, <1>3, <2>1, <2>3 DEF GapInv
  <2>5. \A p \in Open, n \in Nat : Complete(p, n) => Complete(p, n)'
    <3> SUFFICES ASSUME NEW p \in Open, NEW n \in Nat, Complete(p, n),
                        NEW k \in n + 1 .. readCount'[p]
                 PROVE  Input(p, k) \in Traffic'
      BY DEF Complete
    <3>1. k \in n + 1 .. readCount[p] \/ (p = o /\ k = readCount[o] + 1)
      BY <1>2, <1>3, <2>1
    <3> QED
      BY <1>7, <3>1 DEF Complete, x
  <2>6. \A m \in Traffic' : m.type = "input" /\ hostOpen'[DeviceOf[m.open]] = m.open =>
          Complete(m.open, m.n)'
    <3> SUFFICES ASSUME NEW m \in Traffic', m.type = "input",
                        hostOpen'[DeviceOf[m.open]] = m.open
                 PROVE  Complete(m.open, m.n)'
      OBVIOUS
    <3>1. CASE m \in Traffic
      BY <1>1, <1>9, <2>1, <3>1, <2>5 DEF GapInv
    <3>2. CASE m = x
      BY <1>3, <1>4, <3>2, <1>2 DEF Complete
    <3> QED
      BY <1>7, <3>1, <3>2
  <2>7. \A p \in Open : handle'[p] = "live" /\ hostOpen'[DeviceOf[p]] = p /\ heard'[p] # <<>> =>
          /\ Complete(p, Last(p))'
          /\ \A m \in Traffic' : m.type = "input" /\ m.open = p => m.n > Last(p)'
    <3> SUFFICES ASSUME NEW p \in Open, handle'[p] = "live", hostOpen'[DeviceOf[p]] = p,
                        heard'[p] # <<>>
                 PROVE  /\ Complete(p, Last(p))'
                        /\ \A m \in Traffic' : m.type = "input" /\ m.open = p => m.n > Last(p)'
      OBVIOUS
    <3>1. /\ Complete(p, Last(p)) /\ Last(p) \in Nat /\ Last(p)' = Last(p)
          /\ Last(p) <= readCount[p]
          /\ \A m \in Traffic : m.type = "input" /\ m.open = p => m.n > Last(p)
      BY <1>1, <2>1, <2>3 DEF GapInv
    <3>2. x.open = p => x.n > Last(p)
      BY <1>2, <1>4, <3>1
    <3>3. \A k \in Last(p) + 1 .. readCount'[p] : Input(p, k) \in Traffic'
      <4> SUFFICES ASSUME NEW k \in Last(p) + 1 .. readCount'[p]
                   PROVE  Input(p, k) \in Traffic'
        OBVIOUS
      <4>1. k \in Last(p) + 1 .. readCount[p] \/ (p = o /\ k = readCount[o] + 1)
        BY <1>2, <1>3, <2>1, <3>1
      <4> QED
        BY <1>7, <3>1, <4>1 DEF Complete, x
    <3> QED
      BY <1>7, <3>1, <3>2, <3>3 DEF Complete
  <2> QED
    BY <1>1, <2>1, <2>2, <2>4, <2>6, <2>7 DEF GapInv
<1> QED
  BY <1>10, <1>11, <1>12, <1>13, <1>15, <1>16, <1>17, <1>18 DEF Truth

(***************************************************************************)
(* Reloads.                                                                *)
(***************************************************************************)

\* The old controller shuts its devices down one by one.
LEMMA ReloadingTruth ==
  ASSUME TypeOK, WorkerInv, ChannelInv, Truth,
         (\E d \in Device : ReloadShutdown(d)) \/ ReloadJoined
  PROVE  Truth'
<1>1. /\ ui = "reload" /\ ui' = "reload"
      /\ UNCHANGED <<handle, openDevs, reactions, heard, awaiting, requests, messages, batch,
                     waiting, wk, readCount, signals, failedReloads>>
  BY DEF ReloadShutdown, ReloadJoined, EndShutdown, jsVars, bridgeVars, hostVars, otherThreads,
         workerVars, reloadVars
<1>2. \A o \in Open : hostOpen'[DeviceOf[o]] = o => hostOpen[DeviceOf[o]] = o
  <2>1. CASE ReloadJoined
    BY <2>1 DEF ReloadJoined, hostVars
  <2>2. CASE \E d \in Device : ReloadShutdown(d)
    <3>1. PICK d \in Device : ReloadShutdown(d)
      BY <2>2
    <3>2. hostOpen' = [hostOpen EXCEPT ![d] = None]
      BY <3>1 DEF ReloadShutdown, BeginShutdown, WorkerInv
    <3> QED
      BY <3>2, DeviceOfAssumption, NoneAssumption DEF TypeOK
  <2> QED
    BY <2>1, <2>2
<1>3. UNCHANGED queues
  BY <1>1 DEF queues, Commands, Frames, Polled
<1>4. Asked' = Asked /\ Sent' = Sent /\ Traffic' = Traffic
  BY <1>3 DEF queues, Asked, Sent, Traffic
<1>5. PromiseInv' /\ HandleInv'
  BY <1>1 DEF Truth, PromiseInv, HandleInv
<1>6. AskedInv'
  BY <1>1, <1>3, TurnSame, <1>4 DEF BareKept, Bare, queues, Truth, AskedInv, Twin
<1>7. JoinInv' /\ HostInv' /\ InputInv' /\ OrderInv'
  BY <1>1, <1>3, <1>4 DEF Truth, JoinInv, HostInv, InputInv, OrderInv, queues
<1>8. GapInv'
  BY <1>1, <1>2, <1>4, GapShrinks DEF Truth
<1> QED
  BY <1>5, <1>6, <1>7, <1>8 DEF Truth

\* The channel is reset, for a new document or for the old one.
LEMMA ResetTruth ==
  ASSUME TypeOK, WorkerInv, ChannelInv, Truth, Reload \/ ReloadFails
  PROVE  Truth'
<1>1. /\ ui = "reload" /\ ui' = "js" /\ joining = None /\ joining' = None /\ batch = <<>>
      /\ batch' = <<>> /\ requests' = <<>> /\ messages' = <<>> /\ signals' = <<>>
      /\ waiting' = [d \in Device |-> NoRequest]
      /\ \A d \in Device : hostOpen'[d] = None
      /\ UNCHANGED <<reactions, heard, wk, readCount>>
  BY DEF Reload, ReloadFails, Reset, jsVars, workerVars, ChannelInv
<1>2. /\ Commands' = <<>> /\ Frames' = <<>> /\ Polled' = <<>>
  BY <1>1 DEF Commands, Frames, Polled
<1>3. Asked' = {} /\ Sent' = {} /\ Traffic' = {}
  BY <1>1, <1>2, EmptyItems DEF Asked, Sent, Traffic
<1>4. reactions = <<>> /\ \A o \in Open : handle[o] # "granted"
  BY <1>1, EmptyItems DEF Truth, HandleInv
<1>5. \/ UNCHANGED <<handle, openDevs, awaiting>> /\ failedReloads' > 0
      \/ /\ handle' = [o \in Open |-> IF handle[o] = "none" THEN "none" ELSE "orphan"]
         /\ openDevs' = [d \in Device |-> None]
         /\ awaiting' = [i \in Id |-> NoRequest]
  <2>1. CASE ReloadFails
    BY <2>1 DEF ReloadFails, TypeOK, jsVars
  <2>2. CASE Reload
    BY <2>2 DEF Reload
  <2> QED
    BY <2>1, <2>2
<1>6. PromiseInv'
  BY <1>5 DEF Truth, PromiseInv, NoRequest
<1>7. HandleInv' /\ \A o \in Open : handle'[o] # "granted"
  BY <1>1, <1>4, NoneAssumption, <1>5 DEF Truth, HandleInv
<1>8. AskedInv'
  BY <1>1, <1>2, <1>3, InOrderEmpty, EmptyItems DEF AskedInv, InTurn
<1>9. JoinInv'
  BY <1>1, <1>3 DEF JoinInv
<1>10. \A o \in Open : ~Granted(o)' /\ ~Landing(o)'
  BY <1>1, <1>2, <1>7, EmptyItems DEF Granted, Landing
<1>11. HostInv'
  BY <1>5, <1>1, <1>3, <1>10, DeviceOfAssumption DEF HostInv
<1>12. InputInv'
  BY <1>1, <1>3, <1>10, EmptyItems DEF InputInv
<1>13. OrderInv'
  BY <1>1, <1>2, <1>3, EmptyItems, OrderedEmpty DEF OrderInv, After
<1>14. GapInv'
  BY <1>5, <1>1, DeviceOfAssumption, NoneAssumption, QueueItems, <1>3, GapShrinks DEF Truth
<1> QED
  BY <1>6, <1>7, <1>8, <1>9, <1>11, <1>12, <1>13, <1>14 DEF Truth

(***************************************************************************)
(* The invariant.                                                          *)
(***************************************************************************)

TruthInv == failures = 0 => Truth

\* A session starts with nothing open and nothing on its way.
LEMMA InitTruth == Init => Truth
<1> SUFFICES ASSUME Init PROVE Truth
  OBVIOUS
<1>1. Commands = <<>> /\ Frames = <<>> /\ Polled = <<>> /\ requests = <<>> /\ messages = <<>> /\ signals = <<>>
  BY DEF Init, Commands, Frames, Polled
<1>2. Asked = {} /\ Sent = {} /\ Traffic = {}
  BY <1>1, EmptyItems DEF Asked, Sent, Traffic
<1>3. PromiseInv
  BY DEF Init, PromiseInv, NoRequest
<1>4. HandleInv
  BY NoneAssumption DEF Init, HandleInv
<1>5. AskedInv
  BY <1>1, <1>2, InOrderEmpty, EmptyItems DEF Init, AskedInv, InTurn
<1>6. JoinInv
  BY <1>2 DEF Init, JoinInv
<1>7. \A o \in Open : ~Granted(o) /\ ~Landing(o)
  BY <1>1, EmptyItems DEF Init, Granted, Landing
<1>8. HostInv
  BY <1>2, <1>7 DEF Init, HostInv
<1>9. InputInv
  BY <1>1, <1>2, <1>7, EmptyItems DEF Init, InputInv
<1>10. OrderInv
  BY <1>1, <1>2, EmptyItems, OrderedEmpty DEF OrderInv, After
<1>11. GapInv
  BY <1>2 DEF Init, GapInv
<1> QED
  BY <1>3, <1>4, <1>5, <1>6, <1>8, <1>9, <1>10, <1>11 DEF Truth

\* Until a read fails nothing ever disconnects.
LEMMA NoDisconnect ==
  ASSUME TypeOK, WorkerInv, ChannelInv, Truth
  PROVE  ~SettleDisconnect /\ ~PollDisconnectedClosed /\ ~PollDisconnected /\ ~DisconnectDone
<1>1. ~SettleDisconnect
  <2> SUFFICES ASSUME SettleDisconnect PROVE FALSE
    OBVIOUS
  <2>1. Frames = batch /\ batch # <<>> /\ Head(batch).type = "disconnect"
    BY DEF SettleDisconnect, Settling, Frames
  <2>2. Head(Frames) \in ItemsOf(Frames)
    BY <2>1, QueueTypes, HeadItems
  <2> QED
    BY <2>1, <2>2 DEF Truth, JoinInv, Traffic
<1>2. ~PollDisconnectedClosed /\ ~PollDisconnected
  <2> SUFFICES ASSUME PollDisconnectedClosed \/ PollDisconnected PROVE FALSE
    OBVIOUS
  <2>1. Polled = batch /\ batch # <<>> /\ Head(batch).type = "disconnected"
    BY DEF PollDisconnectedClosed, PollDisconnected, Polling, Polled
  <2>2. Head(Polled) \in ItemsOf(Polled)
    BY <2>1, QueueTypes, HeadItems
  <2> QED
    BY <2>1, <2>2 DEF Truth, JoinInv, Traffic, Sent
<1>3. ~DisconnectDone
  BY DEF DisconnectDone, EndShutdown, Truth, JoinInv
<1> QED
  BY <1>1, <1>2, <1>3

\* Every step that is not a read that fails keeps the invariant.
LEMMA NextTruth ==
  ASSUME TypeOK, WorkerInv, ChannelInv, Truth, Next, failures' = failures
  PROVE  Truth'
<1>1. CASE App
  BY <1>1, OpenDeviceTruth, CloseHandleTruth, StartTransferTruth DEF App
<1>2. CASE BeginReload
  BY <1>2, PhaseTruth
<1>3. ASSUME NEW o \in Open, Worker(o) PROVE Truth'
  <2>1. ~ReadFails(o)
    <3> SUFFICES ASSUME ReadFails(o) PROVE FALSE
      OBVIOUS
    <3>1. failures \in Nat /\ failures' = failures + 1
      BY DEF ReadFails, TypeOK
    <3> QED
      BY <3>1
  <2>2. ASSUME NEW ok \in BOOLEAN, WorkerCommand(o, ok) PROVE Truth'
    BY <2>2, WorkerCommandTruth
  <2>3. CASE WorkerIdle(o) \/ WorkerStops(o) \/ WorkerReads(o) \/ ReadTimeout(o)
    BY <2>3, WorkerPhaseTruth
  <2>4. CASE ReadReport(o)
    BY <2>4, ReadReportTruth
  <2> QED
    BY <1>3, <2>1, <2>2, <2>3, <2>4 DEF Worker
<1>4. CASE Turn
  <2>1. CASE React \/ BeginFrame
    BY <2>1, ReactTruth, BeginFrameTruth
  <2>2. CASE Frame
    BY <2>2, NoDisconnect, SettleCompletionTruth, SettleInputTruth, PhaseTruth DEF Frame
  <2>3. CASE Apply
    BY <2>3, BeginApplyTruth, RefusalTruth, ApplyOpenGrantedTruth, ApplyOpenWaitsTruth,
       ApplyCloseTruth DEF Apply
  <2>4. CASE Poll
    BY ForwardTruth, DropTruth, ResolveGrantedTruth, LateRefusalTruth, <2>4, NoDisconnect,
       BeginPollTruth, PhaseTruth DEF Poll
  <2>5. CASE Reloading
    BY <2>5, ReloadingTruth, ResetTruth DEF Reloading
  <2>6. CASE \E r \in inflight : Abandon(r)
    BY <2>6, LateRefusalTruth
  <2> QED
    BY <1>4, <2>1, <2>2, <2>3, <2>4, <2>5, <2>6 DEF Turn
<1> QED
  BY <1>1, <1>2, <1>3, <1>4 DEF Next

\* Reads that failed are never forgotten.
LEMMA FailuresGrow ==
  ASSUME TypeOK, Next
  PROVE  failures' = failures \/ failures' # 0
<1>1. CASE App
  BY <1>1 DEF App, OpenDevice, CloseHandle, StartTransfer, otherThreads, workerVars
<1>2. CASE BeginReload
  BY <1>2 DEF BeginReload, otherThreads, workerVars
<1>3. ASSUME NEW o \in Open, Worker(o) PROVE failures' = failures \/ failures' # 0
  BY <1>3 DEF Worker, WorkerCommand, WorkerIdle, WorkerStops, WorkerReads, ReadTimeout, ReadReport,
              ReadFails, TypeOK
<1>4. CASE Turn
  <2>1. CASE React \/ BeginFrame \/ Frame
    BY <2>1 DEF React, BeginFrame, Frame, SettleCompletion, SettleInput, SettleDisconnect, SettleDone,
       otherThreads, workerVars
  <2>2. CASE Apply
    BY <2>2 DEF Apply, BeginApply, ApplyOpenRefused, ApplyOpenGranted, ApplyOpenWaits, ApplyTransfer,
       ApplyTransferRefused, ApplyCloseNotOpen, ApplyClose, CloseDone, otherThreads, workerVars
  <2>3. CASE Poll
    BY <2>3 DEF Poll, BeginPoll, PollInput, PollCompletion, PollDisconnectedClosed, PollDisconnected,
       DisconnectDone, BeginResolve, ResolveGranted, ResolveRefused, EndPump, otherThreads, workerVars
  <2>4. CASE Reloading
    BY <2>4 DEF Reloading, ReloadShutdown, ReloadJoined, Reload, ReloadFails, otherThreads, workerVars
  <2>5. CASE \E r \in inflight : Abandon(r)
    BY <2>5 DEF Abandon, otherThreads, workerVars
  <2> QED
    BY <1>4, <2>1, <2>2, <2>3, <2>4, <2>5 DEF Turn
<1> QED
  BY <1>1, <1>2, <1>3, <1>4 DEF Next

\* Until a read fails the document's handles, the controller's open table and
\* the reports on their way agree, through every close, reopening and reload.
THEOREM TruthCorrect == Spec => []TruthInv
<1>1. Init => TruthInv
  BY InitTruth DEF TruthInv
<1>2. TypeOK /\ WorkerInv /\ ChannelInv /\ TruthInv /\ [Next]_vars => TruthInv'
  <2> SUFFICES ASSUME TypeOK, WorkerInv, ChannelInv, TruthInv, [Next]_vars, failures' = 0
               PROVE  Truth'
    BY DEF TruthInv
  <2>1. CASE UNCHANGED vars
    <3>1. /\ UNCHANGED agreed /\ UNCHANGED <<awaiting, waiting, joining, ui, wk, failures>>
          /\ UNCHANGED <<requests, messages, signals, batch>>
      BY <2>1 DEF vars, jsVars, bridgeVars, hostVars, workerVars, reloadVars, agreed
    <3>2. UNCHANGED queues
      BY <3>1 DEF queues, Commands, Frames, Polled
    <3> QED
      BY <3>1, <3>2, StillTruth DEF TruthInv
  <2>2. CASE Next
    BY <2>2, FailuresGrow, NextTruth DEF TruthInv
  <2> QED
    BY <2>1, <2>2
<1> QED
  BY <1>1, <1>2, TypeCorrect, WorkerCorrect, ChannelCorrect, PTL DEF Spec

(***************************************************************************)
(* A transfer that resolved was carried out, whatever fails.               *)
(***************************************************************************)

\* A completion of a transfer only says what its device has done.
Honest(m)     == m.type = "completion" /\ m.ok /\ m.req.op = "transfer"
                   => m.req.of \in performed
HonestSignal  == {m \in Signal : Honest(m)}
HonestMessage == {m \in Message : Honest(m)}

\* The inductive core of ResolvedWasPerformed.
PerformedInv ==
  /\ ResolvedWasPerformed
  /\ messages \in Seq(HonestMessage) /\ signals \in Seq(HonestSignal)
  /\ ui = "poll" => batch \in Seq(HonestSignal)
  /\ ui \in {"settle", "listener"} => batch \in Seq(HonestMessage)

\* What a device has done it has done for good.
LEMMA PerformedKept ==
  ASSUME performed \subseteq performed', ResolvedWasPerformed',
         messages' \in Seq(HonestMessage), signals' \in Seq(HonestSignal),
         ui' = "poll" => batch' \in Seq(HonestSignal),
         ui' \in {"settle", "listener"} => batch' \in Seq(HonestMessage)
  PROVE  PerformedInv'
<1>1. HonestSignal \subseteq HonestSignal' /\ HonestMessage \subseteq HonestMessage'
  BY DEF HonestSignal, HonestMessage, Honest
<1>2. Seq(HonestSignal) \subseteq Seq(HonestSignal') /\ Seq(HonestMessage) \subseteq Seq(HonestMessage')
  BY <1>1, SeqMonotone
<1> QED
  BY <1>2 DEF PerformedInv

\* A step that settles no transfer and leaves the queues alone.
LEMMA QuietPerformed ==
  ASSUME PerformedInv, UNCHANGED <<xfer, performed, messages, signals>>,
         ui' = "poll" => batch' \in Seq(HonestSignal),
         ui' \in {"settle", "listener"} => batch' \in Seq(HonestMessage)
  PROVE  PerformedInv'
<1>1. ResolvedWasPerformed'
  BY DEF PerformedInv, ResolvedWasPerformed
<1> QED
  BY <1>1, PerformedKept DEF PerformedInv

\* The controller itself only ever answers that a transfer failed.
LEMMA AnswerPerformed ==
  ASSUME PerformedInv, NEW r \in Request, NEW ok \in BOOLEAN, ok => r.op # "transfer",
         Answer(r, ok), UNCHANGED <<xfer, performed, signals>>,
         ui' = "poll" => batch' \in Seq(HonestSignal),
         ui' \in {"settle", "listener"} => batch' \in Seq(HonestMessage)
  PROVE  PerformedInv'
<1>1. Completion(r, ok) \in HonestMessage
  BY MessageMade DEF HonestMessage, Honest, Completion
<1>2. messages' = Append(messages, Completion(r, ok)) /\ messages \in Seq(HonestMessage)
  BY DEF Answer, PerformedInv
<1>3. messages' \in Seq(HonestMessage)
  BY <1>1, <1>2
<1>4. ResolvedWasPerformed'
  BY DEF PerformedInv, ResolvedWasPerformed
<1> QED
  BY <1>3, <1>4, PerformedKept DEF PerformedInv

\* A document's own step: a promise that settles takes the word of an answer
\* to its own command.
LEMMA FramePerformed ==
  ASSUME TypeOK, ChannelInv, PerformedInv, App \/ React \/ BeginFrame \/ Frame
  PROVE  PerformedInv'
<1>1. UNCHANGED <<performed, signals>>
  BY DEF App, OpenDevice, CloseHandle, StartTransfer, React, BeginFrame, Frame, SettleCompletion,
         SettleInput, SettleDisconnect, SettleDone, otherThreads, workerVars
<1>2. CASE BeginFrame
  BY <1>2, <1>1, PerformedKept DEF BeginFrame, jsVars, PerformedInv, ResolvedWasPerformed
<1>3. CASE App \/ React \/ SettleDone
  <2>1. messages' = messages /\ batch' = batch
    BY <1>3 DEF App, OpenDevice, CloseHandle, StartTransfer, React, SettleDone, bridgeVars
  <2>2. ui' \in {"settle", "listener", "poll"} => ui' = ui
    BY <1>3 DEF App, OpenDevice, CloseHandle, StartTransfer, React, SettleDone
  <2>3. ResolvedWasPerformed'
    <3>1. \A t \in Transfer : xfer'[t] = "resolved" => xfer[t] = "resolved"
      BY <1>3 DEF App, OpenDevice, CloseHandle, StartTransfer, React, SettleDone, jsVars, TypeOK
    <3> QED
      BY <1>1, <3>1 DEF PerformedInv, ResolvedWasPerformed
  <2> QED
    BY <1>1, <2>1, <2>2, <2>3, PerformedKept DEF PerformedInv
<1>4. CASE SettleInput \/ SettleDisconnect
  <2>1. /\ UNCHANGED <<xfer, messages>> /\ ui \in {"settle", "listener"}
        /\ ui' \in {"settle", "listener"} /\ batch # <<>> /\ batch' = Tail(batch)
    BY <1>4 DEF SettleInput, SettleDisconnect, Settling, bridgeVars
  <2>2. batch' \in Seq(HonestMessage)
    BY <2>1 DEF PerformedInv
  <2> QED
    BY <1>1, <2>1, <2>2, QuietPerformed
<1>5. CASE SettleCompletion
  <2> DEFINE m == Head(batch)
             a == awaiting[m.req.id]
  <2>1. /\ messages' = messages /\ ui \in {"settle", "listener"} /\ ui' = "settle"
        /\ batch # <<>> /\ batch' = Tail(batch) /\ m.type = "completion" /\ Settle(a, m.ok)
    BY <1>5 DEF SettleCompletion, Settling, bridgeVars
  <2>2. m \in NumberedMessage /\ m \in HonestMessage /\ batch' \in Seq(HonestMessage)
    BY <2>1 DEF ChannelInv, PerformedInv
  <2>3. m.ok \in BOOLEAN /\ m.req \in Request /\ a \in {NoRequest, m.req}
    BY <2>1, <2>2, MessageFacts DEF NumberedMessage, Numbered, HonestMessage
  <2>4. m.ok /\ m.req.op = "transfer" => m.req.of \in performed
    BY <2>1, <2>2 DEF HonestMessage, Honest
  <2>5. xfer' = IF a.op # "transfer" THEN xfer
                ELSE [xfer EXCEPT ![a.of] = IF m.ok THEN "resolved" ELSE "rejected"]
    BY <2>1 DEF Settle
  <2> HIDE DEF m, a
  <2>6. a.op = "transfer" => a = m.req /\ a.of \in Transfer
    BY <2>3, RequestFacts DEF NoRequest
  <2>7. \A t \in Transfer : xfer'[t] = "resolved" => xfer[t] = "resolved" \/ t \in performed
    BY <2>5, <2>4, <2>6, <2>3 DEF TypeOK
  <2>8. ResolvedWasPerformed'
    BY <1>1, <2>7 DEF PerformedInv, ResolvedWasPerformed
  <2> QED
    BY <1>1, <2>1, <2>2, <2>8, PerformedKept DEF PerformedInv
<1> QED
  BY <1>2, <1>3, <1>4, <1>5 DEF Frame

\* While it applies requests the controller joins a worker only for a close.
CloseInv == ui = "apply" /\ joining # None => Head(batch).op = "close"

\* The controller's step: it passes on what its workers say of transfers, and
\* answers itself only opens, closes and transfers nobody will carry out.
LEMMA TurnPerformed ==
  ASSUME TypeOK, CloseInv, PerformedInv,
         Apply \/ Poll \/ \E r \in inflight : Abandon(r)
  PROVE  PerformedInv'
<1>1. UNCHANGED <<xfer, performed>>
  BY DEF Apply, BeginApply, ApplyOpenRefused, ApplyOpenGranted, ApplyOpenWaits, ApplyTransfer,
         ApplyTransferRefused, ApplyCloseNotOpen, ApplyClose, CloseDone, Poll, BeginPoll, PollInput,
         PollCompletion, PollDisconnectedClosed, PollDisconnected, DisconnectDone, BeginResolve,
         ResolveGranted, ResolveRefused, EndPump, Abandon, jsVars, otherThreads, workerVars
<1>2. CASE BeginPoll
  BY <1>2, <1>1, PerformedKept DEF BeginPoll, bridgeVars, PerformedInv, ResolvedWasPerformed
<1>3. CASE \/ BeginApply \/ ApplyOpenWaits \/ ApplyTransfer \/ ApplyClose \/ BeginResolve \/ EndPump
  <2>1. UNCHANGED <<messages, signals>> /\ ui' \notin {"poll", "settle", "listener"}
    BY <1>3 DEF BeginApply, ApplyOpenWaits, ApplyTransfer, ApplyClose, BeginResolve, EndPump, Applying,
       bridgeVars, otherThreads
  <2> QED
    BY <1>1, <2>1, QuietPerformed
<1>4. CASE PollDisconnectedClosed \/ PollDisconnected
  <2>1. /\ UNCHANGED <<messages, signals>> /\ ui = "poll" /\ ui' = "poll"
        /\ batch # <<>> /\ batch' \in {batch, Tail(batch)}
    BY <1>4 DEF PollDisconnectedClosed, PollDisconnected, Polling, bridgeVars, otherThreads
  <2>2. batch \in Seq(HonestSignal) /\ Tail(batch) \in Seq(HonestSignal)
    BY <2>1 DEF PerformedInv
  <2>3. batch' \in Seq(HonestSignal)
    BY <2>1, <2>2
  <2> QED
    BY <1>1, <2>1, <2>3, QuietPerformed
<1>5. CASE PollInput \/ PollCompletion \/ DisconnectDone
  <2>1. /\ signals' = signals /\ ui = "poll" /\ ui' = "poll"
        /\ batch # <<>> /\ batch' = Tail(batch)
    BY <1>5 DEF PollInput, PollCompletion, DisconnectDone, EndShutdown, Polling, TypeOK, otherThreads
  <2>2. Head(batch) \in HonestSignal /\ batch' \in Seq(HonestSignal)
    BY <2>1 DEF PerformedInv
  <2>3. messages' \in Seq(HonestMessage)
    <3>1. CASE PollInput \/ PollCompletion
      <4>1. Head(batch) \in HonestMessage
        BY <2>2, <3>1, PollingFacts DEF PollInput, PollCompletion, HonestSignal, HonestMessage
      <4>2. Append(messages, Head(batch)) \in Seq(HonestMessage)
        BY <4>1 DEF PerformedInv
      <4> QED
        BY <3>1, <4>2 DEF PollInput, PollCompletion, PerformedInv
    <3>2. CASE DisconnectDone
      BY <3>2, MessageMade DEF DisconnectDone, EndShutdown, TypeOK, HonestMessage, Honest,
         Disconnect, PerformedInv
    <3> QED
      BY <1>5, <3>1, <3>2
  <2>4. ResolvedWasPerformed'
    BY <1>1 DEF PerformedInv, ResolvedWasPerformed
  <2> QED
    BY <1>1, <2>1, <2>2, <2>3, <2>4, PerformedKept DEF PerformedInv
<1>6. ASSUME NEW r \in Request, NEW ok \in BOOLEAN, ok => r.op # "transfer", Answer(r, ok),
             signals' = signals, ui' = ui, ui' \notin {"settle", "listener"},
             ui' = "poll" => batch' = batch
      PROVE  PerformedInv'
  BY <1>1, <1>6, AnswerPerformed DEF PerformedInv
<1>7. CASE \/ ApplyOpenRefused \/ ApplyOpenGranted \/ ApplyTransferRefused \/ ApplyCloseNotOpen
           \/ CloseDone
  <2>1. /\ signals' = signals /\ ui = "apply" /\ ui' = "apply"
        /\ batch # <<>> /\ batch \in Seq(Request)
    BY <1>7 DEF ApplyOpenRefused, ApplyOpenGranted, ApplyTransferRefused, ApplyCloseNotOpen,
       CloseDone, EndShutdown, Applying, TypeOK, otherThreads
  <2>2. Head(batch) \in Request
    BY <2>1
  <2>3. CloseDone => Head(batch).op # "transfer"
    BY <2>1 DEF CloseDone, EndShutdown, CloseInv
  <2> QED
    BY <1>6, <1>7, <2>1, <2>2, <2>3 DEF ApplyOpenRefused, ApplyOpenGranted, ApplyTransferRefused,
       ApplyCloseNotOpen, CloseDone, Applying
<1>8. ASSUME NEW d \in Device, ResolveGranted(d) \/ ResolveRefused(d) PROVE PerformedInv'
  BY <1>8, <1>6 DEF ResolveGranted, ResolveRefused, otherThreads, TypeOK, Request, OpenRequest
<1>9. ASSUME NEW r \in inflight, Abandon(r) PROVE PerformedInv'
  BY <1>9, <1>6 DEF Abandon, otherThreads, TypeOK, Request
<1> QED
  BY <1>2, <1>3, <1>4, <1>5, <1>7, <1>8, <1>9 DEF Apply, Poll

\* A worker's step: it completes as done only what it has done.
LEMMA WorkerPerformed ==
  ASSUME TypeOK, PerformedInv, NEW o \in Open, Worker(o)
  PROVE  PerformedInv'
<1> USE DEF uiThread, jsVars, bridgeVars
<1>1. UNCHANGED <<xfer, messages, ui, batch>>
  BY DEF Worker, WorkerCommand, WorkerIdle, WorkerStops, WorkerReads, ReadTimeout, ReadReport, ReadFails
<1>2. ASSUME NEW ok \in BOOLEAN, WorkerCommand(o, ok) PROVE PerformedInv'
  <2> DEFINE r == Head(mailbox[o])
  <2>1. /\ signals' = Append(signals, Completion(r, ok)) /\ r \in TransferRequest
        /\ performed' = IF ok THEN performed \cup {r.of} ELSE performed
    BY <1>2 DEF WorkerCommand, Emit, TypeOK
  <2> HIDE DEF r
  <2>2. performed \subseteq performed' /\ (ok => r.of \in performed')
    BY <2>1
  <2>3. Completion(r, ok) \in Signal
    BY <2>1, MessageMade DEF Request
  <2>4. Completion(r, ok) \in HonestSignal'
    BY <2>2, <2>3 DEF HonestSignal, Honest, Completion
  <2>5. /\ Seq(HonestSignal) \subseteq Seq(HonestSignal')
        /\ Seq(HonestMessage) \subseteq Seq(HonestMessage')
    BY <2>2, SeqMonotone DEF HonestSignal, HonestMessage, Honest
  <2>6. signals' \in Seq(HonestSignal')
    BY <2>5, <2>4, <2>1 DEF PerformedInv
  <2>7. ResolvedWasPerformed'
    BY <1>1, <2>2 DEF PerformedInv, ResolvedWasPerformed
  <2> QED
    BY <1>1, <2>5, <2>6, <2>7 DEF PerformedInv
<1>3. CASE WorkerIdle(o) \/ WorkerStops(o) \/ WorkerReads(o) \/ ReadTimeout(o)
  BY <1>3, <1>1, QuietPerformed DEF WorkerIdle, WorkerStops, WorkerReads, ReadTimeout,
     PerformedInv
<1>4. CASE ReadReport(o) \/ ReadFails(o)
  <2>1. \E s \in {Input(o, readCount[o] + 1), Disconnected(o)} :
          signals' = Append(signals, s) /\ performed' = performed
    BY <1>4 DEF ReadReport, ReadFails, Emit
  <2>2. PICK s \in {Input(o, readCount[o] + 1), Disconnected(o)} :
          signals' = Append(signals, s) /\ performed' = performed
    BY <2>1
  <2>3. readCount[o] + 1 \in Nat
    BY DEF TypeOK
  <2>4. s \in HonestSignal
    BY <2>3, MessageMade DEF HonestSignal, Honest, Input, Disconnected
  <2>5. signals' \in Seq(HonestSignal)
    BY <2>2, <2>4 DEF PerformedInv
  <2>6. ResolvedWasPerformed'
    BY <1>1, <2>2 DEF PerformedInv, ResolvedWasPerformed
  <2> QED
    BY <1>1, <2>2, <2>5, <2>6, PerformedKept DEF PerformedInv
<1> QED
  BY <1>2, <1>3, <1>4 DEF Worker

\* A reload forgets the old document's promises and whatever was on its way.
LEMMA ReloadPerformed ==
  ASSUME TypeOK, PerformedInv, BeginReload \/ Reloading
  PROVE  PerformedInv'
<1>1. CASE \/ BeginReload \/ ReloadJoined \/ \E d \in Device : ReloadShutdown(d)
  BY <1>1, QuietPerformed DEF BeginReload, ReloadJoined, EndShutdown, ReloadShutdown, jsVars,
     bridgeVars, otherThreads, workerVars
<1>2. CASE Reload \/ ReloadFails
  <2>1. /\ performed' = performed /\ messages' = <<>> /\ signals' = <<>> /\ ui' = "js"
        /\ \A t \in Transfer : xfer'[t] = "resolved" => xfer[t] = "resolved"
    BY <1>2 DEF Reload, ReloadFails, Reset, jsVars, workerVars
  <2>2. <<>> \in Seq(HonestMessage) /\ <<>> \in Seq(HonestSignal)
    OBVIOUS
  <2>3. ResolvedWasPerformed'
    BY <2>1 DEF PerformedInv, ResolvedWasPerformed
  <2> QED
    BY <2>1, <2>2, <2>3, PerformedKept
<1> QED
  BY <1>1, <1>2 DEF Reloading

\* CloseInv is an invariant: a join in apply is begun by ApplyClose and ended
\* by CloseDone, and nothing else touches the batch in between.
LEMMA CloseKept ==
  ASSUME TypeOK, CloseInv, [Next]_vars
  PROVE  CloseInv'
<1>1. CASE UNCHANGED vars
  BY <1>1 DEF vars, CloseInv
<1>2. CASE App \/ React \/ BeginFrame \/ Frame \/ Poll \/ BeginReload \/ Reloading
  <2>1. ui' # "apply" \/ UNCHANGED <<ui, batch, joining>>
    BY <1>2 DEF App, OpenDevice, CloseHandle, StartTransfer, React, BeginFrame, Frame, SettleCompletion,
       SettleInput, SettleDisconnect, SettleDone, Poll, BeginPoll, PollInput, PollCompletion,
       PollDisconnectedClosed, PollDisconnected, DisconnectDone, BeginResolve, ResolveGranted,
       ResolveRefused, EndPump, BeginReload, Reloading, ReloadShutdown, ReloadJoined, Reload,
       ReloadFails, Reset, EndShutdown, Polling
  <2> QED
    BY <2>1 DEF CloseInv
<1>3. CASE Apply
  <2>1. joining' = None \/ ApplyClose
    BY <1>3 DEF Apply, BeginApply, ApplyOpenRefused, ApplyOpenGranted, ApplyOpenWaits, ApplyTransfer,
       ApplyTransferRefused, ApplyCloseNotOpen, CloseDone, EndShutdown, Applying, TypeOK
  <2> QED
    BY <2>1 DEF ApplyClose, Applying, CloseInv
<1>4. CASE \E r \in inflight : Abandon(r)
  BY <1>4 DEF Abandon, CloseInv
<1>5. ASSUME NEW o \in Open, Worker(o) PROVE CloseInv'
  BY <1>5 DEF Worker, WorkerCommand, WorkerIdle, WorkerStops, WorkerReads, ReadTimeout, ReadReport,
     ReadFails, uiThread, CloseInv
<1> QED
  BY <1>1, <1>2, <1>3, <1>4, <1>5 DEF Next, Turn

\* Whatever is closed, fails, disconnects or reloads, a transfer promise that
\* resolved was carried out by the device.
THEOREM PerformedCorrect == Spec => []PerformedInv
<1>1. Init => CloseInv /\ PerformedInv
  BY DEF Init, CloseInv, PerformedInv, ResolvedWasPerformed
<1>2. TypeOK /\ ChannelInv /\ CloseInv /\ PerformedInv /\ [Next]_vars => PerformedInv'
  <2> SUFFICES ASSUME TypeOK, ChannelInv, CloseInv, PerformedInv, [Next]_vars PROVE PerformedInv'
    OBVIOUS
  <2>1. CASE UNCHANGED vars
    BY <2>1, QuietPerformed DEF vars, jsVars, bridgeVars, workerVars, PerformedInv
  <2>2. CASE Next
    BY <2>2, FramePerformed, TurnPerformed, WorkerPerformed, ReloadPerformed DEF Next, Turn
  <2> QED
    BY <2>1, <2>2
<1> QED
  BY <1>1, <1>2, CloseKept, TypeCorrect, ChannelCorrect, PTL DEF Spec

\* What a document is told of its devices is so, in every state, until a read
\* fails: a transfer that resolved was carried out, a listener hears its own
\* handle's reports in order with none missing, and a live handle has its
\* device open in the host.
THEOREM WhatIsHeardHolds == Spec => []WhatIsHeardIsTrue
<1>1. TypeOK /\ TruthInv /\ PerformedInv => WhatIsHeardIsTrue
  <2> SUFFICES ASSUME TypeOK, TruthInv, PerformedInv PROVE WhatIsHeardIsTrue
    OBVIOUS
  <2>1. ResolvedWasPerformed
    BY DEF PerformedInv
  <2>2. HeardInOrder
    BY DEF TruthInv, Truth, GapInv, HeardInOrder
  <2>3. BackedUntilFailure
    <3> SUFFICES ASSUME failures = 0, failedReloads = 0, NEW o \in Open, handle[o] = "live",
                        ui # "reload"
                 PROVE  hostOpen[DeviceOf[o]] = o
      BY DEF BackedUntilFailure, HandleIsBacked
    <3>1. HostInv
      BY DEF TruthInv, Truth
    <3> QED
      BY <3>1 DEF HostInv
  <2> QED
    BY <2>1, <2>2, <2>3 DEF WhatIsHeardIsTrue
<1> QED
  BY <1>1, TypeCorrect, TruthCorrect, PerformedCorrect, PTL

=============================================================================
