------------------------ MODULE SingleInstanceProofs ------------------------
(***************************************************************************)
(* Proofs about SingleInstance, for every set of processes and requests    *)
(* and for either order in which a dropped listener closes and unlinks.    *)
(***************************************************************************)
EXTENDS SingleInstance, SequenceTheorems, TLAPS

(***************************************************************************)
(* Type correctness.                                                       *)
(***************************************************************************)

\* Closing an end of a stream, or writing to it, leaves a stream.
LEMMA ChanUpdate ==
  ASSUME NEW r \in Chan, NEW b \in BOOLEAN, NEW e \in BOOLEAN
  PROVE  /\ [r EXCEPT !.client = b] \in Chan
         /\ [r EXCEPT !.server = b] \in Chan
         /\ [r EXCEPT !.client = b, !.server = e] \in Chan
         /\ [r EXCEPT !.receipt = b, !.client = e] \in Chan
BY DEF Chan

\* The end of a process changes neither the listener nor the acknowledgement
\* of a stream.
LEMMA SeveredStream ==
  ASSUME NEW r \in Chan, NEW q, NEW p
  PROVE  /\ Severed(r, q, p) \in Chan
         /\ Severed(r, q, p).to = r.to
         /\ Severed(r, q, p).ack = r.ack
<1> DEFINE a == IF q = p THEN FALSE ELSE r.client
           b == IF r.to \in CallsOf(p) THEN FALSE ELSE r.server
<1>1. a \in BOOLEAN /\ b \in BOOLEAN
  BY DEF Chan
<1>2. Severed(r, q, p) = [r EXCEPT !.client = a, !.server = b]
  BY DEF Severed
<1> HIDE DEF a, b
<1> QED
  BY <1>1, <1>2 DEF Chan

\* Before any process starts, everything is well typed.
LEMMA InitTypeOK == Init => TypeOK
BY OwnerAssumption DEF Init, TypeOK, ReqState, Electing, Handing, Finished,
                       SrvState, Chan, NoChan, Serving

\* A step of a process that asks for the lock keeps the types.
LEMMA RequesterTypeOK ==
  ASSUME TypeOK, NEW c \in Call, Requester(c)
  PROVE  TypeOK'
<1> USE DEF TypeOK, Serving, Chan, ReqState, Electing, Handing, Finished
<1>1. CASE Request(c)
  BY <1>1 DEF Request, serverVars, queueVars
<1>2. CASE RequestFails(c)
  BY <1>2 DEF RequestFails, serverVars, queueVars
<1>3. CASE ElectionLock(c)
  BY <1>3 DEF ElectionLock, serverVars, queueVars
<1>4. CASE Bind(c)
  BY <1>4 DEF Bind, serverVars, queueVars
<1>5. CASE BindOccupied(c)
  BY <1>5 DEF BindOccupied, serverVars, queueVars
<1>6. CASE ElectionFails(c)
  BY <1>6 DEF ElectionFails, Return, serverVars, queueVars
<1>7. CASE Serve(c)
  BY <1>7, OwnerAssumption DEF Serve, Return, SrvState, Serving, queueVars
<1>8. CASE ServeFails(c)
  BY <1>8 DEF ServeFails, Return, serverVars, queueVars
<1>9. CASE Connect(c)
  <2>1. path \in Call /\ backlog[path] \in Seq(Call)
    BY <1>9 DEF Connect
  <2>2. chan' \in [Call -> Chan]
    BY <1>9, <2>1 DEF Connect, NoChan
  <2>3. backlog' \in [Call -> Seq(Call)]
    BY <1>9, <2>1 DEF Connect
  <2> QED
    BY <1>9, <2>2, <2>3 DEF Connect, serverVars, queueVars
<1>10. CASE ConnectStale(c)
  BY <1>10 DEF ConnectStale, serverVars, queueVars
<1>11. CASE RemoveStale(c)
  BY <1>11 DEF RemoveStale, serverVars, queueVars
<1>12. CASE WritePayload(c)
  BY <1>12 DEF WritePayload, serverVars, queueVars
<1>13. CASE ReadAcknowledgement(c)
  BY <1>13 DEF ReadAcknowledgement, serverVars, queueVars
<1>14. CASE WriteReceipt(c)
  <2>1. chan' = [chan EXCEPT ![c] = [chan[c] EXCEPT !.receipt = TRUE, !.client = FALSE]]
    BY <1>14 DEF WriteReceipt
  <2>2. [chan[c] EXCEPT !.receipt = TRUE, !.client = FALSE] \in Chan
    <3> HIDE DEF Chan
    <3> QED BY ChanUpdate
  <2>3. chan' \in [Call -> Chan]
    <3> HIDE DEF Chan
    <3> QED BY <2>1, <2>2
  <2> QED
    BY <1>14, <2>3 DEF WriteReceipt, serverVars, queueVars
<1>15. CASE HandOverFails(c)
  BY <1>15 DEF HandOverFails, Return, serverVars, queueVars
<1> QED
  BY <1>1, <1>2, <1>3, <1>4, <1>5, <1>6, <1>7, <1>8, <1>9, <1>10, <1>11,
     <1>12, <1>13, <1>14, <1>15 DEF Requester

\* A step of an owner's listener thread keeps the types.
LEMMA ListenerTypeOK ==
  ASSUME TypeOK, NEW d \in Call, Listener(d)
  PROVE  TypeOK'
<1> USE DEF TypeOK, Runs, SrvState, Serving
<1>1. CASE LoopTop(d)
  BY <1>1 DEF LoopTop, clientVars, queueVars
<1>2. CASE Accept(d)
  <2>1. Head(backlog[d]) \in Call /\ Tail(backlog[d]) \in Seq(Call)
    BY <1>2 DEF Accept
  <2> QED
    BY <1>2, <2>1 DEF Accept, clientVars, queueVars
<1>3. CASE AcceptWouldBlock(d)
  BY <1>3 DEF AcceptWouldBlock, clientVars, queueVars
<1>4. CASE Receive(d)
  BY <1>4 DEF Receive, clientVars, queueVars
<1>5. CASE ReceiveFails(d)
  BY <1>5 DEF ReceiveFails, FinishConnection, Hangup, Chan, queueVars
<1>6. CASE Push(d)
  BY <1>6, OwnerAssumption DEF Push, clientVars
<1>7. CASE WriteAcknowledgement(d)
  BY <1>7 DEF WriteAcknowledgement, Chan, queueVars
<1>8. CASE AcknowledgementFails(d)
  BY <1>8 DEF AcknowledgementFails, FinishConnection, Hangup, Chan, queueVars
<1>9. CASE ReadReceipt(d)
  BY <1>9 DEF ReadReceipt, FinishConnection, Hangup, Chan, queueVars
<1>10. CASE CloseListener(d)
  <2>1. chan' \in [Call -> Chan]
    BY <1>10, ChanUpdate DEF CloseListener
  <2>2. srv' \in [Call -> SrvState] /\ backlog' \in [Call -> Seq(Call)]
    BY <1>10 DEF CloseListener
  <2> QED
    BY <1>10, <2>1, <2>2 DEF CloseListener, queueVars
<1>11. CASE UnlinkPath(d)
  BY <1>11 DEF UnlinkPath, clientVars, queueVars
<1> QED
  BY <1>1, <1>2, <1>3, <1>4, <1>5, <1>6, <1>7, <1>8, <1>9, <1>10, <1>11
     DEF Listener

\* Releasing, taking invocations and dying keep the types.
LEMMA ProcessTypeOK ==
  ASSUME TypeOK, NEW p \in Proc, Process(p)
  PROVE  TypeOK'
<1> USE DEF TypeOK
<1>1. CASE Release(p)
  BY <1>1 DEF Release, clientVars, queueVars
<1>2. CASE Joined(p)
  BY <1>2 DEF Joined, clientVars, queueVars
<1>3. CASE Take(p)
  BY <1>3 DEF Take, clientVars, serverVars
<1>4. CASE Die(p)
  <2>1. chan' \in [Call -> Chan]
    BY <1>4, SeveredStream DEF Die
  <2>2. req' \in [Call -> ReqState]
    BY <1>4 DEF Die, ReqState
  <2>3. backlog' \in [Call -> Seq(Call)]
    <3>1. \A d \in Call : (IF Owner[d] = p THEN <<>> ELSE backlog[d]) \in Seq(Call)
      OBVIOUS
    <3> QED
      BY <1>4, <3>1 DEF Die
  <2> QED
    BY <1>4, <2>1, <2>2, <2>3 DEF Die, serverVars, queueVars
<1> QED
  BY <1>1, <1>2, <1>3, <1>4 DEF Process

\* Every step of the protocol keeps the types.
LEMMA NextTypeOK == TypeOK /\ [Next]_vars => TypeOK'
<1>1. ASSUME TypeOK, UNCHANGED vars PROVE TypeOK'
  BY <1>1 DEF TypeOK, vars
<1> QED
  BY <1>1, RequesterTypeOK, ListenerTypeOK, ProcessTypeOK DEF Next

\* Every reachable state is well typed, whatever the processes do.
THEOREM TypeCorrect == Spec => []TypeOK
BY InitTypeOK, NextTypeOK, PTL DEF Spec

(***************************************************************************)
(* Exclusive ownership.                                                    *)
(***************************************************************************)

\* Nobody holds the election before it begins.
LEMMA InitElection == Init => ElectionInv
BY DEF Init, ElectionInv, Electing, Attached, CallsOf

\* A process that asks for the lock binds the name only under the election.
LEMMA RequesterElection ==
  ASSUME TypeOK, ElectionInv, NEW c \in Call, Requester(c)
  PROVE  ElectionInv'
<1> USE NoneAssumption DEF TypeOK, ElectionInv, Attached, DropIsSafe, Electing
<1>1. CASE Request(c)
  BY <1>1 DEF Request, serverVars
<1>2. CASE RequestFails(c)
  BY <1>2 DEF RequestFails, serverVars
<1>3. CASE ElectionLock(c)
  BY <1>3 DEF ElectionLock, serverVars
<1>4. CASE Bind(c)
  BY <1>4 DEF Bind, serverVars
<1>5. CASE BindOccupied(c)
  BY <1>5 DEF BindOccupied, serverVars
<1>6. CASE ElectionFails(c)
  BY <1>6 DEF ElectionFails, Return, serverVars
<1>7. CASE Serve(c)
  BY <1>7 DEF Serve, Return
<1>8. CASE ServeFails(c)
  BY <1>8 DEF ServeFails, Return, serverVars
<1>9. CASE Connect(c)
  BY <1>9 DEF Connect, serverVars
<1>10. CASE ConnectStale(c)
  BY <1>10 DEF ConnectStale, serverVars
<1>11. CASE RemoveStale(c)
  BY <1>11 DEF RemoveStale, serverVars
<1>12. CASE WritePayload(c)
  BY <1>12 DEF WritePayload, serverVars
<1>13. CASE ReadAcknowledgement(c)
  BY <1>13 DEF ReadAcknowledgement, serverVars
<1>14. CASE WriteReceipt(c)
  BY <1>14 DEF WriteReceipt, serverVars
<1>15. CASE HandOverFails(c)
  BY <1>15 DEF HandOverFails, Return, serverVars, Handing
<1> QED
  BY <1>1, <1>2, <1>3, <1>4, <1>5, <1>6, <1>7, <1>8, <1>9, <1>10, <1>11,
     <1>12, <1>13, <1>14, <1>15 DEF Requester

\* A listener thread touches the path only through its own drop, and only a
\* stopped listener is dropped.
LEMMA ListenerElection ==
  ASSUME TypeOK, ElectionInv, NEW d \in Call, Listener(d)
  PROVE  ElectionInv'
<1> USE NoneAssumption DEF TypeOK, ElectionInv, Attached, DropIsSafe, Runs
<1>1. CASE LoopTop(d)
  BY <1>1 DEF LoopTop, clientVars
<1>2. CASE Accept(d)
  BY <1>2 DEF Accept, clientVars
<1>3. CASE AcceptWouldBlock(d)
  BY <1>3 DEF AcceptWouldBlock, clientVars
<1>4. CASE Receive(d)
  BY <1>4 DEF Receive, clientVars
<1>5. CASE ReceiveFails(d)
  BY <1>5 DEF ReceiveFails, FinishConnection
<1>6. CASE Push(d)
  BY <1>6 DEF Push, clientVars
<1>7. CASE WriteAcknowledgement(d)
  BY <1>7 DEF WriteAcknowledgement
<1>8. CASE AcknowledgementFails(d)
  BY <1>8 DEF AcknowledgementFails, FinishConnection
<1>9. CASE ReadReceipt(d)
  BY <1>9 DEF ReadReceipt, FinishConnection
<1>10. CASE CloseListener(d)
  BY <1>10 DEF CloseListener
<1>11. CASE UnlinkPath(d)
  BY <1>11 DEF UnlinkPath, clientVars
<1> QED
  BY <1>1, <1>2, <1>3, <1>4, <1>5, <1>6, <1>7, <1>8, <1>9, <1>10, <1>11
     DEF Listener

\* A process that releases or dies takes no endpoint of another's.
LEMMA ProcessElection ==
  ASSUME TypeOK, ElectionInv, NEW p \in Proc, Process(p)
  PROVE  ElectionInv'
<1> USE DEF TypeOK, ElectionInv, Attached, DropIsSafe, Electing
<1>1. CASE Release(p)
  BY <1>1 DEF Release, clientVars
<1>2. CASE Joined(p)
  BY <1>2 DEF Joined, clientVars
<1>3. CASE Take(p)
  BY <1>3 DEF Take, clientVars, serverVars
<1>4. CASE Die(p)
  BY <1>4, NoneAssumption DEF Die, serverVars, CallsOf, Finished
<1> QED
  BY <1>1, <1>2, <1>3, <1>4 DEF Process

\* Every step keeps the election invariant.
LEMMA NextElection == TypeOK /\ ElectionInv /\ [Next]_vars => ElectionInv'
<1>1. ASSUME ElectionInv, UNCHANGED vars PROVE ElectionInv'
  BY <1>1 DEF ElectionInv, Attached, DropIsSafe, vars
<1> QED
  BY <1>1, RequesterElection, ListenerElection, ProcessElection DEF Next

\* The election invariant leaves room for one owner of the live endpoint.
LEMMA ElectionExcludes == ElectionInv => ExclusivePrimary
BY DEF ElectionInv, ExclusivePrimary, Attached, Holds

\* At most one process is primary and the path leads to its listener, for any
\* number of processes, requests and crashes.
THEOREM PrimaryIsExclusive == Spec => []ExclusivePrimary
<1>1. Init => ElectionInv
  BY InitElection
<1>2. TypeOK /\ ElectionInv /\ [Next]_vars => ElectionInv'
  BY NextElection
<1>3. ElectionInv => ExclusivePrimary
  BY ElectionExcludes
<1> QED
  BY <1>1, <1>2, <1>3, TypeCorrect, PTL DEF Spec

(***************************************************************************)
(* Acknowledged invocations are queued.                                    *)
(***************************************************************************)

\* Queueing adds the invocation and forgets none.
LEMMA PushQueues ==
  ASSUME TypeOK, NEW d \in Call, Push(d)
  PROVE  /\ \A p \in Proc : Queued[p] \subseteq Queued'[p]
         /\ cur[d] \in Queued'[Owner[d]]
<1> DEFINE q == Owner[d]
<1>1. q \in Proc /\ cur[d] \in Call /\ received[q] \in Seq(Call)
  BY OwnerAssumption DEF TypeOK, Push, Runs, Serving
<1>2. received' = [received EXCEPT ![q] = Append(received[q], cur[d])] /\ taken' = taken
  BY DEF Push
<1>3. received \in [Proc -> Seq(Call)]
  BY DEF TypeOK
<1>4. received'[q] = Append(received[q], cur[d])
  BY <1>1, <1>2, <1>3
<1>5. ASSUME NEW p \in Proc PROVE Queued[p] \subseteq Queued'[p]
  <2>1. CASE p = q
    <3>1. \A i \in DOMAIN received[q] :
             i \in DOMAIN received'[q] /\ received'[q][i] = received[q][i]
      BY <1>1, <1>4
    <3> QED
      BY <2>1, <3>1, <1>2 DEF Queued
  <2>2. CASE p # q
    <3>1. received'[p] = received[p]
      BY <2>2, <1>2, <1>3
    <3> QED
      BY <3>1, <1>2 DEF Queued
  <2> QED
    BY <2>1, <2>2
<1>6. Len(received[q]) + 1 \in DOMAIN received'[q]
        /\ received'[q][Len(received[q]) + 1] = cur[d]
  BY <1>1, <1>4
<1>7. cur[d] \in Queued'[q]
  BY <1>1, <1>6 DEF Queued
<1> QED
  BY <1>5, <1>7

\* The elements of a concatenation include those of both parts.
LEMMA ConcatElements ==
  \A s, t \in Seq(Call) : \A u : u = s \o t =>
    /\ \A i \in DOMAIN s : \E k \in DOMAIN u : u[k] = s[i]
    /\ \A i \in DOMAIN t : \E k \in DOMAIN u : u[k] = t[i]
<1> SUFFICES ASSUME NEW s \in Seq(Call), NEW t \in Seq(Call), NEW u, u = s \o t
             PROVE  /\ \A i \in DOMAIN s : \E k \in DOMAIN u : u[k] = s[i]
                    /\ \A i \in DOMAIN t : \E k \in DOMAIN u : u[k] = t[i]
  OBVIOUS
<1>1. /\ Len(s) \in Nat /\ DOMAIN s = 1..Len(s)
      /\ Len(t) \in Nat /\ DOMAIN t = 1..Len(t)
  BY LenProperties
<1>2. /\ u \in Seq(Call) /\ Len(u) = Len(s) + Len(t)
      /\ \A i \in 1..(Len(s) + Len(t)) :
           u[i] = IF i <= Len(s) THEN s[i] ELSE t[i - Len(s)]
  BY ConcatProperties
<1>3. DOMAIN u = 1..(Len(s) + Len(t))
  BY <1>2, LenProperties
<1>4. ASSUME NEW i \in DOMAIN s PROVE \E k \in DOMAIN u : u[k] = s[i]
  <2>1. i \in 1..(Len(s) + Len(t)) /\ i <= Len(s)
    BY <1>1
  <2> QED
    BY <2>1, <1>2, <1>3
<1>5. ASSUME NEW i \in DOMAIN t PROVE \E k \in DOMAIN u : u[k] = t[i]
  <2>1. /\ Len(s) + i \in 1..(Len(s) + Len(t)) /\ ~(Len(s) + i <= Len(s))
        /\ (Len(s) + i) - Len(s) = i
    BY <1>1
  <2>2. u[Len(s) + i] = t[i]
    BY <2>1, <1>2
  <2> QED
    BY <2>1, <2>2, <1>3
<1> QED
  BY <1>4, <1>5

\* Draining the queue moves its invocations to those already taken.
LEMMA TakeKeepsQueued ==
  ASSUME TypeOK, NEW p \in Proc, Take(p), NEW q \in Proc
  PROVE  Queued[q] \subseteq Queued'[q]
<1>1. received[p] \in Seq(Call) /\ taken[p] \in Seq(Call)
  BY DEF TypeOK
<1>2. CASE q = p
  <2>1. taken'[p] = taken[p] \o received[p]
    BY DEF Take, TypeOK
  <2>2. /\ \A i \in DOMAIN taken[p] : \E k \in DOMAIN taken'[p] : taken'[p][k] = taken[p][i]
        /\ \A i \in DOMAIN received[p] : \E k \in DOMAIN taken'[p] : taken'[p][k] = received[p][i]
    <3>1. \A t \in Seq(Call) : \A u : u = taken[p] \o t =>
            /\ \A i \in DOMAIN taken[p] : \E k \in DOMAIN u : u[k] = taken[p][i]
            /\ \A i \in DOMAIN t : \E k \in DOMAIN u : u[k] = t[i]
      BY <1>1, ConcatElements, Zenon
    <3>2. \A u : u = taken[p] \o received[p] =>
            /\ \A i \in DOMAIN taken[p] : \E k \in DOMAIN u : u[k] = taken[p][i]
            /\ \A i \in DOMAIN received[p] : \E k \in DOMAIN u : u[k] = received[p][i]
      BY <1>1, <3>1, Zenon
    <3> QED
      BY <2>1, <3>2, Zenon
  <2> QED
    BY <1>2, <2>2 DEF Queued
<1>3. CASE q # p
  <2>1. received'[q] = received[q] /\ taken'[q] = taken[q]
    BY <1>3 DEF Take, TypeOK
  <2> QED
    BY <2>1 DEF Queued
<1> QED
  BY <1>2, <1>3

\* Nothing is on its way before the first request.
LEMMA InitHandOver == Init => HandOverInv
BY DEF Init, HandOverInv, NoChan, Electing, Serving

\* The invariant only asks that invocations stay queued.
LEMMA HandOverMonotone ==
  ASSUME TypeOK, HandOverInv,
         UNCHANGED <<req, chan, backlog, srv, cur>>,
         \A q \in Proc : Queued[q] \subseteq Queued'[q]
  PROVE  HandOverInv'
<1>1. \A c \in Call : chan'[c].ack =>
        chan'[c].to \in Call /\ c \in Queued'[Owner[chan'[c].to]]
  BY OwnerAssumption DEF HandOverInv
<1>2. \A d \in Call : srv'[d] = "ack" => cur'[d] \in Queued'[Owner[d]]
  BY OwnerAssumption DEF HandOverInv
<1> QED
  BY <1>1, <1>2 DEF HandOverInv

\* A sender passes its invocation on and reads what its owner answered.
LEMMA RequesterHandOver ==
  ASSUME TypeOK, HandOverInv, NEW c \in Call, Requester(c)
  PROVE  HandOverInv'
<1> USE NoneAssumption DEF TypeOK, HandOverInv, Electing, Serving
<1>0. received' = received /\ taken' = taken => Queued' = Queued
  BY DEF Queued
<1>1. CASE Request(c)
  BY <1>0, <1>1, OwnerAssumption DEF Request, serverVars, queueVars
<1>2. CASE RequestFails(c)
  BY <1>0, <1>2, OwnerAssumption DEF RequestFails, serverVars, queueVars
<1>3. CASE ElectionLock(c)
  BY <1>0, <1>3, OwnerAssumption DEF ElectionLock, serverVars, queueVars
<1>4. CASE Bind(c)
  BY <1>0, <1>4, OwnerAssumption DEF Bind, serverVars, queueVars
<1>5. CASE BindOccupied(c)
  BY <1>0, <1>5, OwnerAssumption DEF BindOccupied, serverVars, queueVars
<1>6. CASE ElectionFails(c)
  BY <1>0, <1>6, OwnerAssumption DEF ElectionFails, Return, Chan, serverVars, queueVars
<1>7. CASE Serve(c)
  BY <1>0, <1>7, OwnerAssumption DEF Serve, Return, Chan, queueVars
<1>8. CASE ServeFails(c)
  BY <1>0, <1>8, OwnerAssumption DEF ServeFails, Return, Chan, serverVars, queueVars
<1>9. CASE Connect(c)
  <2>1. path \in Call /\ chan[c].to = None
    BY <1>9 DEF Connect
  <2>2. /\ chan'[c].to = path /\ ~chan'[c].ack
        /\ \A e \in Call : e # c => chan'[e] = chan[e]
    BY <1>9 DEF Connect, NoChan
  <2>3. \A e \in Call : e # c => req'[e] = req[e]
    BY <1>9 DEF Connect
  <2>4. req'[c] = "write"
    BY <1>9 DEF Connect
  <2>5. ASSUME NEW d \in Call, NEW i \in DOMAIN backlog'[d]
        PROVE  chan'[backlog'[d][i]].to = d
    <3>1. CASE d = path /\ i = Len(backlog[d]) + 1
      BY <1>9, <2>1, <2>2, <3>1 DEF Connect
    <3>2. CASE ~(d = path /\ i = Len(backlog[d]) + 1)
      <4>1. i \in DOMAIN backlog[d] /\ backlog'[d][i] = backlog[d][i]
        BY <1>9, <2>1, <3>2, <2>5 DEF Connect
      <4>2. backlog[d][i] \in Call /\ backlog[d][i] # c
        BY <4>1, <2>1
      <4> QED
        BY <4>1, <4>2, <2>2
    <3> QED
      BY <3>1, <3>2
  <2>6. \A d \in Call : srv'[d] \in Serving => chan'[cur'[d]].to = d
    BY <1>9, <2>1, <2>2 DEF Connect, serverVars
  <2>7. \A d \in Call : srv'[d] = "ack" => cur'[d] \in Queued'[Owner[d]]
    BY <1>0, <1>9, OwnerAssumption DEF Connect, serverVars, queueVars
  <2>8. \A e \in Call : chan'[e].ack =>
          chan'[e].to \in Call /\ e \in Queued'[Owner[chan'[e].to]]
    BY <1>0, <1>9, <2>2, OwnerAssumption DEF Connect, queueVars
  <2>9. \A e \in Call :
          req'[e] \in {"idle", "elect"} \cup Electing => chan'[e].to = None
    BY <2>2, <2>3, <2>4
  <2>10. \A e \in Call : req'[e] \in {"confirm", "secondary"} => chan'[e].ack
    BY <2>2, <2>3, <2>4
  <2> QED
    BY <2>5, <2>6, <2>7, <2>8, <2>9, <2>10
<1>10. CASE ConnectStale(c)
  BY <1>0, <1>10, OwnerAssumption DEF ConnectStale, serverVars, queueVars
<1>11. CASE RemoveStale(c)
  BY <1>0, <1>11, OwnerAssumption DEF RemoveStale, serverVars, queueVars
<1>12. CASE WritePayload(c)
  BY <1>0, <1>12, OwnerAssumption DEF WritePayload, Chan, serverVars, queueVars
<1>13. CASE ReadAcknowledgement(c)
  BY <1>0, <1>13, OwnerAssumption DEF ReadAcknowledgement, serverVars, queueVars
<1>14. CASE WriteReceipt(c)
  BY <1>0, <1>14, OwnerAssumption DEF WriteReceipt, Chan, serverVars, queueVars
<1>15. CASE HandOverFails(c)
  BY <1>0, <1>15, OwnerAssumption DEF HandOverFails, Return, Chan, Handing, serverVars, queueVars
<1> QED
  BY <1>1, <1>2, <1>3, <1>4, <1>5, <1>6, <1>7, <1>8, <1>9, <1>10, <1>11,
     <1>12, <1>13, <1>14, <1>15 DEF Requester

\* A listener acknowledges an invocation only after it has queued it.
LEMMA ListenerHandOver ==
  ASSUME TypeOK, HandOverInv, NEW d \in Call, Listener(d)
  PROVE  HandOverInv'
<1> USE OwnerAssumption, NoneAssumption DEF TypeOK, HandOverInv, Serving, Runs
<1>0. received' = received /\ taken' = taken => Queued' = Queued
  BY DEF Queued
<1>1. CASE LoopTop(d)
  BY <1>0, <1>1 DEF LoopTop, clientVars, queueVars
<1>2. CASE Accept(d)
  <2>1. Head(backlog[d]) = backlog[d][1] /\ 1 \in DOMAIN backlog[d]
    BY <1>2 DEF Accept
  <2>2. chan[Head(backlog[d])].to = d
    BY <2>1
  <2>3. ASSUME NEW e \in Call, NEW i \in DOMAIN backlog'[e]
        PROVE  chan'[backlog'[e][i]].to = e
    <3>1. CASE e = d
      <4>1. i + 1 \in DOMAIN backlog[d] /\ backlog'[d][i] = backlog[d][i + 1]
        BY <1>2, <2>3, <3>1 DEF Accept
      <4> QED
        BY <1>2, <3>1, <4>1 DEF Accept, clientVars
    <3>2. CASE e # d
      BY <1>2, <2>3, <3>2 DEF Accept, clientVars
    <3> QED
      BY <3>1, <3>2
  <2>4. \A e \in Call : srv'[e] \in Serving => chan'[cur'[e]].to = e
    BY <1>2, <2>2 DEF Accept, clientVars
  <2>5. \A e \in Call : srv'[e] = "ack" => cur'[e] \in Queued'[Owner[e]]
    BY <1>0, <1>2 DEF Accept, queueVars
  <2> QED
    BY <1>0, <1>2, <2>3, <2>4, <2>5 DEF Accept, clientVars, queueVars
<1>3. CASE AcceptWouldBlock(d)
  BY <1>0, <1>3 DEF AcceptWouldBlock, clientVars, queueVars
<1>4. CASE Receive(d)
  BY <1>0, <1>4 DEF Receive, clientVars, queueVars
<1>5. CASE ReceiveFails(d)
  BY <1>0, <1>5 DEF ReceiveFails, FinishConnection, Hangup, Chan, queueVars
<1>6. CASE Push(d)
  <2>1. \A p \in Proc : Queued[p] \subseteq Queued'[p]
    BY <1>6, PushQueues
  <2>2. cur[d] \in Queued'[Owner[d]]
    BY <1>6, PushQueues
  <2> QED
    BY <1>6, <2>1, <2>2 DEF Push, clientVars
<1>7. CASE WriteAcknowledgement(d)
  <2>1. chan[cur[d]].to = d /\ cur[d] \in Queued[Owner[d]] /\ cur[d] \in Call
    BY <1>7 DEF WriteAcknowledgement
  <2>2. \A e \in Call : chan'[e].to = chan[e].to /\ (e # cur[d] => chan'[e] = chan[e])
    BY <1>7, <2>1 DEF WriteAcknowledgement, Chan
  <2>3. chan'[cur[d]].ack
    BY <1>7, <2>1 DEF WriteAcknowledgement, Chan
  <2> QED
    <3>1. /\ req' = req /\ backlog' = backlog /\ cur' = cur /\ Queued' = Queued
          /\ srv' = [srv EXCEPT ![d] = "receipt"]
      BY <1>0, <1>7 DEF WriteAcknowledgement, queueVars
    <3>2. \A e \in Call : \A i \in DOMAIN backlog[e] : backlog[e][i] \in Call
      OBVIOUS
    <3>3. \A e \in Call : chan'[e].ack => chan[e].ack \/ e = cur[d]
      BY <2>2
    <3>4. \A e \in Call : chan[e].ack => chan'[e].ack
      BY <2>2, <2>3
    <3>5. \A e \in Call : srv'[e] \in Serving => srv[e] \in Serving
      BY <1>7, <3>1 DEF WriteAcknowledgement
    <3>6. \A e \in Call : srv'[e] = "ack" => e # d /\ srv[e] = "ack"
      BY <3>1
    <3>7. \A e \in Call : chan'[e].ack =>
            chan'[e].to \in Call /\ e \in Queued'[Owner[chan'[e].to]]
      <4> SUFFICES ASSUME NEW e \in Call, chan'[e].ack
                   PROVE  chan'[e].to \in Call /\ e \in Queued'[Owner[chan'[e].to]]
        OBVIOUS
      <4>1. CASE e = cur[d]
        BY <4>1, <2>1, <2>2, <3>1
      <4>2. CASE e # cur[d]
        BY <4>2, <2>2, <3>1
      <4> QED
        BY <4>1, <4>2
    <3>8. \A e \in Call : \A i \in DOMAIN backlog'[e] : chan'[backlog'[e][i]].to = e
      BY <2>2, <3>1, <3>2
    <3>9. \A e \in Call : srv'[e] \in Serving => chan'[cur'[e]].to = e
      BY <2>2, <3>1, <3>5
    <3> QED
      BY <2>2, <3>1, <3>4, <3>6, <3>7, <3>8, <3>9
<1>8. CASE AcknowledgementFails(d)
  BY <1>0, <1>8 DEF AcknowledgementFails, FinishConnection, Hangup, Chan, queueVars
<1>9. CASE ReadReceipt(d)
  BY <1>0, <1>9 DEF ReadReceipt, FinishConnection, Hangup, Chan, queueVars
<1>10. CASE CloseListener(d)
  <2>1. \A e \in Call : chan'[e].to = chan[e].to /\ chan'[e].ack = chan[e].ack
    BY <1>10 DEF CloseListener, Chan
  <2> QED
    BY <1>0, <1>10, <2>1 DEF CloseListener, queueVars
<1>11. CASE UnlinkPath(d)
  BY <1>0, <1>11 DEF UnlinkPath, clientVars, queueVars
<1> QED
  BY <1>1, <1>2, <1>3, <1>4, <1>5, <1>6, <1>7, <1>8, <1>9, <1>10, <1>11
     DEF Listener

\* Releasing, taking invocations and dying lose none that was acknowledged.
LEMMA ProcessHandOver ==
  ASSUME TypeOK, HandOverInv, NEW p \in Proc, Process(p)
  PROVE  HandOverInv'
<1> USE OwnerAssumption DEF TypeOK, HandOverInv, Electing, Serving
<1>0. received' = received /\ taken' = taken => Queued' = Queued
  BY DEF Queued
<1>1. CASE Release(p)
  BY <1>0, <1>1 DEF Release, clientVars, queueVars
<1>2. CASE Joined(p)
  BY <1>0, <1>2 DEF Joined, clientVars, queueVars
<1>3. CASE Take(p)
  <2>1. \A q \in Proc : Queued[q] \subseteq Queued'[q]
    BY <1>3, TakeKeepsQueued
  <2>2. UNCHANGED <<req, chan, backlog, srv, cur>>
    BY <1>3 DEF Take, clientVars, serverVars
  <2> QED
    BY <2>1, <2>2, HandOverMonotone
<1>4. CASE Die(p)
  <2>1. \A e \in Call : chan'[e].to = chan[e].to /\ chan'[e].ack = chan[e].ack
    BY <1>4, SeveredStream DEF Die
  <2>2. \A e \in Call : req'[e] = req[e] \/ req'[e] = "dead"
    BY <1>4 DEF Die
  <2>3. \A e \in Call : \A i \in DOMAIN backlog'[e] :
           /\ i \in DOMAIN backlog[e] /\ backlog'[e][i] = backlog[e][i]
           /\ backlog[e][i] \in Call
    <3> SUFFICES ASSUME NEW e \in Call, NEW i \in DOMAIN backlog'[e]
                 PROVE  /\ i \in DOMAIN backlog[e] /\ backlog'[e][i] = backlog[e][i]
                        /\ backlog[e][i] \in Call
      OBVIOUS
    <3>1. backlog'[e] = IF Owner[e] = p THEN <<>> ELSE backlog[e]
      BY <1>4 DEF Die
    <3>2. Owner[e] # p
      BY <3>1
    <3> QED
      BY <3>1, <3>2
  <2>4. srv' = srv /\ cur' = cur /\ Queued' = Queued
    BY <1>0, <1>4 DEF Die, serverVars, queueVars
  <2>5. \A e \in Call :
          req'[e] \in {"idle", "elect"} \cup Electing => chan'[e].to = None
    BY <2>1, <2>2
  <2>6. \A e \in Call : req'[e] \in {"confirm", "secondary"} => chan'[e].ack
    BY <2>1, <2>2
  <2>7. \A e \in Call : chan'[e].ack =>
          chan'[e].to \in Call /\ e \in Queued'[Owner[chan'[e].to]]
    BY <2>1, <2>4
  <2>8. \A d \in Call : srv'[d] \in Serving => chan'[cur'[d]].to = d
    BY <2>1, <2>4
  <2>9. \A e \in Call : \A i \in DOMAIN backlog'[e] : chan'[backlog'[e][i]].to = e
    <3> SUFFICES ASSUME NEW e \in Call, NEW i \in DOMAIN backlog'[e]
                 PROVE  chan'[backlog'[e][i]].to = e
      OBVIOUS
    <3>1. /\ i \in DOMAIN backlog[e] /\ backlog'[e][i] = backlog[e][i]
          /\ backlog[e][i] \in Call
      BY <2>3
    <3>2. chan[backlog[e][i]].to = e
      BY <3>1
    <3> QED
      BY <2>1, <3>1, <3>2
  <2>10. \A d \in Call : srv'[d] = "ack" => cur'[d] \in Queued'[Owner[d]]
    BY <2>4
  <2> QED
    BY ONLY <2>5, <2>6, <2>7, <2>8, <2>9, <2>10 DEF HandOverInv
<1> QED
  BY <1>1, <1>2, <1>3, <1>4 DEF Process

\* Every step keeps the hand-over invariant.
LEMMA NextHandOver == TypeOK /\ HandOverInv /\ [Next]_vars => HandOverInv'
<1>1. ASSUME HandOverInv, UNCHANGED vars PROVE HandOverInv'
  <2>1. Queued' = Queued
    BY <1>1 DEF Queued, vars
  <2> QED
    BY <1>1, <2>1 DEF HandOverInv, vars
<1> QED
  BY <1>1, RequesterHandOver, ListenerHandOver, ProcessHandOver DEF Next

\* Under the hand-over invariant, a sender that was told `false` has been queued.
LEMMA HandOverQueues == HandOverInv => AcknowledgedIsQueued
BY DEF HandOverInv, AcknowledgedIsQueued

\* Nobody is told `false` before the owner has queued the invocation.
THEOREM SecondaryIsQueued == Spec => []AcknowledgedIsQueued
<1>1. Init => HandOverInv
  BY InitHandOver
<1>2. TypeOK /\ HandOverInv /\ [Next]_vars => HandOverInv'
  BY NextHandOver
<1>3. HandOverInv => AcknowledgedIsQueued
  BY HandOverQueues
<1> QED
  BY <1>1, <1>2, <1>3, TypeCorrect, PTL DEF Spec

(***************************************************************************)
(* A recovery removes nothing that is alive.                               *)
(***************************************************************************)

\* No recovering process ever unlinks the endpoint of a listener that is still
\* open, for any number of rivals.
THEOREM RecoverySpares == Spec => RecoveryKeepsLiveEndpoint
<1>1. Init => ElectionInv
  BY InitElection
<1>2. TypeOK /\ ElectionInv /\ [Next]_vars => ElectionInv'
  BY NextElection
<1>3. ElectionInv =>
        [\A c \in Call : req[c] = "remove" /\ req'[c] = "rebind" => path \notin open]_vars
  BY DEF ElectionInv
<1> QED
  BY <1>1, <1>2, <1>3, TypeCorrect, PTL DEF Spec, RecoveryKeepsLiveEndpoint

(***************************************************************************)
(* An invocation is delivered once.                                        *)
(***************************************************************************)

\* All that a process has ever queued, in its order; and what any has.
Log == [p \in Proc |-> taken[p] \o received[p]]
Accepted == UNION {Queued[p] : p \in Proc}

Unconnected == {"idle", "elect"} \cup Electing

\* A call is queued at most once.  It has connected by then; one that still waits
\* in a backlog, or has only been read, has not been queued, and no listener
\* has it twice.
LoggedOnce ==
  \A p, q \in Proc : \A i \in DOMAIN Log[p], j \in DOMAIN Log[q] :
    Log[p][i] = Log[q][j] => p = q /\ i = j

AcceptedConnected == \A c \in Accepted : req[c] \notin Unconnected

ServedIsNew == \A d \in Call : srv[d] \in {"receive", "push"} => cur[d] \notin Accepted

WaitingIsNew ==
  \A d \in Call : \A i \in DOMAIN backlog[d] :
    /\ backlog[d][i] \notin Accepted
    /\ srv[d] \in Serving => cur[d] # backlog[d][i]
    /\ \A j \in DOMAIN backlog[d] : backlog[d][j] = backlog[d][i] => j = i

DeliveryInv == LoggedOnce /\ AcceptedConnected /\ ServedIsNew /\ WaitingIsNew

\* u begins with s and has the elements of s and t.
Joins(s, t, u) ==
  /\ u \in Seq(Call)
  /\ \A i \in DOMAIN s : i \in DOMAIN u /\ u[i] = s[i]
  /\ \A c : (\E i \in DOMAIN u : u[i] = c)
              <=> (\E i \in DOMAIN s : s[i] = c) \/ (\E i \in DOMAIN t : t[i] = c)

\* A concatenation joins its parts.
LEMMA ConcatJoins == \A s, t \in Seq(Call) : Joins(s, t, s \o t)
<1> SUFFICES ASSUME NEW s \in Seq(Call), NEW t \in Seq(Call), NEW u, u = s \o t
             PROVE  Joins(s, t, u)
  OBVIOUS
<1>3. /\ Len(s) \in Nat /\ DOMAIN s = 1..Len(s)
      /\ Len(t) \in Nat /\ DOMAIN t = 1..Len(t)
  BY LenProperties
<1>4. /\ u \in Seq(Call) /\ Len(u) = Len(s) + Len(t)
      /\ \A i \in 1..(Len(s) + Len(t)) :
           u[i] = IF i <= Len(s) THEN s[i] ELSE t[i - Len(s)]
  BY ConcatProperties
<1>5. DOMAIN u = 1..(Len(s) + Len(t))
  BY <1>4, LenProperties
<1>7. \A i \in DOMAIN s : i \in DOMAIN u /\ u[i] = s[i]
  BY <1>3, <1>4, <1>5
<1>8. ASSUME NEW i \in DOMAIN t PROVE \E k \in DOMAIN u : u[k] = t[i]
  <2>1. /\ Len(s) + i \in 1..(Len(s) + Len(t)) /\ ~(Len(s) + i <= Len(s))
        /\ (Len(s) + i) - Len(s) = i
    BY <1>3
  <2>2. u[Len(s) + i] = t[i]
    BY <2>1, <1>4
  <2> QED
    BY <2>1, <2>2, <1>5
<1>9. ASSUME NEW k \in DOMAIN u
      PROVE  (\E i \in DOMAIN s : u[k] = s[i]) \/ (\E i \in DOMAIN t : u[k] = t[i])
  <2>1. CASE k <= Len(s)
    BY <2>1, <1>3, <1>4, <1>5
  <2>2. CASE ~(k <= Len(s))
    <3>1. k - Len(s) \in DOMAIN t /\ u[k] = t[k - Len(s)]
      BY <2>2, <1>3, <1>4, <1>5
    <3> QED
      BY <3>1
  <2> QED
    BY <2>1, <2>2
<1>10. ASSUME NEW c
       PROVE  (\E i \in DOMAIN u : u[i] = c)
                <=> (\E i \in DOMAIN s : s[i] = c) \/ (\E i \in DOMAIN t : t[i] = c)
  <2>1. ASSUME NEW i \in DOMAIN u, u[i] = c
        PROVE  (\E k \in DOMAIN s : s[k] = c) \/ (\E k \in DOMAIN t : t[k] = c)
    BY <2>1, <1>9
  <2>2. ASSUME NEW i \in DOMAIN s, s[i] = c PROVE \E k \in DOMAIN u : u[k] = c
    BY <2>2, <1>7
  <2>3. ASSUME NEW i \in DOMAIN t, t[i] = c PROVE \E k \in DOMAIN u : u[k] = c
    BY <2>3, <1>8
  <2> QED
    BY <2>1, <2>2, <2>3
<1> QED
  BY <1>4, <1>7, <1>10, Zenon DEF Joins

\* Appending to the second part appends to the whole.
LEMMA AppendToConcat ==
  ASSUME NEW s \in Seq(Call), NEW t \in Seq(Call), NEW c \in Call
  PROVE  s \o Append(t, c) = Append(s \o t, c)
<1>1. Append(t, c) = t \o <<c>> /\ <<c>> \in Seq(Call) /\ s \o t \in Seq(Call)
  BY AppendIsConcat, ConcatProperties
<1>2. Append(s \o t, c) = (s \o t) \o <<c>>
  BY <1>1, AppendIsConcat
<1> QED
  BY <1>1, <1>2, ConcatAssociative

\* The log of a process is a sequence of calls; what it has taken begins it, and
\* its elements are what the process has queued.
LEMMA LogParts ==
  ASSUME TypeOK, NEW p \in Proc
  PROVE  /\ Log[p] \in Seq(Call)
         /\ \A i \in DOMAIN taken[p] : i \in DOMAIN Log[p] /\ Log[p][i] = taken[p][i]
         /\ \A c : c \in Queued[p] <=> \E i \in DOMAIN Log[p] : Log[p][i] = c
<1>1. taken[p] \in Seq(Call) /\ received[p] \in Seq(Call) /\ Log[p] = taken[p] \o received[p]
  BY DEF TypeOK, Log
<1>2. Joins(taken[p], received[p], Log[p])
  BY <1>1, ConcatJoins, Zenon
<1>3. \A c : c \in Queued[p] <=> \/ \E i \in DOMAIN taken[p] : taken[p][i] = c
                               \/ \E i \in DOMAIN received[p] : received[p][i] = c
  BY DEF Queued
<1> QED
  BY <1>2, <1>3 DEF Joins

\* Only calls are queued.
LEMMA AcceptedCalls == TypeOK => Accepted \subseteq Call
BY LogParts DEF Accepted, TypeOK, Queued

\* What may still happen to a call is the same in a step that queues, connects
\* and accepts nothing.
LEMMA NothingNew ==
  ASSUME TypeOK, DeliveryInv, UNCHANGED <<received, taken>>,
         \A c \in Call : req'[c] \in Unconnected => req[c] \in Unconnected,
         \A d \in Call : srv'[d] \in {"receive", "push"} => srv[d] \in {"receive", "push"},
         \A d \in Call : srv'[d] \in Serving => srv[d] \in Serving /\ cur'[d] = cur[d],
         \A d \in Call : backlog'[d] \in {backlog[d], <<>>}
  PROVE  DeliveryInv'
<1>1. Log' = Log /\ Accepted' = Accepted /\ Accepted \subseteq Call
  BY AcceptedCalls DEF Log, Accepted, Queued
<1>2. LoggedOnce'
  BY <1>1 DEF DeliveryInv, LoggedOnce
<1>3. AcceptedConnected'
  BY <1>1 DEF DeliveryInv, AcceptedConnected
<1>4. ServedIsNew'
  BY <1>1 DEF DeliveryInv, ServedIsNew, Serving
<1>5. \A d \in Call : \A i \in DOMAIN backlog'[d] :
        i \in DOMAIN backlog[d] /\ backlog'[d] = backlog[d]
  OBVIOUS
<1>6. WaitingIsNew'
  BY <1>1, <1>5 DEF DeliveryInv, WaitingIsNew
<1> QED
  BY <1>2, <1>3, <1>4, <1>6 DEF DeliveryInv

\* Nothing is queued before the first request.
LEMMA InitDelivery == Init => DeliveryInv
<1> SUFFICES ASSUME Init PROVE DeliveryInv
  OBVIOUS
<1>1. \A p \in Proc : Log[p] = <<>> /\ Queued[p] = {}
  BY DEF Init, Log, Queued
<1>2. Accepted = {}
  BY <1>1 DEF Accepted
<1> QED
  BY <1>1, <1>2 DEF DeliveryInv, LoggedOnce, AcceptedConnected, ServedIsNew, WaitingIsNew, Init,
                    Serving

\* A call connects once, and waits where nobody has seen it.
LEMMA RequesterDelivery ==
  ASSUME TypeOK, HandOverInv, DeliveryInv, NEW c \in Call, Requester(c)
  PROVE  DeliveryInv'
<1> USE DEF Unconnected, Electing
<1>1. CASE Connect(c)
  <2>1. /\ path \in Call /\ c \in Call /\ req[c] = "connect" /\ req'[c] = "write"
        /\ \A e \in Call : e # c => req'[e] = req[e]
        /\ backlog' = [backlog EXCEPT ![path] = Append(backlog[path], c)]
        /\ UNCHANGED <<srv, cur, received, taken>>
    BY <1>1 DEF Connect, TypeOK, serverVars, queueVars
  <2>2. Log' = Log /\ Accepted' = Accepted /\ Accepted \subseteq Call
    BY <2>1, AcceptedCalls DEF Log, Accepted, Queued
  <2>3. c \notin Accepted
    BY <2>1 DEF DeliveryInv, AcceptedConnected
  <2>4. \A d \in Call : srv[d] \in Serving => cur[d] # c
    BY <2>1, NoneAssumption DEF HandOverInv
  <2>5. \A i \in DOMAIN backlog[path] : backlog[path][i] # c
    BY <2>1, NoneAssumption DEF HandOverInv
  <2>6. backlog[path] \in Seq(Call) /\ backlog'[path] = Append(backlog[path], c)
    BY <2>1 DEF TypeOK
  <2>7. \A i \in DOMAIN backlog'[path] :
          \/ i \in DOMAIN backlog[path] /\ backlog'[path][i] = backlog[path][i]
          \/ i = Len(backlog[path]) + 1 /\ backlog'[path][i] = c
    BY <2>6
  <2>8. \A d \in Call : d # path => backlog'[d] = backlog[d]
    BY <2>1 DEF TypeOK
  <2>9. WaitingIsNew'
    <3> SUFFICES ASSUME NEW d \in Call, NEW i \in DOMAIN backlog'[d]
                 PROVE  /\ backlog'[d][i] \notin Accepted
                        /\ srv[d] \in Serving => cur[d] # backlog'[d][i]
                        /\ \A j \in DOMAIN backlog'[d] : backlog'[d][j] = backlog'[d][i] => j = i
      BY <2>1, <2>2 DEF WaitingIsNew
    <3>1. CASE d # path
      BY <3>1, <2>8 DEF DeliveryInv, WaitingIsNew
    <3>2. CASE d = path
      BY <3>2, <2>1, <2>3, <2>4, <2>5, <2>7 DEF DeliveryInv, WaitingIsNew
    <3> QED
      BY <3>1, <3>2
  <2>10. LoggedOnce' /\ AcceptedConnected' /\ ServedIsNew'
    BY <2>1, <2>2 DEF DeliveryInv, LoggedOnce, AcceptedConnected, ServedIsNew
  <2> QED
    BY <2>9, <2>10 DEF DeliveryInv
<1>2. CASE ~Connect(c)
  <2>1. /\ UNCHANGED <<received, taken, cur, backlog>>
        /\ \A e \in Call : req'[e] \in Unconnected => req[e] \in Unconnected
        /\ \A d \in Call : srv'[d] = srv[d] \/ srv'[d] = "loop"
    <3> USE DEF TypeOK, serverVars, queueVars, Return
    <3>1. CASE Request(c)
      BY <3>1 DEF Request
    <3>2. CASE RequestFails(c)
      BY <3>2 DEF RequestFails
    <3>3. CASE ElectionLock(c)
      BY <3>3 DEF ElectionLock
    <3>4. CASE Bind(c)
      BY <3>4 DEF Bind
    <3>5. CASE BindOccupied(c)
      BY <3>5 DEF BindOccupied
    <3>6. CASE ElectionFails(c)
      BY <3>6 DEF ElectionFails
    <3>7. CASE Serve(c)
      BY <3>7 DEF Serve
    <3>8. CASE ServeFails(c)
      BY <3>8 DEF ServeFails
    <3>9. CASE ConnectStale(c)
      BY <3>9 DEF ConnectStale
    <3>10. CASE RemoveStale(c)
      BY <3>10 DEF RemoveStale
    <3>11. CASE WritePayload(c)
      BY <3>11 DEF WritePayload
    <3>12. CASE ReadAcknowledgement(c)
      BY <3>12 DEF ReadAcknowledgement
    <3>13. CASE WriteReceipt(c)
      BY <3>13 DEF WriteReceipt
    <3>14. CASE HandOverFails(c)
      BY <3>14 DEF HandOverFails
    <3> QED
      BY <1>2, <3>1, <3>2, <3>3, <3>4, <3>5, <3>6, <3>7, <3>8, <3>9, <3>10, <3>11, <3>12,
         <3>13, <3>14 DEF Requester
  <2>2. \A d \in Call : srv'[d] \in Serving => srv'[d] = srv[d]
    BY <2>1 DEF Serving
  <2>3. \A d \in Call : srv'[d] \in {"receive", "push"} => srv'[d] = srv[d]
    BY <2>1
  <2> QED
    BY <2>1, <2>2, <2>3, NothingNew
<1> QED
  BY <1>1, <1>2

\* A listener takes each connection from its backlog once, and queues what it has
\* read once.
LEMMA ListenerDelivery ==
  ASSUME TypeOK, HandOverInv, DeliveryInv, NEW d \in Call, Listener(d)
  PROVE  DeliveryInv'
<1>1. CASE Accept(d)
  <2>1. /\ backlog[d] # <<>> /\ backlog[d] \in Seq(Call)
        /\ cur' = [cur EXCEPT ![d] = Head(backlog[d])]
        /\ backlog' = [backlog EXCEPT ![d] = Tail(backlog[d])]
        /\ srv' = [srv EXCEPT ![d] = "receive"]
        /\ UNCHANGED <<req, received, taken>>
    BY <1>1 DEF Accept, TypeOK, clientVars, queueVars
  <2>2. Log' = Log /\ Accepted' = Accepted
    BY <2>1 DEF Log, Accepted, Queued
  <2>3. Head(backlog[d]) = backlog[d][1] /\ 1 \in DOMAIN backlog[d]
    BY <2>1
  <2>4. \A i \in DOMAIN Tail(backlog[d]) :
          i \in Nat /\ i + 1 # 1 /\ i + 1 \in DOMAIN backlog[d] /\ Tail(backlog[d])[i] = backlog[d][i + 1]
    BY <2>1
  <2>5. /\ backlog'[d] = Tail(backlog[d]) /\ cur'[d] = backlog[d][1] /\ srv'[d] = "receive"
        /\ \A e \in Call : e # d => backlog'[e] = backlog[e] /\ cur'[e] = cur[e] /\ srv'[e] = srv[e]
    BY <2>1, <2>3 DEF TypeOK
  <2>6. ServedIsNew'
    BY <2>2, <2>3, <2>5 DEF DeliveryInv, ServedIsNew, WaitingIsNew
  <2>7. WaitingIsNew'
    <3> SUFFICES ASSUME NEW e \in Call, NEW i \in DOMAIN backlog'[e]
                 PROVE  /\ backlog'[e][i] \notin Accepted
                        /\ srv'[e] \in Serving => cur'[e] # backlog'[e][i]
                        /\ \A j \in DOMAIN backlog'[e] : backlog'[e][j] = backlog'[e][i] => j = i
      BY <2>2 DEF WaitingIsNew
    <3>1. CASE e # d
      BY <3>1, <2>5 DEF DeliveryInv, WaitingIsNew
    <3>2. CASE e = d
      <4>1. /\ i + 1 \in DOMAIN backlog[d] /\ backlog'[d][i] = backlog[d][i + 1] /\ i + 1 # 1
            /\ i \in Nat
        BY <3>2, <2>1, <2>4, <2>5
      <4>2. backlog[d][i + 1] \notin Accepted
        BY <4>1 DEF DeliveryInv, WaitingIsNew
      <4>3. cur'[d] # backlog'[d][i]
        BY <4>1, <2>3, <2>5 DEF DeliveryInv, WaitingIsNew
      <4>4. ASSUME NEW j \in DOMAIN backlog'[d], backlog'[d][j] = backlog'[d][i] PROVE j = i
        <5>1. /\ j + 1 \in DOMAIN backlog[d] /\ backlog'[d][j] = backlog[d][j + 1] /\ j \in Nat
          BY <4>4, <2>1, <2>4, <2>5
        <5>2. j + 1 = i + 1
          BY <4>1, <4>4, <5>1 DEF DeliveryInv, WaitingIsNew
        <5> QED
          BY <4>1, <5>1, <5>2
      <4> QED
        BY <3>2, <4>1, <4>2, <4>3, <4>4
    <3> QED
      BY <3>1, <3>2
  <2>8. LoggedOnce' /\ AcceptedConnected'
    BY <2>1, <2>2 DEF DeliveryInv, LoggedOnce, AcceptedConnected
  <2> QED
    BY <2>6, <2>7, <2>8 DEF DeliveryInv
<1>2. CASE Push(d)
  <2> DEFINE q == Owner[d]
             c == cur[d]
  <2>1. /\ srv[d] = "push" /\ q \in Proc /\ c \in Call
        /\ srv' = [srv EXCEPT ![d] = "ack"] /\ received' = [received EXCEPT ![q] = Append(received[q], c)]
        /\ UNCHANGED <<req, taken, cur, backlog>>
    BY <1>2, OwnerAssumption DEF Push, Runs, TypeOK, Serving, clientVars
  <2>2. c \notin Accepted
    BY <2>1 DEF DeliveryInv, ServedIsNew
  <2>3. req[c] \notin Unconnected
    BY <2>1, NoneAssumption DEF HandOverInv, Serving, Unconnected
  <2>4. /\ received'[q] = Append(received[q], c) /\ received[q] \in Seq(Call)
        /\ taken[q] \in Seq(Call)
        /\ \A p \in Proc : p # q => received'[p] = received[p]
    BY <2>1 DEF TypeOK
  <2>5. Log[q] \in Seq(Call) /\ Log'[q] = Append(Log[q], c)
    <3>1. Log[q] = taken[q] \o received[q] /\ Log'[q] = taken[q] \o received'[q]
      BY <2>1 DEF Log
    <3>2. taken[q] \o Append(received[q], c) = Append(taken[q] \o received[q], c)
      BY <2>1, <2>4, AppendToConcat
    <3> QED
      BY <3>1, <3>2, <2>1, <2>4, LogParts
  <2>6. \A p \in Proc : p # q => Log'[p] = Log[p]
    <3>1. \A p \in Proc : Log[p] = taken[p] \o received[p] /\ Log'[p] = taken[p] \o received'[p]
      BY <2>1 DEF Log
    <3> QED
      BY <3>1, <2>4
  <2>7. Accepted' = Accepted \cup {c}
    <3>1. Queued'[q] = Queued[q] \cup {c}
      BY <2>1, <2>4 DEF Queued
    <3>2. \A p \in Proc : p # q => Queued'[p] = Queued[p]
      BY <2>1, <2>4 DEF Queued
    <3> QED
      BY <2>1, <3>1, <3>2 DEF Accepted
  <2>8. \A i \in DOMAIN Log'[q] :
          \/ i \in DOMAIN Log[q] /\ Log'[q][i] = Log[q][i]
          \/ i = Len(Log[q]) + 1 /\ Log'[q][i] = c
    BY <2>5
  <2>9. \A p \in Proc : \A i \in DOMAIN Log[p] : Log[p][i] # c
    BY <2>2, LogParts DEF Accepted
  <2> HIDE DEF q, c
  <2>10. LoggedOnce'
    <3> SUFFICES ASSUME NEW p \in Proc, NEW r \in Proc, NEW i \in DOMAIN Log'[p],
                        NEW j \in DOMAIN Log'[r], Log'[p][i] = Log'[r][j]
                 PROVE  p = r /\ i = j
      BY DEF LoggedOnce
    <3>1. \/ i \in DOMAIN Log[p] /\ Log'[p][i] = Log[p][i]
          \/ p = q /\ i = Len(Log[q]) + 1 /\ Log'[p][i] = c
      BY <2>6, <2>8
    <3>2. \/ j \in DOMAIN Log[r] /\ Log'[r][j] = Log[r][j]
          \/ r = q /\ j = Len(Log[q]) + 1 /\ Log'[r][j] = c
      BY <2>6, <2>8
    <3> QED
      BY <3>1, <3>2, <2>9 DEF DeliveryInv, LoggedOnce
  <2>11. AcceptedConnected'
    BY <2>1, <2>3, <2>7 DEF DeliveryInv, AcceptedConnected
  <2>12. \A e \in Call : srv[e] \in Serving /\ cur[e] = c => e = d
    BY <2>1 DEF HandOverInv, Serving, c
  <2>13. \A e \in Call : \A i \in DOMAIN backlog[e] : backlog[e][i] # c
    <3> SUFFICES ASSUME NEW e \in Call, NEW i \in DOMAIN backlog[e], backlog[e][i] = c
                 PROVE  FALSE
      OBVIOUS
    <3>1. e = d
      BY <2>1 DEF HandOverInv, Serving, c
    <3> QED
      BY <3>1, <2>1 DEF DeliveryInv, WaitingIsNew, Serving, c
  <2>14. ServedIsNew'
    <3> SUFFICES ASSUME NEW e \in Call, srv'[e] \in {"receive", "push"}
                 PROVE  cur[e] \notin Accepted /\ cur[e] # c
      BY <2>1, <2>7 DEF ServedIsNew
    <3>1. e # d /\ srv[e] = srv'[e]
      BY <2>1 DEF TypeOK
    <3> QED
      BY <3>1, <2>12 DEF DeliveryInv, ServedIsNew, Serving
  <2>15. WaitingIsNew'
    <3>1. \A e \in Call : srv'[e] \in Serving => srv[e] \in Serving
      BY <2>1 DEF TypeOK, Serving
    <3> QED
      BY <2>1, <2>7, <2>13, <3>1 DEF DeliveryInv, WaitingIsNew
  <2> QED
    BY <2>10, <2>11, <2>14, <2>15 DEF DeliveryInv
<1>3. CASE ~Accept(d) /\ ~Push(d)
  <2>1. /\ UNCHANGED <<req, received, taken>>
        /\ \A e \in Call : srv'[e] \in Serving => srv[e] \in Serving /\ cur'[e] = cur[e]
        /\ \A e \in Call : srv'[e] \in {"receive", "push"} => srv[e] \in {"receive", "push"}
        /\ \A e \in Call : backlog'[e] \in {backlog[e], <<>>}
    <3> USE DEF TypeOK, clientVars, queueVars, FinishConnection, Runs, Serving
    <3>1. CASE LoopTop(d)
      BY <3>1 DEF LoopTop
    <3>2. CASE AcceptWouldBlock(d)
      BY <3>2 DEF AcceptWouldBlock
    <3>3. CASE Receive(d)
      BY <3>3 DEF Receive
    <3>4. CASE ReceiveFails(d)
      BY <3>4 DEF ReceiveFails
    <3>5. CASE WriteAcknowledgement(d)
      BY <3>5 DEF WriteAcknowledgement
    <3>6. CASE AcknowledgementFails(d)
      BY <3>6 DEF AcknowledgementFails
    <3>7. CASE ReadReceipt(d)
      BY <3>7 DEF ReadReceipt
    <3>8. CASE CloseListener(d)
      BY <3>8 DEF CloseListener
    <3>9. CASE UnlinkPath(d)
      BY <3>9 DEF UnlinkPath
    <3> QED
      BY <1>3, <3>1, <3>2, <3>3, <3>4, <3>5, <3>6, <3>7, <3>8, <3>9 DEF Listener
  <2> QED
    BY <2>1, NothingNew
<1> QED
  BY <1>1, <1>2, <1>3

\* A frame that takes the queue changes its place and not its order, and forgets nothing.
LEMMA TakeKeepsAccepted ==
  ASSUME TypeOK, NEW p \in Proc, Take(p)
  PROVE  Log' = Log /\ Accepted' = Accepted
<1>1. /\ taken'[p] = taken[p] \o received[p] /\ received'[p] = <<>>
      /\ taken[p] \in Seq(Call) /\ received[p] \in Seq(Call)
      /\ \A q \in Proc : q # p => taken'[q] = taken[q] /\ received'[q] = received[q]
      /\ UNCHANGED <<req, backlog, srv, cur>>
  BY DEF Take, TypeOK, clientVars, serverVars
<1>2. taken[p] \o received[p] \in Seq(Call)
  BY <1>1
<1>3. taken'[p] \o received'[p] = taken[p] \o received[p]
  BY <1>1, <1>2
<1>4. \A q \in Proc : taken'[q] \o received'[q] = taken[q] \o received[q]
  BY <1>1, <1>3
<1>5. Log' = Log
  BY <1>4 DEF Log
<1>6. Joins(taken[p], received[p], taken'[p])
  BY <1>1, ConcatJoins, Zenon
<1>7. \A q \in Proc : \A c : c \in Queued'[q] <=> c \in Queued[q]
  <2>1. ASSUME NEW c PROVE c \in Queued'[p] <=> c \in Queued[p]
    <3>1. c \in Queued[p] <=> \/ \E i \in DOMAIN taken[p] : taken[p][i] = c
                              \/ \E i \in DOMAIN received[p] : received[p][i] = c
      BY DEF Queued
    <3>2. c \in Queued'[p] <=> \E i \in DOMAIN taken'[p] : taken'[p][i] = c
      <4>1. DOMAIN received'[p] = {}
        BY <1>1
      <4>2. Queued'[p] = {received'[p][i] : i \in DOMAIN received'[p]}
                           \cup {taken'[p][i] : i \in DOMAIN taken'[p]}
        BY DEF Queued
      <4> QED
        BY <4>1, <4>2
    <3> QED
      BY <1>6, <3>1, <3>2 DEF Joins
  <2>2. \A q \in Proc : q # p => Queued'[q] = Queued[q]
    BY <1>1 DEF Queued
  <2> QED
    BY <2>1, <2>2
<1>8. Accepted' = Accepted
  BY <1>7 DEF Accepted
<1> QED
  BY <1>5, <1>8

\* A process that takes its queue, releases or ends queues nothing.
LEMMA ProcessDelivery ==
  ASSUME TypeOK, DeliveryInv, NEW p \in Proc, Process(p)
  PROVE  DeliveryInv'
<1>1. CASE Take(p)
  <2>1. UNCHANGED <<req, backlog, srv, cur>> /\ Log' = Log /\ Accepted' = Accepted
    BY <1>1, TakeKeepsAccepted DEF Take, clientVars, serverVars
  <2> QED
    BY <2>1 DEF DeliveryInv, LoggedOnce, AcceptedConnected, ServedIsNew, WaitingIsNew
<1>2. CASE ~Take(p)
  <2>1. /\ UNCHANGED <<received, taken, cur, srv>>
        /\ \A e \in Call : req'[e] \in Unconnected => req[e] \in Unconnected
        /\ \A d \in Call : backlog'[d] \in {backlog[d], <<>>}
    <3> USE DEF TypeOK, clientVars, serverVars, queueVars, Unconnected, Electing
    <3>1. CASE Release(p)
      BY <3>1 DEF Release
    <3>2. CASE Joined(p)
      BY <3>2 DEF Joined
    <3>3. CASE Die(p)
      BY <3>3 DEF Die
    <3> QED
      BY <1>2, <3>1, <3>2, <3>3 DEF Process
  <2> QED
    BY <2>1, NothingNew
<1> QED
  BY <1>1, <1>2

\* Every step keeps the delivery invariant.
LEMMA NextDelivery == TypeOK /\ HandOverInv /\ DeliveryInv /\ [Next]_vars => DeliveryInv'
<1>1. ASSUME DeliveryInv, UNCHANGED vars PROVE DeliveryInv'
  <2>1. Log' = Log /\ Accepted' = Accepted
    BY <1>1 DEF Log, Accepted, Queued, vars
  <2> QED
    BY <1>1, <2>1 DEF DeliveryInv, LoggedOnce, AcceptedConnected, ServedIsNew, WaitingIsNew, vars
<1> QED
  BY <1>1, RequesterDelivery, ListenerDelivery, ProcessDelivery DEF Next

\* What was taken begins the log.
LEMMA DeliveryIsSingle == TypeOK /\ DeliveryInv => DeliveredOnce
BY LogParts DEF DeliveryInv, LoggedOnce, DeliveredOnce

\* Everything the refinement and the delivery rest on, in every reachable state.
LEMMA LockInvariants == Spec => [](TypeOK /\ ElectionInv /\ HandOverInv /\ DeliveryInv)
<1>1. Init => ElectionInv /\ HandOverInv /\ DeliveryInv
  BY InitElection, InitHandOver, InitDelivery
<1>2. TypeOK /\ ElectionInv /\ HandOverInv /\ DeliveryInv /\ [Next]_vars
        => ElectionInv' /\ HandOverInv' /\ DeliveryInv'
  BY NextElection, NextHandOver, NextDelivery
<1> QED
  BY <1>1, <1>2, TypeCorrect, PTL DEF Spec

\* No invocation is handed to a second-instance handler twice, in one process or in
\* two successive owners, for any number of processes, requests, releases and crashes.
THEOREM InvocationHeardOnce == Spec => []DeliveredOnce
BY LockInvariants, DeliveryIsSingle, PTL

(***************************************************************************)
(* The sockets implement the lock.                                         *)
(***************************************************************************)

Holder == {d \in Call : Holds(d)}
Told == {c \in Call : req[c] = "secondary"}

\* Nobody holds the lock at the start, and nothing is accepted or told.
LEMMA InitLock == Init => Lock!Init
<1> SUFFICES ASSUME Init PROVE Lock!Init
  OBVIOUS
<1>1. \A p \in Proc : Queued[p] = {}
  BY DEF Init, Queued
<1> QED
  BY <1>1 DEF Init, Lock!Init, Holds

\* With the name reclaimed first there is at most one holder, and the path leads
\* to it.
LEMMA SingleHolder ==
  ASSUME ElectionInv, ~CloseFirst
  PROVE  \A d \in Holder : path = d /\ Holder = {d}
BY DEF ElectionInv, DropIsSafe, Attached, Holds, Holder

\* A step that changes none of the three is a stutter of the lock.
LEMMA LockStutter ==
  ASSUME Holder' = Holder, Accepted' = Accepted, Told' = Told
  PROVE  UNCHANGED Lock!lockVars
BY DEF Holder, Accepted, Told, Lock!lockVars

\* Binding the name claims the lock, and failing to serve gives it up; a request that
\* is told `false` was accepted before.
LEMMA RequesterLocks ==
  ASSUME TypeOK, ElectionInv, HandOverInv, ~CloseFirst, NEW c \in Call, Requester(c)
  PROVE  [Lock!Next]_(Lock!lockVars)
<1>0. UNCHANGED queueVars => Accepted' = Accepted
  BY DEF queueVars, Accepted, Queued
<1>1. UNCHANGED <<open, srv>> => Holder' = Holder
  BY DEF Holder, Holds
<1>2. ASSUME NEW s \in ReqState \ {"secondary"}, req' = [req EXCEPT ![c] = s],
             req[c] # "secondary"
      PROVE  Told' = Told
  BY <1>2 DEF TypeOK, Told
<1>3. CASE Bind(c)
  <2>1. path = None /\ open' = open \cup {c} /\ srv' = srv /\ req[c] # "primary"
    BY <1>3 DEF Bind, serverVars
  <2>2. srv[c] = "off"
    BY <2>1 DEF ElectionInv
  <2>3. Holder = {}
    BY <2>1, SingleHolder, NoneAssumption DEF Holder
  <2>4. Holder' = {c}
    BY <2>1, <2>2, <2>3 DEF Holder, Holds
  <2>5. Told' = Told /\ Accepted' = Accepted
    BY <1>0, <1>2, <1>3 DEF Bind, ReqState, Electing
  <2>6. Lock!Claim(c)
    BY <2>3, <2>4, <2>5 DEF Lock!Claim, Holder, Told, Accepted
  <2> QED
    BY <2>6 DEF Lock!Next
<1>4. CASE ServeFails(c)
  <2>1. req[c] = "serve" /\ open' = open \ {c} /\ srv' = srv
    BY <1>4 DEF ServeFails, serverVars
  <2>2. c \in Holder
    BY <2>1 DEF ElectionInv, Holder, Holds
  <2>3. Holder' = {}
    BY <2>1, <2>2, SingleHolder DEF Holder, Holds
  <2>4. Told' = Told /\ Accepted' = Accepted
    BY <1>0, <1>2, <1>4 DEF ServeFails, Return, ReqState, Finished
  <2>5. Lock!GiveUp
    BY <2>3, <2>4 DEF Lock!GiveUp, Holder, Told, Accepted
  <2> QED
    BY <2>5 DEF Lock!Next
<1>5. CASE WriteReceipt(c)
  <2>1. req[c] = "confirm" /\ req' = [req EXCEPT ![c] = "secondary"]
        /\ UNCHANGED <<open, srv>> /\ UNCHANGED queueVars
    BY <1>5 DEF WriteReceipt, serverVars
  <2>2. c \in Accepted
    BY <2>1, HandOverQueues, OwnerAssumption DEF HandOverInv, Accepted
  <2>3. Told' = Told \cup {c}
    BY <2>1 DEF TypeOK, Told
  <2>4. Lock!Tell(c)
    BY <1>0, <1>1, <2>1, <2>2, <2>3 DEF Lock!Tell, Holder, Told, Accepted
  <2> QED
    BY <2>4 DEF Lock!Next
<1>6. CASE Serve(c)
  <2>1. /\ req[c] = "serve" /\ open' = open /\ srv' = [srv EXCEPT ![c] = "loop"]
        /\ req' = [req EXCEPT ![c] = "primary"] /\ UNCHANGED queueVars
    BY <1>6 DEF Serve, Return
  <2>2. srv[c] = "off" /\ c \in open
    BY <2>1 DEF ElectionInv
  <2>3. Holder' = Holder
    BY <2>1, <2>2 DEF TypeOK, Holder, Holds
  <2>4. Told' = Told
    BY <1>2, <2>1 DEF ReqState, Finished
  <2> QED
    BY <1>0, <2>1, <2>3, <2>4, LockStutter
<1>7. CASE ~(Bind(c) \/ ServeFails(c) \/ WriteReceipt(c) \/ Serve(c))
  <2>1. /\ UNCHANGED <<open, srv>> /\ UNCHANGED queueVars
        /\ \E s \in ReqState \ {"secondary"} : req' = [req EXCEPT ![c] = s]
        /\ req[c] # "secondary"
    <3> USE DEF serverVars, Return, ReqState, Electing, Handing, Finished
    <3>1. CASE Request(c)
      BY <3>1 DEF Request
    <3>2. CASE RequestFails(c)
      BY <3>2 DEF RequestFails
    <3>3. CASE ElectionLock(c)
      BY <3>3 DEF ElectionLock
    <3>4. CASE BindOccupied(c)
      BY <3>4 DEF BindOccupied
    <3>5. CASE ElectionFails(c)
      BY <3>5 DEF ElectionFails
    <3>6. CASE Connect(c)
      BY <3>6 DEF Connect
    <3>7. CASE ConnectStale(c)
      BY <3>7 DEF ConnectStale
    <3>8. CASE RemoveStale(c)
      BY <3>8 DEF RemoveStale
    <3>9. CASE WritePayload(c)
      BY <3>9 DEF WritePayload
    <3>10. CASE ReadAcknowledgement(c)
      BY <3>10 DEF ReadAcknowledgement
    <3>11. CASE HandOverFails(c)
      BY <3>11 DEF HandOverFails
    <3> QED
      BY <1>7, <3>1, <3>2, <3>3, <3>4, <3>5, <3>6, <3>7, <3>8, <3>9, <3>10, <3>11 DEF Requester
  <2> QED
    BY <1>0, <1>1, <1>2, <2>1, LockStutter
<1> QED
  BY <1>3, <1>4, <1>5, <1>6, <1>7

\* A listener gives the lock up when it begins its drop, and accepts an invocation
\* when it queues it for the first time.
LEMMA ListenerLocks ==
  ASSUME TypeOK, ElectionInv, DeliveryInv, ~CloseFirst, NEW d \in Call, Listener(d)
  PROVE  [Lock!Next]_(Lock!lockVars)
<1>1. req' = req /\ Told' = Told
  <2>1. req' = req
    BY DEF Listener, LoopTop, Accept, AcceptWouldBlock, Receive, ReceiveFails, Push,
           WriteAcknowledgement, AcknowledgementFails, ReadReceipt, CloseListener, UnlinkPath,
           clientVars
  <2> QED
    BY <2>1 DEF Told
<1>2. CASE Push(d)
  <2> DEFINE q == Owner[d]
             c == cur[d]
  <2>1. /\ srv[d] = "push" /\ q \in Proc /\ c \in Call /\ open' = open
        /\ srv' = [srv EXCEPT ![d] = "ack"] /\ taken' = taken
        /\ received' = [received EXCEPT ![q] = Append(received[q], c)]
    BY <1>2, OwnerAssumption DEF Push, Runs, TypeOK, Serving
  <2>2. c \notin Accepted
    BY <2>1 DEF DeliveryInv, ServedIsNew
  <2>3. Holder' = Holder
    BY <2>1 DEF TypeOK, Holder, Holds
  <2>4. Accepted' = Accepted \cup {c}
    <3>1. /\ received'[q] = Append(received[q], c) /\ received[q] \in Seq(Call)
          /\ \A p \in Proc : p # q => received'[p] = received[p]
      BY <2>1 DEF TypeOK
    <3>2. Queued'[q] = Queued[q] \cup {c}
      BY <2>1, <3>1 DEF Queued
    <3>3. \A p \in Proc : p # q => Queued'[p] = Queued[p]
      BY <2>1, <3>1 DEF Queued
    <3> QED
      BY <2>1, <3>2, <3>3 DEF Accepted
  <2>5. PICK e \in Call : e = c
    BY <2>1
  <2>6. Lock!Accept(e)
    BY <1>1, <2>2, <2>3, <2>4, <2>5 DEF Lock!Accept, Holder, Told, Accepted
  <2> QED
    BY <2>6 DEF Lock!Next
<1>3. CASE ~Push(d)
  <2>1. Accepted' = Accepted
    <3>1. UNCHANGED queueVars
      BY <1>3 DEF Listener, LoopTop, Accept, AcceptWouldBlock, Receive, ReceiveFails,
             WriteAcknowledgement, AcknowledgementFails, ReadReceipt, CloseListener, UnlinkPath
    <3> QED
      BY <3>1 DEF queueVars, Accepted, Queued
  <2>2. CASE LoopTop(d) /\ d \in stop
    <3>1. /\ srv[d] = "loop" /\ Owner[d] \in alive /\ open' = open
          /\ srv' = [srv EXCEPT ![d] = "unlink"]
      BY <2>2 DEF LoopTop, Runs
    <3>2. d \in Holder
      BY <3>1 DEF ElectionInv, Holder, Holds
    <3>3. Holder' = {}
      BY <3>1, <3>2, SingleHolder DEF TypeOK, Holder, Holds
    <3>4. Lock!GiveUp
      BY <1>1, <2>1, <3>3 DEF Lock!GiveUp, Holder, Told, Accepted
    <3> QED
      BY <3>4 DEF Lock!Next
  <2>3. CASE ~(LoopTop(d) /\ d \in stop)
    <3>1. \A e \in Call :
             Holds(e)' <=> Holds(e)
      <4> USE DEF TypeOK, Holds, Runs, FinishConnection
      <4>1. CASE LoopTop(d) /\ d \notin stop
        BY <4>1 DEF LoopTop
      <4>2. CASE Accept(d)
        BY <4>2 DEF Accept
      <4>3. CASE AcceptWouldBlock(d)
        BY <4>3 DEF AcceptWouldBlock
      <4>4. CASE Receive(d)
        BY <4>4 DEF Receive
      <4>5. CASE ReceiveFails(d)
        BY <4>5 DEF ReceiveFails
      <4>6. CASE WriteAcknowledgement(d)
        BY <4>6 DEF WriteAcknowledgement
      <4>7. CASE AcknowledgementFails(d)
        BY <4>7 DEF AcknowledgementFails
      <4>8. CASE ReadReceipt(d)
        BY <4>8 DEF ReadReceipt
      <4>9. CASE CloseListener(d)
        BY <4>9 DEF CloseListener
      <4>10. CASE UnlinkPath(d)
        BY <4>10 DEF UnlinkPath
      <4> QED
        BY <1>3, <2>3, <4>1, <4>2, <4>3, <4>4, <4>5, <4>6, <4>7, <4>8, <4>9, <4>10
           DEF Listener
    <3>2. Holder' = Holder
      BY <3>1 DEF Holder
    <3> QED
      BY <1>1, <2>1, <3>2, LockStutter
  <2> QED
    BY <2>2, <2>3
<1> QED
  BY <1>2, <1>3

\* The end of the process that holds the lock gives it up.
LEMMA ProcessLocks ==
  ASSUME TypeOK, ElectionInv, DeliveryInv, ~CloseFirst, NEW p \in Proc, Process(p)
  PROVE  [Lock!Next]_(Lock!lockVars)
<1>1. CASE Die(p)
  <2>1. /\ open' = open \ CallsOf(p) /\ srv' = srv /\ UNCHANGED queueVars
        /\ \A c \in Call : req'[c] = "secondary" <=> req[c] = "secondary"
    BY <1>1 DEF Die, serverVars, Finished, TypeOK
  <2>2. Told' = Told /\ Accepted' = Accepted
    BY <2>1 DEF Told, Accepted, Queued, queueVars
  <2>3. Holder' \subseteq Holder
    BY <2>1 DEF Holder, Holds
  <2>4. Holder' = Holder \/ Holder' = {}
    BY <2>3, SingleHolder
  <2>5. CASE Holder' = {}
    BY <2>2, <2>5 DEF Lock!Next, Lock!GiveUp, Holder, Told, Accepted
  <2>6. CASE Holder' = Holder
    BY <2>2, <2>6, LockStutter
  <2> QED
    BY <2>4, <2>5, <2>6
<1>2. CASE ~Die(p)
  <2>1. UNCHANGED <<open, srv, req>>
    BY <1>2 DEF Process, Release, Joined, Take, clientVars, serverVars
  <2>2. Holder' = Holder /\ Told' = Told
    BY <2>1 DEF Holder, Told, Holds
  <2>3. CASE Take(p)
    BY <2>2, <2>3, TakeKeepsAccepted, LockStutter
  <2>4. CASE ~Take(p)
    <3>1. UNCHANGED queueVars
      BY <1>2, <2>4 DEF Process, Release, Joined
    <3>2. Accepted' = Accepted
      BY <3>1 DEF queueVars, Accepted, Queued
    <3> QED
      BY <2>2, <3>2, LockStutter
  <2> QED
    BY <2>3, <2>4
<1> QED
  BY <1>1, <1>2

\* Step by step the sockets implement the lock, for any number of processes, requests,
\* releases, crashes and timeouts, when a dropped listener's name is reclaimed before
\* its descriptor closes.
THEOREM Implementation == ~CloseFirst => (Spec => ImplementsLock)
<1> SUFFICES ASSUME ~CloseFirst PROVE Spec => ImplementsLock
  OBVIOUS
<1>1. TypeOK /\ ElectionInv /\ HandOverInv /\ DeliveryInv /\ [Next]_vars
        => [Lock!Next]_(Lock!lockVars)
  <2> SUFFICES ASSUME TypeOK, ElectionInv, HandOverInv, DeliveryInv, [Next]_vars
               PROVE  [Lock!Next]_(Lock!lockVars)
    OBVIOUS
  <2>1. CASE UNCHANGED vars
    <3>1. Holder' = Holder /\ Accepted' = Accepted /\ Told' = Told
      BY <2>1 DEF vars, Holder, Holds, Accepted, Queued, Told
    <3> QED
      BY <3>1, LockStutter
  <2>2. CASE Next
    BY <2>2, RequesterLocks, ListenerLocks, ProcessLocks DEF Next
  <2> QED
    BY <2>1, <2>2
<1> QED
  BY <1>1, InitLock, LockInvariants, PTL DEF Spec, ImplementsLock, Lock!Spec

=============================================================================
