----------------------- MODULE ProcessSupervisorProofs -----------------------
(***************************************************************************)
(* What holds of child processes for every set of children, helpers and    *)
(* writes and every number of chunks and reloads: their types, that a      *)
(* document has its own children only, that a handle finds its child in    *)
(* the registry, that a tree dies with its root, and that the exit of a    *)
(* child is heard last, after all it wrote.                                *)
(***************************************************************************)
EXTENDS ProcessSupervisor, TLAPS

-----------------------------------------------------------------------------
(* Types                                                                   *)

\* TypeOK in four parts: the document, the UI thread and its queues, the
\* threads, and the operating system.
DocumentTyped ==
  /\ promise \in [Spawn -> PromiseState]
  /\ live \subseteq Spawn
  /\ listening \subseteq Spawn
  /\ stdinOpen \subseteq Spawn
  /\ written \in [Write -> PromiseState]
  /\ micro \in Seq(Event)
  /\ heard \in [Spawn -> Seq(Nat)]
  /\ exited \subseteq Spawn

HostTyped ==
  /\ generation \in 0 .. MaxReloads
  /\ procs \subseteq Spawn
  /\ events \in Seq(Event)
  /\ ui \in {"task", "kill"}
  /\ doomed \subseteq Spawn
  /\ gen \in [Spawn -> 0 .. MaxReloads]
  /\ sup \in [Spawn -> SupState]

ThreadsTyped ==
  /\ sender \subseteq Spawn
  /\ stdin \in [Spawn -> Seq(Write)]
  /\ writer \in [Spawn -> ThreadState]
  /\ reader \in [Spawn -> ThreadState]

TreesTyped ==
  /\ child \in [Spawn -> ChildState]
  /\ desc \in [Spawn -> HelperState]
  /\ escaped \subseteq Spawn
  /\ recycled \subseteq Spawn
  /\ struck \subseteq Spawn

ChunksTyped ==
  /\ got \in [Spawn -> Nat]
  /\ made \in [Spawn -> Nat]
  /\ \A s \in Spawn : got[s] <= made[s] /\ made[s] <= MaxChunks[s]

Typed == DocumentTyped /\ HostTyped /\ ThreadsTyped /\ TreesTyped /\ ChunksTyped

\* The two say the same.
LEMMA TypedIsTypeOK == Typed <=> TypeOK
  BY DEF Typed, DocumentTyped, HostTyped, ThreadsTyped, TreesTyped, ChunksTyped,
         TypeOK

\* A part whose variables stay keeps its types.
LEMMA DocumentStays == DocumentTyped /\ UNCHANGED jsVars => DocumentTyped'
  BY DEF DocumentTyped, jsVars

LEMMA HostStays ==
  HostTyped /\ UNCHANGED <<uiVars, procs, events, gen, sup>> => HostTyped'
  BY DEF HostTyped, uiVars

LEMMA ThreadsStay == ThreadsTyped /\ UNCHANGED <<stdinVars, reader>> => ThreadsTyped'
  BY DEF ThreadsTyped, stdinVars

LEMMA TreesStay ==
  TreesTyped /\ UNCHANGED <<treeVars, escaped, recycled>> => TreesTyped'
  BY DEF TreesTyped, treeVars

LEMMA ChunksStay == ChunksTyped /\ UNCHANGED <<got, made>> => ChunksTyped'
  BY DEF ChunksTyped

\* The answers a batch holds are to commands that were made.
LEMMA AnsweredKinds ==
  ASSUME NEW batch \in Seq(Event), NEW ok \in BOOLEAN
  PROVE  /\ Answered(batch, "spawned", ok) \subseteq Spawn
         /\ Answered(batch, "written", ok) \subseteq Write
<1>1. \A i \in DOMAIN batch : batch[i] \in Event
  OBVIOUS
<1>2. \A e \in Event : /\ e.type = "spawned" => e.of \in Spawn
                       /\ e.type = "written" => e.of \in Write
  BY DEF Event
<1>3. QED BY <1>1, <1>2 DEF Answered

\* A thread makes events of the kinds the frame turn knows.
LEMMA EventKinds ==
  /\ \A s \in Spawn, ok \in BOOLEAN : Spawned(s, ok) \in Event
  /\ \A w \in Write, ok \in BOOLEAN : Written(w, ok) \in Event
  /\ \A s \in Spawn, n \in Nat : Output(s, n) \in Event
  /\ \A s \in Spawn : Exited(s) \in Event
  BY DEF Spawned, Written, Output, Exited, Event

\* A supervisor that goes on is somewhere the function goes.
LEMMA GoesTyped ==
  ASSUME HostTyped, NEW s \in Spawn, NEW from, NEW to \in SupState, Goes(s, from, to)
  PROVE  sup' \in [Spawn -> SupState]
  BY DEF HostTyped, Goes

\* A signal leaves a tree in a state that trees have.
LEMMA KilledTyped ==
  ASSUME TreesTyped, NEW S \in SUBSET Spawn, Killed(S), UNCHANGED <<escaped, recycled>>
  PROVE  TreesTyped'
<1>1. child' \in [Spawn -> ChildState]
  BY DEF Killed, TreesTyped, ChildState
<1>2. desc' \in [Spawn -> HelperState]
  BY DEF Killed, TreesTyped, HelperState
<1>3. struck' \subseteq Spawn
  BY DEF Killed, TreesTyped
<1>4. QED BY <1>1, <1>2, <1>3 DEF TreesTyped

\* Nothing has been called at the start.
LEMMA InitTyped == Init => Typed
<1> SUFFICES ASSUME Init PROVE Typed
  OBVIOUS
<1>1. DocumentTyped
  BY DEF Init, DocumentTyped, PromiseState
<1>2. HostTyped
  BY BoundAssumption DEF Init, HostTyped, SupState
<1>3. ThreadsTyped
  BY DEF Init, ThreadsTyped, ThreadState
<1>4. TreesTyped
  BY DEF Init, TreesTyped, ChildState, HelperState
<1>5. ChunksTyped
  BY BoundAssumption DEF Init, ChunksTyped
<1>6. QED BY <1>1, <1>2, <1>3, <1>4, <1>5 DEF Typed

\* What the application calls keeps the types.
LEMMA AppTyped == Typed /\ App => Typed'
<1> SUFFICES ASSUME Typed, App PROVE Typed'
  OBVIOUS
<1> USE DEF Typed
<1>1. ASSUME NEW s \in Spawn, CallSpawn(s) PROVE Typed'
  BY <1>1, ThreadsStay, TreesStay, ChunksStay DEF CallSpawn, DocumentTyped, PromiseState,
     HostTyped, SupState, uiVars, outVars, osVars
<1>2. ASSUME NEW s \in Spawn, CallCloseStdin(s) PROVE Typed'
  BY <1>2, HostStays, TreesStay, ChunksStay DEF CallCloseStdin, DocumentTyped, ThreadsTyped,
     outVars, osVars
<1>3. ASSUME NEW s \in Spawn, NEW force \in BOOLEAN, CallKill(s, force) PROVE Typed'
  BY <1>3, KilledTyped, DocumentStays, HostStays, ThreadsStay, ChunksStay DEF CallKill, osVars,
     outVars, Asked, TreesTyped
<1>4. ASSUME NEW w \in Write, CallWrite(w) PROVE Typed'
  <2>1. Target[w] \in Spawn
    BY TargetAssumption
  <2>2. /\ written' \in [Write -> PromiseState]
        /\ stdin' \in [Spawn -> Seq(Write)]
    <3>1. CASE Target[w] \in procs \cap sender
      <4>1. Append(stdin[Target[w]], w) \in Seq(Write)
        BY <2>1 DEF ThreadsTyped
      <4>2. /\ written' = [written EXCEPT ![w] = "pending"]
            /\ stdin' = [stdin EXCEPT ![Target[w]] = Append(@, w)]
        BY <1>4, <3>1 DEF CallWrite
      <4>3. QED BY <4>1, <4>2 DEF DocumentTyped, ThreadsTyped, PromiseState
    <3>2. CASE Target[w] \notin procs \cap sender
      BY <1>4, <3>2 DEF CallWrite, DocumentTyped, ThreadsTyped, PromiseState
    <3>3. QED BY <3>1, <3>2
  <2>3. DocumentTyped'
    BY <1>4, <2>2 DEF CallWrite, DocumentTyped
  <2>4. ThreadsTyped'
    BY <1>4, <2>2 DEF CallWrite, ThreadsTyped, outVars
  <2>5. QED
    BY <1>4, <2>3, <2>4, HostStays, TreesStay, ChunksStay
    DEF CallWrite, outVars, osVars
<1>5. QED BY <1>1, <1>2, <1>3, <1>4 DEF App

\* Delivering a batch and its microtasks keeps the types.
LEMMA DeliveryTyped == Typed /\ (Frame \/ Microtask) => Typed'
<1> SUFFICES ASSUME Typed, Frame \/ Microtask PROVE Typed'
  OBVIOUS
<1> USE DEF Typed
<1>1. CASE Frame
  <2>1. /\ Answered(events, "spawned", TRUE) \subseteq Spawn
        /\ events \in Seq(Event)
    BY AnsweredKinds DEF HostTyped
  <2>2. promise' \in [Spawn -> PromiseState]
    BY <1>1 DEF Frame, Settle, DocumentTyped, PromiseState
  <2>3. written' \in [Write -> PromiseState]
    BY <1>1 DEF Frame, Settle, DocumentTyped, PromiseState
  <2>4. live' \subseteq Spawn /\ stdinOpen' \subseteq Spawn /\ micro' \in Seq(Event)
    BY <1>1, <2>1, PipedAssumption DEF Frame, Settle, DocumentTyped
  <2>5. DocumentTyped'
    BY <1>1, <2>2, <2>3, <2>4 DEF Frame, DocumentTyped
  <2>6. HostTyped'
    BY <1>1 DEF Frame, HostTyped, uiVars
  <2>7. QED
    BY <1>1, <2>5, <2>6, ThreadsStay, TreesStay, ChunksStay
    DEF Frame, outVars, osVars
<1>2. CASE Microtask
  <2> DEFINE e == Head(micro)
  <2>1. e \in Event /\ micro' \in Seq(Event)
    BY <1>2 DEF Microtask, DocumentTyped
  <2>2. /\ e.type \in {"spawned", "exit", "output"} => e.of \in Spawn
        /\ e.type = "output" => e.n \in Nat
    BY <2>1 DEF Event
  <2> HIDE DEF e
  <2>3. listening' \subseteq Spawn
    BY <1>2, <2>2 DEF Microtask, DocumentTyped, e
  <2>4. heard' \in [Spawn -> Seq(Nat)]
    BY <1>2, <2>2 DEF Microtask, e, DocumentTyped
  <2>5. live' \subseteq Spawn /\ exited' \subseteq Spawn
    BY <1>2, <2>2 DEF Microtask, DocumentTyped, e
  <2>6. DocumentTyped'
    BY <1>2, <2>1, <2>3, <2>4, <2>5 DEF Microtask, DocumentTyped
  <2>7. QED
    BY <1>2, <2>6, HostStays, ThreadsStay, TreesStay, ChunksStay
    DEF Microtask, outVars, osVars
<1>3. QED BY <1>1, <1>2

\* A reload keeps the types.
LEMMA DisposeTyped ==
  Typed /\ (DisposeTake \/ (\E s \in Spawn : DisposeKill(s)) \/ DisposeClear) => Typed'
<1> SUFFICES ASSUME Typed, DisposeTake \/ (\E s \in Spawn : DisposeKill(s)) \/ DisposeClear
             PROVE  Typed'
  OBVIOUS
<1> USE DEF Typed
<1>1. CASE DisposeTake
  <2>1. promise' \in [Spawn -> PromiseState]
    BY <1>1 DEF DisposeTake, DocumentTyped, PromiseState
  <2>2. written' \in [Write -> PromiseState]
    BY <1>1 DEF DisposeTake, DocumentTyped, PromiseState
  <2>3. DocumentTyped'
    BY <1>1, <2>1, <2>2 DEF DisposeTake, DocumentTyped
  <2>4. generation' \in 0 .. MaxReloads
    BY <1>1, BoundAssumption DEF DisposeTake, HostTyped
  <2>5. HostTyped'
    BY <1>1, <2>4 DEF DisposeTake, HostTyped
  <2>6. QED
    BY <1>1, <2>3, <2>5, ThreadsStay, TreesStay, ChunksStay
    DEF DisposeTake, outVars, osVars
<1>2. ASSUME NEW s \in Spawn, DisposeKill(s) PROVE Typed'
  BY <1>2, KilledTyped, DocumentStays, ThreadsStay, ChunksStay DEF DisposeKill, osVars,
     HostTyped, outVars
<1>3. CASE DisposeClear
  BY <1>3, DocumentStays, TreesStay, ChunksStay DEF DisposeClear, HostTyped, ThreadsTyped,
     outVars, osVars
<1>4. QED BY <1>1, <1>2, <1>3

\* Each step of a supervisor keeps the types.
LEMMA SuperviseTyped ==
  ASSUME Typed, NEW s \in Spawn, Supervise(s)
  PROVE  Typed'
<1> USE DEF Typed
<1>1. ASSUME NEW from, NEW to \in SupState, Goes(s, from, to), events' = events,
             procs' \subseteq Spawn, UNCHANGED <<uiVars, gen>>
      PROVE  HostTyped'
  BY <1>1, GoesTyped DEF HostTyped, uiVars
<1>2. ASSUME NEW from, NEW to \in SupState, Goes(s, from, to), procs' = procs,
             NEW e \in Event, events' = Append(events, e), UNCHANGED <<uiVars, gen>>
      PROVE  HostTyped'
  BY <1>2, GoesTyped DEF HostTyped, uiVars
<1>3. \A x \in {"register", "announce", "wait", "sweep", "join", "remove", "report",
                 "done"} : x \in SupState
  BY DEF SupState
<1>4. \A x \in {"running", "reaped"} : [child EXCEPT ![s] = x] \in [Spawn -> ChildState]
  BY DEF TreesTyped, ChildState
<1>5. CASE Launch(s)
  BY <1>5, <1>1, <1>3, <1>4, DocumentStays, ThreadsStay, ChunksStay DEF Launch, HostTyped,
     TreesTyped, osVars, outVars
<1>6. CASE LaunchFails(s)
  BY <1>6, <1>2, <1>3, EventKinds, DocumentStays, ThreadsStay, TreesStay, ChunksStay DEF
     LaunchFails, outVars, osVars
<1>7. CASE Register(s)
  BY <1>7, <1>1, <1>3, DocumentStays, TreesStay, ChunksStay DEF Register, HostTyped, Feed,
     ThreadsTyped, ThreadState, outVars, osVars
<1>8. CASE RegisterStale(s)
  BY <1>8, <1>1, <1>3, <1>4, DocumentStays, ThreadsStay, ChunksStay DEF RegisterStale, HostTyped,
     TreesTyped, HelperState, osVars, outVars
<1>9. CASE Announce(s)
  BY <1>9, <1>2, <1>3, EventKinds, DocumentStays, TreesStay, ChunksStay DEF Announce,
     ThreadsTyped, ThreadState, stdinVars, osVars
<1>10. CASE Wait(s)
  BY <1>10, <1>1, <1>3, <1>4, DocumentStays, ThreadsStay, ChunksStay DEF Wait, HostTyped,
     TreesTyped, osVars, outVars
<1>11. CASE Sweep(s)
  BY <1>11, <1>1, <1>3, KilledTyped, DocumentStays, ThreadsStay, ChunksStay DEF Sweep, HostTyped,
     osVars, outVars
<1>12. CASE Join(s)
  BY <1>12, <1>1, <1>3, DocumentStays, ThreadsStay, TreesStay, ChunksStay DEF Join, HostTyped,
     outVars, osVars
<1>13. CASE RemoveEntry(s)
  BY <1>13, <1>1, <1>3, KilledTyped, DocumentStays, ChunksStay DEF RemoveEntry, HostTyped,
     osVars, ThreadsTyped, outVars
<1>14. CASE Report(s)
  BY <1>14, <1>2, <1>3, EventKinds, DocumentStays, ThreadsStay, TreesStay, ChunksStay DEF Report,
     outVars, osVars
<1>15. QED
  BY <1>5, <1>6, <1>7, <1>8, <1>9, <1>10, <1>11, <1>12, <1>13, <1>14 DEF Supervise

\* Readers and writers keep the types.
LEMMA ThreadTyped ==
  ASSUME Typed, NEW s \in Spawn, ReadOutput(s) \/ WriteStdin(s)
  PROVE  Typed'
<1> USE DEF Typed
<1>1. ASSUME NEW e \in Event, events' = Append(events, e),
             UNCHANGED <<uiVars, procs, gen, sup>>
      PROVE  HostTyped'
  BY <1>1 DEF HostTyped, uiVars
<1>2. CASE ReadChunk(s)
  BY EventKinds, <1>2, <1>1, BoundAssumption, DocumentStays, ThreadsStay, TreesStay DEF
     ChunksTyped, ReadChunk, osVars
<1>3. CASE ReadEnd(s)
  BY <1>3, DocumentStays, HostStays, TreesStay, ChunksStay DEF ReadEnd, ThreadsTyped,
     ThreadState, stdinVars, osVars
<1>4. ASSUME NEW ok \in BOOLEAN, WriterAnswers(s, ok) PROVE Typed'
  BY <1>4, <1>1, EventKinds, DocumentStays, TreesStay, ChunksStay DEF WriterAnswers,
     ThreadsTyped, outVars, osVars
<1>5. CASE WriterEnds(s)
  BY <1>5, DocumentStays, HostStays, TreesStay, ChunksStay DEF WriterEnds, ThreadsTyped,
     ThreadState, outVars, osVars
<1>6. QED
  BY <1>2, <1>3, <1>4, <1>5 DEF ReadOutput, WriteStdin, WriterWrites, WriterFails

\* What a tree does keeps the types.
LEMMA TreeTyped ==
  ASSUME Typed, NEW s \in Spawn, Tree(s)
  PROVE  Typed'
<1> USE DEF Typed
<1>1. CASE Produce(s)
  <2>1. ChunksTyped'
    <3>1. /\ got' = got /\ made' = [made EXCEPT ![s] = @ + 1]
          /\ made[s] < MaxChunks[s]
      BY <1>1 DEF Produce, outVars
    <3>2. made[s] \in Nat /\ got[s] \in Nat /\ MaxChunks[s] \in Nat
      BY BoundAssumption DEF ChunksTyped
    <3>3. made[s] + 1 \in Nat /\ made[s] + 1 <= MaxChunks[s]
      BY <3>1, <3>2
    <3>4. got[s] <= made[s] + 1
      BY <3>2 DEF ChunksTyped
    <3>5. made' \in [Spawn -> Nat]
      BY <3>1, <3>3 DEF ChunksTyped
    <3>6. ASSUME NEW t \in Spawn PROVE got[t] <= made'[t] /\ made'[t] <= MaxChunks[t]
      BY <3>1, <3>3, <3>4 DEF ChunksTyped
    <3>7. QED BY <3>1, <3>5, <3>6 DEF ChunksTyped
  <2>2. QED
    BY <1>1, <2>1, DocumentStays, HostStays, ThreadsStay, TreesStay
    DEF Produce, outVars
<1>2. CASE Fork(s) \/ Detach(s) \/ RootEnds(s) \/ HelperEnds(s) \/ Recycle(s)
  <2>1. TreesTyped'
    <3>1. CASE Fork(s)
      BY <3>1 DEF Fork, TreesTyped, HelperState, osVars
    <3>2. CASE Detach(s)
      BY <3>2 DEF Detach, TreesTyped, HelperState
    <3>3. CASE RootEnds(s)
      BY <3>3 DEF RootEnds, TreesTyped, ChildState, osVars
    <3>4. CASE HelperEnds(s)
      BY <3>4 DEF HelperEnds, TreesTyped, HelperState
    <3>5. CASE Recycle(s)
      BY <3>5 DEF Recycle, TreesTyped, treeVars
    <3>6. QED BY <1>2, <3>1, <3>2, <3>3, <3>4, <3>5
  <2>2. /\ UNCHANGED jsVars
        /\ UNCHANGED <<uiVars, procs, events, gen, sup>>
        /\ UNCHANGED <<stdinVars, reader>>
        /\ UNCHANGED <<got, made>>
    BY <1>2 DEF Fork, Detach, RootEnds, HelperEnds, Recycle, outVars, osVars
  <2>3. QED BY <2>1, <2>2, DocumentStays, HostStays, ThreadsStay, ChunksStay
<1>3. QED BY <1>1, <1>2 DEF Tree

\* Every step keeps the types.
LEMMA NextTyped == Typed /\ [Next]_vars => Typed'
<1> SUFFICES ASSUME Typed, [Next]_vars PROVE Typed'
  OBVIOUS
<1>1. CASE UNCHANGED vars
  BY <1>1, DocumentStays, HostStays, ThreadsStay, TreesStay, ChunksStay
  DEF Typed, vars, outVars, osVars
<1>2. CASE Turn \/ DisposeTake
  BY <1>2, DeliveryTyped, DisposeTyped DEF Turn
<1>3. CASE \E s \in Spawn : Supervise(s) \/ ReadOutput(s) \/ WriteStdin(s) \/ Tree(s)
  BY <1>3, SuperviseTyped, ThreadTyped, TreeTyped
<1>4. QED BY <1>1, <1>2, <1>3, AppTyped DEF Next

\* Whatever the sets of children and writes and whatever the bounds, each
\* variable keeps its type and no reader is ahead of its tree (process.rs: the
\* statics and threads of the supervisor; native.js: the document's handles).
THEOREM TypeCorrect == Spec => []TypeOK
<1>1. Spec => []Typed
  BY InitTyped, NextTyped, PTL DEF Spec
<1>2. QED BY <1>1, TypedIsTypeOK, PTL

-----------------------------------------------------------------------------
(* Queues                                                                  *)

\* What a queue holds.
Elements(q) == {q[i] : i \in 1 .. Len(q)}

\* An event joins the queue at its end, and the rest of a queue holds no more
\* than the queue.
LEMMA QueueElements ==
  ASSUME NEW q \in Seq(Event)
  PROVE  /\ \A e \in Event : Elements(Append(q, e)) = Elements(q) \cup {e}
         /\ q # <<>> => Head(q) \in Elements(q) /\ Elements(Tail(q)) \subseteq Elements(q)
         /\ Elements(<<>>) = {}
<1>1. ASSUME NEW e \in Event PROVE Elements(Append(q, e)) = Elements(q) \cup {e}
  <2>1. /\ Len(Append(q, e)) = Len(q) + 1
        /\ \A i \in 1 .. Len(q) : Append(q, e)[i] = q[i]
        /\ Append(q, e)[Len(q) + 1] = e
    OBVIOUS
  <2>2. 1 .. Len(q) + 1 = (1 .. Len(q)) \cup {Len(q) + 1}
    OBVIOUS
  <2>3. QED BY <2>1, <2>2 DEF Elements
<1>2. ASSUME q # <<>> PROVE Head(q) \in Elements(q) /\ Elements(Tail(q)) \subseteq Elements(q)
  BY <1>2 DEF Elements
<1>3. Elements(<<>>) = {}
  BY DEF Elements
<1>4. QED BY <1>1, <1>2, <1>3

\* A child whose spawn a batch answers has its answer in the batch.
LEMMA AnsweredElements ==
  ASSUME NEW q \in Seq(Event), NEW s \in Answered(q, "spawned", TRUE)
  PROVE  Spawned(s, TRUE) \in Elements(q)
<1>1. PICK i \in DOMAIN q : q[i].type = "spawned" /\ q[i].ok = TRUE /\ q[i].of = s
  BY DEF Answered
<1>2. q[i] \in Event /\ i \in 1 .. Len(q)
  OBVIOUS
<1>3. q[i] = Spawned(s, TRUE)
  BY <1>1, <1>2 DEF Event, Spawned
<1>4. QED BY <1>2, <1>3 DEF Elements

\* Events of different kinds, or with different answers, are different.
LEMMA EventsDiffer ==
  /\ \A s, t : /\ Spawned(s, FALSE) # Spawned(t, TRUE)
               /\ Exited(s) # Spawned(t, TRUE)
               /\ Spawned(s, TRUE) = Spawned(t, TRUE) => s = t
               /\ Exited(s) = Exited(t) => s = t
  /\ \A s, t, ok : Spawned(s, ok) # Exited(t)
  /\ \A w, t, ok : Written(w, ok) # Spawned(t, TRUE) /\ Written(w, ok) # Exited(t)
  /\ \A s, n, t : Output(s, n) # Spawned(t, TRUE) /\ Output(s, n) # Exited(t)
  BY DEF Spawned, Written, Output, Exited

-----------------------------------------------------------------------------
(* A document has its own children                                         *)

\* What is pending, registered or live was begun since the last reload.
OwnInv ==
  /\ \A s \in Spawn : gen[s] <= generation
  /\ \A s \in Spawn : promise[s] = "pending" => gen[s] = generation
  /\ OnlyOwnChildren

\* Nothing is registered before anything is called.
LEMMA InitOwn == Init => OwnInv
  BY DEF Init, OwnInv, OnlyOwnChildren

\* No step brings a child of one document into another.
LEMMA NextOwn == Typed /\ OwnInv /\ [Next]_vars => OwnInv'
<1> SUFFICES ASSUME Typed, OwnInv, [Next]_vars PROVE OwnInv'
  OBVIOUS
<1>1. /\ generation \in Nat /\ generation <= MaxReloads
      /\ gen \in [Spawn -> 0 .. MaxReloads]
      /\ promise \in [Spawn -> PromiseState]
  BY BoundAssumption DEF Typed, HostTyped, DocumentTyped
<1>2. ASSUME NEW s \in Spawn, CallSpawn(s) PROVE OwnInv'
  BY <1>1, <1>2 DEF CallSpawn, OwnInv, OnlyOwnChildren, uiVars
<1>3. CASE Frame
  BY <1>3, DeliveryTyped DEF Frame, Settle, Typed, DocumentTyped, OwnInv, OnlyOwnChildren, uiVars
<1>4. CASE Microtask
  BY <1>4 DEF Microtask, OwnInv, OnlyOwnChildren, uiVars
<1>5. CASE DisposeTake
  BY <1>1, <1>5 DEF DisposeTake, OwnInv, OnlyOwnChildren
<1>6. ASSUME NEW s \in Spawn, Register(s) PROVE OwnInv'
  BY <1>6 DEF Register, OwnInv, OnlyOwnChildren, uiVars, jsVars
<1>7. ASSUME NEW s \in Spawn, RemoveEntry(s) PROVE OwnInv'
  BY <1>7 DEF RemoveEntry, OwnInv, OnlyOwnChildren, uiVars, jsVars
<1>8. ASSUME UNCHANGED <<promise, live, generation, gen, procs>> PROVE OwnInv'
  BY <1>8 DEF OwnInv, OnlyOwnChildren
<1>9. ASSUME NEW s \in Spawn, Supervise(s) PROVE OwnInv'
  BY <1>6, <1>7, <1>8, <1>9
  DEF Supervise, Launch, LaunchFails, RegisterStale, Announce, Wait, Sweep, Join,
      Report, jsVars, uiVars
<1>10. ASSUME NEW s \in Spawn, ReadOutput(s) \/ WriteStdin(s) PROVE OwnInv'
  BY <1>8, <1>10
  DEF ReadOutput, ReadChunk, ReadEnd, WriteStdin, WriterWrites, WriterFails,
      WriterAnswers, WriterEnds, jsVars, uiVars
<1>11. ASSUME NEW s \in Spawn, Tree(s) PROVE OwnInv'
  BY <1>8, <1>11
  DEF Tree, Produce, Fork, Detach, RootEnds, HelperEnds, Recycle, jsVars, uiVars
<1>12. CASE App
  BY <1>2, <1>8, <1>12
  DEF App, CallWrite, CallCloseStdin, CallKill, jsVars, uiVars
<1>13. CASE Turn
  BY <1>3, <1>4, <1>8, <1>13
  DEF Turn, DisposeKill, DisposeClear, jsVars
<1>14. QED
  BY <1>5, <1>8, <1>9, <1>10, <1>11, <1>12, <1>13 DEF Next, vars, jsVars, uiVars

\* However reloads and launches interleave, what is registered and what the
\* document holds belongs to the document (process.rs:363, GENERATION;
\* command_channel.js: an answer to nobody is dropped).
THEOREM OwnChildren == Spec => []OnlyOwnChildren
<1>1. Spec => []Typed
  BY InitTyped, NextTyped, PTL DEF Spec
<1>2. Spec => []OwnInv
  BY <1>1, InitOwn, NextOwn, PTL DEF Spec
<1>3. OwnInv => OnlyOwnChildren
  BY DEF OwnInv
<1>4. QED BY <1>2, <1>3, PTL

-----------------------------------------------------------------------------
(* A handle finds its child                                                *)

\* Where a supervisor stands while its child's entry is in the registry, and
\* where it may stand once it has answered the spawn.
Held == {"announce", "wait", "sweep", "join", "remove"}
Announced == {"wait", "sweep", "join", "remove", "report", "done"}

\* A thread begins with its promise; an entry stays from its registration to its
\* removal, unless a reload takes it; and no answer is ahead of its supervisor.
RegistryInv ==
  /\ \A s \in Spawn : promise[s] = "none" => sup[s] = "none"
  /\ \A s \in Spawn : sup[s] \in Held /\ gen[s] = generation => s \in procs
  /\ \A s \in Spawn : Spawned(s, TRUE) \in Elements(events) => sup[s] \in Announced
  /\ \A s \in live : sup[s] \in Announced

\* No supervisor runs before anything is called.
LEMMA InitRegistry == Init => RegistryInv
  BY DEF Init, RegistryInv, Elements, Held

\* A step that queues no answer and leaves supervisors, registry and handles.
LEMMA RegistryQuiet ==
  ASSUME RegistryInv, UNCHANGED <<promise, live, procs, generation, gen, sup>>,
         \A s \in Spawn : Spawned(s, TRUE) \in Elements(events') =>
                          Spawned(s, TRUE) \in Elements(events)
  PROVE  RegistryInv'
  BY DEF RegistryInv, Held, Announced, Elements

\* Each step of a supervisor keeps its entry, its answer and its place together.
LEMMA SuperviseRegistry ==
  ASSUME Typed, RegistryInv, NEW s \in Spawn, Supervise(s)
  PROVE  RegistryInv'
<1>1. /\ sup \in [Spawn -> SupState]
      /\ events \in Seq(Event)
      /\ UNCHANGED <<promise, live, generation, gen>>
  BY DEF Typed, HostTyped, Supervise, Launch, LaunchFails, Register, RegisterStale,
         Announce, Wait, Sweep, Join, RemoveEntry, Report, jsVars, uiVars
<1>2. sup[s] # "none"
  BY DEF Supervise, Launch, LaunchFails, Register, RegisterStale, Announce, Wait,
         Sweep, Join, RemoveEntry, Report, Goes
<1>3. ASSUME NEW to \in SupState, sup' = [sup EXCEPT ![s] = to],
             to \in Held => sup[s] \in Held \/ s \in procs',
             sup[s] \in Announced => to \in Announced,
             \/ procs' = procs
             \/ procs' = procs \cup {s}
             \/ procs' = procs \ {s} /\ to \notin Held,
             \A t \in Spawn : Spawned(t, TRUE) \in Elements(events') =>
               Spawned(t, TRUE) \in Elements(events) \/ (t = s /\ to \in Announced)
      PROVE  RegistryInv'
  BY <1>1, <1>2, <1>3 DEF RegistryInv, Typed, DocumentTyped, Elements
<1>4. CASE Launch(s)
  BY <1>4, <1>3 DEF Launch, Goes, Held, Announced, SupState
<1>5. CASE LaunchFails(s)
  <2>1. sup[s] = "launch" /\ sup' = [sup EXCEPT ![s] = "done"]
    BY <1>5 DEF LaunchFails, Goes
  <2>2. procs' = procs /\ Elements(events') = Elements(events) \cup {Spawned(s, FALSE)}
    BY <1>1, <1>5, QueueElements, EventKinds DEF LaunchFails
  <2>3. QED BY <1>3, <2>1, <2>2, EventsDiffer DEF Held, Announced, SupState
<1>6. CASE Register(s)
  BY <1>6, <1>3 DEF Register, Goes, Held, Announced, SupState
<1>7. CASE RegisterStale(s)
  BY <1>7, <1>3 DEF RegisterStale, Goes, Held, Announced, SupState
<1>8. CASE Announce(s)
  <2>1. sup[s] = "announce" /\ sup' = [sup EXCEPT ![s] = "wait"]
    BY <1>8 DEF Announce, Goes
  <2>2. procs' = procs /\ Elements(events') = Elements(events) \cup {Spawned(s, TRUE)}
    BY <1>1, <1>8, QueueElements, EventKinds DEF Announce
  <2>3. QED BY <1>3, <2>1, <2>2, EventsDiffer DEF Held, Announced, SupState
<1>9. CASE Wait(s)
  BY <1>9, <1>3 DEF Wait, Goes, Held, Announced, SupState
<1>10. CASE Sweep(s)
  BY <1>10, <1>3 DEF Sweep, Goes, Held, Announced, SupState
<1>11. CASE Join(s)
  BY <1>11, <1>3 DEF Join, Goes, Held, Announced, SupState
<1>12. CASE RemoveEntry(s)
  BY <1>12, <1>3 DEF RemoveEntry, Goes, Held, Announced, SupState
<1>13. CASE Report(s)
  <2>1. sup[s] = "report" /\ sup' = [sup EXCEPT ![s] = "done"]
    BY <1>13 DEF Report, Goes
  <2>2. procs' = procs /\ Elements(events') = Elements(events) \cup {Exited(s)}
    BY <1>1, <1>13, QueueElements, EventKinds DEF Report
  <2>3. QED BY <1>3, <2>1, <2>2, EventsDiffer DEF Held, Announced, SupState
<1>14. QED
  BY <1>4, <1>5, <1>6, <1>7, <1>8, <1>9, <1>10, <1>11, <1>12, <1>13 DEF Supervise

\* No step parts a handle from its child's entry.
LEMMA NextRegistry == Typed /\ OwnInv /\ RegistryInv /\ [Next]_vars => RegistryInv'
<1> SUFFICES ASSUME Typed, OwnInv, RegistryInv, [Next]_vars PROVE RegistryInv'
  OBVIOUS
<1>1. /\ generation \in Nat
      /\ gen \in [Spawn -> 0 .. MaxReloads]
      /\ sup \in [Spawn -> SupState]
      /\ promise \in [Spawn -> PromiseState]
      /\ events \in Seq(Event)
      /\ live \subseteq Spawn
  BY BoundAssumption DEF Typed, HostTyped, DocumentTyped
<1>2. ASSUME NEW s \in Spawn, CallSpawn(s) PROVE RegistryInv'
  BY <1>2, <1>1 DEF CallSpawn, RegistryInv, Announced, uiVars, Held, Elements
<1>3. CASE Frame
  <2>1. \A s \in live' : s \in live \/ Spawned(s, TRUE) \in Elements(events)
    BY <1>1, <1>3, AnsweredElements DEF Frame, Settle
  <2>2. \A s \in Spawn : promise'[s] = "none" => promise[s] = "none"
    BY <1>3 DEF Frame, Settle
  <2>3. /\ Elements(events') = {}
        /\ UNCHANGED <<procs, generation, gen, sup>>
    BY <1>3, QueueElements, <1>1 DEF Frame, uiVars
  <2>4. live' \subseteq Spawn
    BY <1>3, DeliveryTyped DEF Typed, DocumentTyped
  <2>5. QED BY <2>1, <2>2, <2>3, <2>4 DEF RegistryInv, Held, Announced, Elements
<1>4. CASE Microtask
  BY <1>4 DEF Microtask, uiVars, RegistryInv, Held, Announced, Elements
<1>5. CASE DisposeTake
  <2>1. \A s \in Spawn : gen'[s] # generation'
    BY <1>1, <1>5 DEF DisposeTake, OwnInv
  <2>2. /\ live' = {}
        /\ \A s \in Spawn : promise'[s] = "none" => promise[s] = "none"
        /\ UNCHANGED <<events, gen, sup>>
    BY <1>5 DEF DisposeTake
  <2>3. QED BY <2>1, <2>2 DEF RegistryInv, Held, Announced, Elements
<1>6. CASE DisposeClear
  BY <1>1, <1>6, QueueElements, RegistryQuiet DEF DisposeClear, jsVars
<1>7. ASSUME UNCHANGED <<promise, live, procs, generation, gen, sup, events>>
      PROVE  RegistryInv'
  BY <1>7, RegistryQuiet
<1>8. ASSUME NEW s \in Spawn, ReadChunk(s) PROVE RegistryInv'
  <2>1. Output(s, got[s] + 1) \in Event
    BY EventKinds DEF Typed, ChunksTyped
  <2>2. Elements(events') = Elements(events) \cup {Output(s, got[s] + 1)}
    BY <1>1, <1>8, <2>1, QueueElements DEF ReadChunk
  <2>3. UNCHANGED <<promise, live, procs, generation, gen, sup>>
    BY <1>8 DEF ReadChunk, jsVars, uiVars
  <2>4. QED BY <2>2, <2>3, EventsDiffer, RegistryQuiet
<1>9. ASSUME NEW s \in Spawn, NEW ok \in BOOLEAN, WriterAnswers(s, ok) PROVE RegistryInv'
  <2>1. Written(Head(stdin[s]), ok) \in Event
    BY <1>9, EventKinds DEF WriterAnswers, Typed, ThreadsTyped
  <2>2. Elements(events') = Elements(events) \cup {Written(Head(stdin[s]), ok)}
    BY <1>1, <1>9, <2>1, QueueElements DEF WriterAnswers
  <2>3. UNCHANGED <<promise, live, procs, generation, gen, sup>>
    BY <1>9 DEF WriterAnswers, jsVars, uiVars
  <2>4. QED BY <2>2, <2>3, EventsDiffer, RegistryQuiet
<1>10. ASSUME NEW s \in Spawn, ReadOutput(s) \/ WriteStdin(s) PROVE RegistryInv'
  BY <1>7, <1>8, <1>9, <1>10
  DEF ReadOutput, ReadEnd, WriteStdin, WriterWrites, WriterFails, WriterEnds,
      jsVars, uiVars
<1>11. ASSUME NEW s \in Spawn, Tree(s) PROVE RegistryInv'
  BY <1>7, <1>11
  DEF Tree, Produce, Fork, Detach, RootEnds, HelperEnds, Recycle, jsVars, uiVars
<1>12. CASE App
  BY <1>2, <1>7, <1>12 DEF App, CallWrite, CallCloseStdin, CallKill, jsVars, uiVars
<1>13. CASE Turn
  BY <1>3, <1>4, <1>6, <1>7, <1>13 DEF Turn, DisposeKill, jsVars
<1>14. QED
  BY <1>5, <1>7, <1>10, <1>11, <1>12, <1>13, SuperviseRegistry
  DEF Next, vars, jsVars, uiVars

\* At every moment between the answer of a spawn and the end of its child, a
\* handle's write or kill finds the child (process.rs:387-390: registered before
\* the answer is queued; 441: removed only to report the end).
THEOREM HandleRegistered == Spec => []HandleIsRegistered
<1>1. Spec => []Typed
  BY InitTyped, NextTyped, PTL DEF Spec
<1>2. Spec => []OwnInv
  BY <1>1, InitOwn, NextOwn, PTL DEF Spec
<1>3. Spec => []RegistryInv
  BY <1>1, <1>2, InitRegistry, NextRegistry, PTL DEF Spec
<1>4. Typed /\ OwnInv /\ RegistryInv => HandleIsRegistered
  BY DEF Typed, DocumentTyped, OwnInv, OnlyOwnChildren, RegistryInv, Announced, Held,
         HandleIsRegistered
<1>5. QED BY <1>1, <1>2, <1>3, <1>4, PTL

-----------------------------------------------------------------------------
(* A tree dies with its root                                               *)

\* Exits that are on their way to the document.
ExitQueued(s) == Exited(s) \in Elements(events) \cup Elements(micro)

\* A root is reaped before its readers are joined, and the group is emptied when
\* the entry is removed, unless a reload has taken the entry and the document
\* that could hear of it; then it no longer can fill.
TreeInv ==
  /\ \A s \in Spawn : sup[s] \in {"none", "launch"} => child[s] = "none"
  /\ \A s \in Spawn : sup[s] \in {"sweep", "join", "remove", "report"} => child[s] = "reaped"
  /\ \A s \in Spawn : sup[s] = "report" /\ gen[s] = generation => desc[s] = "none"
  /\ \A s \in Spawn : ExitQueued(s) =>
       child[s] = "reaped" /\ (gen[s] = generation => desc[s] = "none")
  /\ \A s \in recycled : child[s] = "reaped" /\ desc[s] = "none"
  /\ TreeDiesWithRoot

\* No tree comes back: what is reaped stays so, and an empty group empty.
TreesGoOn ==
  \A s \in Spawn :
    /\ child[s] \in {"none", "reaped"} => child'[s] = child[s]
    /\ child[s] = "reaped" /\ desc[s] = "none" => desc'[s] = "none"

\* No process has been started at the start.
LEMMA InitTree == Init => TreeInv
  BY DEF Init, TreeInv, TreeDiesWithRoot, ExitQueued, Elements

\* A signal brings no tree back.
LEMMA KilledGoOn ==
  ASSUME Typed, NEW S, Killed(S)
  PROVE  TreesGoOn
  BY DEF Typed, TreesTyped, Killed, TreesGoOn

\* Steps that move no supervisor, bring no tree back and queue no exit.
LEMMA TreeQuiet ==
  ASSUME Typed, TreeInv, TreesGoOn, UNCHANGED <<sup, gen, generation, recycled, exited>>,
         \A s \in Spawn : ExitQueued(s)' => ExitQueued(s)
  PROVE  TreeInv'
<1>1. exited \subseteq Spawn /\ recycled \subseteq Spawn
  BY DEF Typed, DocumentTyped, TreesTyped
<1>2. \A s \in Spawn : sup'[s] \in {"none", "launch"} => child'[s] = "none"
  BY DEF TreeInv, TreesGoOn
<1>3. \A s \in Spawn :
        sup'[s] \in {"sweep", "join", "remove", "report"} => child'[s] = "reaped"
  BY DEF TreeInv, TreesGoOn
<1>4. \A s \in Spawn : sup'[s] = "report" /\ gen'[s] = generation' => desc'[s] = "none"
  BY DEF TreeInv, TreesGoOn
<1>5. \A s \in Spawn : ExitQueued(s)' =>
        child'[s] = "reaped" /\ (gen'[s] = generation' => desc'[s] = "none")
  BY DEF TreeInv, TreesGoOn
<1>6. \A s \in recycled' : child'[s] = "reaped" /\ desc'[s] = "none"
  BY <1>1 DEF TreeInv, TreesGoOn
<1>7. TreeDiesWithRoot'
  BY <1>1 DEF TreeInv, TreesGoOn, TreeDiesWithRoot
<1>8. QED BY <1>2, <1>3, <1>4, <1>5, <1>6, <1>7 DEF TreeInv

\* A supervisor reaps its root, ends its group and then reports, in this order.
LEMMA SuperviseTree ==
  ASSUME Typed, RegistryInv, TreeInv, NEW s \in Spawn, Supervise(s)
  PROVE  TreeInv'
<1>1. /\ sup \in [Spawn -> SupState]
      /\ child \in [Spawn -> ChildState]
      /\ desc \in [Spawn -> HelperState]
      /\ recycled \subseteq Spawn /\ exited \subseteq Spawn
      /\ events \in Seq(Event)
      /\ UNCHANGED <<micro, exited, recycled, generation, gen>>
  BY DEF Typed, HostTyped, DocumentTyped, TreesTyped, Supervise, Launch, LaunchFails,
         Register, RegisterStale, Announce, Wait, Sweep, Join, RemoveEntry, Report,
         jsVars, uiVars, osVars
<1>2. ASSUME NEW to \in SupState, sup' = [sup EXCEPT ![s] = to],
             to \notin {"none", "launch"},
             to \in {"sweep", "join", "remove", "report"} => child'[s] = "reaped",
             to = "report" /\ gen[s] = generation => desc'[s] = "none",
             TreesGoOn,
             \A t \in Spawn : ExitQueued(t)' =>
               \/ ExitQueued(t)
               \/ t = s /\ child'[s] = "reaped" /\ (gen[s] = generation => desc'[s] = "none")
      PROVE  TreeInv'
  <2>1. \A t \in Spawn : sup'[t] \in {"none", "launch"} => child'[t] = "none"
    BY <1>1, <1>2 DEF TreeInv, TreesGoOn
  <2>2. \A t \in Spawn :
          sup'[t] \in {"sweep", "join", "remove", "report"} => child'[t] = "reaped"
    BY <1>1, <1>2 DEF TreeInv, TreesGoOn
  <2>3. \A t \in Spawn : sup'[t] = "report" /\ gen'[t] = generation' => desc'[t] = "none"
    BY <1>1, <1>2 DEF TreeInv, TreesGoOn
  <2>4. \A t \in Spawn : ExitQueued(t)' =>
          child'[t] = "reaped" /\ (gen'[t] = generation' => desc'[t] = "none")
    BY <1>1, <1>2 DEF TreeInv, TreesGoOn
  <2>5. \A t \in recycled' : child'[t] = "reaped" /\ desc'[t] = "none"
    BY <1>1, <1>2 DEF TreeInv, TreesGoOn
  <2>6. TreeDiesWithRoot'
    BY <1>1, <1>2 DEF TreeInv, TreesGoOn, TreeDiesWithRoot
  <2>7. QED BY <2>1, <2>2, <2>3, <2>4, <2>5, <2>6 DEF TreeInv
<1>3. UNCHANGED events => \A t \in Spawn : ExitQueued(t)' => ExitQueued(t)
  BY <1>1 DEF ExitQueued, Elements
<1>4. \A e \in Event : events' = Append(events, e) =>
        \A t \in Spawn : ExitQueued(t)' => ExitQueued(t) \/ e = Exited(t)
  BY <1>1, QueueElements DEF ExitQueued
<1>5. UNCHANGED <<child, desc>> => TreesGoOn
  BY DEF TreesGoOn
<1>6. CASE Launch(s)
  <2>1. sup[s] = "launch" /\ sup' = [sup EXCEPT ![s] = "register"]
    BY <1>6 DEF Launch, Goes
  <2>2. /\ child' = [child EXCEPT ![s] = "running"]
        /\ UNCHANGED <<desc, events>>
    BY <1>6 DEF Launch
  <2>3. child[s] = "none"
    BY <2>1 DEF TreeInv
  <2>4. ~ExitQueued(s) /\ s \notin recycled /\ s \notin exited
    BY <2>3 DEF TreeInv, TreeDiesWithRoot
  <2>5. \A t \in Spawn : ExitQueued(t)' => ExitQueued(t)
    BY <1>3, <2>2
  <2>6. /\ \A t \in Spawn \ {s} : child'[t] = child[t] /\ sup'[t] = sup[t]
        /\ sup'[s] = "register"
    BY <1>1, <2>1, <2>2
  <2>7. /\ \A t \in Spawn : sup'[t] \in {"none", "launch"} => child'[t] = "none"
        /\ \A t \in Spawn :
             sup'[t] \in {"sweep", "join", "remove", "report"} => child'[t] = "reaped"
        /\ \A t \in Spawn : sup'[t] = "report" /\ gen'[t] = generation' => desc'[t] = "none"
    BY <1>1, <2>2, <2>6 DEF TreeInv
  <2>8. \A t \in Spawn : ExitQueued(t)' =>
          child'[t] = "reaped" /\ (gen'[t] = generation' => desc'[t] = "none")
    BY <1>1, <2>2, <2>4, <2>5, <2>6 DEF TreeInv
  <2>9. \A t \in recycled' : child'[t] = "reaped" /\ desc'[t] = "none"
    BY <1>1, <2>2, <2>4, <2>6 DEF TreeInv
  <2>10. TreeDiesWithRoot'
    BY <1>1, <2>2, <2>4, <2>6 DEF TreeInv, TreeDiesWithRoot
  <2>11. QED BY <2>7, <2>8, <2>9, <2>10 DEF TreeInv
<1>7. CASE LaunchFails(s)
  BY <1>7, EventKinds, EventsDiffer, <1>4, <1>2, <1>5 DEF LaunchFails, Goes, treeVars, SupState
<1>8. CASE Register(s)
  BY <1>8, <1>2, <1>3, <1>5 DEF Register, Goes, treeVars, SupState
<1>9. CASE RegisterStale(s)
  <2>1. /\ sup[s] = "register" /\ sup' = [sup EXCEPT ![s] = "done"]
        /\ child' = [child EXCEPT ![s] = "reaped"]
        /\ desc' = [desc EXCEPT ![s] = "none"]
        /\ UNCHANGED events
    BY <1>9 DEF RegisterStale, Goes
  <2>2. /\ \A t \in Spawn \ {s} : /\ child'[t] = child[t] /\ sup'[t] = sup[t]
                                 /\ desc'[t] = desc[t]
        /\ sup'[s] = "done" /\ child'[s] = "reaped" /\ desc'[s] = "none"
    BY <1>1, <2>1
  <2>3. \A t \in Spawn : ExitQueued(t)' => ExitQueued(t)
    BY <1>3, <2>1
  <2>4. /\ \A t \in Spawn : sup'[t] \in {"none", "launch"} => child'[t] = "none"
        /\ \A t \in Spawn :
             sup'[t] \in {"sweep", "join", "remove", "report"} => child'[t] = "reaped"
        /\ \A t \in Spawn : sup'[t] = "report" /\ gen'[t] = generation' => desc'[t] = "none"
    BY <1>1, <2>2 DEF TreeInv
  <2>5. \A t \in Spawn : ExitQueued(t)' =>
          child'[t] = "reaped" /\ (gen'[t] = generation' => desc'[t] = "none")
    BY <1>1, <2>2, <2>3 DEF TreeInv
  <2>6. \A t \in recycled' : child'[t] = "reaped" /\ desc'[t] = "none"
    BY <1>1, <2>2 DEF TreeInv
  <2>7. TreeDiesWithRoot'
    BY <1>1, <2>2 DEF TreeInv, TreeDiesWithRoot
  <2>8. QED BY <2>4, <2>5, <2>6, <2>7 DEF TreeInv
<1>10. CASE Announce(s)
  BY <1>10, <1>4, EventKinds, EventsDiffer, <1>2, <1>5 DEF Announce, Goes, treeVars, SupState
<1>11. CASE Wait(s)
  BY <1>11, <1>1, <1>2, <1>3 DEF Wait, Goes, TreesGoOn, SupState
<1>12. CASE Sweep(s)
  BY <1>12, KilledGoOn, <1>2, <1>3 DEF Sweep, Goes, TreeInv, TreesGoOn, SupState
<1>13. CASE Join(s)
  BY <1>13, <1>2, <1>3, <1>5 DEF Join, Goes, treeVars, TreeInv, SupState
<1>14. CASE RemoveEntry(s)
  BY <1>14, KilledGoOn, <1>2, <1>3 DEF RemoveEntry, Goes, TreeInv, TreesGoOn, RegistryInv, Held,
     Killed, SupState
<1>15. CASE Report(s)
  BY <1>15, <1>4, EventKinds, EventsDiffer, <1>2, <1>5 DEF Report, Goes, treeVars, TreeInv,
     SupState
<1>16. QED
  BY <1>6, <1>7, <1>8, <1>9, <1>10, <1>11, <1>12, <1>13, <1>14, <1>15 DEF Supervise

\* No step revives a tree or reports one that lives.
LEMMA NextTree ==
  Typed /\ OwnInv /\ RegistryInv /\ TreeInv /\ [Next]_vars => TreeInv'
<1> SUFFICES ASSUME Typed, OwnInv, RegistryInv, TreeInv, [Next]_vars PROVE TreeInv'
  OBVIOUS
<1>1. /\ generation \in Nat
      /\ gen \in [Spawn -> 0 .. MaxReloads]
      /\ sup \in [Spawn -> SupState]
      /\ child \in [Spawn -> ChildState]
      /\ desc \in [Spawn -> HelperState]
      /\ micro \in Seq(Event) /\ events \in Seq(Event)
      /\ live \subseteq Spawn /\ exited \subseteq Spawn /\ recycled \subseteq Spawn
  BY BoundAssumption DEF Typed, HostTyped, DocumentTyped, TreesTyped
<1>2. ASSUME UNCHANGED <<sup, gen, generation, recycled, exited, events, micro>>, TreesGoOn
      PROVE  TreeInv'
  BY <1>2, TreeQuiet DEF ExitQueued, Elements
<1>3. UNCHANGED <<child, desc>> => TreesGoOn
  BY DEF TreesGoOn
<1>4. ASSUME NEW s \in Spawn, CallSpawn(s) PROVE TreeInv'
  <2>1. sup[s] = "none" /\ child[s] = "none"
    BY <1>4 DEF CallSpawn, RegistryInv, TreeInv
  <2>2. ~ExitQueued(s)
    BY <2>1 DEF TreeInv
  <2>3. /\ sup' = [sup EXCEPT ![s] = "launch"]
        /\ gen' = [gen EXCEPT ![s] = generation]
        /\ UNCHANGED <<generation, child, desc, recycled, exited, events, micro>>
    BY <1>4 DEF CallSpawn, uiVars, treeVars, osVars
  <2>4. \A t \in Spawn \ {s} : sup'[t] = sup[t] /\ gen'[t] = gen[t]
    BY <1>1, <2>3
  <2>5. sup'[s] = "launch"
    BY <1>1, <2>3
  <2>6. \A t \in Spawn : ExitQueued(t)' => ExitQueued(t)
    BY <2>3 DEF ExitQueued, Elements
  <2>7. /\ \A t \in Spawn : sup'[t] \in {"none", "launch"} => child'[t] = "none"
        /\ \A t \in Spawn :
             sup'[t] \in {"sweep", "join", "remove", "report"} => child'[t] = "reaped"
        /\ \A t \in Spawn : sup'[t] = "report" /\ gen'[t] = generation' => desc'[t] = "none"
    BY <2>1, <2>3, <2>4, <2>5 DEF TreeInv
  <2>8. \A t \in Spawn : ExitQueued(t)' =>
          child'[t] = "reaped" /\ (gen'[t] = generation' => desc'[t] = "none")
    BY <2>2, <2>3, <2>4, <2>6 DEF TreeInv
  <2>9. (\A t \in recycled' : child'[t] = "reaped" /\ desc'[t] = "none") /\ TreeDiesWithRoot'
    BY <2>3 DEF TreeInv, TreeDiesWithRoot
  <2>10. QED BY <2>7, <2>8, <2>9 DEF TreeInv
<1>5. CASE Frame
  BY <1>5, <1>1, QueueElements, <1>3, TreeQuiet DEF Frame, Settle, ExitQueued, uiVars, treeVars,
     osVars
<1>6. CASE Microtask
  <2> DEFINE e == Head(micro)
  <2>1. /\ micro # <<>> /\ micro' = Tail(micro) /\ events' = events
        /\ UNCHANGED <<sup, gen, generation, recycled, child, desc>>
    BY <1>6 DEF Microtask, uiVars, treeVars, osVars
  <2>2. e \in Elements(micro) /\ Elements(micro') \subseteq Elements(micro)
    BY <1>1, <2>1, QueueElements
  <2>3. \A s \in Spawn : ExitQueued(s)' => ExitQueued(s)
    BY <2>1, <2>2 DEF ExitQueued, Elements
  <2>4. e \in Event
    BY <1>1, <2>1
  <2>5. exited' \subseteq exited \cup {s \in live : Exited(s) = e}
    BY <1>6, <2>4 DEF Microtask, Event, Exited
  <2> HIDE DEF e
  <2>6. ASSUME NEW s \in live, Exited(s) = e PROVE child[s] = "reaped" /\ desc[s] = "none"
    BY <2>6, <1>1, <2>2 DEF OwnInv, OnlyOwnChildren, ExitQueued, TreeInv
  <2>7. TreeDiesWithRoot'
    BY <2>1, <2>5, <2>6 DEF TreeInv, TreeDiesWithRoot
  <2>8. /\ \A s \in Spawn : sup'[s] \in {"none", "launch"} => child'[s] = "none"
        /\ \A s \in Spawn :
             sup'[s] \in {"sweep", "join", "remove", "report"} => child'[s] = "reaped"
        /\ \A s \in Spawn : sup'[s] = "report" /\ gen'[s] = generation' => desc'[s] = "none"
        /\ \A s \in recycled' : child'[s] = "reaped" /\ desc'[s] = "none"
    BY <2>1 DEF TreeInv
  <2>9. \A s \in Spawn : ExitQueued(s)' =>
          child'[s] = "reaped" /\ (gen'[s] = generation' => desc'[s] = "none")
    BY <2>1, <2>3 DEF TreeInv
  <2>10. QED BY <2>7, <2>8, <2>9 DEF TreeInv
<1>7. CASE DisposeTake
  <2>1. \A s \in Spawn : gen'[s] # generation'
    BY <1>1, <1>7 DEF DisposeTake, OwnInv
  <2>2. UNCHANGED <<events, micro, sup, child, desc, recycled, exited>>
    BY <1>7 DEF DisposeTake, treeVars, osVars
  <2>3. \A s \in Spawn : ExitQueued(s)' => ExitQueued(s)
    BY <2>2 DEF ExitQueued, Elements
  <2>4. \A s \in Spawn : ExitQueued(s)' =>
          child'[s] = "reaped" /\ (gen'[s] = generation' => desc'[s] = "none")
    BY <2>1, <2>2, <2>3 DEF TreeInv
  <2>5. TreeDiesWithRoot'
    BY <2>2 DEF TreeInv, TreeDiesWithRoot
  <2>6. QED BY <2>1, <2>2, <2>4, <2>5 DEF TreeInv
<1>8. ASSUME NEW s \in Spawn, DisposeKill(s) PROVE TreeInv'
  BY <1>8, KilledGoOn, <1>2 DEF DisposeKill, jsVars, osVars
<1>9. CASE DisposeClear
  BY <1>9, <1>1, QueueElements, <1>3, TreeQuiet DEF DisposeClear, jsVars, treeVars, osVars,
     ExitQueued
<1>10. ASSUME NEW e \in Event, \A s \in Spawn : e # Exited(s), events' = Append(events, e),
              UNCHANGED <<sup, gen, generation, recycled, exited, micro, child, desc>>
       PROVE  TreeInv'
  BY <1>1, <1>10, QueueElements, <1>3, TreeQuiet DEF ExitQueued
<1>11. ASSUME NEW s \in Spawn, ReadChunk(s) PROVE TreeInv'
  <2>1. Output(s, got[s] + 1) \in Event
    BY EventKinds DEF Typed, ChunksTyped
  <2>2. \A t \in Spawn : Output(s, got[s] + 1) # Exited(t)
    BY EventsDiffer
  <2>3. QED BY <1>10, <1>11, <2>1, <2>2 DEF ReadChunk, jsVars, uiVars, treeVars, osVars
<1>12. ASSUME NEW s \in Spawn, NEW ok \in BOOLEAN, WriterAnswers(s, ok) PROVE TreeInv'
  <2>1. stdin[s] \in Seq(Write) /\ stdin[s] # <<>>
    BY <1>12 DEF WriterAnswers, Typed, ThreadsTyped
  <2>2. Head(stdin[s]) \in Write
    BY <2>1
  <2>3. Written(Head(stdin[s]), ok) \in Event
    BY <2>2, EventKinds
  <2>4. \A t \in Spawn : Written(Head(stdin[s]), ok) # Exited(t)
    BY EventsDiffer
  <2>5. QED BY <1>10, <1>12, <2>3, <2>4 DEF WriterAnswers, jsVars, uiVars, treeVars, osVars
<1>13. ASSUME NEW s \in Spawn, ReadOutput(s) \/ WriteStdin(s) PROVE TreeInv'
  BY <1>2, <1>3, <1>11, <1>12, <1>13
  DEF ReadOutput, ReadEnd, WriteStdin, WriterWrites, WriterFails, WriterEnds,
      jsVars, uiVars, treeVars, osVars
<1>14. ASSUME NEW s \in Spawn, Tree(s) PROVE TreeInv'
  <2>1. TreesGoOn /\ UNCHANGED <<sup, gen, generation, exited, events, micro>>
    <3>1. UNCHANGED <<sup, gen, generation, exited, events, micro>>
      BY <1>14
      DEF Tree, Produce, Fork, Detach, RootEnds, HelperEnds, Recycle, jsVars, uiVars
    <3>2. CASE Produce(s) \/ Recycle(s)
      BY <1>3, <3>1, <3>2 DEF Produce, Recycle, treeVars
    <3>3. CASE Fork(s)
      BY <1>1, <3>1, <3>3 DEF Fork, TreesGoOn
    <3>4. CASE Detach(s)
      BY <1>1, <3>1, <3>4 DEF Detach, TreesGoOn
    <3>5. CASE RootEnds(s)
      BY <1>1, <3>1, <3>5 DEF RootEnds, TreesGoOn
    <3>6. CASE HelperEnds(s)
      BY <1>1, <3>1, <3>6 DEF HelperEnds, TreesGoOn
    <3>7. QED BY <1>14, <3>2, <3>3, <3>4, <3>5, <3>6 DEF Tree
  <2>2. CASE Recycle(s)
    BY <2>2, <2>1 DEF Recycle, treeVars, ExitQueued, Elements, TreeInv, TreeDiesWithRoot
  <2>3. CASE ~Recycle(s)
    BY <1>14, <2>3, <1>2, <2>1 DEF Tree, Produce, Fork, Detach, RootEnds, HelperEnds, osVars
  <2>4. QED BY <2>2, <2>3
<1>15. ASSUME NEW s \in Spawn, NEW force \in BOOLEAN, CallKill(s, force) PROVE TreeInv'
  BY <1>3, <1>15, KilledGoOn, <1>2 DEF CallKill, Asked, jsVars, uiVars, osVars
<1>16. CASE App
  BY <1>2, <1>3, <1>4, <1>15, <1>16
  DEF App, CallWrite, CallCloseStdin, uiVars, treeVars, osVars
<1>17. CASE Turn
  BY <1>5, <1>6, <1>8, <1>9, <1>17 DEF Turn
<1>18. CASE UNCHANGED vars
  BY <1>2, <1>3, <1>18 DEF vars, jsVars, uiVars, treeVars, osVars
<1>19. QED
  BY <1>7, <1>13, <1>14, <1>16, <1>17, <1>18, SuperviseTree DEF Next

\* When a document hears that its tool has ended, nothing that stayed in the
\* tool's group runs any more (process.rs:16-20, 441-444).
THEOREM TreeDies == Spec => []TreeDiesWithRoot
<1>1. Spec => []Typed
  BY InitTyped, NextTyped, PTL DEF Spec
<1>2. Spec => []OwnInv
  BY <1>1, InitOwn, NextOwn, PTL DEF Spec
<1>3. Spec => []RegistryInv
  BY <1>1, <1>2, InitRegistry, NextRegistry, PTL DEF Spec
<1>4. Spec => []TreeInv
  BY <1>1, <1>2, <1>3, InitTree, NextTree, PTL DEF Spec
<1>5. TreeInv => TreeDiesWithRoot
  BY DEF TreeInv
<1>6. QED BY <1>4, <1>5, PTL

\* Together: the trees a document knows are its own and end with their roots.
THEOREM TreesHold == Spec => []TreesAreOwn
<1>1. OnlyOwnChildren /\ TreeDiesWithRoot => TreesAreOwn
  BY DEF TreesAreOwn
<1>2. QED BY <1>1, OwnChildren, TreeDies, PTL

-----------------------------------------------------------------------------
(* An exit is the last thing a document hears of a child                   *)

\* What has been said to the document and not yet heard, in the order of its saying.
Told == micro \o events

\* A chunk of s, and what must come after the answer to its spawn.
IsOutput(e, s) == e.type = "output" /\ e.of = s
IsLater(e, s) == e.type \in {"output", "exit"} /\ e.of = s

\* Of the chunks of s, the first d have left the queue and g were queued: it holds the
\* others, one after the other.
InStream(q, s, d, g) ==
  /\ \A n \in d + 1 .. g : \E i \in DOMAIN q : q[i] = Output(s, n)
  /\ \A i \in DOMAIN q : IsOutput(q[i], s) => d < q[i].n /\ q[i].n <= g
  /\ \A i, j \in DOMAIN q :
       i < j /\ IsOutput(q[i], s) /\ IsOutput(q[j], s) => q[i].n < q[j].n

\* Output and exit come after the answer that installs the listeners.
AfterAnswer(q, s, installed) ==
  \A i \in DOMAIN q : IsLater(q[i], s) =>
    installed \/ \E j \in DOMAIN q : j < i /\ q[j] = Spawned(s, TRUE)

\* An exit comes after all output.
ExitAfterOutput(q, s) ==
  \A i, j \in DOMAIN q : q[i] = Exited(s) /\ IsOutput(q[j], s) => j < i

\* The chunks of a stream up to the n-th.
Counted(n) == [k \in 1 .. n |-> k]

\* All that is on its way to the document.
Untold == Elements(events) \cup Elements(micro)

\* A reader runs from the announcement of its child; one that is done has read all that
\* will ever be written; and an exit is queued only then.
ThreadAgrees(s) ==
  /\ sup[s] \notin Announced => reader[s] = "none"
  /\ reader[s] = "none" =>
       /\ got[s] = 0 /\ heard[s] = <<>> /\ s \notin exited
       /\ \A e \in Untold : ~IsLater(e, s)
  /\ reader[s] = "done" => ~PipeHeld(s) /\ got[s] = made[s]
  /\ sup[s] \in {"remove", "report"} => reader[s] = "done"
  /\ ExitQueued(s) => sup[s] = "done" /\ reader[s] = "done"

\* Where the promise of a child stands when its answer does.
AnswerAgrees(s) ==
  /\ ui = "kill" => gen[s] # generation
  /\ s \in live => promise[s] = "resolved"
  /\ Spawned(s, FALSE) \in Elements(events) => sup[s] = "done"
  /\ Spawned(s, TRUE) \in Elements(micro) => sup[s] \in Announced
  /\ gen[s] = generation =>
       /\ sup[s] \in {"launch", "register", "announce"} => promise[s] = "pending"
       /\ Spawned(s, TRUE) \in Elements(events) => promise[s] = "pending"
       /\ Spawned(s, TRUE) \in Elements(micro) /\ s \notin exited => s \in live

\* The handle of s is live and has its listeners.
Installed(s) == s \in live \cap listening

\* What is queued for a child of the document goes on where its listeners stopped.
Says(s) ==
  /\ heard[s] = Counted(Len(heard[s])) /\ Len(heard[s]) <= got[s]
  /\ InStream(Told, s, Len(heard[s]), got[s])
  /\ AfterAnswer(Told, s, Installed(s))
  /\ reader[s] # "none" => Installed(s) \/ Spawned(s, TRUE) \in Elements(Told)

\* What stays true of a child whose exit was heard.
Ended(s) ==
  /\ s \notin live /\ promise[s] = "resolved" /\ reader[s] = "done"
  /\ heard[s] = Counted(made[s])

\* What the document has heard of s fits what is still queued for it.
HeardAgrees(s) ==
  /\ ExitAfterOutput(Told, s)
  /\ gen[s] = generation /\ s \notin exited => Says(s)
  /\ s \in exited => Ended(s)

\* The inductive invariant of ExitIsLast, child by child.
OrderInv == \A s \in Spawn : ThreadAgrees(s) /\ AnswerAgrees(s) /\ HeardAgrees(s)

\* The positions of a queue that grows.
LEMMA GrownAt ==
  ASSUME NEW q \in Seq(Event), NEW e \in Event
  PROVE  /\ Append(q, e) \in Seq(Event) /\ Len(q) \in Nat
         /\ DOMAIN q = 1 .. Len(q)
         /\ DOMAIN Append(q, e) = DOMAIN q \cup {Len(q) + 1} /\ Len(q) + 1 \notin DOMAIN q
         /\ \A i \in DOMAIN q : Append(q, e)[i] = q[i] /\ i < Len(q) + 1
         /\ Append(q, e)[Len(q) + 1] = e
  OBVIOUS

\* The positions of what stays in a queue when its head leaves.
LEMMA ShrunkAt ==
  ASSUME NEW q \in Seq(Event), q # <<>>
  PROVE  /\ Tail(q) \in Seq(Event) /\ Len(q) \in Nat /\ 1 \in DOMAIN q /\ Head(q) = q[1]
         /\ Head(q) \in Event
         /\ DOMAIN q = 1 .. Len(q)
         /\ \A i \in DOMAIN Tail(q) : i + 1 \in DOMAIN q /\ Tail(q)[i] = q[i + 1]
         /\ \A i \in DOMAIN Tail(q) : i \in Nat /\ 0 < i
         /\ \A i \in DOMAIN q : i > 1 => \E k \in DOMAIN Tail(q) : k + 1 = i /\ Tail(q)[k] = q[i]
<1>1. ASSUME NEW i \in DOMAIN q, i > 1
      PROVE  \E k \in DOMAIN Tail(q) : k + 1 = i /\ Tail(q)[k] = q[i]
  <2>1. i - 1 \in DOMAIN Tail(q) /\ (i - 1) + 1 = i /\ Tail(q)[i - 1] = q[i]
    BY <1>1
  <2>2. QED BY <2>1
<1>2. QED BY <1>1

\* An output carries a number.
LEMMA OutputFacts ==
  ASSUME NEW s \in Spawn
  PROVE  /\ \A e \in Event : IsOutput(e, s) => e.n \in Nat /\ e = Output(s, e.n) /\ IsLater(e, s)
         /\ \A n : IsOutput(Output(s, n), s) /\ Output(s, n).n = n
         /\ \A t \in Spawn : \A n : t # s => ~IsOutput(Output(t, n), s) /\ ~IsLater(Output(t, n), s)
         /\ \A t, ok : ~IsLater(Spawned(t, ok), s) /\ ~IsLater(Written(t, ok), s)
         /\ IsLater(Exited(s), s) /\ ~IsOutput(Exited(s), s)
         /\ \A t \in Spawn : t # s => ~IsLater(Exited(t), s)
         /\ \A e \in Event : IsLater(e, s) => IsOutput(e, s) \/ e = Exited(s)
  BY DEF Event, IsOutput, IsLater, Output, Spawned, Written, Exited

\* The stream of s goes on with its next chunk.
LEMMA OutputGrows ==
  ASSUME NEW q \in Seq(Event), NEW s \in Spawn, NEW d \in Nat, NEW g \in Nat, d <= g,
         InStream(q, s, d, g)
  PROVE  InStream(Append(q, Output(s, g + 1)), s, d, g + 1)
<1> DEFINE e == Output(s, g + 1)
           r == Append(q, e)
<1>1. e \in Event /\ IsOutput(e, s) /\ e.n = g + 1
  BY EventKinds, OutputFacts
<1>2. /\ DOMAIN r = DOMAIN q \cup {Len(q) + 1} /\ r[Len(q) + 1] = e /\ Len(q) \in Nat
      /\ \A i \in DOMAIN q : r[i] = q[i] /\ i < Len(q) + 1 /\ i \in Nat
  BY <1>1, GrownAt
<1>3. \A i \in DOMAIN q : IsOutput(q[i], s) => q[i].n \in Nat
  BY OutputFacts
<1> HIDE DEF r
<1>4. ASSUME NEW n \in d + 1 .. g + 1 PROVE \E i \in DOMAIN r : r[i] = Output(s, n)
  <2>1. CASE n = g + 1
    BY <1>2, <2>1
  <2>2. CASE n # g + 1
    <3>1. n \in d + 1 .. g
      BY <2>2
    <3>2. PICK i \in DOMAIN q : q[i] = Output(s, n)
      BY <3>1 DEF InStream
    <3>3. QED BY <1>2, <3>2
  <2>3. QED BY <2>1, <2>2
<1> HIDE DEF e
<1>5. ASSUME NEW i \in DOMAIN r, IsOutput(r[i], s) PROVE d < r[i].n /\ r[i].n <= g + 1
  BY <1>2, <1>3, <1>5, <1>1 DEF InStream
<1>6. ASSUME NEW i \in DOMAIN r, NEW j \in DOMAIN r, i < j, IsOutput(r[i], s), IsOutput(r[j], s)
      PROVE  r[i].n < r[j].n
  BY <1>2, <1>6, <1>3, <1>1 DEF InStream
<1>7. InStream(r, s, d, g + 1)
  BY <1>4, <1>5, <1>6 DEF InStream
<1>8. QED BY <1>7 DEF r, e

\* An event that is no chunk of s leaves the stream of s as it is.
LEMMA OtherGrows ==
  ASSUME NEW q \in Seq(Event), NEW s \in Spawn, NEW d, NEW g, InStream(q, s, d, g),
         NEW e \in Event, ~IsOutput(e, s)
  PROVE  InStream(Append(q, e), s, d, g)
<1> DEFINE r == Append(q, e)
<1>1. /\ DOMAIN r = DOMAIN q \cup {Len(q) + 1} /\ r[Len(q) + 1] = e /\ Len(q) \in Nat
      /\ \A i \in DOMAIN q : r[i] = q[i]
  BY GrownAt
<1> HIDE DEF r
<1>2. InStream(r, s, d, g)
  BY <1>1 DEF InStream
<1>3. QED BY <1>2 DEF r

\* The next chunk of s leaves the queue.
LEMMA OutputLeaves ==
  ASSUME NEW q \in Seq(Event), q # <<>>, NEW s \in Spawn, NEW d \in Nat, NEW g \in Nat,
         InStream(q, s, d, g), IsOutput(Head(q), s)
  PROVE  Head(q).n = d + 1 /\ d + 1 <= g /\ InStream(Tail(q), s, d + 1, g)
<1> DEFINE r == Tail(q)
<1>1. /\ 1 \in DOMAIN q /\ Head(q) = q[1] /\ DOMAIN q = 1 .. Len(q) /\ Len(q) \in Nat
      /\ \A i \in DOMAIN r : i + 1 \in DOMAIN q /\ r[i] = q[i + 1] /\ i \in Nat /\ 0 < i
      /\ \A i \in DOMAIN q : i > 1 => \E k \in DOMAIN r : k + 1 = i /\ r[k] = q[i]
  BY ShrunkAt
<1>2. \A i \in DOMAIN q : IsOutput(q[i], s) => q[i].n \in Nat
  BY OutputFacts
<1> HIDE DEF r
<1>3. d < q[1].n /\ q[1].n <= g /\ q[1].n \in Nat
  BY <1>1, <1>2 DEF InStream
<1>4. d + 1 \in d + 1 .. g
  BY <1>3
<1>5. PICK k \in DOMAIN q : q[k] = Output(s, d + 1)
  BY <1>4 DEF InStream
<1>6. IsOutput(q[k], s) /\ q[k].n = d + 1
  BY <1>5, OutputFacts
<1>7. k = 1
  <2>1. k > 1 => q[1].n < d + 1
    BY <1>1, <1>6 DEF InStream
  <2>2. QED BY <1>1, <1>3, <2>1
<1>8. q[1].n = d + 1
  BY <1>6, <1>7
<1>9. ASSUME NEW n \in d + 2 .. g PROVE \E i \in DOMAIN r : r[i] = Output(s, n)
  <2>1. n \in d + 1 .. g /\ n # d + 1
    BY <1>9
  <2>2. PICK i \in DOMAIN q : q[i] = Output(s, n)
    BY <2>1 DEF InStream
  <2>3. i # 1
    BY <1>8, <2>1, <2>2, OutputFacts
  <2>4. i > 1
    BY <1>1, <2>3
  <2>5. QED BY <1>1, <2>2, <2>4
<1>10. ASSUME NEW i \in DOMAIN r, IsOutput(r[i], s) PROVE d + 1 < r[i].n /\ r[i].n <= g
  <2>1. i + 1 \in DOMAIN q /\ r[i] = q[i + 1] /\ 1 < i + 1
    BY <1>1
  <2>2. q[1].n < q[i + 1].n /\ q[i + 1].n <= g
    BY <1>1, <1>10, <2>1 DEF InStream
  <2>3. QED BY <1>8, <2>1, <2>2
<1>11. ASSUME NEW i \in DOMAIN r, NEW j \in DOMAIN r, i < j, IsOutput(r[i], s), IsOutput(r[j], s)
       PROVE  r[i].n < r[j].n
  BY <1>1, <1>11 DEF InStream
<1>12. InStream(r, s, d + 1, g)
  BY <1>9, <1>10, <1>11 DEF InStream
<1>13. QED BY <1>1, <1>3, <1>8, <1>12 DEF r

\* What is no chunk of s leaves the queue without it.
LEMMA OtherLeaves ==
  ASSUME NEW q \in Seq(Event), q # <<>>, NEW s \in Spawn, NEW d, NEW g,
         InStream(q, s, d, g), ~IsOutput(Head(q), s)
  PROVE  InStream(Tail(q), s, d, g)
<1> DEFINE r == Tail(q)
<1>1. /\ 1 \in DOMAIN q /\ Head(q) = q[1] /\ DOMAIN q = 1 .. Len(q) /\ Len(q) \in Nat
      /\ \A i \in DOMAIN r : i + 1 \in DOMAIN q /\ r[i] = q[i + 1] /\ i \in Nat /\ 0 < i
      /\ \A i \in DOMAIN q : i > 1 => \E k \in DOMAIN r : k + 1 = i /\ r[k] = q[i]
  BY ShrunkAt
<1> HIDE DEF r
<1>2. ASSUME NEW n \in d + 1 .. g PROVE \E i \in DOMAIN r : r[i] = Output(s, n)
  <2>1. PICK i \in DOMAIN q : q[i] = Output(s, n)
    BY DEF InStream
  <2>2. i # 1
    BY <1>1, <2>1, OutputFacts
  <2>3. i > 1
    BY <1>1, <2>2
  <2>4. QED BY <1>1, <2>1, <2>3
<1>3. \A i \in DOMAIN r : IsOutput(r[i], s) => d < r[i].n /\ r[i].n <= g
  BY <1>1 DEF InStream
<1>4. ASSUME NEW i \in DOMAIN r, NEW j \in DOMAIN r, i < j, IsOutput(r[i], s), IsOutput(r[j], s)
      PROVE  r[i].n < r[j].n
  BY <1>1, <1>4 DEF InStream
<1>5. InStream(r, s, d, g)
  BY <1>2, <1>3, <1>4 DEF InStream
<1>6. QED BY <1>5 DEF r

\* What follows the answer still does when another event is queued, and when one is heard.
LEMMA AnswerGrows ==
  ASSUME NEW q \in Seq(Event), NEW s \in Spawn, NEW installed \in BOOLEAN,
         AfterAnswer(q, s, installed), NEW e \in Event,
         IsLater(e, s) => installed \/ Spawned(s, TRUE) \in Elements(q)
  PROVE  AfterAnswer(Append(q, e), s, installed)
<1> DEFINE r == Append(q, e)
<1>1. /\ DOMAIN r = DOMAIN q \cup {Len(q) + 1} /\ r[Len(q) + 1] = e /\ DOMAIN q = 1 .. Len(q)
      /\ \A i \in DOMAIN q : r[i] = q[i] /\ i < Len(q) + 1
  BY GrownAt
<1> HIDE DEF r
<1>2. ASSUME NEW i \in DOMAIN r, IsLater(r[i], s), ~installed
      PROVE  \E j \in DOMAIN r : j < i /\ r[j] = Spawned(s, TRUE)
  <2>1. CASE i \in DOMAIN q
    BY <1>1, <1>2, <2>1 DEF AfterAnswer
  <2>2. CASE i = Len(q) + 1
    BY <1>1, <1>2, <2>2 DEF Elements
  <2>3. QED BY <1>1, <2>1, <2>2
<1>3. AfterAnswer(r, s, installed)
  BY <1>2 DEF AfterAnswer
<1>4. QED BY <1>3 DEF r

\* What is behind the answer is behind it, or the answer is heard.
LEMMA AnswerLeaves ==
  ASSUME NEW q \in Seq(Event), q # <<>>, NEW s \in Spawn, NEW installed \in BOOLEAN,
         NEW then \in BOOLEAN, AfterAnswer(q, s, installed), installed => then,
         Head(q) = Spawned(s, TRUE) => then
  PROVE  AfterAnswer(Tail(q), s, then)
<1> DEFINE r == Tail(q)
<1>1. /\ 1 \in DOMAIN q /\ Head(q) = q[1] /\ DOMAIN q = 1 .. Len(q) /\ Len(q) \in Nat
      /\ \A i \in DOMAIN r : i + 1 \in DOMAIN q /\ r[i] = q[i + 1] /\ i \in Nat /\ 0 < i
      /\ \A i \in DOMAIN q : i > 1 => \E k \in DOMAIN r : k + 1 = i /\ r[k] = q[i]
  BY ShrunkAt
<1> HIDE DEF r
<1>2. ASSUME NEW i \in DOMAIN r, IsLater(r[i], s), ~then
      PROVE  \E j \in DOMAIN r : j < i /\ r[j] = Spawned(s, TRUE)
  <2>1. PICK j \in DOMAIN q : j < i + 1 /\ q[j] = Spawned(s, TRUE)
    BY <1>1, <1>2 DEF AfterAnswer
  <2>2. j # 1
    BY <1>1, <1>2, <2>1
  <2>3. j > 1 /\ j \in Nat
    BY <1>1, <2>1, <2>2
  <2>4. PICK k \in DOMAIN r : k + 1 = j /\ r[k] = q[j]
    BY <1>1, <2>3
  <2>5. k < i
    BY <1>1, <2>1, <2>4
  <2>6. QED BY <2>1, <2>4, <2>5
<1>3. AfterAnswer(r, s, then)
  BY <1>2 DEF AfterAnswer
<1>4. QED BY <1>3 DEF r

\* An exit stays behind the output.
LEMMA ExitGrows ==
  ASSUME NEW q \in Seq(Event), NEW s \in Spawn, ExitAfterOutput(q, s), NEW e \in Event,
         IsOutput(e, s) => Exited(s) \notin Elements(q)
  PROVE  ExitAfterOutput(Append(q, e), s)
<1> DEFINE r == Append(q, e)
<1>1. /\ DOMAIN r = DOMAIN q \cup {Len(q) + 1} /\ r[Len(q) + 1] = e /\ DOMAIN q = 1 .. Len(q)
      /\ \A i \in DOMAIN q : r[i] = q[i] /\ i < Len(q) + 1
  BY GrownAt
<1>2. ~IsOutput(Exited(s), s)
  BY OutputFacts
<1> HIDE DEF r
<1>3. ASSUME NEW i \in DOMAIN r, NEW j \in DOMAIN r, r[i] = Exited(s), IsOutput(r[j], s)
      PROVE  j < i
  BY <1>1, <1>3, <1>2 DEF ExitAfterOutput, Elements
<1>4. ExitAfterOutput(r, s)
  BY <1>3 DEF ExitAfterOutput
<1>5. QED BY <1>4 DEF r

\* What is heard leaves the order of the others.
LEMMA ExitLeaves ==
  ASSUME NEW q \in Seq(Event), q # <<>>, NEW s \in Spawn, ExitAfterOutput(q, s)
  PROVE  ExitAfterOutput(Tail(q), s)
<1>1. \A i \in DOMAIN Tail(q) : i + 1 \in DOMAIN q /\ Tail(q)[i] = q[i + 1] /\ i \in Nat
  BY ShrunkAt
<1>2. ASSUME NEW i \in DOMAIN Tail(q), NEW j \in DOMAIN Tail(q), Tail(q)[i] = Exited(s),
             IsOutput(Tail(q)[j], s)
      PROVE  j < i
  BY <1>1, <1>2 DEF ExitAfterOutput
<1>3. QED BY <1>2 DEF ExitAfterOutput

\* All chunks have left the queue when the exit is at its head.
LEMMA NothingBehindExit ==
  ASSUME NEW q \in Seq(Event), q # <<>>, NEW s \in Spawn, NEW d \in Nat, NEW g \in Nat, d <= g,
         InStream(q, s, d, g), ExitAfterOutput(q, s), Head(q) = Exited(s)
  PROVE  d = g
<1>1. 1 \in DOMAIN q /\ q[1] = Exited(s) /\ DOMAIN q = 1 .. Len(q) /\ Len(q) \in Nat
  BY ShrunkAt
<1>2. ASSUME d < g PROVE FALSE
  <2>1. g \in d + 1 .. g
    BY <1>2
  <2>2. PICK i \in DOMAIN q : q[i] = Output(s, g)
    BY <2>1 DEF InStream
  <2>3. IsOutput(q[i], s)
    BY <2>2, OutputFacts
  <2>4. i < 1
    BY <1>1, <2>3 DEF ExitAfterOutput
  <2>5. QED BY <1>1, <2>4
<1>3. QED BY <1>2

\* What a step does to what was said and not yet heard.
LEMMA ToldFacts ==
  ASSUME Typed
  PROVE  /\ Told \in Seq(Event) /\ Elements(Told) = Untold
         /\ micro \in Seq(Event) /\ events \in Seq(Event)
<1>1. micro \in Seq(Event) /\ events \in Seq(Event)
  BY DEF Typed, DocumentTyped, HostTyped
<1>2. /\ Told \in Seq(Event) /\ Len(Told) = Len(micro) + Len(events)
      /\ Len(micro) \in Nat /\ Len(events) \in Nat
      /\ \A i \in 1 .. Len(micro) : Told[i] = micro[i]
      /\ \A i \in 1 .. Len(events) : Told[Len(micro) + i] = events[i]
  BY <1>1 DEF Told
<1>3. ASSUME NEW i \in 1 .. Len(Told) PROVE Told[i] \in Untold
  <2>1. CASE i <= Len(micro)
    BY <1>2, <2>1 DEF Untold, Elements
  <2>2. CASE i > Len(micro)
    <3>1. i - Len(micro) \in 1 .. Len(events) /\ Len(micro) + (i - Len(micro)) = i
      BY <1>2, <2>2
    <3>2. Told[i] = events[i - Len(micro)]
      BY <1>2, <3>1
    <3>3. QED BY <3>1, <3>2 DEF Untold, Elements
  <2>3. QED BY <1>2, <2>1, <2>2
<1>4. ASSUME NEW e \in Untold PROVE e \in Elements(Told)
  <2>1. CASE e \in Elements(micro)
    BY <1>2, <2>1 DEF Elements
  <2>2. CASE e \in Elements(events)
    <3>1. PICK i \in 1 .. Len(events) : e = events[i]
      BY <2>2 DEF Elements
    <3>2. Len(micro) + i \in 1 .. Len(Told)
      BY <1>2
    <3>3. QED BY <1>2, <3>1, <3>2 DEF Elements
  <2>3. QED BY <2>1, <2>2 DEF Untold
<1>5. QED BY <1>1, <1>2, <1>3, <1>4 DEF Elements

\* An event joins what was said at its end.
LEMMA ToldGrows ==
  ASSUME Typed, NEW e \in Event, events' = Append(events, e), micro' = micro
  PROVE  Told' = Append(Told, e) /\ Untold' = Untold \cup {e}
<1>1. micro \in Seq(Event) /\ events \in Seq(Event)
  BY ToldFacts
<1>2. micro \o Append(events, e) = Append(micro \o events, e)
  BY <1>1
<1>3. Elements(events') = Elements(events) \cup {e}
  BY <1>1, QueueElements
<1>4. Elements(micro') = Elements(micro)
  OBVIOUS
<1>5. QED BY <1>2, <1>3, <1>4 DEF Told, Untold

\* The microtask at the head is the oldest of what was said.
LEMMA ToldShrinks ==
  ASSUME Typed, micro # <<>>, micro' = Tail(micro), events' = events
  PROVE  /\ Told # <<>> /\ Head(Told) = Head(micro) /\ Told' = Tail(Told)
         /\ Head(micro) \in Elements(micro) /\ Elements(micro') \subseteq Elements(micro)
         /\ Untold' \subseteq Untold
<1>1. micro \in Seq(Event) /\ events \in Seq(Event)
  BY ToldFacts
<1>2. /\ micro \o events # <<>> /\ Head(micro \o events) = Head(micro)
      /\ Tail(micro) \o events = Tail(micro \o events)
  BY <1>1
<1>3. Head(micro) \in Elements(micro) /\ Elements(micro') \subseteq Elements(micro)
  BY <1>1, QueueElements
<1>4. Elements(events') = Elements(events)
  OBVIOUS
<1>5. QED BY <1>2, <1>3, <1>4 DEF Told, Untold

\* A turn moves the queue to the microtasks, where what was said stays the same.
LEMMA ToldTurns ==
  ASSUME Typed, micro = <<>>, micro' = events, events' = <<>>
  PROVE  Told' = Told /\ Elements(micro') = Elements(events) /\ Elements(events') = {}
         /\ Untold' = Untold
<1>1. events \in Seq(Event)
  BY ToldFacts
<1>2. <<>> \o events = events \o <<>>
  BY <1>1
<1>3. Elements(events') = {} /\ Elements(micro) = {}
  BY <1>1, QueueElements
<1>4. Elements(micro') = Elements(events)
  OBVIOUS
<1>5. QED BY <1>2, <1>3, <1>4 DEF Told, Untold

\* Other steps leave what was said.
LEMMA ToldStays ==
  ASSUME UNCHANGED <<micro, events>>
  PROVE  /\ Told' = Told /\ Untold' = Untold /\ Elements(Told)' = Elements(Told)
         /\ Elements(micro') = Elements(micro) /\ Elements(events') = Elements(events)
  BY DEF Told, Untold, Elements

\* Once a tree has been started its pipes do not open again: what has let go of them all
\* stays away from them.
PipesStayShut ==
  \A s \in Spawn : sup[s] \notin {"none", "launch"} /\ ~PipeHeld(s) => ~PipeHeld(s)'

\* A step after which nothing runs or holds a pipe that did not before.
LEMMA PipesOnlyClose ==
  ASSUME \A s \in Spawn : child'[s] = "running" => child[s] = "running",
         \A s \in Spawn : desc'[s] = "piped" => desc[s] = "piped",
         escaped' \subseteq escaped
  PROVE  PipesStayShut
  BY DEF PipesStayShut, PipeHeld

\* A signal only closes pipes.
LEMMA KilledPipes ==
  ASSUME NEW S, Killed(S), escaped' = escaped
  PROVE  PipesStayShut
<1>1. \A s \in Spawn : child'[s] = "running" => child[s] = "running"
  BY DEF Killed
<1>2. \A s \in Spawn : desc'[s] = "piped" => desc[s] = "piped"
  BY DEF Killed
<1>3. QED BY <1>1, <1>2, PipesOnlyClose

\* No step opens the pipes of a tree that was started.
LEMMA NextPipes == Typed /\ [Next]_vars => PipesStayShut
<1> SUFFICES ASSUME Typed, [Next]_vars PROVE PipesStayShut
  OBVIOUS
<1>1. child \in [Spawn -> ChildState] /\ desc \in [Spawn -> HelperState]
  BY DEF Typed, TreesTyped
<1>2. ASSUME UNCHANGED <<child, desc, escaped>> PROVE PipesStayShut
  BY <1>2, PipesOnlyClose
<1>3. ASSUME NEW s \in Spawn, Supervise(s) PROVE PipesStayShut
  <2>1. CASE Launch(s)
    BY <2>1, <1>1 DEF Launch, Goes, osVars, PipesStayShut, PipeHeld
  <2>2. CASE RegisterStale(s)
    BY <2>2, <1>1, PipesOnlyClose DEF RegisterStale, osVars
  <2>3. CASE Wait(s)
    BY <2>3, <1>1, PipesOnlyClose DEF Wait, osVars
  <2>4. CASE Sweep(s) \/ RemoveEntry(s)
    BY <2>4, KilledPipes DEF Sweep, RemoveEntry, osVars
  <2>5. CASE LaunchFails(s) \/ Register(s) \/ Announce(s) \/ Join(s) \/ Report(s)
    BY <1>2, <2>5 DEF LaunchFails, Register, Announce, Join, Report, treeVars, osVars
  <2>6. QED BY <1>3, <2>1, <2>2, <2>3, <2>4, <2>5 DEF Supervise
<1>4. ASSUME NEW s \in Spawn, ReadOutput(s) \/ WriteStdin(s) PROVE PipesStayShut
  BY <1>2, <1>4 DEF ReadOutput, ReadChunk, ReadEnd, WriteStdin, WriterWrites, WriterFails,
     WriterAnswers, WriterEnds, treeVars, osVars
<1>5. ASSUME NEW s \in Spawn, Tree(s) PROVE PipesStayShut
  <2>1. CASE Produce(s) \/ Recycle(s)
    BY <1>2, <2>1 DEF Produce, Recycle, treeVars
  <2>2. CASE Fork(s)
    <3>1. PICK h \in {"piped", "quiet"} : desc' = [desc EXCEPT ![s] = h]
      BY <2>2 DEF Fork
    <3>2. child[s] = "running" /\ UNCHANGED <<child, escaped>>
      BY <2>2 DEF Fork, osVars
    <3>3. QED BY <1>1, <3>1, <3>2 DEF PipesStayShut, PipeHeld
  <2>3. CASE Detach(s)
    BY <2>3, <1>1 DEF Detach, PipesStayShut, PipeHeld
  <2>4. CASE RootEnds(s)
    BY <2>4, <1>1, PipesOnlyClose DEF RootEnds, osVars
  <2>5. CASE HelperEnds(s)
    BY <2>5, <1>1, PipesOnlyClose DEF HelperEnds
  <2>6. QED BY <1>5, <2>1, <2>2, <2>3, <2>4, <2>5 DEF Tree
<1>6. CASE App
  BY <1>2, KilledPipes, <1>6 DEF CallKill, Asked, osVars, App, CallSpawn, CallWrite,
     CallCloseStdin, treeVars
<1>7. CASE Turn
  BY KilledPipes, <1>2, <1>7 DEF DisposeKill, osVars, Turn, Frame, Microtask, DisposeClear,
     treeVars
<1>8. CASE DisposeTake \/ UNCHANGED vars
  BY <1>2, <1>8 DEF DisposeTake, vars, treeVars, osVars
<1>9. QED BY <1>3, <1>4, <1>5, <1>6, <1>7, <1>8 DEF Next

\* What keeps a child's threads, its queue and what was heard of it together.
LEMMA ThreadMoves ==
  ASSUME NEW s \in Spawn, ThreadAgrees(s), PipesStayShut, reader'[s] = reader[s],
         sup'[s] \notin Announced => sup[s] \notin Announced,
         sup'[s] \in {"remove", "report"} => reader[s] = "done",
         ExitQueued(s)' => sup'[s] = "done" /\ reader[s] = "done",
         reader[s] = "none" =>
           /\ got'[s] = got[s] /\ heard'[s] = heard[s] /\ (s \in exited' => s \in exited)
           /\ \A e \in Untold' : IsLater(e, s) => e \in Untold,
         reader[s] = "done" => got'[s] = got[s] /\ made'[s] = made[s]
  PROVE  ThreadAgrees(s)'
<1>1. sup'[s] \notin Announced => reader'[s] = "none"
  BY DEF ThreadAgrees
<1>2. reader'[s] = "none" =>
        /\ got'[s] = 0 /\ heard'[s] = <<>> /\ s \notin exited'
        /\ \A e \in Untold' : ~IsLater(e, s)
  BY DEF ThreadAgrees
<1>3. reader[s] = "done" => sup[s] \notin {"none", "launch"}
  BY DEF ThreadAgrees, Announced
<1>4. reader'[s] = "done" => ~PipeHeld(s)' /\ got'[s] = made'[s]
  BY <1>3 DEF ThreadAgrees, PipesStayShut
<1>5. sup'[s] \in {"remove", "report"} => reader'[s] = "done"
  OBVIOUS
<1>6. ExitQueued(s)' => sup'[s] = "done" /\ reader'[s] = "done"
  OBVIOUS
<1>7. QED BY <1>1, <1>2, <1>4, <1>5, <1>6 DEF ThreadAgrees, Announced

\* The same, for a child whose supervisor does not move.
LEMMA ThreadKept ==
  ASSUME NEW s \in Spawn, ThreadAgrees(s), PipesStayShut, reader'[s] = reader[s],
         sup'[s] = sup[s], ExitQueued(s)' => ExitQueued(s),
         reader[s] = "none" =>
           /\ got'[s] = got[s] /\ heard'[s] = heard[s] /\ (s \in exited' => s \in exited)
           /\ \A e \in Untold' : IsLater(e, s) => e \in Untold,
         reader[s] = "done" => got'[s] = got[s] /\ made'[s] = made[s]
  PROVE  ThreadAgrees(s)'
<1>1. sup'[s] \in {"remove", "report"} => reader[s] = "done"
  BY DEF ThreadAgrees
<1>2. ExitQueued(s)' => sup'[s] = "done" /\ reader[s] = "done"
  BY DEF ThreadAgrees
<1>3. QED BY <1>1, <1>2, ThreadMoves

\* The exits of a child that are on their way are among what is untold.
LEMMA ExitUntold ==
  /\ \A s : ExitQueued(s) <=> Exited(s) \in Untold
  /\ \A s : ExitQueued(s)' <=> Exited(s) \in Untold'
  BY DEF ExitQueued, Untold

\* What joins the queue is all that becomes untold, and it is no child's but its own.
LEMMA JoinedQueue ==
  ASSUME Typed, NEW e \in Event, events' = Append(events, e), micro' = micro, NEW t \in Spawn
  PROVE  /\ \A d \in Untold' : d \in Untold \/ d = e
         /\ ExitQueued(t)' => ExitQueued(t) \/ e = Exited(t)
  BY ToldGrows, ExitUntold

\* Each step of a supervisor keeps every child together.
LEMMA SuperviseThreads ==
  ASSUME Typed, PipesStayShut, NEW s \in Spawn, Supervise(s), NEW t \in Spawn, ThreadAgrees(t)
  PROVE  ThreadAgrees(t)'
<1>1. /\ sup \in [Spawn -> SupState] /\ reader \in [Spawn -> ThreadState]
      /\ UNCHANGED <<got, heard, exited, made, micro>>
  BY DEF Typed, HostTyped, ThreadsTyped, Supervise, Launch, LaunchFails, Register,
         RegisterStale, Announce, Wait, Sweep, Join, RemoveEntry, Report, jsVars, outVars,
         osVars
<1>2. ASSUME UNCHANGED events
      PROVE  (ExitQueued(t)' => ExitQueued(t)) /\ Untold' = Untold
  BY <1>1, <1>2, ToldStays, ExitUntold
<1>3. ASSUME NEW e \in Event, events' = Append(events, e), ~IsLater(e, t)
      PROVE  /\ ExitQueued(t)' => ExitQueued(t)
             /\ \A d \in Untold' : IsLater(d, t) => d \in Untold
  BY <1>1, <1>3, JoinedQueue, OutputFacts
<1>4. CASE t # s /\ ~Announce(s) /\ ~Report(s) /\ ~LaunchFails(s)
  <2>1. sup'[t] = sup[t] /\ reader' = reader /\ events' = events
    BY <1>1, <1>4 DEF Supervise, Launch, Register, RegisterStale, Wait, Sweep, Join,
       RemoveEntry, Goes, outVars
  <2>2. QED BY <1>1, <1>2, <2>1, ThreadKept
<1>5. CASE t = s /\ ~Announce(s) /\ ~Report(s) /\ ~LaunchFails(s)
  <2>1. events' = events /\ reader' = reader
    BY <1>5 DEF Supervise, Launch, Register, RegisterStale, Wait, Sweep, Join,
       RemoveEntry, outVars
  <2>2. PICK from \in SupState, to \in SupState :
          /\ sup[s] = from /\ sup'[s] = to
          /\ \/ from = "launch" /\ to = "register"
             \/ from = "register" /\ to \in {"announce", "done"}
             \/ from = "wait" /\ to = "sweep"
             \/ from = "sweep" /\ to = "join"
             \/ from = "join" /\ to = "remove" /\ reader[s] = "done"
             \/ from = "remove" /\ to = "report"
    BY <1>1, <1>5 DEF Supervise, Launch, Register, RegisterStale, Wait, Sweep, Join,
       RemoveEntry, Goes, SupState
  <2>3. sup'[s] \notin Announced => sup[s] \notin Announced
    BY <2>2 DEF Announced
  <2>4. sup'[s] \in {"remove", "report"} => reader[s] = "done"
    BY <1>5, <2>2 DEF ThreadAgrees
  <2>5. ~ExitQueued(s)
    BY <1>5, <2>2 DEF ThreadAgrees
  <2>6. ~ExitQueued(s)' /\ Untold' = Untold
    BY <1>2, <1>5, <2>1, <2>5
  <2>7. QED BY <1>1, <1>5, <2>1, <2>3, <2>4, <2>6, ThreadMoves
<1>6. CASE LaunchFails(s)
  <2>1. /\ sup[s] = "launch" /\ sup' = [sup EXCEPT ![s] = "done"] /\ reader' = reader
        /\ events' = Append(events, Spawned(s, FALSE)) /\ Spawned(s, FALSE) \in Event
    BY <1>6, EventKinds DEF LaunchFails, Goes, outVars
  <2>2. ~IsLater(Spawned(s, FALSE), t)
    BY OutputFacts
  <2>3. /\ ExitQueued(t)' => ExitQueued(t)
        /\ \A d \in Untold' : IsLater(d, t) => d \in Untold
    BY <1>3, <2>1, <2>2
  <2>4. CASE t = s
    BY <1>1, <2>1, <2>4, <2>3, ThreadMoves DEF ThreadAgrees, Announced
  <2>5. CASE t # s
    BY <1>1, <2>1, <2>5, <2>3, ThreadKept
  <2>6. QED BY <2>4, <2>5
<1>7. CASE Announce(s)
  <2>1. /\ sup[s] = "announce" /\ sup' = [sup EXCEPT ![s] = "wait"]
        /\ reader' = [reader EXCEPT ![s] = "running"]
        /\ events' = Append(events, Spawned(s, TRUE)) /\ Spawned(s, TRUE) \in Event
    BY <1>7, EventKinds DEF Announce, Goes
  <2>2. ~IsLater(Spawned(s, TRUE), t)
    BY OutputFacts
  <2>3. /\ ExitQueued(t)' => ExitQueued(t)
        /\ \A d \in Untold' : IsLater(d, t) => d \in Untold
    BY <1>3, <2>1, <2>2
  <2>4. CASE t = s
    BY <1>1, <2>1, <2>4, <2>3 DEF ThreadAgrees, Announced
  <2>5. CASE t # s
    BY <1>1, <2>1, <2>5, <2>3, ThreadKept
  <2>6. QED BY <2>4, <2>5
<1>8. CASE Report(s)
  BY <1>8, EventKinds, <1>1, ThreadMoves, OutputFacts, <1>3, ThreadKept DEF Report, Goes,
     outVars, ThreadAgrees, Announced
<1>9. QED BY <1>4, <1>5, <1>6, <1>7, <1>8

\* Every step keeps every child together.
LEMMA NextThreads ==
  ASSUME Typed, RegistryInv, [Next]_vars, NEW t \in Spawn, ThreadAgrees(t)
  PROVE  ThreadAgrees(t)'
<1>1. /\ got \in [Spawn -> Nat] /\ made \in [Spawn -> Nat]
      /\ reader \in [Spawn -> ThreadState] /\ sup \in [Spawn -> SupState]
      /\ heard \in [Spawn -> Seq(Nat)]
  BY DEF Typed, ChunksTyped, ThreadsTyped, HostTyped, DocumentTyped
<1>2. PipesStayShut
  BY NextPipes
<1>3. ASSUME UNCHANGED <<sup, reader, got, heard, exited, made>>, Untold' \subseteq Untold
      PROVE  ThreadAgrees(t)'
  BY <1>2, <1>3, ThreadKept, ExitUntold
<1>4. ASSUME UNCHANGED <<sup, reader, got, heard, exited, made, events, micro>>
      PROVE  ThreadAgrees(t)'
  BY <1>3, <1>4, ToldStays
<1>5. ASSUME NEW s \in Spawn, CallSpawn(s) PROVE ThreadAgrees(t)'
  <2>1. sup[s] = "none" /\ sup' = [sup EXCEPT ![s] = "launch"]
    BY <1>5 DEF CallSpawn, RegistryInv
  <2>2. UNCHANGED <<reader, got, heard, exited, made, events, micro>>
    BY <1>5 DEF CallSpawn, outVars, osVars
  <2>3. (ExitQueued(t)' => ExitQueued(t)) /\ Untold' = Untold
    BY <2>2, ToldStays, ExitUntold
  <2>4. CASE t = s
    BY <1>1, <2>1, <2>4, <1>2, <2>2, <2>3, ThreadMoves DEF ThreadAgrees, Announced
  <2>5. CASE t # s
    BY <1>1, <2>1, <2>5, <1>2, <2>2, <2>3, ThreadKept
  <2>6. QED BY <2>4, <2>5
<1>6. ASSUME NEW s \in Spawn, ReadChunk(s) PROVE ThreadAgrees(t)'
  <2>1. /\ reader[s] = "running" /\ got' = [got EXCEPT ![s] = @ + 1]
        /\ events' = Append(events, Output(s, got[s] + 1)) /\ Output(s, got[s] + 1) \in Event
        /\ UNCHANGED <<sup, reader, heard, exited, made, micro>>
    BY <1>1, <1>6, EventKinds DEF ReadChunk, jsVars, osVars
  <2>2. /\ \A d \in Untold' : d \in Untold \/ d = Output(s, got[s] + 1)
        /\ ExitQueued(t)' => ExitQueued(t) \/ Output(s, got[s] + 1) = Exited(t)
    BY <2>1, JoinedQueue
  <2>3. ExitQueued(t)' => ExitQueued(t)
    BY <2>2, EventsDiffer
  <2>4. reader[t] \in {"none", "done"} => t # s /\ got'[t] = got[t]
    BY <1>1, <2>1
  <2>5. reader[t] = "none" => \A e \in Untold' : IsLater(e, t) => e \in Untold
    BY <2>2, <2>4, OutputFacts
  <2>6. QED BY <1>2, <2>1, <2>3, <2>4, <2>5, ThreadKept
<1>7. ASSUME NEW s \in Spawn, ReadEnd(s) PROVE ThreadAgrees(t)'
  BY <1>7, ToldStays, ExitUntold, <1>1, <1>2, ThreadKept DEF ReadEnd, jsVars, osVars,
     ThreadAgrees, PipesStayShut, Announced
<1>8. ASSUME NEW s \in Spawn, NEW ok \in BOOLEAN, WriterAnswers(s, ok) PROVE ThreadAgrees(t)'
  <2>1. stdin[s] \in Seq(Write) /\ stdin[s] # <<>>
    BY <1>8 DEF WriterAnswers, Typed, ThreadsTyped
  <2>2. Head(stdin[s]) \in Write
    BY <2>1
  <2>3. /\ events' = Append(events, Written(Head(stdin[s]), ok))
        /\ Written(Head(stdin[s]), ok) \in Event
        /\ UNCHANGED <<sup, reader, got, heard, exited, made, micro>>
    BY <1>8, <2>2, EventKinds DEF WriterAnswers, jsVars, outVars, osVars
  <2>4. /\ \A d \in Untold' : d \in Untold \/ d = Written(Head(stdin[s]), ok)
        /\ ExitQueued(t)' => ExitQueued(t) \/ Written(Head(stdin[s]), ok) = Exited(t)
    BY <2>3, JoinedQueue
  <2>5. ExitQueued(t)' => ExitQueued(t)
    BY <2>4, EventsDiffer
  <2>6. \A e \in Untold' : IsLater(e, t) => e \in Untold
    BY <2>4, OutputFacts
  <2>7. QED BY <1>2, <2>3, <2>5, <2>6, ThreadKept
<1>9. ASSUME NEW s \in Spawn, Produce(s) PROVE ThreadAgrees(t)'
  BY <1>9, ToldStays, ExitUntold, <1>1, <1>2, ThreadKept DEF Produce, jsVars, outVars,
     ThreadAgrees
<1>10. CASE Microtask
  <2> DEFINE e == Head(micro)
  <2>1. /\ micro # <<>> /\ micro' = Tail(micro)
        /\ UNCHANGED <<sup, reader, got, made, events>>
    BY <1>10 DEF Microtask, outVars, osVars
  <2>2. e \in Untold /\ Untold' \subseteq Untold /\ e \in Event
    BY <2>1, ToldShrinks, ToldFacts DEF Untold
  <2>3. /\ heard'[t] # heard[t] => IsOutput(e, t)
        /\ t \in exited' => t \in exited \/ IsLater(e, t)
    BY <1>1, <1>10 DEF Microtask, IsOutput, IsLater
  <2>4. reader[t] = "none" => ~IsLater(e, t)
    BY <2>2 DEF ThreadAgrees
  <2> HIDE DEF e
  <2>5. reader[t] = "none" => heard'[t] = heard[t] /\ (t \in exited' => t \in exited)
    BY <2>2, <2>3, <2>4, OutputFacts
  <2>6. QED BY <1>2, <2>1, <2>2, <2>5, ThreadKept, ExitUntold
<1>11. CASE Frame
  BY <1>11, <1>3, ToldTurns DEF Frame, Settle, outVars, osVars
<1>12. CASE DisposeClear
  BY <1>12, QueueElements, ToldFacts, <1>3 DEF DisposeClear, jsVars, outVars, osVars, Untold
<1>13. ASSUME NEW s \in Spawn, ReadOutput(s) \/ WriteStdin(s) PROVE ThreadAgrees(t)'
  BY <1>4, <1>6, <1>7, <1>8, <1>13
  DEF ReadOutput, WriteStdin, WriterWrites, WriterFails, WriterEnds, jsVars, outVars, osVars
<1>14. ASSUME NEW s \in Spawn, Tree(s) PROVE ThreadAgrees(t)'
  BY <1>4, <1>9, <1>14
  DEF Tree, Fork, Detach, RootEnds, HelperEnds, Recycle, jsVars, outVars, osVars
<1>15. CASE App
  BY <1>4, <1>5, <1>15
  DEF App, CallWrite, CallCloseStdin, CallKill, jsVars, outVars, osVars
<1>16. CASE Turn
  BY <1>4, <1>10, <1>11, <1>12, <1>16 DEF Turn, DisposeKill, jsVars, outVars, osVars
<1>17. CASE DisposeTake \/ UNCHANGED vars
  BY <1>4, <1>17 DEF DisposeTake, vars, jsVars, outVars, osVars
<1>18. QED
  BY <1>2, <1>13, <1>14, <1>15, <1>16, <1>17, SuperviseThreads DEF Next

\* A batch answers exactly the spawns whose answers it holds.
LEMMA ElementsAnswered ==
  ASSUME NEW q \in Seq(Event), NEW s \in Spawn, NEW ok \in BOOLEAN
  PROVE  s \in Answered(q, "spawned", ok) <=> Spawned(s, ok) \in Elements(q)
<1>1. ASSUME s \in Answered(q, "spawned", ok) PROVE Spawned(s, ok) \in Elements(q)
  <2>1. PICK i \in DOMAIN q : q[i].type = "spawned" /\ q[i].ok = ok /\ q[i].of = s
    BY <1>1 DEF Answered
  <2>2. q[i] \in Event /\ i \in 1 .. Len(q)
    OBVIOUS
  <2>3. q[i] = Spawned(s, ok)
    BY <2>1, <2>2 DEF Event, Spawned
  <2>4. QED BY <2>2, <2>3 DEF Elements
<1>2. ASSUME Spawned(s, ok) \in Elements(q) PROVE s \in Answered(q, "spawned", ok)
  <2>1. PICK i \in 1 .. Len(q) : q[i] = Spawned(s, ok)
    BY <1>2 DEF Elements
  <2>2. i \in DOMAIN q /\ q[i].type = "spawned" /\ q[i].ok = ok /\ q[i].of = s
    BY <2>1 DEF Spawned
  <2>3. QED BY <2>2 DEF Answered
<1>3. QED BY <1>1, <1>2

\* A child whose supervisor stays, or goes where no answer is owed.
LEMMA AnswerMoves ==
  ASSUME NEW s \in Spawn, AnswerAgrees(s),
         UNCHANGED <<ui, live, promise, gen, generation, micro>>,
         s \in exited => s \in exited',
         Spawned(s, FALSE) \in Elements(events') => sup'[s] = "done",
         sup[s] \in Announced => sup'[s] \in Announced,
         gen[s] = generation /\ sup'[s] \in {"launch", "register", "announce"} =>
           sup[s] \in {"launch", "register", "announce"},
         gen[s] = generation /\ Spawned(s, TRUE) \in Elements(events') =>
           promise[s] = "pending"
  PROVE  AnswerAgrees(s)'
<1>1. Elements(micro') = Elements(micro)
  OBVIOUS
<1>2. QED BY <1>1 DEF AnswerAgrees, Announced, Elements

\* Each step of a supervisor keeps promises and answers together.
LEMMA SuperviseAnswers ==
  ASSUME Typed, NEW s \in Spawn, Supervise(s), NEW t \in Spawn, AnswerAgrees(t)
  PROVE  AnswerAgrees(t)'
<1>1. /\ sup \in [Spawn -> SupState]
      /\ UNCHANGED <<ui, live, promise, gen, generation, micro, exited>>
  BY DEF Typed, HostTyped, Supervise, Launch, LaunchFails, Register, RegisterStale,
         Announce, Wait, Sweep, Join, RemoveEntry, Report, jsVars, uiVars
<1>2. PICK from \in SupState, to \in SupState :
        /\ sup[s] = from /\ sup' = [sup EXCEPT ![s] = to]
        /\ \/ from = "launch" /\ to \in {"register", "done"}
           \/ from = "register" /\ to = "announce"
           \/ from = "register" /\ to = "done" /\ gen[s] # generation
           \/ from = "announce" /\ to = "wait"
           \/ from = "wait" /\ to = "sweep"
           \/ from = "sweep" /\ to = "join"
           \/ from = "join" /\ to = "remove"
           \/ from = "remove" /\ to = "report"
           \/ from = "report" /\ to = "done"
  BY DEF Supervise, Launch, LaunchFails, Register, RegisterStale, Announce, Wait, Sweep,
         Join, RemoveEntry, Report, Goes, SupState
<1>3. /\ sup[t] \in Announced => sup'[t] \in Announced
      /\ gen[t] = generation /\ sup'[t] \in {"launch", "register", "announce"} =>
           sup[t] \in {"launch", "register", "announce"}
      /\ sup[t] = "done" => sup'[t] = "done"
  BY <1>1, <1>2 DEF Announced
<1>4. CASE UNCHANGED events
  BY <1>4, <1>1, <1>3, AnswerMoves DEF AnswerAgrees
<1>5. ASSUME NEW e \in Event, events' = Append(events, e)
      PROVE  Elements(events') = Elements(events) \cup {e}
  BY <1>5, QueueElements, ToldFacts
<1>6. CASE LaunchFails(s)
  <2>1. events' = Append(events, Spawned(s, FALSE)) /\ sup[s] = "launch"
        /\ sup' = [sup EXCEPT ![s] = "done"]
    BY <1>6 DEF LaunchFails, Goes
  <2>2. Elements(events') = Elements(events) \cup {Spawned(s, FALSE)}
    BY <1>5, <2>1, EventKinds
  <2>3. Spawned(t, FALSE) = Spawned(s, FALSE) => t = s
    BY DEF Spawned
  <2>4. Spawned(t, FALSE) \in Elements(events') => sup'[t] = "done"
    BY <1>1, <1>3, <2>1, <2>2, <2>3 DEF AnswerAgrees
  <2>5. Spawned(t, TRUE) \in Elements(events') => Spawned(t, TRUE) \in Elements(events)
    BY <2>2, EventsDiffer
  <2>6. QED BY <1>1, <1>3, <2>4, <2>5, AnswerMoves DEF AnswerAgrees
<1>7. CASE Announce(s)
  <2>1. events' = Append(events, Spawned(s, TRUE)) /\ sup[s] = "announce"
    BY <1>7 DEF Announce, Goes
  <2>2. Elements(events') = Elements(events) \cup {Spawned(s, TRUE)}
    BY <1>5, <2>1, EventKinds
  <2>3. Spawned(t, FALSE) \in Elements(events') => Spawned(t, FALSE) \in Elements(events)
    BY <2>2, EventsDiffer
  <2>4. Spawned(t, TRUE) \in Elements(events') =>
          Spawned(t, TRUE) \in Elements(events) \/ t = s
    BY <2>2, EventsDiffer
  <2>5. gen[t] = generation /\ Spawned(t, TRUE) \in Elements(events') =>
          promise[t] = "pending"
    BY <2>1, <2>4 DEF AnswerAgrees
  <2>6. QED BY <1>1, <1>3, <2>3, <2>5, AnswerMoves DEF AnswerAgrees
<1>8. CASE Report(s)
  <2>1. Elements(events') = Elements(events) \cup {Exited(s)}
    BY <1>5, <1>8, EventKinds DEF Report
  <2>2. \A ok : Spawned(t, ok) \in Elements(events') => Spawned(t, ok) \in Elements(events)
    BY <2>1, EventsDiffer
  <2>3. QED BY <1>1, <1>3, <2>2, AnswerMoves DEF AnswerAgrees
<1>9. QED
  BY <1>4, <1>6, <1>7, <1>8 DEF Supervise, Launch, Register, RegisterStale, Wait, Sweep,
     Join, RemoveEntry

\* Every step keeps promises and answers together.
LEMMA NextAnswers ==
  ASSUME Typed, OwnInv, RegistryInv, [Next]_vars, NEW t \in Spawn, AnswerAgrees(t)
  PROVE  AnswerAgrees(t)'
<1>1. /\ sup \in [Spawn -> SupState] /\ promise \in [Spawn -> PromiseState]
      /\ gen \in [Spawn -> 0 .. MaxReloads] /\ generation \in Nat
      /\ micro \in Seq(Event) /\ events \in Seq(Event)
  BY BoundAssumption DEF Typed, HostTyped, DocumentTyped
<1>2. ASSUME UNCHANGED <<ui, live, promise, gen, generation, micro, exited, sup>>,
             \A ok : Spawned(t, ok) \in Elements(events') => Spawned(t, ok) \in Elements(events)
      PROVE  AnswerAgrees(t)'
  BY <1>2, AnswerMoves DEF AnswerAgrees
<1>3. ASSUME UNCHANGED <<ui, live, promise, gen, generation, micro, exited, sup, events>>
      PROVE  AnswerAgrees(t)'
  BY <1>3, <1>2
<1>4. ASSUME NEW e \in Event, events' = Append(events, e), \A ok : e # Spawned(t, ok),
             UNCHANGED <<ui, live, promise, gen, generation, micro, exited, sup>>
      PROVE  AnswerAgrees(t)'
  BY <1>1, <1>4, QueueElements, <1>2
<1>5. ASSUME NEW s \in Spawn, CallSpawn(s) PROVE AnswerAgrees(t)'
  BY <1>5, <1>1 DEF CallSpawn, RegistryInv, uiVars, AnswerAgrees, Announced
<1>6. CASE Frame
  <2>1. /\ ui = "task" /\ micro' = events /\ events' = <<>>
        /\ UNCHANGED <<ui, exited, generation, gen, sup>>
    BY <1>6 DEF Frame, Settle, uiVars
  <2>2. Elements(micro') = Elements(events) /\ Elements(events') = {}
    BY <1>1, <2>1, QueueElements
  <2>3. /\ t \in live' <=>
             t \in live \/ (promise[t] = "pending" /\ Spawned(t, TRUE) \in Elements(events))
        /\ promise'[t] = IF promise[t] = "pending" /\ Spawned(t, TRUE) \in Elements(events)
                         THEN "resolved"
                         ELSE IF promise[t] = "pending" /\ Spawned(t, FALSE) \in Elements(events)
                              THEN "rejected" ELSE promise[t]
    BY <1>1, <1>6, ElementsAnswered DEF Frame, Settle
  <2>4. t \in live' => promise'[t] = "resolved"
    BY <2>3 DEF AnswerAgrees
  <2>5. Spawned(t, TRUE) \in Elements(events) => sup[t] \in Announced
    BY DEF RegistryInv
  <2>6. gen[t] = generation /\ sup[t] \in {"launch", "register", "announce"} =>
          promise'[t] = "pending"
    BY <2>3, <2>5 DEF AnswerAgrees, Announced
  <2>7. gen[t] = generation /\ Spawned(t, TRUE) \in Elements(micro') => t \in live'
    BY <2>2, <2>3 DEF AnswerAgrees
  <2>8. QED BY <2>1, <2>2, <2>4, <2>5, <2>6, <2>7 DEF AnswerAgrees, Announced
<1>7. CASE Microtask
  <2>1. /\ micro # <<>> /\ micro' = Tail(micro)
        /\ UNCHANGED <<ui, promise, generation, gen, sup, events>>
    BY <1>7 DEF Microtask, uiVars
  <2>2. Elements(micro') \subseteq Elements(micro) /\ Elements(events') = Elements(events)
    BY <1>1, <2>1, QueueElements
  <2>3. /\ t \in live' => t \in live
        /\ t \in live /\ t \notin live' => t \in exited'
        /\ t \in exited => t \in exited'
    BY <1>7 DEF Microtask
  <2>4. QED BY <2>1, <2>2, <2>3 DEF AnswerAgrees, Announced
<1>8. CASE DisposeTake
  <2>1. gen'[t] # generation'
    BY <1>1, <1>8 DEF DisposeTake, OwnInv
  <2>2. live' = {} /\ UNCHANGED <<sup, micro, events>>
    BY <1>8 DEF DisposeTake
  <2>3. Elements(micro') = Elements(micro) /\ Elements(events') = Elements(events)
    BY <2>2
  <2>4. QED BY <2>1, <2>2, <2>3 DEF AnswerAgrees, Announced
<1>9. CASE DisposeClear
  BY <1>9, <1>1, QueueElements DEF DisposeClear, jsVars, AnswerAgrees, Announced
<1>10. ASSUME NEW s \in Spawn, ReadChunk(s) PROVE AnswerAgrees(t)'
  <2>1. Output(s, got[s] + 1) \in Event
    BY EventKinds DEF Typed, ChunksTyped
  <2>2. \A ok : Output(s, got[s] + 1) # Spawned(t, ok)
    BY DEF Output, Spawned
  <2>3. QED BY <1>4, <1>10, <2>1, <2>2 DEF ReadChunk, jsVars, uiVars
<1>11. ASSUME NEW s \in Spawn, NEW ok \in BOOLEAN, WriterAnswers(s, ok) PROVE AnswerAgrees(t)'
  BY <1>11, EventKinds, <1>4 DEF WriterAnswers, Typed, ThreadsTyped, Written, Spawned, jsVars,
     uiVars
<1>12. ASSUME NEW s \in Spawn, ReadOutput(s) \/ WriteStdin(s) PROVE AnswerAgrees(t)'
  BY <1>3, <1>10, <1>11, <1>12
  DEF ReadOutput, ReadEnd, WriteStdin, WriterWrites, WriterFails, WriterEnds, jsVars, uiVars
<1>13. ASSUME NEW s \in Spawn, Tree(s) PROVE AnswerAgrees(t)'
  BY <1>3, <1>13
  DEF Tree, Produce, Fork, Detach, RootEnds, HelperEnds, Recycle, jsVars, uiVars
<1>14. CASE App
  BY <1>3, <1>5, <1>14 DEF App, CallWrite, CallCloseStdin, CallKill, jsVars, uiVars
<1>15. CASE Turn
  BY <1>3, <1>6, <1>7, <1>9, <1>15 DEF Turn, DisposeKill, jsVars
<1>16. CASE UNCHANGED vars
  BY <1>3, <1>16 DEF vars, jsVars, uiVars
<1>17. QED
  BY <1>8, <1>12, <1>13, <1>14, <1>15, <1>16, SuperviseAnswers DEF Next

\* Types of what was heard of a child.
LEMMA HeardTypes ==
  ASSUME Typed, NEW t \in Spawn
  PROVE  /\ heard[t] \in Seq(Nat) /\ Len(heard[t]) \in Nat
         /\ got[t] \in Nat /\ made[t] \in Nat
         /\ Installed(t) \in BOOLEAN
  BY DEF Typed, DocumentTyped, ChunksTyped, Installed

\* An answer that lets more be heard takes nothing away.
LEMMA AnswerWeakens ==
  ASSUME NEW q, NEW s, NEW installed, NEW then, installed => then, AfterAnswer(q, s, installed)
  PROVE  AfterAnswer(q, s, then)
  BY DEF AfterAnswer

\* Steps that queue nothing and hear nothing.
LEMMA HeardKept ==
  ASSUME NEW t \in Spawn, HeardAgrees(t), Told' = Told,
         gen'[t] = generation' /\ t \notin exited' =>
           /\ gen[t] = generation /\ t \notin exited
           /\ heard'[t] = heard[t] /\ got'[t] = got[t]
           /\ reader'[t] # "none" => reader[t] # "none"
           /\ Installed(t) => Installed(t)',
         t \in exited' =>
           /\ t \in exited /\ heard'[t] = heard[t] /\ promise'[t] = promise[t]
           /\ reader[t] = "done" => reader'[t] = "done" /\ made'[t] = made[t]
           /\ t \in live' => t \in live \/ promise[t] # "resolved"
  PROVE  HeardAgrees(t)'
<1>1. ExitAfterOutput(Told', t)
  BY DEF HeardAgrees
<1>2. ASSUME gen'[t] = generation', t \notin exited' PROVE Says(t)'
  <2>1. Says(t) /\ heard'[t] = heard[t] /\ got'[t] = got[t]
    BY <1>2 DEF HeardAgrees
  <2>2. heard'[t] = Counted(Len(heard'[t])) /\ Len(heard'[t]) <= got'[t]
    BY <2>1 DEF Says
  <2>3. InStream(Told', t, Len(heard'[t]), got'[t])
    BY <2>1 DEF Says
  <2>4. AfterAnswer(Told', t, Installed(t)')
    BY <1>2, <2>1, AnswerWeakens DEF Says
  <2>5. reader'[t] # "none" => Installed(t)' \/ Spawned(t, TRUE) \in Elements(Told')
    BY <1>2, <2>1 DEF Says
  <2>6. Elements(Told') = Elements(Told)'
    BY DEF Elements
  <2>7. QED BY <2>2, <2>3, <2>4, <2>5, <2>6 DEF Says, Counted
<1>3. t \in exited' => Ended(t)'
  BY DEF HeardAgrees, Ended, Counted
<1>4. QED BY <1>1, <1>2, <1>3 DEF HeardAgrees

\* Steps that queue one event.
LEMMA HeardGrows ==
  ASSUME Typed, NEW t \in Spawn, HeardAgrees(t), ThreadAgrees(t),
         NEW e \in Event, events' = Append(events, e),
         UNCHANGED <<micro, live, listening, promise, heard, exited, gen, generation, made>>,
         IsOutput(e, t) =>
           e = Output(t, got[t] + 1) /\ got'[t] = got[t] + 1 /\ reader[t] = "running",
         ~IsOutput(e, t) => got'[t] = got[t],
         IsLater(e, t) => reader[t] # "none",
         reader'[t] = reader[t] \/ (reader[t] # "done" /\ e = Spawned(t, TRUE))
  PROVE  HeardAgrees(t)'
<1>1. /\ Told' = Append(Told, e) /\ Told \in Seq(Event) /\ Elements(Told) = Untold
  BY ToldGrows, ToldFacts
<1>2. Elements(Told') = Elements(Told) \cup {e}
  BY <1>1, QueueElements
<1>3. ExitAfterOutput(Told', t)
  BY <1>1, ExitUntold, ExitGrows DEF ThreadAgrees, HeardAgrees
<1>4. ASSUME gen'[t] = generation', t \notin exited' PROVE Says(t)'
  <2>1. Says(t) /\ heard'[t] = heard[t] /\ Installed(t)' = Installed(t)
    BY <1>4 DEF HeardAgrees, Installed
  <2>2. /\ heard[t] \in Seq(Nat) /\ Len(heard[t]) \in Nat /\ got[t] \in Nat
        /\ Installed(t) \in BOOLEAN
    BY HeardTypes
  <2>3. heard'[t] = Counted(Len(heard'[t])) /\ Len(heard'[t]) <= got'[t]
    BY <2>1, <2>2 DEF Says
  <2>4. InStream(Told', t, Len(heard'[t]), got'[t])
    BY <2>1, <1>1, <2>2, OutputGrows, OtherGrows DEF Says
  <2>5. AfterAnswer(Told', t, Installed(t)')
    BY <2>1, <1>1, <2>2, AnswerGrows DEF Says
  <2>6. reader'[t] # "none" => Installed(t)' \/ Spawned(t, TRUE) \in Elements(Told')
    BY <1>2, <2>1 DEF Says
  <2>7. Elements(Told') = Elements(Told)'
    BY DEF Elements
  <2>8. QED BY <2>3, <2>4, <2>5, <2>6, <2>7 DEF Says, Counted
<1>5. t \in exited' => Ended(t)'
  BY DEF HeardAgrees, Ended, Counted
<1>6. QED BY <1>3, <1>4, <1>5 DEF HeardAgrees

\* A chunk more has been heard.
LEMMA CountedGrows ==
  ASSUME NEW h \in Seq(Nat), h = Counted(Len(h))
  PROVE  Append(h, Len(h) + 1) = Counted(Len(Append(h, Len(h) + 1)))
         /\ Len(Append(h, Len(h) + 1)) = Len(h) + 1
<1> DEFINE g == Append(h, Len(h) + 1)
<1>1. /\ Len(h) \in Nat /\ g \in Seq(Nat) /\ Len(g) = Len(h) + 1
      /\ \A k \in 1 .. Len(h) : g[k] = h[k]
      /\ g[Len(h) + 1] = Len(h) + 1
  OBVIOUS
<1> HIDE DEF g
<1>2. ASSUME NEW k \in 1 .. Len(g) PROVE g[k] = k
  BY <1>1 DEF Counted
<1>3. g = [k \in 1 .. Len(g) |-> k]
  BY <1>1, <1>2
<1>4. QED BY <1>1, <1>3 DEF Counted, g

\* What is at the head of the queue is heard.
LEMMA MicrotaskHeard ==
  ASSUME Typed, OwnInv, Microtask, NEW t \in Spawn, ThreadAgrees(t), AnswerAgrees(t),
         HeardAgrees(t)
  PROVE  HeardAgrees(t)'
<1> DEFINE e == Head(micro)
<1>1. /\ micro # <<>> /\ micro' = Tail(micro) /\ events' = events
      /\ UNCHANGED <<promise, got, reader, made, gen, generation>>
  BY DEF Microtask, uiVars, outVars, osVars
<1>2. /\ Told # <<>> /\ Head(Told) = e /\ Told' = Tail(Told) /\ Told \in Seq(Event)
      /\ e \in Elements(micro) /\ e \in Untold
  BY <1>1, ToldShrinks, ToldFacts DEF Untold
<1>3. e \in Event /\ 1 \in DOMAIN Told /\ Told[1] = e /\ (\A i \in DOMAIN Told : ~(i < 1))
  BY <1>2, ShrunkAt
<1>4. /\ heard[t] \in Seq(Nat) /\ Len(heard[t]) \in Nat /\ got[t] \in Nat
      /\ Installed(t) \in BOOLEAN /\ heard \in [Spawn -> Seq(Nat)]
      /\ live \subseteq Spawn
  BY HeardTypes DEF Typed, DocumentTyped
<1>5. /\ listening' = IF e.type = "spawned" /\ e.of \in live
                      THEN listening \cup {e.of} ELSE listening
      /\ heard' = IF e.type = "output" /\ e.of \in live \cap listening
                  THEN [heard EXCEPT ![e.of] = Append(@, e.n)] ELSE heard
      /\ IF e.type = "exit" /\ e.of \in live
         THEN live' = live \ {e.of} /\ exited' = exited \cup {e.of}
         ELSE UNCHANGED <<live, exited>>
  BY DEF Microtask
<1> HIDE DEF e
<1>6. ExitAfterOutput(Told', t)
  BY <1>2, ExitLeaves DEF HeardAgrees
<1>7. e = Exited(t) <=> e.type = "exit" /\ e.of = t
  BY <1>3 DEF Event, Exited
<1>8. e = Spawned(t, TRUE) => e.type = "spawned" /\ e.of = t
  BY DEF Spawned
<1>9. ASSUME gen[t] = generation, t \notin exited, IsLater(e, t) PROVE Installed(t)
  BY <1>9, <1>3 DEF HeardAgrees, Says, AfterAnswer
<1>10. ASSUME gen'[t] = generation', t \notin exited' PROVE Says(t)'
  <2>1. gen[t] = generation /\ t \notin exited /\ Says(t)
    BY <1>1, <1>5, <1>10 DEF HeardAgrees
  <2>2. e # Exited(t)
    BY <1>9, <2>1, OutputFacts, <1>5, <1>7, <1>10 DEF Installed
  <2>3. /\ Installed(t) => Installed(t)'
        /\ e = Spawned(t, TRUE) => Installed(t)'
    BY <1>5, <1>7, <2>2, <1>2, <2>1, <1>8 DEF AnswerAgrees, Installed
  <2>4. /\ heard'[t] = Counted(Len(heard'[t])) /\ Len(heard'[t]) <= got'[t]
        /\ InStream(Told', t, Len(heard'[t]), got'[t])
    <3>1. /\ heard[t] = Counted(Len(heard[t])) /\ Len(heard[t]) <= got[t]
          /\ InStream(Told, t, Len(heard[t]), got[t])
      BY <2>1 DEF Says
    <3>2. CASE IsOutput(e, t)
      <4>1. e.n = Len(heard[t]) + 1 /\ Len(heard[t]) + 1 <= got[t]
            /\ InStream(Tail(Told), t, Len(heard[t]) + 1, got[t])
        BY <1>2, <1>4, <3>1, <3>2, OutputLeaves
      <4>2. Installed(t)
        BY <1>3, <1>9, <2>1, <3>2, OutputFacts
      <4>3. heard'[t] = Append(heard[t], e.n)
        BY <1>4, <1>5, <3>2, <4>2 DEF IsOutput, Installed
      <4>4. heard'[t] = Counted(Len(heard'[t])) /\ Len(heard'[t]) = Len(heard[t]) + 1
        BY <1>4, <3>1, <4>1, <4>3, CountedGrows
      <4>5. QED BY <1>1, <1>2, <4>1, <4>4
    <3>3. CASE ~IsOutput(e, t)
      BY <1>4, <1>5, <3>3, <1>2, <3>1, OtherLeaves, <1>1 DEF IsOutput
    <3>4. QED BY <3>2, <3>3
  <2>5. AfterAnswer(Told', t, Installed(t)')
    <3>1. Installed(t)' \in BOOLEAN
      BY DEF Installed
    <3>2. AfterAnswer(Tail(Told), t, Installed(t)')
      BY <1>2, <1>4, <2>1, <2>3, <3>1, AnswerLeaves DEF Says
    <3>3. QED BY <1>2, <3>2
  <2>6. reader'[t] # "none" => Installed(t)' \/ Spawned(t, TRUE) \in Elements(Told')
    <3>1. ASSUME Spawned(t, TRUE) \in Elements(Told), Spawned(t, TRUE) # e
          PROVE  Spawned(t, TRUE) \in Elements(Told')
      <4>1. PICK i \in 1 .. Len(Told) : Told[i] = Spawned(t, TRUE)
        BY <3>1 DEF Elements
      <4>2. i # 1 /\ i \in DOMAIN Told
        BY <1>2, <1>3, <3>1, <4>1, ShrunkAt
      <4>3. i > 1
        BY <4>1, <4>2
      <4>4. PICK k \in DOMAIN Tail(Told) : Tail(Told)[k] = Told[i]
        BY <1>2, <4>2, <4>3, ShrunkAt
      <4>5. k \in 1 .. Len(Tail(Told))
        BY <1>2, ShrunkAt
      <4>6. QED BY <1>2, <4>1, <4>4, <4>5 DEF Elements
    <3>2. QED BY <1>1, <2>1, <2>3, <3>1 DEF Says
  <2>7. Elements(Told') = Elements(Told)'
    BY DEF Elements
  <2>8. QED BY <2>4, <2>5, <2>6, <2>7 DEF Says, Counted
<1>11. ASSUME t \in exited' PROVE Ended(t)'
  <2>1. CASE t \in exited
    BY <2>1, <1>4, <1>5, <1>1 DEF HeardAgrees, Ended, Counted
  <2>2. CASE t \notin exited
    <3>1. e.type = "exit" /\ e.of = t /\ t \in live /\ t \notin live'
      BY <1>5, <1>11, <2>2
    <3>2. heard'[t] = heard[t] /\ e = Exited(t)
      BY <1>5, <1>7, <3>1
    <3>3. gen[t] = generation
      BY <3>1 DEF OwnInv, OnlyOwnChildren
    <3>4. Says(t)
      BY <2>2, <3>3 DEF HeardAgrees
    <3>5. promise[t] = "resolved"
      BY <3>1 DEF AnswerAgrees
    <3>6. reader[t] = "done" /\ got[t] = made[t]
      BY <1>2, <3>2, ExitUntold DEF ThreadAgrees
    <3>7. Len(heard[t]) = got[t]
      BY <1>2, <1>4, <3>2, <3>4, NothingBehindExit DEF Says, HeardAgrees
    <3>8. heard[t] = Counted(made[t])
      BY <3>4, <3>6, <3>7 DEF Says
    <3>9. QED BY <1>1, <3>1, <3>2, <3>5, <3>6, <3>8 DEF Ended, Counted
  <2>3. QED BY <2>1, <2>2
<1>12. QED BY <1>1, <1>6, <1>10, <1>11 DEF HeardAgrees

\* A document hears of a child what its supervisor and its reader say.
LEMMA SuperviseHeard ==
  ASSUME Typed, NEW s \in Spawn, Supervise(s), NEW t \in Spawn, ThreadAgrees(t),
         HeardAgrees(t)
  PROVE  HeardAgrees(t)'
<1>1. /\ reader \in [Spawn -> ThreadState]
      /\ UNCHANGED <<micro, live, listening, promise, heard, exited, gen, generation, got, made>>
  BY DEF Typed, ThreadsTyped, Supervise, Launch, LaunchFails, Register, RegisterStale,
         Announce, Wait, Sweep, Join, RemoveEntry, Report, jsVars, uiVars, outVars, osVars
<1>2. ASSUME NEW e \in Event, events' = Append(events, e), ~IsOutput(e, t),
             IsLater(e, t) => reader[t] # "none",
             reader'[t] = reader[t] \/ (reader[t] # "done" /\ e = Spawned(t, TRUE))
      PROVE  HeardAgrees(t)'
  BY <1>1, <1>2, HeardGrows
<1>3. CASE LaunchFails(s)
  <2>1. /\ events' = Append(events, Spawned(s, FALSE)) /\ Spawned(s, FALSE) \in Event
        /\ reader' = reader
    BY <1>3, EventKinds DEF LaunchFails, outVars
  <2>2. ~IsLater(Spawned(s, FALSE), t) /\ ~IsOutput(Spawned(s, FALSE), t)
    BY <2>1, OutputFacts
  <2>3. QED BY <1>2, <2>1, <2>2
<1>4. CASE Announce(s)
  <2>1. /\ sup[s] = "announce" /\ reader' = [reader EXCEPT ![s] = "running"]
        /\ events' = Append(events, Spawned(s, TRUE)) /\ Spawned(s, TRUE) \in Event
    BY <1>4, EventKinds DEF Announce, Goes
  <2>2. ~IsLater(Spawned(s, TRUE), t) /\ ~IsOutput(Spawned(s, TRUE), t)
    BY <2>1, OutputFacts
  <2>3. t = s => reader[t] = "none"
    BY <2>1 DEF ThreadAgrees, Announced
  <2>4. reader'[t] = reader[t] \/ (reader[t] # "done" /\ Spawned(s, TRUE) = Spawned(t, TRUE))
    BY <1>1, <2>1, <2>3
  <2>5. QED BY <1>2, <2>1, <2>2, <2>4
<1>5. CASE Report(s)
  BY <1>5, EventKinds, OutputFacts, <1>2 DEF Report, Goes, outVars, Exited, IsOutput,
     ThreadAgrees
<1>6. CASE ~LaunchFails(s) /\ ~Announce(s) /\ ~Report(s)
  <2>1. events' = events /\ reader' = reader
    BY <1>6 DEF Supervise, Launch, Register, RegisterStale, Wait, Sweep, Join, RemoveEntry,
       outVars
  <2>2. Told' = Told /\ (Installed(t) => Installed(t)')
    BY <1>1, <2>1, ToldStays DEF Installed
  <2>3. QED BY <1>1, <2>1, <2>2, HeardKept
<1>7. QED BY <1>3, <1>4, <1>5, <1>6

\* Every step keeps what was heard of a child, and what was said of it, in order.
LEMMA NextHeard ==
  ASSUME Typed, OwnInv, RegistryInv, [Next]_vars, NEW t \in Spawn, ThreadAgrees(t),
         AnswerAgrees(t), HeardAgrees(t)
  PROVE  HeardAgrees(t)'
<1>1. /\ got \in [Spawn -> Nat] /\ made \in [Spawn -> Nat]
      /\ reader \in [Spawn -> ThreadState] /\ gen \in [Spawn -> 0 .. MaxReloads]
      /\ generation \in Nat /\ promise \in [Spawn -> PromiseState]
      /\ events \in Seq(Event) /\ micro \in Seq(Event)
  BY BoundAssumption DEF Typed, ChunksTyped, ThreadsTyped, HostTyped, DocumentTyped
<1>2. ASSUME UNCHANGED <<micro, events, live, listening, promise, heard, exited, gen,
                         generation, got, made, reader>>
      PROVE  HeardAgrees(t)'
  BY <1>2, ToldStays, HeardKept DEF Installed
<1>3. ASSUME NEW s \in Spawn, CallSpawn(s) PROVE HeardAgrees(t)'
  <2>1. /\ promise[s] = "none" /\ sup[s] = "none"
        /\ promise' = [promise EXCEPT ![s] = "pending"]
        /\ gen' = [gen EXCEPT ![s] = generation]
        /\ UNCHANGED <<micro, events, live, listening, heard, exited, generation, got, made,
                       reader>>
    BY <1>3 DEF CallSpawn, RegistryInv, uiVars, outVars, osVars
  <2>2. Told' = Told /\ (Installed(t) => Installed(t)')
    BY <2>1, ToldStays DEF Installed
  <2>3. CASE t # s
    BY <1>1, <2>1, <2>3, <2>2, HeardKept
  <2>4. CASE t = s
    <3>1. /\ reader[t] = "none" /\ got[t] = 0 /\ heard[t] = <<>> /\ t \notin exited
          /\ \A e \in Untold : ~IsLater(e, t)
      BY <2>1, <2>4 DEF ThreadAgrees, Announced
    <3>2. Told \in Seq(Event) /\ Elements(Told) = Untold
      BY ToldFacts
    <3>3. \A i \in DOMAIN Told : Told[i] \in Event /\ Told[i] \in Untold
      BY <3>2 DEF Elements
    <3>4. \A i \in DOMAIN Told : ~IsLater(Told[i], t) /\ ~IsOutput(Told[i], t)
      BY <3>1, <3>3, OutputFacts
    <3>5. InStream(Told', t, 0, 0)
      BY <2>2, <3>4 DEF InStream
    <3>6. AfterAnswer(Told', t, Installed(t)')
      BY <2>2, <3>4 DEF AfterAnswer
    <3>7. Len(heard'[t]) = 0 /\ got'[t] = 0 /\ heard'[t] = <<>> /\ reader'[t] = "none"
      BY <2>1, <3>1
    <3>8. heard'[t] = Counted(0)
      BY <3>7 DEF Counted
    <3>9. Says(t)'
      BY <3>5, <3>6, <3>7, <3>8 DEF Says, Counted
    <3>10. ExitAfterOutput(Told', t)
      BY <2>2 DEF HeardAgrees
    <3>11. QED BY <2>1, <3>1, <3>9, <3>10 DEF HeardAgrees
  <2>5. QED BY <2>3, <2>4
<1>4. CASE Frame
  <2>1. /\ micro = <<>> /\ micro' = events /\ events' = <<>> /\ live \subseteq live'
        /\ UNCHANGED <<listening, heard, exited, generation, gen, got, made, reader>>
    BY <1>4 DEF Frame, Settle, uiVars, outVars, osVars
  <2>2. Told' = Told
    BY <2>1, ToldTurns
  <2>3. promise[t] = "resolved" => promise'[t] = "resolved" /\ (t \in live' => t \in live)
    BY <1>4 DEF Frame, Settle
  <2>4. Installed(t) => Installed(t)'
    BY <2>1 DEF Installed
  <2>5. t \in exited => promise[t] = "resolved"
    BY DEF HeardAgrees, Ended
  <2>6. QED BY <2>1, <2>2, <2>3, <2>4, <2>5, HeardKept
<1>5. CASE DisposeTake
  BY <1>1, <1>5, ToldStays, HeardKept DEF DisposeTake, OwnInv, outVars, osVars, HeardAgrees,
     Ended
<1>6. CASE DisposeClear
  <2>1. /\ ui = "kill" /\ events' = <<>>
        /\ UNCHANGED <<micro, live, promise, heard, exited, gen, generation, got, made, reader>>
    BY <1>6 DEF DisposeClear, jsVars, outVars, osVars
  <2>2. gen'[t] # generation'
    BY <2>1 DEF AnswerAgrees
  <2>3. ExitAfterOutput(Told', t)
    <3>1. Told' = micro
      BY <1>1, <2>1 DEF Told
    <3>2. \A i \in DOMAIN micro : i \in DOMAIN Told /\ Told[i] = micro[i]
      BY <1>1 DEF Told
    <3>3. QED BY <3>1, <3>2 DEF HeardAgrees, ExitAfterOutput
  <2>4. t \in exited' => Ended(t)'
    BY <2>1 DEF HeardAgrees, Ended, Counted
  <2>5. QED BY <2>2, <2>3, <2>4 DEF HeardAgrees
<1>7. ASSUME NEW s \in Spawn, ReadChunk(s) PROVE HeardAgrees(t)'
  <2>1. /\ reader[s] = "running" /\ got' = [got EXCEPT ![s] = @ + 1]
        /\ events' = Append(events, Output(s, got[s] + 1)) /\ Output(s, got[s] + 1) \in Event
        /\ UNCHANGED <<micro, live, listening, promise, heard, exited, gen, generation, made,
                       reader>>
    BY <1>1, <1>7, EventKinds DEF ReadChunk, jsVars, uiVars, osVars
  <2>2. CASE t = s
    BY <1>1, <2>1, <2>2, OutputFacts, HeardGrows
  <2>3. CASE t # s
    BY <1>1, <2>1, <2>3, OutputFacts, HeardGrows
  <2>4. QED BY <2>2, <2>3
<1>8. ASSUME NEW s \in Spawn, ReadEnd(s) PROVE HeardAgrees(t)'
  BY <1>8, ToldStays, <1>1, HeardKept DEF ReadEnd, jsVars, uiVars, osVars, Installed
<1>9. ASSUME NEW s \in Spawn, NEW ok \in BOOLEAN, WriterAnswers(s, ok) PROVE HeardAgrees(t)'
  <2>1. stdin[s] \in Seq(Write) /\ stdin[s] # <<>>
    BY <1>9 DEF WriterAnswers, Typed, ThreadsTyped
  <2>2. Head(stdin[s]) \in Write
    BY <2>1
  <2>3. /\ events' = Append(events, Written(Head(stdin[s]), ok))
        /\ Written(Head(stdin[s]), ok) \in Event
        /\ UNCHANGED <<micro, live, listening, promise, heard, exited, gen, generation, got,
                       made, reader>>
    BY <1>9, <2>2, EventKinds DEF WriterAnswers, jsVars, uiVars, outVars, osVars
  <2>4. ~IsLater(Written(Head(stdin[s]), ok), t) /\ ~IsOutput(Written(Head(stdin[s]), ok), t)
    BY <2>3, OutputFacts
  <2>5. QED BY <2>3, <2>4, HeardGrows
<1>10. ASSUME NEW s \in Spawn, Produce(s) PROVE HeardAgrees(t)'
  BY <1>10, <1>1, ToldStays, HeardKept DEF Produce, jsVars, uiVars, outVars, ThreadAgrees,
     Installed
<1>11. ASSUME NEW s \in Spawn, ReadOutput(s) \/ WriteStdin(s) PROVE HeardAgrees(t)'
  BY <1>2, <1>7, <1>8, <1>9, <1>11
  DEF ReadOutput, WriteStdin, WriterWrites, WriterFails, WriterEnds, jsVars, uiVars,
      outVars, osVars
<1>12. ASSUME NEW s \in Spawn, Tree(s) PROVE HeardAgrees(t)'
  BY <1>2, <1>10, <1>12
  DEF Tree, Fork, Detach, RootEnds, HelperEnds, Recycle, jsVars, uiVars, outVars, osVars
<1>13. CASE App
  BY <1>2, <1>3, <1>13
  DEF App, CallWrite, CallCloseStdin, CallKill, jsVars, uiVars, outVars, osVars
<1>14. CASE Turn
  BY <1>2, <1>4, <1>6, <1>14, MicrotaskHeard DEF Turn, DisposeKill, jsVars, outVars, osVars
<1>15. CASE UNCHANGED vars
  BY <1>2, <1>15 DEF vars, jsVars, uiVars, outVars, osVars
<1>16. QED
  BY <1>5, <1>11, <1>12, <1>13, <1>14, <1>15, SuperviseHeard DEF Next

\* Nothing has been said at the start.
LEMMA InitOrder == Init => OrderInv
<1> SUFFICES ASSUME Init, NEW s \in Spawn
             PROVE  ThreadAgrees(s) /\ AnswerAgrees(s) /\ HeardAgrees(s)
  BY DEF OrderInv
<1>1. /\ micro = <<>> /\ events = <<>> /\ heard[s] = <<>> /\ exited = {} /\ live = {}
      /\ got[s] = 0 /\ reader[s] = "none" /\ sup[s] = "none" /\ ui = "task"
  BY DEF Init
<1>2. Elements(micro) = {} /\ Elements(events) = {} /\ Untold = {} /\ Told = <<>>
  BY <1>1 DEF Elements, Untold, Told
<1>3. ~ExitQueued(s)
  BY <1>2 DEF ExitQueued
<1>4. ThreadAgrees(s)
  BY <1>1, <1>2, <1>3 DEF ThreadAgrees
<1>5. AnswerAgrees(s)
  BY <1>1, <1>2 DEF AnswerAgrees
<1>6. Says(s)
  BY <1>1, <1>2 DEF Says, InStream, AfterAnswer, Counted
<1>7. ExitAfterOutput(Told, s)
  BY <1>2 DEF ExitAfterOutput
<1>8. QED BY <1>1, <1>4, <1>5, <1>6, <1>7 DEF HeardAgrees

\* Whatever the children, helpers, chunks and reloads: the exit is the last thing a
\* handle hears of its child, after every chunk the tree ever wrote and in the order it
\* wrote them (process.rs:411-444, the join before the exit; native.js: delivery in
\* microtasks, the listeners installed by the answer).
THEOREM ExitHeard == Spec => []ExitIsLast
<1>1. Spec => []Typed
  BY InitTyped, NextTyped, PTL DEF Spec
<1>2. Spec => []OwnInv
  BY <1>1, InitOwn, NextOwn, PTL DEF Spec
<1>3. Spec => []RegistryInv
  BY <1>1, <1>2, InitRegistry, NextRegistry, PTL DEF Spec
<1>4. Typed /\ OwnInv /\ RegistryInv /\ OrderInv /\ [Next]_vars => OrderInv'
  <2> SUFFICES ASSUME Typed, OwnInv, RegistryInv, OrderInv, [Next]_vars, NEW s \in Spawn
               PROVE  ThreadAgrees(s)' /\ AnswerAgrees(s)' /\ HeardAgrees(s)'
    BY DEF OrderInv
  <2>1. ThreadAgrees(s) /\ AnswerAgrees(s) /\ HeardAgrees(s)
    BY DEF OrderInv
  <2>2. QED BY <2>1, NextThreads, NextAnswers, NextHeard
<1>5. Spec => []OrderInv
  BY <1>1, <1>2, <1>3, <1>4, InitOrder, PTL DEF Spec
<1>6. Typed /\ OrderInv => ExitIsLast
  BY DEF Typed, DocumentTyped, OrderInv, ThreadAgrees, HeardAgrees, Ended, Counted, ExitIsLast
<1>7. QED BY <1>1, <1>5, <1>6, PTL

=============================================================================
