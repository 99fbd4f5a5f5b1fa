-------------------------- MODULE ProcessSupervisor --------------------------
(***************************************************************************)
(* Managed child processes: the supervisor, reader and writer threads of   *)
(* blitsen-platform/src/process.rs, the registry and event queue they share*)
(* with the UI thread, and the JavaScript handles of the document          *)
(* (dom_bridge/bootstrap/native.js) that the frame turn settles.           *)
(*                                                                         *)
(* A Spawn is one call of process.spawn(); it names the promise, the handle*)
(* it resolves to, the supervisor thread, the child and its process group. *)
(* The Unix half is modelled, for children whose stdout is a pipe; stderr  *)
(* is a second stream like it.  Steps that hold the PROCESSES mutex are    *)
(* atomic for everybody who takes it.                                      *)
(***************************************************************************)
EXTENDS Sequences, Naturals

CONSTANTS
  Spawn,     \* calls of process.spawn()
  Write,     \* calls of child.write()
  Target,    \* Target[w]: the child write w is made to
  Piped,     \* children whose stdin is a pipe; the others have none
  Forking,   \* children that start a helper
  MaxChunks, \* MaxChunks[s]: bound on the chunks tree s writes to its stdout
  MaxReloads \* bound on document reloads

ASSUME TargetAssumption == Target \in [Write -> Spawn]
ASSUME PipedAssumption == Piped \subseteq Spawn
ASSUME ForkingAssumption == Forking \subseteq Spawn
ASSUME BoundAssumption == MaxChunks \in [Spawn -> Nat] /\ MaxReloads \in Nat

VARIABLES
              \* The document.
  promise,    \* where each spawn promise stands
  live,       \* liveProcesses
  listening,  \* children whose listeners are installed
  stdinOpen,  \* handles whose closeStdin() has not been called
  written,    \* where each write promise stands
  micro,      \* microtasks the last frame queued
  heard,      \* chunks delivered to the listeners of each child
  exited,     \* children whose exit has been delivered
              \* process.rs: statics.
  generation, \* GENERATION
  procs,      \* PROCESSES
  events,     \* EVENTS
              \* process.rs: dispose_all() on the UI thread.
  ui,         \* what the UI thread is doing
  doomed,     \* entries dispose_all has taken and not yet killed
              \* process.rs: threads.
  gen,        \* the generation a launch was made in
  sup,        \* supervisor threads
  sender,     \* entries that hold the sending end of a stdin queue
  stdin,      \* stdin queues
  writer,     \* stdin threads
  reader,     \* output threads
  got,        \* chunks read so far
              \* The operating system.
  child,      \* root processes
  desc,       \* the descendant in each child's group, if any
  escaped,    \* children whose descendant left the group, holding the pipes
  made,       \* chunks written to stdout so far
  recycled,   \* children whose process group id now names somebody else's
  struck      \* children whose group was signalled when it was somebody else's

jsVars     == <<promise, live, listening, stdinOpen, written, micro, heard, exited>>
uiVars     == <<ui, doomed, generation>>
stdinVars  == <<sender, stdin, writer>>
outVars    == <<reader, got>>
treeVars   == <<child, desc, struck>>
osVars     == <<escaped, made, recycled>>

vars == <<jsVars, uiVars, procs, events, gen, sup, stdinVars, outVars,
          treeVars, osVars>>

-----------------------------------------------------------------------------

Event ==
  [type : {"spawned"}, of : Spawn, ok : BOOLEAN] \cup
  [type : {"written"}, of : Write, ok : BOOLEAN] \cup
  [type : {"output"}, of : Spawn, n : Nat] \cup
  [type : {"exit"}, of : Spawn]

Spawned(s, ok) == [type |-> "spawned", of |-> s, ok |-> ok]
Written(w, ok) == [type |-> "written", of |-> w, ok |-> ok]
Output(s, n)   == [type |-> "output", of |-> s, n |-> n]
Exited(s)      == [type |-> "exit", of |-> s]

PromiseState == {"none", "pending", "resolved", "rejected", "orphan"}
SupState == {"none", "launch", "register", "announce", "wait", "sweep", "join",
             "remove", "report", "done"}
ThreadState == {"none", "running", "done"}
ChildState == {"none", "running", "zombie", "reaped"}

\* A descendant keeps the pipes it was handed, or has let go of them.
HelperState == {"none", "piped", "quiet"}

\* Something still runs that holds the child's pipes.
PipeHeld(s) == child[s] = "running" \/ desc[s] = "piped" \/ s \in escaped

Init ==
  /\ promise = [s \in Spawn |-> "none"]
  /\ live = {}
  /\ listening = {}
  /\ stdinOpen = {}
  /\ written = [w \in Write |-> "none"]
  /\ micro = <<>>
  /\ heard = [s \in Spawn |-> <<>>]
  /\ exited = {}
  /\ generation = 0
  /\ procs = {}
  /\ events = <<>>
  /\ ui = "task"
  /\ doomed = {}
  /\ gen = [s \in Spawn |-> 0]
  /\ sup = [s \in Spawn |-> "none"]
  /\ sender = {}
  /\ stdin = [s \in Spawn |-> <<>>]
  /\ writer = [s \in Spawn |-> "none"]
  /\ reader = [s \in Spawn |-> "none"]
  /\ got = [s \in Spawn |-> 0]
  /\ child = [s \in Spawn |-> "none"]
  /\ desc = [s \in Spawn |-> "none"]
  /\ escaped = {}
  /\ made = [s \in Spawn |-> 0]
  /\ recycled = {}
  /\ struck = {}

-----------------------------------------------------------------------------
(* Signals                                                                 *)

\* killpg(group, SIGKILL), on a set of children at once: the root and every
\* descendant that stayed in the group end, or, where the id has passed to
\* somebody else, they are struck.
Killed(S) ==
  /\ child' = [s \in Spawn |->
       IF s \in S \ recycled /\ child[s] = "running" THEN "zombie" ELSE child[s]]
  /\ desc' = [s \in Spawn |-> IF s \in S \ recycled THEN "none" ELSE desc[s]]
  /\ struck' = struck \cup (S \cap recycled)

\* killpg(group, SIGTERM): a tree may ignore it, or end later by itself.
Asked(s) ==
  /\ struck' = struck \cup ({s} \cap recycled)
  /\ UNCHANGED <<child, desc>>

-----------------------------------------------------------------------------
(* The document: process.spawn and the members of a handle                 *)

\* spawn(): the thread is started with the generation of this moment.
CallSpawn(s) ==
  /\ ui = "task"
  /\ promise[s] = "none"
  /\ promise' = [promise EXCEPT ![s] = "pending"]
  /\ gen' = [gen EXCEPT ![s] = generation]
  /\ sup' = [sup EXCEPT ![s] = "launch"]
  /\ UNCHANGED <<live, listening, stdinOpen, written, micro, heard, exited,
                 uiVars, procs, events, stdinVars, outVars, treeVars, osVars>>

\* A handle whose exit has not been delivered.  write() is refused, by an
\* exception, once the registry has forgotten the child.
CallWrite(w) ==
  LET s == Target[w]
  IN /\ ui = "task"
     /\ written[w] = "none"
     /\ s \in live \cap stdinOpen
     /\ IF s \in procs \cap sender
        THEN /\ written' = [written EXCEPT ![w] = "pending"]
             /\ stdin' = [stdin EXCEPT ![s] = Append(@, w)]
        ELSE /\ written' = [written EXCEPT ![w] = "rejected"]
             /\ UNCHANGED stdin
     /\ UNCHANGED <<promise, live, listening, stdinOpen, micro, heard, exited,
                    uiVars, procs, events, gen, sup, sender, writer, outVars,
                    treeVars, osVars>>

CallCloseStdin(s) ==
  /\ ui = "task"
  /\ s \in live \cap stdinOpen
  /\ stdinOpen' = stdinOpen \ {s}
  /\ sender' = IF s \in procs THEN sender \ {s} ELSE sender
  /\ UNCHANGED <<promise, live, listening, written, micro, heard, exited, uiVars,
                 procs, events, gen, sup, stdin, writer, outVars, treeVars,
                 osVars>>

CallKill(s, force) ==
  /\ ui = "task"
  /\ s \in live \cap procs
  /\ IF force THEN Killed({s}) ELSE Asked(s)
  /\ UNCHANGED <<jsVars, uiVars, procs, events, gen, sup, stdinVars, outVars,
                 osVars>>

-----------------------------------------------------------------------------
(* The frame turn: settleProcesses and the microtasks it queues            *)

\* The answers to commands in a batch of events.
Answered(batch, type, ok) ==
  {batch[i].of : i \in {j \in DOMAIN batch : batch[j].type = type /\ batch[j].ok = ok}}

\* Seeded bug: an answer that belongs to no promise of this document still
\* builds its handle.
SettleForeign ==
  LET begun  == Answered(events, "spawned", TRUE)
      failed == Answered(events, "spawned", FALSE)
      sent   == Answered(events, "written", TRUE)
      lost   == Answered(events, "written", FALSE)
  IN /\ promise' = [s \in Spawn |->
          IF s \in begun THEN "resolved"
          ELSE IF s \in failed THEN "rejected" ELSE promise[s]]
     /\ live' = live \cup begun
     /\ stdinOpen' = stdinOpen \cup (begun \cap Piped)
     /\ written' = [w \in Write |->
          IF w \in sent THEN "resolved" ELSE IF w \in lost THEN "rejected" ELSE written[w]]
     /\ micro' = events

\* Answers settle their promise at once, and a handle is made as its spawn
\* settles; the reactions of promises, output and exits are microtasks, in the
\* order of the queue.  An answer without a promise is stale.
Settle ==
  LET pending == {s \in Spawn : promise[s] = "pending"}
      waiting == {w \in Write : written[w] = "pending"}
      begun   == Answered(events, "spawned", TRUE) \cap pending
      failed  == Answered(events, "spawned", FALSE) \cap pending
      sent    == Answered(events, "written", TRUE) \cap waiting
      lost    == Answered(events, "written", FALSE) \cap waiting
  IN /\ promise' = [s \in Spawn |->
          IF s \in begun THEN "resolved"
          ELSE IF s \in failed THEN "rejected" ELSE promise[s]]
     /\ live' = live \cup begun
     /\ stdinOpen' = stdinOpen \cup (begun \cap Piped)
     /\ written' = [w \in Write |->
          IF w \in sent THEN "resolved" ELSE IF w \in lost THEN "rejected" ELSE written[w]]
     /\ micro' = events

\* take() drains EVENTS; a new turn begins when the last one's microtasks ran.
Frame ==
  /\ ui = "task"
  /\ micro = <<>>
  /\ events # <<>>
  /\ Settle
  /\ events' = <<>>
  /\ UNCHANGED <<listening, heard, exited, uiVars, procs, gen, sup, stdinVars,
                 outVars, treeVars, osVars>>

\* The reaction of `await spawn()` installs the listeners; a chunk without
\* listeners is lost, and an event for a child that is no longer live is dropped.
Microtask ==
  /\ ui = "task"
  /\ micro # <<>>
  /\ LET e == Head(micro)
     IN /\ listening' = IF e.type = "spawned" /\ e.of \in live
                         THEN listening \cup {e.of} ELSE listening
        /\ heard' = IF e.type = "output" /\ e.of \in live \cap listening
                    THEN [heard EXCEPT ![e.of] = Append(@, e.n)] ELSE heard
        /\ IF e.type = "exit" /\ e.of \in live
           THEN live' = live \ {e.of} /\ exited' = exited \cup {e.of}
           ELSE UNCHANGED <<live, exited>>
  /\ micro' = Tail(micro)
  /\ UNCHANGED <<promise, stdinOpen, written, uiVars, procs, events, gen, sup,
                 stdinVars, outVars, treeVars, osVars>>

-----------------------------------------------------------------------------
(* A reload: disposeProcesses, dispose_all                                 *)

\* Under the lock: the generation ends and every entry is taken.  The document's
\* promises and handles go with it.
DisposeTake ==
  /\ ui = "task"
  /\ generation < MaxReloads
  /\ generation' = generation + 1
  /\ doomed' = procs
  /\ procs' = {}
  /\ ui' = "kill"
  /\ live' = {}
  /\ promise' = [s \in Spawn |-> IF promise[s] = "pending" THEN "orphan" ELSE promise[s]]
  /\ written' = [w \in Write |-> IF written[w] = "pending" THEN "orphan" ELSE written[w]]
  /\ UNCHANGED <<listening, stdinOpen, micro, heard, exited, events, gen, sup,
                 stdinVars, outVars, treeVars, osVars>>

DisposeKill(s) ==
  /\ ui = "kill"
  /\ s \in doomed
  /\ Killed({s})
  /\ doomed' = doomed \ {s}
  /\ UNCHANGED <<jsVars, ui, generation, procs, events, gen, sup, stdinVars,
                 outVars, osVars>>

\* The queue is emptied; then the taken entries are dropped, and with them the
\* sending ends of their stdin queues.
DisposeClear ==
  /\ ui = "kill"
  /\ doomed = {}
  /\ events' = <<>>
  /\ sender' = sender \cap procs
  /\ ui' = "task"
  /\ UNCHANGED <<jsVars, doomed, generation, procs, gen, sup, stdin, writer,
                 outVars, treeVars, osVars>>

-----------------------------------------------------------------------------
(* The supervisor thread of child s: spawn's closure, launch, supervise    *)

Goes(s, from, to) == sup[s] = from /\ sup' = [sup EXCEPT ![s] = to]

Launch(s) ==
  /\ Goes(s, "launch", "register")
  /\ child' = [child EXCEPT ![s] = "running"]
  /\ UNCHANGED <<jsVars, uiVars, procs, events, gen, stdinVars, outVars, desc,
                 struck, osVars>>

LaunchFails(s) ==
  /\ Goes(s, "launch", "done")
  /\ events' = Append(events, Spawned(s, FALSE))
  /\ UNCHANGED <<jsVars, uiVars, procs, gen, stdinVars, outVars, treeVars,
                 osVars>>

\* A stdin that is a pipe gets a queue and a thread.
Feed(s) ==
  IF s \in Piped
  THEN /\ sender' = sender \cup {s}
       /\ writer' = [writer EXCEPT ![s] = "running"]
  ELSE UNCHANGED <<sender, writer>>

\* Under the lock: the entry is made before the answer is queued.
Register(s) ==
  /\ Goes(s, "register", "announce")
  /\ gen[s] = generation
  /\ procs' = procs \cup {s}
  /\ Feed(s)
  /\ UNCHANGED <<jsVars, uiVars, events, gen, stdin, outVars, treeVars, osVars>>

\* Under the lock: a reload came first.  The tree is killed, the root reaped.
RegisterStale(s) ==
  /\ Goes(s, "register", "done")
  /\ gen[s] # generation
  /\ child' = [child EXCEPT ![s] = "reaped"]
  /\ desc' = [desc EXCEPT ![s] = "none"]
  /\ UNCHANGED <<jsVars, uiVars, procs, events, gen, stdinVars, outVars, struck,
                 osVars>>

Announce(s) ==
  /\ Goes(s, "announce", "wait")
  /\ events' = Append(events, Spawned(s, TRUE))
  /\ reader' = [reader EXCEPT ![s] = "running"]
  /\ UNCHANGED <<jsVars, uiVars, procs, gen, stdinVars, got, treeVars, osVars>>

\* child.wait() reaps the root.
Wait(s) ==
  /\ Goes(s, "wait", "sweep")
  /\ child[s] = "zombie"
  /\ child' = [child EXCEPT ![s] = "reaped"]
  /\ UNCHANGED <<jsVars, uiVars, procs, events, gen, stdinVars, outVars, desc,
                 struck, osVars>>

\* Seeded bug: descendants are left until the readers have been joined.
SweepNothing(s) ==
  /\ Goes(s, "sweep", "join")
  /\ UNCHANGED <<jsVars, uiVars, procs, events, gen, stdinVars, outVars,
                 treeVars, osVars>>

\* Descendants that hold the output pipes are ended before the readers are
\* waited for.
Sweep(s) ==
  /\ Goes(s, "sweep", "join")
  /\ Killed({s} \cap procs)
  /\ UNCHANGED <<jsVars, uiVars, procs, events, gen, stdinVars, outVars, osVars>>

\* Seeded bug: the exit does not wait for the last of the output.
JoinNobody(s) ==
  /\ Goes(s, "join", "remove")
  /\ UNCHANGED <<jsVars, uiVars, procs, events, gen, stdinVars, outVars,
                 treeVars, osVars>>

Join(s) ==
  /\ Goes(s, "join", "remove")
  /\ reader[s] = "done"
  /\ UNCHANGED <<jsVars, uiVars, procs, events, gen, stdinVars, outVars,
                 treeVars, osVars>>

\* Under the lock: the entry goes, and with it the sending end of stdin.
RemoveEntry(s) ==
  /\ Goes(s, "remove", "report")
  /\ Killed({s} \cap procs)
  /\ procs' = procs \ {s}
  /\ sender' = IF s \in procs THEN sender \ {s} ELSE sender
  /\ UNCHANGED <<jsVars, uiVars, events, gen, stdin, writer, outVars, osVars>>

Report(s) ==
  /\ Goes(s, "report", "done")
  /\ events' = Append(events, Exited(s))
  /\ UNCHANGED <<jsVars, uiVars, procs, gen, stdinVars, outVars, treeVars,
                 osVars>>

-----------------------------------------------------------------------------
(* The output and stdin threads of child s: read_output, write_stdin       *)

ReadChunk(s) ==
  /\ reader[s] = "running"
  /\ got[s] < made[s]
  /\ got' = [got EXCEPT ![s] = @ + 1]
  /\ events' = Append(events, Output(s, got[s] + 1))
  /\ UNCHANGED <<jsVars, uiVars, procs, gen, sup, stdinVars, reader, treeVars,
                 osVars>>

\* End of file: everything is read and nobody can write any more.
ReadEnd(s) ==
  /\ reader[s] = "running"
  /\ got[s] = made[s]
  /\ ~PipeHeld(s)
  /\ reader' = [reader EXCEPT ![s] = "done"]
  /\ UNCHANGED <<jsVars, uiVars, procs, events, gen, sup, stdinVars, got,
                 treeVars, osVars>>

WriterAnswers(s, ok) ==
  /\ writer[s] = "running"
  /\ stdin[s] # <<>>
  /\ events' = Append(events, Written(Head(stdin[s]), ok))
  /\ stdin' = [stdin EXCEPT ![s] = Tail(@)]
  /\ UNCHANGED <<jsVars, uiVars, procs, gen, sup, sender, writer, outVars,
                 treeVars, osVars>>

\* write_all returns when the tree has taken the bytes, or has closed its end.
WriterWrites(s, ok) == PipeHeld(s) /\ WriterAnswers(s, ok)

\* Nobody has the reading end: the write fails.
WriterFails(s) == ~PipeHeld(s) /\ WriterAnswers(s, FALSE)

\* recv() fails: the queue is empty and its sender gone.
WriterEnds(s) ==
  /\ writer[s] = "running"
  /\ stdin[s] = <<>>
  /\ s \notin sender
  /\ writer' = [writer EXCEPT ![s] = "done"]
  /\ UNCHANGED <<jsVars, uiVars, procs, events, gen, sup, sender, stdin, outVars,
                 treeVars, osVars>>

-----------------------------------------------------------------------------
(* The trees, which do as they please                                      *)

Produce(s) ==
  /\ PipeHeld(s)
  /\ made[s] < MaxChunks[s]
  /\ made' = [made EXCEPT ![s] = @ + 1]
  /\ UNCHANGED <<jsVars, uiVars, procs, events, gen, sup, stdinVars, outVars,
                 treeVars, escaped, recycled>>

\* The root starts a helper, which keeps the pipes or redirects its output.
Fork(s) ==
  /\ s \in Forking
  /\ child[s] = "running"
  /\ desc[s] = "none"
  /\ \E h \in {"piped", "quiet"} : desc' = [desc EXCEPT ![s] = h]
  /\ UNCHANGED <<jsVars, uiVars, procs, events, gen, sup, stdinVars, outVars,
                 child, struck, osVars>>

\* A helper with the pipes starts a session of its own.
Detach(s) ==
  /\ desc[s] = "piped"
  /\ desc' = [desc EXCEPT ![s] = "none"]
  /\ escaped' = escaped \cup {s}
  /\ UNCHANGED <<jsVars, uiVars, procs, events, gen, sup, stdinVars, outVars,
                 child, struck, made, recycled>>

RootEnds(s) ==
  /\ child[s] = "running"
  /\ child' = [child EXCEPT ![s] = "zombie"]
  /\ UNCHANGED <<jsVars, uiVars, procs, events, gen, sup, stdinVars, outVars,
                 desc, struck, osVars>>

HelperEnds(s) ==
  /\ \/ desc[s] # "none" /\ desc' = [desc EXCEPT ![s] = "none"] /\ UNCHANGED escaped
     \/ s \in escaped /\ escaped' = escaped \ {s} /\ UNCHANGED desc
  /\ UNCHANGED <<jsVars, uiVars, procs, events, gen, sup, stdinVars, outVars,
                 child, struck, made, recycled>>

\* The kernel gives the id of a group that is gone to somebody else.  That takes
\* a while to come round: only a join that waits for an escaped helper is long
\* enough.
Recycle(s) ==
  /\ sup[s] = "join"
  /\ s \in escaped \ recycled
  /\ child[s] = "reaped"
  /\ desc[s] = "none"
  /\ recycled' = recycled \cup {s}
  /\ UNCHANGED <<jsVars, uiVars, procs, events, gen, sup, stdinVars, outVars,
                 treeVars, escaped, made>>

-----------------------------------------------------------------------------

App ==
  \/ \E s \in Spawn :
       CallSpawn(s) \/ CallCloseStdin(s) \/ \E force \in BOOLEAN : CallKill(s, force)
  \/ \E w \in Write : CallWrite(w)

Turn == Frame \/ Microtask \/ (\E s \in Spawn : DisposeKill(s)) \/ DisposeClear

Supervise(s) ==
  \/ Launch(s)
  \/ LaunchFails(s)
  \/ Register(s)
  \/ RegisterStale(s)
  \/ Announce(s)
  \/ Wait(s)
  \/ Sweep(s)
  \/ Join(s)
  \/ RemoveEntry(s)
  \/ Report(s)

ReadOutput(s) == ReadChunk(s) \/ ReadEnd(s)

WriteStdin(s) ==
  \/ \E ok \in BOOLEAN : WriterWrites(s, ok)
  \/ WriterFails(s)
  \/ WriterEnds(s)

Tree(s) ==
  \/ Produce(s)
  \/ Fork(s)
  \/ Detach(s)
  \/ RootEnds(s)
  \/ HelperEnds(s)
  \/ Recycle(s)

Next ==
  \/ App
  \/ Turn
  \/ DisposeTake
  \/ \E s \in Spawn :
       Supervise(s) \/ ReadOutput(s) \/ WriteStdin(s) \/ Tree(s)

Spec == Init /\ [][Next]_vars

\* The frame loop turns while a child is live or an answer is outstanding, and
\* the threads are scheduled.  The trees owe nothing: they need not read, write
\* or end, and a write to a tree that does not read may block.
FairSpec ==
  /\ Spec
  /\ WF_vars(Turn)
  /\ \A s \in Spawn :
       /\ WF_vars(Supervise(s))
       /\ WF_vars(ReadOutput(s))
       /\ WF_vars(WriterFails(s))

-----------------------------------------------------------------------------
(* Properties                                                              *)

\* Every variable keeps its type, and nobody reads more than was written.
TypeOK ==
  /\ promise \in [Spawn -> PromiseState]
  /\ live \subseteq Spawn
  /\ listening \subseteq Spawn
  /\ stdinOpen \subseteq Spawn
  /\ written \in [Write -> PromiseState]
  /\ micro \in Seq(Event)
  /\ heard \in [Spawn -> Seq(Nat)]
  /\ exited \subseteq Spawn
  /\ generation \in 0 .. MaxReloads
  /\ procs \subseteq Spawn
  /\ events \in Seq(Event)
  /\ ui \in {"task", "kill"}
  /\ doomed \subseteq Spawn
  /\ gen \in [Spawn -> 0 .. MaxReloads]
  /\ sup \in [Spawn -> SupState]
  /\ sender \subseteq Spawn
  /\ stdin \in [Spawn -> Seq(Write)]
  /\ writer \in [Spawn -> ThreadState]
  /\ reader \in [Spawn -> ThreadState]
  /\ got \in [Spawn -> Nat]
  /\ child \in [Spawn -> ChildState]
  /\ desc \in [Spawn -> HelperState]
  /\ escaped \subseteq Spawn
  /\ made \in [Spawn -> Nat]
  /\ \A s \in Spawn : got[s] <= made[s] /\ made[s] <= MaxChunks[s]
  /\ recycled \subseteq Spawn
  /\ struck \subseteq Spawn

\* The exit is the last thing a handle hears of its child, after every chunk the
\* tree ever wrote and in the order it wrote them, although a supervisor, a
\* reader, the frame turn and the microtasks each have a hand in it (process.rs:
\* the join before the exit; native.js: delivery in microtasks).
ExitIsLast ==
  \A s \in exited : heard[s] = [n \in 1 .. made[s] |-> n] /\ ~PipeHeld(s)

\* A handle that says its child is running has it in the registry, so a write or
\* a kill reaches it, until the supervisor has ended the child (process.rs:
\* registered before the answer is queued).
HandleIsRegistered ==
  \A s \in live : s \in procs \/ sup[s] \in {"report", "done"}

\* A document only ever has its own children: what a reload overtakes at any
\* point of its launch is neither registered nor handed to the new document
\* (process.rs: GENERATION; command_channel.js: a stale answer settles nothing).
OnlyOwnChildren == \A s \in procs \cup live : gen[s] = generation

\* A helper that stayed in its tool's group does not outlive what the
\* application knows of the tool (process.rs:16-20).
TreeDiesWithRoot == \A s \in exited : child[s] = "reaped" /\ desc[s] = "none"

\* Of a document's trees: none is another's, and none outlives its root.
TreesAreOwn == OnlyOwnChildren /\ TreeDiesWithRoot

\* A tool of an old document is ended, wherever the reload found it.
OldToolsEnd ==
  \A s \in Spawn :
    (gen[s] # generation /\ child[s] = "running") ~> (child[s] # "running")

\* The end of a child is reported to a document that still has its handle,
\* unless something that escaped the tree holds its output open.
ExitIsReported ==
  \A s \in Spawn :
    (s \in live /\ child[s] # "running") ~> (s \notin live \/ s \in escaped)

\* A write to a tree that has gone does not stay pending.
WritesSettle ==
  \A w \in Write :
    (written[w] = "pending" /\ ~PipeHeld(Target[w])) ~> (written[w] # "pending")

\* Every tool comes to an end its document hears of, and takes its writes with it.
ChildrenSettle == OldToolsEnd /\ ExitIsReported /\ WritesSettle

\* process.rs:271-272: "A child that has already ended is left alone": no signal
\* goes to a process group that is no longer the child's.
EndedLeftAlone == struck = {}

=============================================================================
