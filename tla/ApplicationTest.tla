--------------------------- MODULE ApplicationTest ----------------------------
(***************************************************************************)
(* A UI test and the application it drives: the test's launcher writes one *)
(* command a line to the application's process, a loop in that process     *)
(* takes them one at a time and answers each by its id, and frames are     *)
(* turned meanwhile.  Requests time out, the process may die, and answers  *)
(* may be on their way when either happens.                                *)
(*                                                                         *)
(* What a command asks of the document is left out: it is performed, or it *)
(* throws.  A frame may throw too: in a settle() the request fails, in the *)
(* interval the process ends.  A signal stops the process at once; what it *)
(* had written can still be read.  Screenshots and evidence are requests   *)
(* like the others.                                                        *)
(***************************************************************************)
EXTENDS Naturals, Sequences

CONSTANT MaxTestRequests   \* bound: the requests of the test
ASSUME TestAssumption == MaxTestRequests \in Nat

VARIABLES
    requests,  \* id -> its command and how its promise stands
    launch,    \* the launcher: "starting", "ready", "failed"; closed; exited
    process,   \* "starting", "running", "serving", "leaving", "dead"
    loop,      \* the request the loop is in, 0 for none
    toHost, fromHost,
    performed, \* history: the requests performed, in order
    lateness   \* history: how many had been performed at the first timeout

wires == <<toHost, fromHost>>
testVars == <<requests, launch, process, loop, wires, performed, lateness>>

OnTime == MaxTestRequests + 1

TestInit ==
    /\ requests = <<>>
    /\ launch = [at |-> "starting", closed |-> FALSE, exited |-> FALSE]
    /\ process = "starting" /\ loop = 0 /\ toHost = <<>> /\ fromHost = <<>>
    /\ performed = <<>> /\ lateness = OnTime

Waiting == {i \in DOMAIN requests : requests[i].is = "waiting"}
Settled(ids, is) ==
    [i \in DOMAIN requests |-> IF i \in ids THEN [requests[i] EXCEPT !.is = is] ELSE requests[i]]
\* fail: every promise that waits is rejected.
RejectAll == requests' = Settled(Waiting, "rejected")

(***************************************************************************)
(* The process: application-test-loop.mjs over the native session          *)
(***************************************************************************)
Respond(message) == fromHost' = Append(fromHost, message)

\* startApplicationTest: the document is loaded and its scripts have run.
StartApplicationTest ==
    /\ process = "starting" /\ process' = "running"
    /\ UNCHANGED <<requests, launch, loop, wires, performed, lateness>>
\* The first settle() is over: ready is the first line.
RespondReady ==
    /\ process = "running" /\ loop = 0 /\ Respond([id |-> 0, ok |-> TRUE])
    /\ process' = "serving"
    /\ UNCHANGED <<requests, launch, loop, toHost, performed, lateness>>

\* A line is taken when the one before it is answered.
TakeLine ==
    /\ process = "serving" /\ loop = 0 /\ toHost # <<>>
    /\ loop' = Head(toHost) /\ toHost' = Tail(toHost)
    /\ UNCHANGED <<requests, launch, process, fromHost, performed, lateness>>

\* One answer for one line, whether it was performed or threw
Answer(ok) ==
    /\ process = "serving" /\ loop # 0
    /\ Respond([id |-> loop, ok |-> ok]) /\ loop' = 0
    /\ performed' = Append(performed, loop)
    /\ UNCHANGED <<requests, launch, toHost, lateness>>

\* TestSession::command: a query, an expression, an input or a picture
ApplicationTestCommand ==
    /\ loop # 0 /\ requests[loop].command = "step"
    /\ \E ok \in BOOLEAN : Answer(ok)
    /\ UNCHANGED process
\* settle: the frames of a while, the last of which may have thrown
SettleAll ==
    /\ loop # 0 /\ requests[loop].command = "settle"
    /\ \E ok \in BOOLEAN : Answer(ok)
    /\ UNCHANGED process
\* A close leaves the loop once it is answered.
CloseCommand ==
    /\ loop # 0 /\ requests[loop].command = "close" /\ Answer(TRUE) /\ process' = "leaving"

\* The standard input ends: no line will come.
LinesEnd ==
    /\ process = "serving" /\ loop = 0 /\ launch.closed /\ toHost = <<>>
    /\ process' = "leaving"
    /\ UNCHANGED <<requests, launch, loop, wires, performed, lateness>>
\* closeApplicationTest, and the end of the process
LeaveTest ==
    /\ process = "leaving" /\ process' = "dead"
    /\ UNCHANGED <<requests, launch, loop, wires, performed, lateness>>
\* A load that fails, a frame of the interval that throws, a crash in the middle of a
\* command
Die ==
    /\ process # "dead" /\ process' = "dead"
    /\ performed' \in {performed} \cup {Append(performed, i) : i \in {loop} \ {0}}
    /\ UNCHANGED <<requests, launch, loop, wires, lateness>>

(***************************************************************************)
(* The launcher: test.mjs                                                  *)
(***************************************************************************)
\* A line of the standard output: ready, or the answer of a request that still waits.
ReadLine ==
    /\ fromHost # <<>> /\ ~launch.exited /\ fromHost' = Tail(fromHost)
    /\ LET m == Head(fromHost)
       IN IF m.id = 0 THEN
              /\ launch' = [launch EXCEPT !.at = IF @ = "starting" THEN "ready" ELSE @]
              /\ UNCHANGED requests
          ELSE /\ requests' = Settled({m.id} \cap Waiting,
                                      IF m.ok THEN "resolved" ELSE "rejected")
               /\ UNCHANGED launch
    /\ UNCHANGED <<process, loop, toHost, performed, lateness>>

\* The process is gone and all it wrote is read.
HostExited ==
    /\ process = "dead" /\ fromHost = <<>> /\ ~launch.exited
    /\ launch' = [launch EXCEPT !.exited = TRUE, !.at = IF @ = "starting" THEN "failed" ELSE @]
    /\ RejectAll
    /\ UNCHANGED <<process, loop, wires, performed, lateness>>
\* A write to a process that is gone.
BrokenPipe ==
    /\ process = "dead" /\ toHost # <<>> /\ ~launch.exited /\ RejectAll /\ toHost' = <<>>
    /\ launch' = [launch EXCEPT !.at = IF @ = "starting" THEN "failed" ELSE @]
    /\ UNCHANGED <<process, loop, fromHost, performed, lateness>>

Kill == process' = "dead"

\* startupTimer
LaunchTimesOut ==
    /\ launch.at = "starting" /\ launch' = [launch EXCEPT !.at = "failed"] /\ Kill
    /\ UNCHANGED <<requests, loop, wires, performed, lateness>>

\* request
Request(command) ==
    /\ launch.at = "ready" /\ Len(requests) < MaxTestRequests
    /\ LET over == launch.closed \/ launch.exited
       IN /\ requests' = Append(requests, [command |-> command,
                                           is |-> IF over THEN "rejected" ELSE "waiting"])
          /\ toHost' = IF over THEN toHost ELSE Append(toHost, Len(requests) + 1)
    /\ UNCHANGED <<launch, process, loop, fromHost, performed, lateness>>

\* (a mutant: the process goes on)
TimesOutOnly(id) ==
    /\ id \in Waiting /\ requests' = Settled({id}, "late") /\ UNCHANGED process
    /\ lateness' = IF lateness = OnTime THEN Len(performed) ELSE lateness
    /\ UNCHANGED <<launch, loop, wires, performed>>

\* A command that is late may still change the application: the process is ended.
TimesOut(id) ==
    /\ id \in Waiting /\ requests' = Settled({id}, "late") /\ Kill
    /\ lateness' = IF lateness = OnTime THEN Len(performed) ELSE lateness
    /\ UNCHANGED <<launch, loop, wires, performed>>

\* close(), after its request: no more requests, and a second for the process to end.
Close ==
    /\ \E id \in DOMAIN requests : requests[id].command = "close" /\ id \notin Waiting
    /\ ~launch.closed /\ launch' = [launch EXCEPT !.closed = TRUE]
    /\ UNCHANGED <<requests, process, loop, wires, performed, lateness>>
CloseTimesOut ==
    /\ launch.closed /\ process # "dead" /\ Kill
    /\ UNCHANGED <<requests, launch, loop, wires, performed, lateness>>

TestNext ==
    \/ StartApplicationTest \/ RespondReady \/ TakeLine \/ LinesEnd \/ LeaveTest \/ Die
    \/ ApplicationTestCommand \/ SettleAll \/ CloseCommand
    \/ ReadLine \/ HostExited \/ BrokenPipe \/ LaunchTimesOut \/ Close \/ CloseTimesOut
    \/ \E command \in {"step", "settle", "close"} : Request(command)
    \/ \E id \in Waiting : TimesOut(id)

TestSpec == TestInit /\ [][TestNext]_testVars

-----------------------------------------------------------------------------
\* What a test may conclude from its promises (test.mjs:53): a request that resolved
\* was performed, none is performed twice or out of the order they were made in,
\* nothing is performed after one has timed out, and none waits for a process that
\* has exited.
StepsAreTrue ==
    /\ \A i \in DOMAIN requests :
            requests[i].is = "resolved" => \E n \in DOMAIN performed : performed[n] = i
    /\ \A n, m \in DOMAIN performed : n < m => performed[n] < performed[m]
    /\ lateness # OnTime => Len(performed) = lateness
    /\ launch.exited => Waiting = {}
=============================================================================
