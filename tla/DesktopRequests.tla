--------------------------- MODULE DesktopRequests ----------------------------
(***************************************************************************)
(* Dialogs, and what is handed to the desktop: a URL, a path to open, a    *)
(* path to reveal.                                                         *)
(*                                                                         *)
(* Each request runs on a thread of its own, which queues what it answers  *)
(* and then counts itself out; the frame loop rests when it finds neither  *)
(* a thread nor an answer, and nothing wakes it but the person.  On Linux  *)
(* and macOS the thread runs a helper (xdg-open, open) and drains what it  *)
(* says into a pipe; a Linux helper that has run for long enough is taken  *)
(* to be the application itself and left to a reaper.                      *)
(* A thread that cannot be started refuses the call and changes nothing.   *)
(*                                                                         *)
(* External: the dialogs, the helper and what Windows does with a target.  *)
(***************************************************************************)
EXTENDS Naturals, Sequences, FiniteSets, SequencesExt

CONSTANTS Tasks,        \* identifiers of requests
          PipeSize,     \* what a pipe holds
          MaxSaid,      \* bound: what a helper has to say
          MaxHelpers,   \* bound: helpers run
          MaxPages      \* bound: documents loaded

ASSUME DesktopAssumption == PipeSize \in Nat \ {0} /\ MaxSaid \in Nat
                            /\ MaxHelpers \in Nat /\ MaxPages \in Nat

Queues == {"dialog", "shell"}
Systems == {"linux", "macos", "windows"}

VARIABLES
    desktop,             \* the platform, known from the first request on
    loop,                \* "script", where the loop is in its question, or "rest"
    realmNo,             \* documents loaded so far
    underWay, completed, \* OPEN and COMPLETED of dialog.rs and shell.rs
    promised,            \* the document's commands: their promises are pending
    worker,              \* request -> its thread
    helper               \* request -> the process its thread runs

desktopVars == <<desktop, loop, realmNo, underWay, completed, promised, worker, helper>>

NoWorker == [at |-> "none", kind |-> "none", answer |-> "none"]
NoHelper == [state |-> "none", by |-> "nobody", owes |-> 0, pipe |-> 0, read |-> 0, code |-> 0]

DesktopInit ==
    /\ desktop = "none" /\ loop = "script" /\ realmNo = 1
    /\ underWay = [s \in Queues |-> 0] /\ completed = [s \in Queues |-> <<>>]
    /\ promised = {} /\ worker = [t \in Tasks |-> NoWorker]
    /\ helper = [t \in Tasks |-> NoHelper]

SurfaceOf(t) ==
    IF worker[t].kind \in {"one", "many", "button", "dialog"} THEN "dialog" ELSE "shell"

(***************************************************************************)
(* The document asks                                                       *)
(***************************************************************************)
\* What the document wants of each kind of dialog: a path, paths, or a button.
DialogKinds == [openFile |-> "one", saveFile |-> "one", openFolder |-> "one",
                openFiles |-> "many", openFolders |-> "many", message |-> "button"]

Options == [object : BOOLEAN, filters : BOOLEAN, level : BOOLEAN, buttons : BOOLEAN]

\* dialogOptions() and fileDialog(): a mistake in the options is an exception of the call.
Checked(kind, o) == o.object /\ (DialogKinds[kind] = "button" \/ o.filters)

\* The host refuses a level or a set of buttons it does not know.
KnownSpec(kind, o) == DialogKinds[kind] = "button" => o.level /\ o.buttons

\* No dialog without a desktop session to show it in, which Linux may lack.
Session(os, displayed) == os = "linux" => displayed

Schemes == {"http", "https", "mailto"}

\* What names a target: for a URL its scheme and what follows it, for a path its root.
Targets == [kind : {"url"}, scheme : Schemes \union {"file"},
            rest : {"//host", "host", "//", ""}]
           \union [kind : {"path", "reveal"}, absolute : BOOLEAN, nul : BOOLEAN]

\* external_url() of the host asks the web for "//" and a host, mailto for an address.
ExternalUrl(u) ==
    /\ u.scheme \in Schemes
    /\ IF u.scheme = "mailto" THEN u.rest # "" ELSE u.rest = "//host"

\* externalUrl() of the bootstrap parses first: a URL of the web needs no "//".
ExternalByParser(u) ==
    /\ u.scheme \in Schemes
    /\ IF u.scheme = "mailto" THEN u.rest # "" ELSE u.rest \in {"//host", "host"}

LocalPath(p) == p.absolute /\ ~p.nul

\* The bootstrap checks, and then the host.
ShellOperation(x) == IF x.kind = "url" THEN ExternalByParser(x) ELSE LocalPath(x)
Accepted(x) == IF x.kind = "url" THEN ExternalUrl(x) ELSE LocalPath(x)

\* run() of the channel: the promise of the request.
Promised(t) == promised' = promised \union {t}

FreshTasks == {t \in Tasks : loop = "script" /\ worker[t] = NoWorker}

\* The thread is counted in.
CountedIn(t, kind, s) ==
    /\ t \in FreshTasks
    /\ underWay' = [underWay EXCEPT ![s] = @ + 1]
    /\ worker' = [worker EXCEPT ![t] = [NoWorker EXCEPT !.at = "begin", !.kind = kind]]
    /\ UNCHANGED <<loop, realmNo, completed, helper>>

ShowDialog(t, kind, o, displayed, os) ==
    /\ Checked(kind, o) /\ KnownSpec(kind, o) /\ Session(os, displayed)
    /\ desktop \in {"none", os} /\ desktop' = os
    /\ CountedIn(t, DialogKinds[kind], "dialog") /\ Promised(t)

HandOver(t, x, os) ==
    /\ ShellOperation(x) /\ Accepted(x)
    /\ desktop \in {"none", os} /\ desktop' = os
    /\ CountedIn(t, x.kind, "shell") /\ Promised(t)

(***************************************************************************)
(* The thread of a request                                                 *)
(***************************************************************************)
threadVars == <<desktop, loop, realmNo, underWay, completed, promised>>

\* What remains of a request that is answered.
AnswersWith(t, answer) ==
    worker' = [worker EXCEPT ![t] = [at |-> "push", kind |-> SurfaceOf(t), answer |-> answer]]

\* pick(): a dismissed dialog leaves no paths; of a message, closing it is Cancel.
Picked(kind, n) == IF kind = "one" /\ n > 1 THEN 1 ELSE n
Pressed(n) == IF n = 0 THEN "cancel" ELSE "button"

\* one() and many(): no paths are told as null.
ToldAs(kind, n) == IF n = 0 THEN "null" ELSE IF kind = "one" THEN "path" ELSE "paths"

DialogCloses(t, n) ==
    /\ worker[t].at = "begin" /\ SurfaceOf(t) = "dialog"
    /\ LET kind == worker[t].kind
       IN AnswersWith(t, IF kind = "button" THEN Pressed(n) ELSE ToldAs(kind, Picked(kind, n)))
    /\ UNCHANGED <<threadVars, helper>>

\* exists(), on the thread.
Missing(t, failure) ==
    /\ worker[t].at = "begin" /\ worker[t].kind \in {"path", "reveal"} /\ AnswersWith(t, failure)
    /\ UNCHANGED <<threadVars, helper>>

\* The file manager on the session bus shows the item itself.
FileManagerShows(t) ==
    /\ worker[t].at = "begin" /\ desktop = "linux" /\ worker[t].kind = "reveal"
    /\ AnswersWith(t, "ok")
    /\ UNCHANGED <<threadVars, helper>>

\* ShellExecuteW: above 32 is success, below are codes.
ShellExecute(code) ==
    CASE code = 42 -> "ok"
      [] code \in {2, 3} -> "NotFound"
      [] code = 31 -> "NotSupported"
      [] OTHER -> "Operation"

ShowItem(resolved, shown) ==
    IF ~resolved THEN "NotFound" ELSE IF shown THEN "ok" ELSE "Operation"

\* Windows answers by itself.
WindowsAnswers(t, code, resolved, shown) ==
    /\ worker[t].at = "begin" /\ SurfaceOf(t) = "shell" /\ desktop = "windows"
    /\ AnswersWith(t, IF worker[t].kind = "reveal" THEN ShowItem(resolved, shown)
                 ELSE ShellExecute(code))
    /\ UNCHANGED <<threadVars, helper>>

\* A helper that is not installed, cannot be started, or whose pipe cannot be read
\* without blocking: killed, and waited for.
HelperRefused(t, answer) ==
    /\ worker[t].at = "begin" /\ SurfaceOf(t) = "shell" /\ desktop # "windows"
    /\ AnswersWith(t, answer)
    /\ UNCHANGED <<threadVars, helper>>

HelperRuns(t, says) ==
    /\ Cardinality({u \in Tasks : helper[u].state # "none"}) < MaxHelpers
    /\ worker[t].at = "begin" /\ SurfaceOf(t) = "shell" /\ desktop # "windows"
    /\ worker' = [worker EXCEPT ![t] = [NoWorker EXCEPT !.at = "drain", !.kind = "shell"]]
    /\ helper' = [helper EXCEPT ![t] = [NoHelper EXCEPT !.state = "running", !.by = "thread",
                                                        !.owes = says]]
    /\ UNCHANGED threadVars

\* drain_stderr() takes all the pipe holds.
DrainStderr(h) == [h EXCEPT !.read = @ + h.pipe, !.pipe = 0]

\* Waited for: of the helper only who did so is left, and what nobody has read.
WaitedFor(h) == [NoHelper EXCEPT !.state = "reaped", !.by = h.by, !.pipe = h.pipe]

DrainHelper(t) ==
    /\ worker[t].at = "drain" /\ worker' = [worker EXCEPT ![t].at = "try"]
    /\ helper' = [helper EXCEPT ![t] = DrainStderr(@)]
    /\ UNCHANGED threadVars

\* xdg-open tells by its code, open(1) by its code and by what it said.
XdgOpenOutcome(h) ==
    CASE h.code = 0 -> "ok"
      [] h.code = 2 -> "NotFound"
      [] h.code = 3 -> "NotSupported"
      [] OTHER -> "Operation"

OpenOutcome(h) == IF h.code = 0 THEN "ok" ELSE IF h.read > 0 THEN "NotSupported" ELSE "Operation"

Meaning(h) == IF desktop = "linux" THEN XdgOpenOutcome(h) ELSE OpenOutcome(h)

\* The bug looked for: what the helper said between the drain and its exit is left.
ReapedUndrained(t) ==
    /\ worker[t].at = "try" /\ helper[t].state = "exited"
    /\ helper' = [helper EXCEPT ![t] = WaitedFor(@)]
    /\ AnswersWith(t, Meaning(helper[t]))
    /\ UNCHANGED threadVars

\* try_wait() finds it gone: what it said since the last drain is read too.
Reaped(t) ==
    /\ worker[t].at = "try" /\ helper[t].state = "exited"
    /\ helper' = [helper EXCEPT ![t] = WaitedFor(DrainStderr(@))]
    /\ AnswersWith(t, Meaning(DrainStderr(helper[t])))
    /\ UNCHANGED threadVars

\* It runs on: asked again later, or, past the time a Linux helper is given, left to a
\* reaper, which may fail to start and then closes the pipe.
RunsOn(t, outlived, reaper) ==
    /\ worker[t].at = "try" /\ helper[t].state = "running"
    /\ IF outlived
       THEN /\ desktop = "linux" /\ AnswersWith(t, "ok")
            /\ helper' = [helper EXCEPT ![t] = IF reaper THEN [@ EXCEPT !.by = "reaper"]
                                              ELSE [NoHelper EXCEPT !.state = "running"]]
       ELSE ~reaper /\ worker' = [worker EXCEPT ![t].at = "drain"] /\ UNCHANGED helper
    /\ UNCHANGED threadVars

\* try_wait() fails.
HelperLost(t) ==
    /\ worker[t].at = "try" /\ AnswersWith(t, "Operation")
    /\ helper' = [helper EXCEPT ![t] = [NoHelper EXCEPT !.state = helper[t].state]]
    /\ UNCHANGED threadVars

\* The reaper's round: it drains, and then looks whether the helper is gone.
ReaperDrains(t) ==
    /\ helper[t].by = "reaper" /\ helper[t].state # "reaped"
    /\ helper' = [helper EXCEPT ![t] = [DrainStderr(@) EXCEPT !.by = "reaper tries"]]
    /\ UNCHANGED <<threadVars, worker>>

\* What the helper said in between is left in the pipe, which closes with the loop: at
\* its end, or where try_wait() fails.
ReaperTries(t, lost) ==
    /\ helper[t].by = "reaper tries" /\ helper[t].state # "reaped"
    /\ helper' = [helper EXCEPT ![t] =
                     IF lost THEN [NoHelper EXCEPT !.state = helper[t].state]
                     ELSE IF @.state = "exited" THEN WaitedFor(@)
                     ELSE [@ EXCEPT !.by = "reaper"]]
    /\ UNCHANGED <<threadVars, worker>>

\* The helper fills its pipe and waits for room; a closed pipe takes nothing.
HelperSays(t) ==
    /\ helper[t].state = "running" /\ helper[t].owes > 0 /\ helper[t].pipe < PipeSize
    /\ helper' = [helper EXCEPT ![t].owes = @ - 1, ![t].pipe = @ + 1]
    /\ UNCHANGED <<threadVars, worker>>

HelperExits(t, code) ==
    /\ helper[t].state = "running" /\ helper[t].owes = 0
    /\ helper' = [helper EXCEPT ![t].state = "exited", ![t].code = code]
    /\ UNCHANGED <<threadVars, worker>>

\* The bug looked for: the thread is counted out before its answer is queued.
CountedFirst(t) ==
    /\ worker[t].at \in {"push", "drop"}
    /\ LET s == SurfaceOf(t)
       IN IF worker[t].at = "push"
          THEN underWay' = [underWay EXCEPT ![s] = @ - 1] /\ UNCHANGED completed
          ELSE /\ completed' = [completed EXCEPT ![s] =
                                   Append(@, [id |-> t, value |-> worker[t].answer])]
               /\ UNCHANGED underWay
    /\ worker' = [worker EXCEPT ![t].at = IF @ = "push" THEN "drop" ELSE "done"]
    /\ UNCHANGED <<desktop, loop, realmNo, promised, helper>>

\* The answer is queued, and then the count drops.
QueuesAnswer(t) ==
    /\ worker[t].at \in {"push", "drop"}
    /\ LET s == SurfaceOf(t)
       IN IF worker[t].at = "push"
          THEN /\ completed' = [completed EXCEPT ![s] =
                                   Append(@, [id |-> t, value |-> worker[t].answer])]
               /\ UNCHANGED underWay
          ELSE underWay' = [underWay EXCEPT ![s] = @ - 1] /\ UNCHANGED completed
    /\ worker' = [worker EXCEPT ![t] = [at |-> IF @.at = "push" THEN "drop" ELSE "done",
                                    kind |-> @.kind, answer |-> "none"]]
    /\ UNCHANGED <<desktop, loop, realmNo, promised, helper>>

(***************************************************************************)
(* The frame loop                                                          *)
(***************************************************************************)
Mine(s) == {t \in promised : SurfaceOf(t) = s}

\* take() of the queues the document has commands for.
Taken == UNION {{c.id : c \in ToSet(completed[s])} : s \in {x \in Queues : Mine(x) # {}}}

\* settle(): an answer no command waits for is dropped.
SettleRequests ==
    /\ loop = "script" /\ Taken # {}
    /\ promised' = promised \ Taken
    /\ completed' = [s \in Queues |-> IF Mine(s) # {} THEN <<>> ELSE completed[s]]
    /\ UNCHANGED <<desktop, loop, realmNo, underWay, worker, helper>>

\* dispose() clears the channels; the new document has its own.
ReplacePage ==
    /\ loop = "script" /\ realmNo < MaxPages /\ realmNo' = realmNo + 1 /\ promised' = {}
    /\ UNCHANGED <<desktop, loop, underWay, completed, worker, helper>>

\* pending(), read in two steps for each surface; the commands of the shell count too.
AsksOn ==
    \/ loop = "script" /\ loop' = "dialogs open"
    \/ /\ loop = "dialogs open"
       /\ loop' = IF underWay["dialog"] > 0 THEN "script" ELSE "dialogs told"
    \/ /\ loop = "dialogs told"
       /\ loop' = IF completed["dialog"] # <<>> \/ Mine("shell") # {} THEN "script"
                  ELSE "shell open"
    \/ /\ loop = "shell open"
       /\ loop' = IF underWay["shell"] > 0 THEN "script" ELSE "shell told"
    \/ loop = "shell told" /\ loop' = IF completed["shell"] # <<>> THEN "script" ELSE "rest"

AskPending ==
    /\ AsksOn
    /\ UNCHANGED <<desktop, realmNo, underWay, completed, promised, worker, helper>>

WakeUp ==
    /\ loop = "rest" /\ loop' = "script"
    /\ UNCHANGED <<desktop, realmNo, underWay, completed, promised, worker, helper>>

DesktopNext ==
    \/ \E t \in FreshTasks, k \in {"openFile", "openFiles", "message"}, o \in Options,
          displayed \in BOOLEAN, os \in Systems : ShowDialog(t, k, o, displayed, os)
    \/ \E t \in FreshTasks, x \in Targets, os \in Systems : HandOver(t, x, os)
    \/ \E t \in Tasks, n \in 0..2 : DialogCloses(t, n)
    \/ \E t \in Tasks, a \in {"NotFound", "Operation"} : Missing(t, a)
    \/ \E t \in Tasks : FileManagerShows(t)
    \/ \E t \in Tasks, code \in {2, 5, 31, 42}, resolved, shown \in BOOLEAN :
          WindowsAnswers(t, code, resolved, shown)
    \/ \E t \in Tasks, a \in {"NotSupported", "Operation"} : HelperRefused(t, a)
    \/ \E t \in Tasks, n \in 0..MaxSaid : HelperRuns(t, n)
    \/ \E t \in Tasks : DrainHelper(t)
    \/ \E t \in Tasks : Reaped(t)
    \/ \E t \in Tasks, outlived, reaper \in BOOLEAN : RunsOn(t, outlived, reaper)
    \/ \E t \in Tasks : HelperLost(t)
    \/ \E t \in Tasks : ReaperDrains(t)
    \/ \E t \in Tasks, lost \in BOOLEAN : ReaperTries(t, lost)
    \/ \E t \in Tasks : HelperSays(t)
    \/ \E t \in Tasks, code \in {0, 1, 2, 3} : HelperExits(t, code)
    \/ \E t \in Tasks : QueuesAnswer(t)
    \/ SettleRequests
    \/ ReplacePage
    \/ AskPending
    \/ WakeUp

DesktopSpec == DesktopInit /\ [][DesktopNext]_desktopVars

(***************************************************************************)
(* Properties                                                              *)
(***************************************************************************)
\* A loop at rest owes nobody: no request runs, no answer waits, no promise of the
\* document is pending (dialog.rs:203, shell.rs:241: "never sees an idle runtime with an
\* unread answer in it").
RestOwesNothing ==
    loop = "rest" => /\ promised = {}
                     /\ \A t \in Tasks : worker[t].at \in {"none", "done"}
                     /\ \A s \in Queues : completed[s] = <<>>

\* Who goes on reading what a helper says.
ReadOn(t) == \/ helper[t].by = "thread" /\ worker[t].at \in {"drain", "try"}
             \/ helper[t].by \in {"reaper", "reaper tries"}

\* All a helper said is known when its end is told (a reaper tells nobody), a helper with
\* more to say is never left with an open pipe that nobody drains (shell.rs:292), and a
\* dead one has somebody to wait for it, unless that was given up.
HelpersAreHeard ==
    \A t \in Tasks :
        /\ helper[t].state = "reaped" /\ helper[t].by = "thread" => helper[t].pipe = 0
        /\ helper[t].owes > 0 => ReadOn(t)
        /\ helper[t].state = "exited" =>
              ReadOn(t) \/ (helper[t].by = "nobody" /\ worker[t].at \in {"push", "drop", "done"})

DesktopIsAnswered == RestOwesNothing /\ HelpersAreHeard
=============================================================================
