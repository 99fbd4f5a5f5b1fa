---------------------------- MODULE WindowModes -----------------------------
(***************************************************************************)
(* Pointer lock and fullscreen: three owners of one cursor and one window. *)
(*                                                                         *)
(* The page's bootstrap keeps the element that has a mode and the request  *)
(* for it; the host keeps which modes the page took, and gives them back   *)
(* at once when the window loses the focus or its surface, telling the     *)
(* page in the queue of keyboard input of the next frame; and the native   *)
(* window module keeps what the application wants of the same window,      *)
(* which a mode overrides and its end restores.                            *)
(*                                                                         *)
(* "lock" is the pointer lock, "full" fullscreen.  Request numbers stand   *)
(* for promises.  External: the window system grants what it is asked for, *)
(* except that it may refuse to lock.                                      *)
(***************************************************************************)
EXTENDS Integers, Sequences, FiniteSets

CONSTANTS Targets,     \* elements that may ask for a mode
          Root,        \* the document element: the only one for fullscreen
          NoTarget,    \* no element
          MaxRequests, \* bound: requests that reach the platform
          MaxGestures, \* bound: key presses and clicks
          MaxLosses,   \* bound: losses of focus or surface
          MaxWants     \* bound: calls of the native window module

ASSUME ModesAssumption ==
    /\ Root \in Targets /\ NoTarget \notin Targets
    /\ {MaxRequests, MaxGestures, MaxLosses, MaxWants} \subseteq Nat

VARIABLES
    web,                     \* WEB_POINTER_LOCKED and WEB_FULLSCREEN
    want,                    \* NATIVE_CURSOR_GRAB and NATIVE_FULLSCREEN
    applied,                 \* what the window really does: "web", or the native value
    motion,                  \* movements in pending_locked_pointer_movement
    presses,                 \* presses in pending_pointer_input
    keys,                    \* pending_keyboard_input
    drawing,                 \* which queue the redraw drains now
    failed,                  \* an error is parked
    attached,                \* targets connected to the document
    act,                     \* windowModeActivation
    elem,                    \* pointerLockElement and fullscreenElement
    pend,                    \* pendingPointerLock and pendingFullscreen: a request, or 0
    tasks,                   \* mode tasks waiting for their zero timeout
    reqs,                    \* history: every request that reached the platform
    outcome,                 \* history: how each one's promise settled
    gestures, losses, wants, \* history: how many there have been
    granted,                 \* history: activations the page was given
    entries                  \* history: how often fullscreen was entered

windowVars == <<web, want, applied, motion, presses, keys, drawing, failed>>
domModeVars == <<attached, act, elem, pend, tasks>>
modesHist == <<reqs, outcome, gestures, losses, wants, granted, entries>>
modesVars == <<windowVars, domModeVars, modesHist>>

Modes == {"lock", "full"}
Requests == 1..MaxRequests
Task == [do : {"commit"}, mode : Modes, req : Requests]
        \union [do : {"ended"}, mode : Modes, req : 0..MaxRequests]
Key == [is : {"press", "escape"}] \union [is : {"release"}, modes : SUBSET Modes]

ModesInit ==
    /\ web = [m \in Modes |-> FALSE] /\ want = [m \in Modes |-> "off"]
    /\ applied = want /\ motion = 0 /\ presses = 0 /\ keys = <<>>
    /\ drawing = "no" /\ failed = FALSE
    /\ attached = Targets /\ act = FALSE
    /\ elem = [m \in Modes |-> NoTarget] /\ pend = [m \in Modes |-> 0] /\ tasks = <<>>
    /\ reqs = <<>> /\ outcome = [r \in Requests |-> "none"]
    /\ gestures = 0 /\ losses = 0 /\ wants = 0 /\ granted = 0 /\ entries = 0

(***************************************************************************)
(* The native half                                                         *)
(***************************************************************************)
\* The end of a mode gives the window back what blitsen/window wants of it now.
Restored(S) ==
    /\ web' = [m \in Modes |-> web[m] /\ m \notin S]
    /\ applied' = [m \in Modes |-> IF m \in S THEN want[m] ELSE applied[m]]

NativeWantsNow(m, v) ==
    /\ ~failed /\ wants < MaxWants /\ wants' = wants + 1
    /\ want' = [want EXCEPT ![m] = v] /\ applied' = [applied EXCEPT ![m] = v]
    /\ UNCHANGED <<web, motion, presses, keys, drawing, failed, domModeVars, reqs,
                   outcome, gestures, losses, granted, entries>>

\* setFullscreen and setCursorGrab: kept, and applied unless the page has the mode.
NativeWants(m, v) ==
    /\ ~failed /\ wants < MaxWants /\ wants' = wants + 1
    /\ want' = [want EXCEPT ![m] = v]
    /\ applied' = [applied EXCEPT ![m] = IF web[m] THEN @ ELSE v]
    /\ UNCHANGED <<web, motion, presses, keys, drawing, failed, domModeVars, reqs,
                   outcome, gestures, losses, granted, entries>>

HostReleasesSilently ==
    LET held == {m \in Modes : web[m]}
    IN  Restored(held) /\ motion' = 0 /\ losses' = losses + 1 /\ UNCHANGED keys

\* release_web_window_modes: the window loses the focus, or the application is
\* suspended.  The platform is released at once, the page told with the frame.
HostReleases ==
    LET held == {m \in Modes : web[m]}
    IN  /\ Restored(held)
        /\ IF held = {} THEN UNCHANGED <<motion, keys>>
           ELSE motion' = 0 /\ keys' = Append(keys, [is |-> "release", modes |-> held])
        /\ losses' = losses + 1

Lose ==
    /\ drawing = "no" /\ losses < MaxLosses
    /\ HostReleases
    /\ UNCHANGED <<want, presses, drawing, failed, domModeVars, reqs, outcome, gestures,
                   wants, granted, entries>>

\* on_destroy_surfaces: the keyboard queue is drained on the spot.
LoseSurface ==
    /\ drawing = "no" /\ ~failed /\ losses < MaxLosses
    /\ HostReleases /\ drawing' = "lost"
    /\ UNCHANGED <<want, presses, failed, domModeVars, reqs, outcome, gestures, wants,
                   granted, entries>>

\* device_event: raw motion is kept only while the page has the lock (one stands for
\* as many as there are).
Motion ==
    /\ drawing = "no" /\ web["lock"] /\ motion = 0
    /\ motion' = motion + 1
    /\ UNCHANGED <<web, want, applied, presses, keys, drawing, failed, domModeVars,
                   modesHist>>

\* A click, a key, and the key that always leaves both modes.
Click ==
    /\ drawing = "no" /\ gestures < MaxGestures /\ gestures' = gestures + 1
    /\ presses' = presses + 1
    /\ UNCHANGED <<web, want, applied, motion, keys, drawing, failed, domModeVars, reqs,
                   outcome, losses, wants, granted, entries>>
PressKey(k) ==
    /\ drawing = "no" /\ gestures < MaxGestures /\ gestures' = gestures + 1
    /\ keys' = Append(keys, [is |-> k])
    /\ UNCHANGED <<web, want, applied, motion, presses, drawing, failed, domModeVars,
                   reqs, outcome, losses, wants, granted, entries>>

\* A redraw drains the motion, then the pointer, then the keyboard, and ends with the
\* animation frame and the microtasks behind it.
Redraw ==
    /\ drawing = "no" /\ ~failed /\ (motion > 0 \/ presses > 0 \/ keys # <<>>)
    /\ drawing' = "motion"
    /\ UNCHANGED <<web, want, applied, motion, presses, keys, failed, domModeVars,
                   modesHist>>

NextQueue ==
    /\ \/ drawing = "motion" /\ motion = 0 /\ drawing' = "pointer"
       \/ drawing = "pointer" /\ presses = 0 /\ drawing' = "keys"
       \/ drawing \in {"keys", "lost"} /\ keys = <<>> /\ drawing' = "no"
    /\ act' = (act /\ drawing # "keys")
    /\ UNCHANGED <<web, want, applied, motion, presses, keys, failed, attached, elem,
                   pend, tasks, modesHist>>

\* A dispatch fails: its error is parked and the rest of that queue dropped.
DispatchFails ==
    /\ drawing # "no" /\ failed' = TRUE /\ drawing' = "no"
    /\ motion' = IF drawing = "motion" THEN 0 ELSE motion
    /\ presses' = IF drawing = "pointer" THEN 0 ELSE presses
    /\ keys' = IF drawing \in {"keys", "lost"} THEN <<>> ELSE keys
    /\ UNCHANGED <<web, want, applied, domModeVars, modesHist>>

(***************************************************************************)
(* The bootstrap                                                           *)
(***************************************************************************)
Held(m) == pend[m] # 0 \/ elem[m] # NoTarget

EndedTasksAlone(S) ==
    LET ended(m) == IF m \in S THEN <<[do |-> "ended", mode |-> m]>> ELSE <<>>
    IN  ended("lock") \o ended("full")

EndedTasks(S) ==
    LET ended(m) == IF m \in S THEN <<[do |-> "ended", mode |-> m, req |-> pend[m]]>>
                    ELSE <<>>
    IN  ended("lock") \o ended("full")

ReleasesQuietly(S, nativeAlreadyReleased) ==
    LET held == {m \in S : Held(m)}
    IN  /\ IF nativeAlreadyReleased THEN UNCHANGED <<web, applied>> ELSE Restored(held)
        /\ pend' = [m \in Modes |-> IF m \in held THEN 0 ELSE pend[m]]
        /\ elem' = [m \in Modes |-> IF m \in held THEN NoTarget ELSE elem[m]]
        /\ tasks' = tasks \o EndedTasks({m \in held : elem[m] # NoTarget})

\* releasePointerLock and releaseFullscreen, of the modes of S: the page's state
\* goes now, and the events and rejections with a task of their own.
Releases(S, nativeAlreadyReleased) ==
    LET held == {m \in S : Held(m)}
    IN  /\ IF nativeAlreadyReleased THEN UNCHANGED <<web, applied>> ELSE Restored(held)
        /\ pend' = [m \in Modes |-> IF m \in held THEN 0 ELSE pend[m]]
        /\ elem' = [m \in Modes |-> IF m \in held THEN NoTarget ELSE elem[m]]
        /\ tasks' = tasks \o EndedTasks(held)

\* The redraw hands one raw movement to the element that has the lock; one that
\* has left the document loses it.
HearMotion ==
    /\ drawing = "motion" /\ motion > 0 /\ motion' = motion - 1
    /\ IF elem["lock"] # NoTarget /\ elem["lock"] \notin attached
       THEN Releases({"lock"}, FALSE)
       ELSE UNCHANGED <<web, applied, pend, elem, tasks>>
    /\ UNCHANGED <<want, presses, keys, drawing, failed, attached, act, modesHist>>

\* grantWindowModeActivation, at the pointerdown of a click.
HearClick ==
    /\ drawing = "pointer" /\ presses > 0 /\ presses' = presses - 1
    /\ act' = TRUE /\ granted' = granted + 1
    /\ UNCHANGED <<web, want, applied, motion, keys, drawing, failed, attached, elem,
                   pend, tasks, reqs, outcome, gestures, losses, wants, entries>>

\* One item of the keyboard queue: a key grants an activation, Escape leaves both
\* modes before any listener runs, and a release follows what the host has done.
HearKey ==
    /\ drawing \in {"keys", "lost"} /\ keys # <<>> /\ keys' = Tail(keys)
    /\ act' = (act \/ Head(keys).is = "press")
    /\ granted' = IF Head(keys).is = "press" THEN granted + 1 ELSE granted
    /\ CASE Head(keys).is = "press" -> UNCHANGED <<web, applied, pend, elem, tasks>>
         [] Head(keys).is = "escape" -> Releases(Modes, FALSE)
         [] Head(keys).is = "release" -> Releases(Head(keys).modes, TRUE)
    /\ UNCHANGED <<want, motion, presses, drawing, failed, attached, reqs, outcome,
                   gestures, losses, wants, entries>>

\* The microtasks of a gesture have run: its activation is over.
Expire ==
    /\ act /\ act' = FALSE
    /\ UNCHANGED <<windowVars, attached, elem, pend, tasks, modesHist>>

AsksAgain(m, e) ==
    /\ ~failed /\ act /\ e \in attached /\ (m = "full" => e = Root)
    /\ elem[m] # e /\ (IF pend[m] = 0 THEN TRUE ELSE reqs[pend[m]].on # e)
    /\ UNCHANGED act

\* requestPointerLock and requestFullscreen as far as the platform.  A request for
\* the element that has the mode, or is waiting for it, is answered with what there
\* is; only fullscreen spends the activation.
Asks(m, e) ==
    /\ ~failed /\ act /\ e \in attached /\ (m = "full" => e = Root)
    /\ elem[m] # e /\ (IF pend[m] = 0 THEN TRUE ELSE reqs[pend[m]].on # e)
    /\ act' = (act /\ m = "lock")

Request(m, e) ==
    /\ Asks(m, e) /\ Len(reqs) < MaxRequests
    /\ LET r == Len(reqs) + 1
       IN  /\ reqs' = Append(reqs, [mode |-> m, on |-> e])
           /\ outcome' = [outcome EXCEPT ![r] = "wait"]
           /\ pend' = [pend EXCEPT ![m] = r]
           /\ tasks' = Append(tasks, [do |-> "commit", mode |-> m, req |-> r])
    /\ web' = [web EXCEPT ![m] = TRUE] /\ applied' = [applied EXCEPT ![m] = "web"]
    /\ entries' = IF m = "full" THEN entries + 1 ELSE entries
    /\ UNCHANGED <<want, motion, presses, keys, drawing, failed, attached, elem, gestures,
                   losses, wants, granted>>

\* The platform refuses the lock: the promise is rejected and nothing kept.
Refused(e) ==
    /\ Asks("lock", e)
    /\ UNCHANGED <<windowVars, attached, elem, pend, tasks, modesHist>>

\* exitPointerLock and exitFullscreen.
Exit(m) ==
    /\ ~failed /\ Held(m) /\ Releases({m}, FALSE)
    /\ UNCHANGED <<want, motion, presses, keys, drawing, failed, attached, act, modesHist>>

\* windowModesTreeMutation: a target that leaves the document leaves its mode.  The
\* one asked for is looked at before the one that has it.
Watched(m) == IF pend[m] # 0 THEN reqs[pend[m]].on ELSE elem[m]
Disconnect(e) ==
    /\ ~failed /\ e \in attached /\ attached' = attached \ {e}
    /\ Releases({m \in Modes : Watched(m) \notin attached' \union {NoTarget}}, FALSE)
    /\ UNCHANGED <<want, motion, presses, keys, drawing, failed, act, modesHist>>

\* A mode task: a request takes effect unless another replaced it or it was
\* released meanwhile; an end is announced and the request it cut off rejected.
RunTask ==
    /\ drawing = "no" /\ ~failed /\ tasks # <<>>
    /\ tasks' = Tail(tasks)
    /\ LET t == Head(tasks)
       IN  \/ /\ t.do = "commit" /\ pend[t.mode] = t.req
              /\ pend' = [pend EXCEPT ![t.mode] = 0]
              /\ IF reqs[t.req].on \in attached
                 THEN /\ elem' = [elem EXCEPT ![t.mode] = reqs[t.req].on]
                      /\ outcome' = [outcome EXCEPT ![t.req] = "ok"]
                      /\ UNCHANGED <<web, applied>>
                 ELSE /\ Restored({t.mode}) /\ UNCHANGED elem
                      /\ outcome' = [outcome EXCEPT ![t.req] = "rejected"]
           \/ /\ t.do = "commit" /\ pend[t.mode] # t.req
              /\ UNCHANGED <<pend, elem, outcome, web, applied>>
           \/ /\ t.do = "ended"
              /\ outcome' = IF t.req = 0 THEN outcome
                            ELSE [outcome EXCEPT ![t.req] = "rejected"]
              /\ UNCHANGED <<pend, elem, web, applied>>
    /\ UNCHANGED <<want, motion, presses, keys, drawing, failed, attached, act, reqs,
                   gestures, losses, wants, granted, entries>>

\* The loop waits: everything queued has been dealt with, or an error ended it.
Waits == /\ drawing = "no"
         /\ failed \/ (tasks = <<>> /\ keys = <<>> /\ presses = 0 /\ motion = 0)
         /\ UNCHANGED modesVars

\* What the host does with the turn it has been given.
HostStep == Redraw \/ NextQueue \/ HearMotion \/ HearClick \/ HearKey

ModesNext ==
    \/ Lose \/ LoseSurface \/ Motion \/ Click
    \/ \E k \in {"press", "escape"} : PressKey(k)
    \/ HostStep \/ DispatchFails \/ Expire \/ RunTask \/ Waits
    \/ \E m \in Modes : Exit(m) \/ \E v \in {"off", "on"} : NativeWants(m, v)
    \/ \E m \in Modes, e \in Targets : Request(m, e)
    \/ \E e \in Targets : Refused(e) \/ Disconnect(e)

\* The window is redrawn when it asks to be and a redraw ends; every turn of the loop
\* runs the timers that are due after it, however many redraws come between.
ModesFairness == WF_modesVars(HostStep) /\ SF_modesVars(RunTask)
ModesSpec == ModesInit /\ [][ModesNext]_modesVars /\ ModesFairness

(***************************************************************************)
(* Properties                                                              *)
(***************************************************************************)
\* Every variable holds values of its type.
ModesTypeOK ==
    /\ {web} \subseteq [Modes -> BOOLEAN] /\ want \in [Modes -> {"off", "on"}]
    /\ applied \in [Modes -> {"off", "on", "web"}]
    /\ motion \in Nat /\ presses \in Nat /\ keys \in Seq(Key)
    /\ drawing \in {"no", "motion", "pointer", "keys", "lost"} /\ failed \in BOOLEAN
    /\ attached \subseteq Targets /\ act \in BOOLEAN
    /\ elem \in [Modes -> Targets \union {NoTarget}]
    /\ pend \in [Modes -> 0..Len(reqs)] /\ tasks \in Seq(Task)
    /\ reqs \in Seq([mode : Modes, on : Targets])
    /\ outcome \in [Requests -> {"none", "wait", "ok", "rejected"}]

ReleaseQueued(m) ==
    \E k \in 1..Len(keys) : keys[k].is = "release" /\ m \in keys[k].modes

\* What the page believes is what the platform does: while an element has a mode or
\* a request for it is waiting, the window is in that mode, or the news that the
\* host took it away is on its way to the page.
ModeIsBacked ==
    \A m \in Modes : Held(m) => web[m] \/ ReleaseQueued(m) \/ failed

\* A mode borrowed from blitsen/window is returned: whenever the page does not have
\* it, the window does what the application last asked for, however many calls were
\* made and refused a turn while the page had it.
BaselineIsReturned ==
    \A m \in Modes : applied[m] = IF web[m] THEN "web" ELSE want[m]

\* Every entry into fullscreen was paid for by a gesture of its own.
EntriesArePaidFor == entries + (IF act THEN 1 ELSE 0) <= granted

\* Every request's promise settles, unless a later request for the same mode took
\* its place: through exits, losses, disconnections and Escape.
RequestSettles ==
    \A r \in Requests :
        outcome[r] = "wait"
          ~> \/ outcome[r] \in {"ok", "rejected"} \/ failed
             \/ \E q \in r + 1..Len(reqs) : reqs[q].mode = reqs[r].mode

\* All three: page, application and window agree on every mode, and no request is
\* left without an answer.
ModesAgree == [](ModeIsBacked /\ BaselineIsReturned) /\ RequestSettles

\* Escape always leaves both modes: once its keydown has been dispatched, the window
\* does what blitsen/window wants of it.
EscapeLeaves ==
    [][(/\ drawing \in {"keys", "lost"} /\ keys # <<>> /\ Head(keys).is = "escape"
        /\ keys' = Tail(keys) /\ ~failed')
       => \A m \in Modes : applied'[m] # "web"]_modesVars

=============================================================================
