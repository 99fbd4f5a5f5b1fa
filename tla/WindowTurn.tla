----------------------------- MODULE WindowTurn -----------------------------
(***************************************************************************)
(* One native window from its creation to its close: the winit callbacks   *)
(* of native_window/lifecycle.rs, the startup reveal, surface loss and     *)
(* return, the coalesced resize, the reload and the pump that surfaces the *)
(* first error.                                                            *)
(*                                                                         *)
(* Everything runs on one thread, and ui is where that thread stands.  A   *)
(* callback of winit that runs script in the middle is cut there, since a  *)
(* script may do anything to the state the rest of the callback reads.     *)
(* Resources, the renderer and off-thread work finish on threads of their  *)
(* own, between any two steps.                                             *)
(***************************************************************************)
EXTENDS Naturals

CONSTANTS
  Callback,     \* what script asks a frame for
  Job,          \* the callbacks that wait for off-thread work to finish
  Size,         \* surface sizes
  FirstSize,    \* the size the window is created with
  NoSize,       \* no size
  MaxResources, \* bound on critical resources started
  MaxReloads    \* bound on reloads

ASSUME CallbackAssumption == Job \subseteq Callback
ASSUME SizeAssumption == FirstSize \in Size /\ NoSize \notin Size
ASSUME BoundAssumption ==
  /\ MaxResources \in Nat
  /\ MaxReloads \in Nat

VARIABLES
                \* The thread.
  mobile,       \* the platform takes surfaces away and gives them back
  ui,           \* what the thread is doing
  error,        \* an error is parked
  closing,      \* whether the window is to close
                \* The window, as winit and blitz-shell keep it.
  surface,      \* SurfaceState
  renderer,     \* the renderer of the view
  redraw,       \* a redraw has been requested
  wake,         \* the proxy has been woken
  shown,        \* view.is_visible: blitz-shell paints the view
  mapped,       \* the platform window is visible
  complete,     \* a complete frame has been painted
                \* Sizes.
  winSize,      \* the size of the window
  overtaken,    \* a size was reported while script's own was still held back
  claimed,      \* APPLIED_RESIZE
  pending,      \* pending_resize
  applied,      \* applied_resize
  viewport,     \* the size the document is laid out for
  innerSize,    \* innerWidth and innerHeight
                \* The document.
  doc,          \* which document it is
  loadDispatched,
  startupRevealed,
  startupPaint, \* the redraw under way is the startup frame
  started,      \* critical resources asked for so far, by any document
  critical,     \* critical resources the document waits for
  arrived,      \* those that have arrived and are not yet handled
  waiting,      \* callbacks the document waits for
  ready         \* those that the next frame can run

threadVars   == <<ui, error, closing>>
surfaceVars  == <<surface, renderer>>
paintVars    == <<shown, mapped, complete>>
sizeVars     == <<pending, applied, viewport, innerSize>>
askVars      == <<winSize, claimed>>
startVars    == <<loadDispatched, startupRevealed, startupPaint>>
resourceVars == <<started, critical, arrived>>
frameVars    == <<waiting, ready>>

vars == <<mobile, threadVars, surfaceVars, redraw, wake, paintVars, sizeVars,
          overtaken, askVars, doc, startVars, resourceVars, frameVars>>

\* What a script may change.
scriptVars == <<error, closing, askVars, resourceVars, frameVars>>

-----------------------------------------------------------------------------

Redrawing == {"redraw.input", "redraw.frame", "redraw.paint"}
Waiting   == {"wait.resize", "wait.load", "wait.end"}
Ended     == {"closed", "failed"}
UiState   == {"tasks", "events", "wake.load", "wake.ask", "create.load"}
               \cup Redrawing \cup Waiting \cup Ended

Over == ui \in Ended
HasWindow == surface # "initial" /\ closing # "gone"

Init ==
  /\ mobile \in BOOLEAN
  /\ ui = "events"
  /\ error = FALSE
  /\ closing = "no"
  /\ surface = "initial"
  /\ renderer = "none"
  /\ redraw = FALSE
  /\ wake = FALSE
  /\ shown = FALSE
  /\ mapped = FALSE
  /\ complete = FALSE
  /\ winSize = FirstSize
  /\ overtaken = FALSE
  /\ claimed = NoSize
  /\ pending = NoSize
  /\ applied = NoSize
  /\ viewport = FirstSize
  /\ innerSize = FirstSize
  /\ doc = 0
  /\ loadDispatched = FALSE
  /\ startupRevealed = FALSE
  /\ startupPaint = FALSE
  /\ started \in 0 .. MaxResources
  /\ critical = started
  /\ arrived = 0
  /\ waiting = {}
  /\ ready = {}

-----------------------------------------------------------------------------
(* Script                                                                  *)

\* An animation frame callback is ready at once, a job when it has finished.
AskFrame(before) ==
  \E c \in Callback \ before :
    /\ waiting' = before \cup {c}
    /\ ready' = (ready \cap before) \cup ({c} \ Job)
    /\ UNCHANGED <<error, closing, askVars, resourceVars>>

AskResource ==
  /\ started < MaxResources
  /\ started' = started + 1
  /\ critical' = critical + 1
  /\ UNCHANGED <<error, closing, askVars, arrived>>

\* A forced layout handles the messages of resources that have arrived.
ForceLayout ==
  /\ arrived > 0
  /\ critical' = critical - arrived
  /\ arrived' = 0
  /\ UNCHANGED <<error, closing, askVars, started>>

\* blitsen/window resize() where the platform resizes at once and says so in
\* the answer.  Where it does so later, SurfaceResized follows.
AskSize ==
  /\ ~mobile /\ HasWindow
  /\ \E s \in Size \ {winSize} : winSize' = s /\ claimed' = s
  /\ UNCHANGED <<error, closing, resourceVars>>

AskClose ==
  /\ ~mobile /\ HasWindow
  /\ closing = "no"
  /\ closing' = "asked"
  /\ UNCHANGED <<error, askVars, resourceVars>>

Throw ==
  /\ error' = TRUE
  /\ UNCHANGED <<closing, askVars, resourceVars>>

Nothing == UNCHANGED <<error, closing, askVars, resourceVars>>

\* One piece of script, run when the callbacks in before still wait.  The host
\* hears of what it throws only where it made the call.
Script(before, hosted) ==
  \/ AskFrame(before)
  \/ /\ waiting' = before
     /\ ready' = ready \cap before
     /\ \/ AskResource
        \/ ForceLayout
        \/ AskSize
        \/ AskClose
        \/ hosted /\ Throw
        \/ Nothing

\* Between two pumps: timers, promise reactions.
Tasks ==
  /\ ui = "tasks"
  /\ Script(waiting, FALSE)
  /\ scriptVars' # scriptVars
  /\ UNCHANGED <<mobile, overtaken, ui, surfaceVars, redraw, wake, paintVars, sizeVars,
                 doc, startVars>>

-----------------------------------------------------------------------------
(* Other threads                                                           *)

ResourceArrives ==
  /\ ~Over
  /\ arrived < critical
  /\ arrived' = arrived + 1
  /\ wake' = TRUE
  /\ UNCHANGED <<mobile, overtaken, threadVars, surfaceVars, redraw, paintVars, sizeVars,
                 askVars, doc, startVars, started, critical, frameVars>>

RendererReady ==
  /\ ~Over
  /\ renderer = "starting"
  /\ renderer' = "active"
  /\ wake' = TRUE
  /\ UNCHANGED <<mobile, overtaken, threadVars, surface, redraw, paintVars,
                 sizeVars, askVars, doc, startVars, resourceVars, frameVars>>

JobFinishes(c) ==
  /\ ~Over
  /\ c \in waiting \ ready
  /\ ready' = ready \cup {c}
  /\ UNCHANGED <<mobile, overtaken, threadVars, surfaceVars, redraw, wake, paintVars,
                 sizeVars, askVars, doc, startVars, resourceVars, waiting>>

-----------------------------------------------------------------------------
(* Pieces several callbacks share                                          *)

Goes(from, to) == ui = from /\ ui' = to

\* maybe_dispatch_load
MaybeLoad(from, to) ==
  /\ Goes(from, to)
  /\ IF loadDispatched \/ error \/ critical > 0
     THEN UNCHANGED <<loadDispatched, redraw, scriptVars>>
     ELSE /\ Script(waiting, TRUE)
          /\ loadDispatched' = ~error'
          /\ redraw' = (redraw \/ (~error' /\ HasWindow))
  /\ UNCHANGED <<mobile, overtaken, surfaceVars, wake, paintVars, sizeVars, doc,
                 startupRevealed, startupPaint>>

\* apply_pending_resize, when a redraw is asked for already or not.  The renderer
\* and the document take the size, script reads it and hears `resize`, and a frame
\* is asked for.
ApplyResize(drawn) ==
  IF error \/ pending \in {NoSize, applied}
  THEN /\ pending' = IF error THEN pending ELSE NoSize
       /\ redraw' = drawn
       /\ UNCHANGED <<applied, viewport, innerSize, scriptVars>>
  ELSE /\ pending' = NoSize
       /\ applied' = pending
       /\ viewport' = pending
       /\ innerSize' = pending
       /\ redraw' = (drawn \/ HasWindow)
       /\ Script(waiting, TRUE)

-----------------------------------------------------------------------------
(* RedrawRequested                                                         *)

\* What a startup frame needs of the document and the surface.
StartupReady ==
  /\ ~startupRevealed
  /\ loadDispatched
  /\ ~error
  /\ surface # "lost"
  /\ critical = 0
  /\ renderer = "active"

\* prepare_startup_reveal, then apply_pending_resize.
RedrawStart ==
  /\ Goes("events", "redraw.input")
  /\ redraw /\ HasWindow
  /\ startupPaint' = StartupReady
  /\ shown' = (shown \/ StartupReady)
  /\ ApplyResize(FALSE)
  /\ UNCHANGED <<mobile, overtaken, surfaceVars, wake, mapped, complete, doc,
                 loadDispatched, startupRevealed>>

\* drain_pointer_input, drain_keyboard_input and their like.
RedrawInput ==
  /\ Goes("redraw.input", "redraw.frame")
  /\ IF error THEN UNCHANGED scriptVars ELSE Script(waiting, TRUE)
  /\ UNCHANGED <<mobile, overtaken, surfaceVars, redraw, wake, paintVars, sizeVars,
                 doc, startVars>>

\* Seeded bug: only the startup frame runs script.
FrameAtStartup ==
  /\ Goes("redraw.frame", "redraw.paint")
  /\ IF error \/ surface = "lost" \/ ~startupPaint
     THEN UNCHANGED scriptVars
     ELSE Script(waiting \ ready, TRUE)
  /\ UNCHANGED <<mobile, overtaken, surfaceVars, redraw, wake, paintVars, sizeVars,
                 doc, startVars>>

\* Seeded bug: script runs its frame although an error is parked.
FrameDespiteError ==
  /\ Goes("redraw.frame", "redraw.paint")
  /\ IF surface = "lost" \/ ~(startupRevealed \/ startupPaint)
     THEN UNCHANGED scriptVars
     ELSE Script(waiting \ ready, TRUE)
  /\ UNCHANGED <<mobile, overtaken, surfaceVars, redraw, wake, paintVars, sizeVars,
                 doc, startVars>>

\* run_animation_frame, under the conditions window_event puts on it.
RedrawFrame ==
  /\ Goes("redraw.frame", "redraw.paint")
  /\ IF error \/ surface = "lost" \/ ~(startupRevealed \/ startupPaint)
     THEN UNCHANGED scriptVars
     ELSE Script(waiting \ ready, TRUE)
  /\ UNCHANGED <<mobile, overtaken, surfaceVars, redraw, wake, paintVars, sizeVars,
                 doc, startVars>>

\* The rest of the callback.  blitz-shell takes the messages that have arrived
\* and paints the view if it is shown; sync_ime may fail; then
\* finish_startup_reveal.
RedrawPaint ==
  /\ Goes("redraw.paint", "events")
  /\ critical' = critical - arrived
  /\ arrived' = 0
  /\ error' \in {error, TRUE}
  /\ LET startup == startupPaint /\ ~error /\ critical = 0
         painted == renderer = "active" /\ (startup \/ startupRevealed) /\ shown
         reveal  == startup /\ ~error' /\ critical' = 0
     IN /\ complete' = (complete \/ (painted /\ loadDispatched /\ critical' = 0))
        /\ startupRevealed' = (startupRevealed \/ reveal)
        /\ mapped' = (mapped \/ reveal)
  /\ shown' = (shown /\ startupRevealed')
  /\ startupPaint' = FALSE
  /\ UNCHANGED <<mobile, overtaken, closing, surfaceVars, redraw, wake, sizeVars,
                 askVars, doc, loadDispatched, started, frameVars>>

Redraw == RedrawInput \/ RedrawFrame \/ RedrawPaint

-----------------------------------------------------------------------------
(* The other callbacks                                                     *)

\* proxy_wake_up
ProxyWake ==
  /\ Goes("events", "wake.load")
  /\ wake
  /\ wake' = FALSE
  /\ critical' = critical - arrived
  /\ arrived' = 0
  /\ UNCHANGED <<mobile, overtaken, error, closing, surfaceVars, redraw, paintVars,
                 sizeVars, askVars, doc, startVars, started, frameVars>>

WakeLoad == MaybeLoad("wake.load", "wake.ask")

\* Seeded bug: a wake of the loop asks for no startup frame.
WakeAskNothing ==
  /\ Goes("wake.ask", "events")
  /\ UNCHANGED <<mobile, overtaken, scriptVars, surfaceVars, redraw, wake, paintVars,
                 sizeVars, doc, startVars>>

\* request_startup_redraw_if_ready
WakeAsk ==
  /\ Goes("wake.ask", "events")
  /\ redraw' = (redraw \/ (HasWindow /\ StartupReady))
  /\ UNCHANGED <<mobile, overtaken, scriptVars, surfaceVars, wake, paintVars,
                 sizeVars, doc, startVars>>

\* on_can_create_surfaces.  A desktop does this once, as the first callback.
CreateSurfaces ==
  /\ Goes("events", "create.load")
  /\ surface # "present" /\ closing # "gone"
  /\ surface' = "present"
  /\ renderer' = "starting"
  /\ viewport' = IF surface = "initial" THEN winSize ELSE viewport
  /\ innerSize' = IF error THEN innerSize ELSE viewport'
  /\ claimed' = NoSize
  /\ closing' = "no"
  /\ redraw' = TRUE
  /\ UNCHANGED <<mobile, overtaken, error, wake, paintVars, pending, applied,
                 winSize, doc, startVars, resourceVars, frameVars>>

CreateLoad == MaybeLoad("create.load", "events")

\* on_destroy_surfaces.  Input that ends with the surface is dispatched first.
DestroySurfaces ==
  /\ Goes("events", "events")
  /\ mobile /\ surface = "present" /\ HasWindow
  /\ surface' = "lost"
  /\ renderer' = "none"
  /\ IF error THEN UNCHANGED scriptVars ELSE Script(waiting, TRUE)
  /\ UNCHANGED <<mobile, overtaken, redraw, wake, paintVars, sizeVars, doc, startVars>>

\* Seeded bug: the first size reported in a turn is the one that is kept.
ResizedFirst ==
  /\ Goes("events", "events")
  /\ HasWindow
  /\ overtaken' = (overtaken \/ claimed # NoSize)
  /\ \E s \in Size : winSize' = s /\ pending' = IF pending = NoSize THEN s ELSE pending
  /\ redraw' = TRUE
  /\ UNCHANGED <<mobile, error, closing, surfaceVars, wake, paintVars, applied,
                 viewport, innerSize, claimed, doc, startVars, resourceVars,
                 frameVars>>

\* SurfaceResized: held until the turn's last size is known.
SurfaceResized ==
  /\ Goes("events", "events")
  /\ HasWindow
  /\ overtaken' = (overtaken \/ claimed # NoSize)
  /\ \E s \in Size : winSize' = s /\ pending' = s
  /\ redraw' = TRUE
  /\ UNCHANGED <<mobile, error, closing, surfaceVars, wake, paintVars, applied,
                 viewport, innerSize, claimed, doc, startVars, resourceVars,
                 frameVars>>

\* blitz-shell drops the view of a window the user closes.
CloseRequested ==
  /\ Goes("events", "events")
  /\ ~mobile /\ HasWindow
  /\ closing' = "gone"
  /\ UNCHANGED <<mobile, overtaken, error, surfaceVars, redraw, wake, paintVars,
                 sizeVars, askVars, doc, startVars, resourceVars, frameVars>>

\* about_to_wait up to settle_native_resize: a size that was applied at once is
\* held like one the platform reported.
AboutToWait ==
  /\ Goes("events", "wait.resize")
  /\ mobile \/ surface # "initial"
  /\ IF claimed = NoSize \/ ~HasWindow
     THEN UNCHANGED <<pending, redraw>>
     ELSE pending' = claimed /\ redraw' = TRUE
  /\ claimed' = NoSize
  /\ UNCHANGED <<mobile, overtaken, error, closing, surfaceVars, wake, paintVars,
                 applied, viewport, innerSize, winSize, doc, startVars,
                 resourceVars, frameVars>>

WaitResize ==
  /\ Goes("wait.resize", "wait.load")
  /\ ApplyResize(redraw)
  /\ UNCHANGED <<mobile, overtaken, surfaceVars, wake, paintVars, doc, startVars>>

WaitLoad == MaybeLoad("wait.load", "wait.end")

\* The pending-work query that ends about_to_wait, and the end of pump_for: an
\* error surfaces, a window that is gone ends the session, and so does a close
\* script has asked for.
PumpEnds ==
  /\ ui = "wait.end"
  /\ redraw' = (redraw \/ (HasWindow /\ ~error /\ surface # "lost" /\ waiting # {}))
  /\ ui' = IF error THEN "failed" ELSE IF closing # "no" THEN "closed" ELSE "tasks"
  /\ UNCHANGED <<mobile, overtaken, scriptVars, surfaceVars, wake, paintVars,
                 sizeVars, doc, startVars>>

Pump ==
  /\ Goes("tasks", "events")
  /\ UNCHANGED <<mobile, overtaken, scriptVars, surfaceVars, redraw, wake, paintVars,
                 sizeVars, doc, startVars>>

\* reload().  The entry script may ask for critical resources and for a frame.
Reload ==
  /\ Goes("tasks", "tasks")
  /\ HasWindow
  /\ doc < MaxReloads
  /\ doc' = doc + 1
  /\ started' \in started .. MaxResources
  /\ critical' = started' - started
  /\ arrived' = 0
  /\ waiting' \in {{}} \cup {{c} : c \in Callback}
  /\ ready' = waiting' \ Job
  /\ loadDispatched' = FALSE
  /\ innerSize' = viewport
  /\ UNCHANGED <<mobile, overtaken, error, closing, surfaceVars, redraw, wake,
                 paintVars, pending, applied, viewport, askVars, startupRevealed,
                 startupPaint>>

Ends == Over /\ UNCHANGED vars

-----------------------------------------------------------------------------

\* What the thread does of itself, once in a callback.
Continue ==
  \/ Redraw
  \/ WakeLoad \/ WakeAsk
  \/ CreateLoad
  \/ WaitResize \/ WaitLoad
  \/ PumpEnds

Platform == CreateSurfaces \/ DestroySurfaces \/ SurfaceResized \/ CloseRequested

Next ==
  \/ Tasks \/ Reload \/ Pump
  \/ RedrawStart \/ ProxyWake \/ AboutToWait
  \/ Continue
  \/ Platform
  \/ ResourceArrives \/ RendererReady
  \/ \E c \in Callback : JobFinishes(c)
  \/ Ends

Spec == Init /\ [][Next]_vars

\* The host pumps for as long as the window is open, and each pump comes to an
\* end.  A redraw that is requested of a window with a surface is delivered, and
\* so is a wake of the proxy.  Resources arrive or fail, a renderer starts, and a
\* desktop gives its window a surface at once.  Nothing else has to happen: jobs
\* need not finish, and a phone need not give a surface back.
FairSpec ==
  /\ Spec
  /\ WF_vars(Pump) /\ WF_vars(Continue) /\ SF_vars(AboutToWait)
  /\ WF_vars(~mobile /\ CreateSurfaces)
  /\ SF_vars(surface = "present" /\ RedrawStart)
  /\ SF_vars(ProxyWake)
  /\ WF_vars(ResourceArrives) /\ WF_vars(RendererReady)

-----------------------------------------------------------------------------
(* Safety                                                                  *)

\* Every variable holds a value of its kind, arrivals never outnumber the
\* resources waited for, and only what a document waits for can run in its frame.
TypeOK ==
  /\ {mobile, error, redraw, wake, shown, mapped, complete,
      loadDispatched, startupRevealed, startupPaint, overtaken} \subseteq BOOLEAN
  /\ ui \in UiState
  /\ closing \in {"no", "asked", "gone"}
  /\ surface \in {"initial", "present", "lost"}
  /\ renderer \in {"none", "starting", "active"}
  /\ {winSize, viewport, innerSize} \subseteq Size
  /\ {claimed, pending, applied} \subseteq Size \cup {NoSize}
  /\ doc \in 0 .. MaxReloads
  /\ started \in 0 .. MaxResources
  /\ arrived \in 0 .. critical /\ critical \in 0 .. started
  /\ waiting \subseteq Callback
  /\ ready \subseteq waiting

\* The platform window is never mapped before a frame was painted from a document
\* that had fired load and waited for nothing (startup_reveal.rs:1-7).
MappedIsComplete == mapped => complete

\* Between two pumps the document is laid out for the window's size and script
\* reads that size, although several sizes may have come in one turn, from the
\* platform and from script; unless the platform reported one between a request of
\* script and the end of that pump.
SizeFollowsWindow ==
  ui = "tasks" /\ HasWindow /\ claimed = NoSize /\ ~overtaken
    => viewport = winSize /\ innerSize = winSize

\* What the user sees of a window: nothing unfinished, nothing of another size.
WindowIsTrue == MappedIsComplete /\ SizeFollowsWindow

\* Once an error is parked nothing runs script until the pump has surfaced it,
\* whichever callbacks winit still makes.
ErrorStopsScript ==
  [][error => /\ UNCHANGED <<error, waiting, started, loadDispatched, applied>>
              /\ ready \subseteq ready']_vars

-----------------------------------------------------------------------------
(* Liveness                                                                *)

\* Every document fires load, whether or not its window has a surface, and a
\* window that keeps its surface is revealed, however resources, renderer, scripts
\* and a reload are interleaved.
StartsUp ==
  []<>(Over \/ (loadDispatched /\ (startupRevealed \/ surface # "present")))

\* A job that has finished is heard in a frame while the window keeps its surface,
\* although only the pending-work query asks for that frame.
JobIsHeard ==
  \A c \in Job :
    (surface = "present" /\ c \in ready) ~> (c \notin ready \/ surface = "lost" \/ Over)

\* Both: nothing a document waits for is left waiting.
WindowProgresses == StartsUp /\ JobIsHeard

=============================================================================
