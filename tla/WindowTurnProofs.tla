-------------------------- MODULE WindowTurnProofs --------------------------
(***************************************************************************)
(* What holds of a window for every set of callbacks and sizes and every   *)
(* number of resources and reloads: its types, that it is mapped complete, *)
(* that its document has its size, and that a parked error stops script.   *)
(* And what holds of the frames a headless replay shows, for every trace,  *)
(* and of the menus of a window, whatever is clicked, asked and replaced.  *)
(***************************************************************************)
EXTENDS WindowTurn, FrameReplay, MenuSurfaces, FiniteSetTheorems,
        SequenceTheorems, FoldTheorems, TLAPS

-----------------------------------------------------------------------------
(* Types                                                                   *)

\* TypeOK, a variable at a time.
Typed ==
  /\ mobile \in BOOLEAN /\ error \in BOOLEAN /\ redraw \in BOOLEAN
  /\ wake \in BOOLEAN /\ shown \in BOOLEAN /\ mapped \in BOOLEAN
  /\ complete \in BOOLEAN /\ loadDispatched \in BOOLEAN
  /\ startupRevealed \in BOOLEAN /\ startupPaint \in BOOLEAN
  /\ overtaken \in BOOLEAN
  /\ ui \in UiState
  /\ closing \in {"no", "asked", "gone"}
  /\ surface \in {"initial", "present", "lost"}
  /\ renderer \in {"none", "starting", "active"}
  /\ winSize \in Size /\ viewport \in Size /\ innerSize \in Size
  /\ claimed \in Size \cup {NoSize}
  /\ pending \in Size \cup {NoSize}
  /\ applied \in Size \cup {NoSize}
  /\ doc \in 0 .. MaxReloads
  /\ started \in 0 .. MaxResources
  /\ critical \in Nat /\ arrived \in Nat
  /\ arrived <= critical /\ critical <= started
  /\ waiting \subseteq Callback
  /\ ready \subseteq waiting

\* The two say the same.
LEMMA TypedIsTypeOK == Typed => TypeOK
  BY BoundAssumption DEF Typed, TypeOK

\* What script may leave behind, wherever the host runs it.
ScriptTyped ==
  /\ error' \in BOOLEAN
  /\ closing' \in {"no", "asked", "gone"}
  /\ winSize' \in Size
  /\ claimed' \in Size \cup {NoSize}
  /\ started' \in 0 .. MaxResources
  /\ critical' \in Nat /\ arrived' \in Nat
  /\ arrived' <= critical' /\ critical' <= started'
  /\ waiting' \subseteq Callback
  /\ ready' \subseteq waiting'

\* Script that runs its frame or anything else leaves values of their kinds.
LEMMA ScriptTypes ==
  ASSUME Typed, NEW before, before \subseteq waiting, NEW hosted,
         Script(before, hosted)
  PROVE  ScriptTyped
<1>1. CASE AskFrame(before)
  BY <1>1 DEF AskFrame, Typed, ScriptTyped, askVars, resourceVars
<1>2. CASE /\ waiting' = before
           /\ ready' = ready \cap before
           /\ AskResource \/ ForceLayout \/ AskSize \/ AskClose \/ Throw \/ Nothing
  <2>1. waiting' \subseteq Callback /\ ready' \subseteq waiting'
    BY <1>2 DEF Typed
  <2>2. CASE AskResource
    BY <2>1, <2>2, BoundAssumption DEF AskResource, Typed, ScriptTyped, askVars
  <2>3. CASE ForceLayout
    BY <2>1, <2>3, BoundAssumption DEF ForceLayout, Typed, ScriptTyped, askVars
  <2>4. CASE AskSize
    BY <2>1, <2>4 DEF AskSize, Typed, ScriptTyped, resourceVars
  <2>5. CASE AskClose
    BY <2>1, <2>5 DEF AskClose, Typed, ScriptTyped, askVars, resourceVars
  <2>6. CASE Throw
    BY <2>1, <2>6 DEF Throw, Typed, ScriptTyped, askVars, resourceVars
  <2>7. CASE Nothing
    BY <2>1, <2>7 DEF Nothing, Typed, ScriptTyped, askVars, resourceVars
  <2>8. QED BY <1>2, <2>2, <2>3, <2>4, <2>5, <2>6, <2>7
<1>3. QED BY <1>1, <1>2 DEF Script

\* Where no script runs, what it may change is left as it is.
LEMMA QuietTypes ==
  ASSUME Typed, UNCHANGED scriptVars
  PROVE  ScriptTyped
  BY DEF Typed, ScriptTyped, scriptVars, askVars, resourceVars, frameVars

\* The window starts well typed.
LEMMA InitTyped == Init => Typed
<1> SUFFICES ASSUME Init PROVE Typed
  OBVIOUS
<1>1. ui \in UiState
  BY DEF Init, UiState
<1>2. started \in 0 .. MaxResources /\ critical = started /\ arrived = 0
  BY DEF Init
<1>3. /\ started \in 0 .. MaxResources
      /\ critical \in Nat /\ arrived \in Nat
      /\ arrived <= critical /\ critical <= started
  BY <1>2, BoundAssumption
<1>4. /\ winSize \in Size /\ viewport \in Size /\ innerSize \in Size
      /\ claimed \in Size \cup {NoSize}
      /\ pending \in Size \cup {NoSize}
      /\ applied \in Size \cup {NoSize}
  BY SizeAssumption DEF Init
<1>5. doc \in 0 .. MaxReloads
  BY BoundAssumption DEF Init
<1>6. QED BY <1>1, <1>3, <1>4, <1>5 DEF Init, Typed

\* Dispatching load keeps the types.
LEMMA MaybeLoadTyped ==
  ASSUME Typed, NEW from, NEW to \in UiState, MaybeLoad(from, to)
  PROVE  Typed'
<1>1. ScriptTyped
  BY ScriptTypes, QuietTypes DEF MaybeLoad, Typed
<1>2. loadDispatched' \in BOOLEAN /\ redraw' \in BOOLEAN
  BY DEF MaybeLoad, Typed
<1>3. ui' \in UiState
  BY DEF MaybeLoad, Goes
<1>4. QED
  BY <1>1, <1>2, <1>3
  DEF MaybeLoad, Typed, ScriptTyped, surfaceVars, paintVars, sizeVars

\* Applying the size that was held back keeps the types.
LEMMA ApplyResizeTyped ==
  ASSUME Typed, NEW drawn \in BOOLEAN, ApplyResize(drawn)
  PROVE  /\ ScriptTyped
         /\ pending' \in Size \cup {NoSize} /\ applied' \in Size \cup {NoSize}
         /\ viewport' \in Size /\ innerSize' \in Size /\ redraw' \in BOOLEAN
<1>1. CASE error \/ pending \in {NoSize, applied}
  BY <1>1, QuietTypes DEF ApplyResize, Typed
<1>2. CASE ~(error \/ pending \in {NoSize, applied})
  BY <1>2, ScriptTypes DEF ApplyResize, Typed, HasWindow
<1>3. QED BY <1>1, <1>2

\* The redraw and the steps in which it goes on.
LEMMA RedrawTyped == Typed /\ (RedrawStart \/ Redraw) => Typed'
<1> SUFFICES ASSUME Typed, RedrawStart \/ Redraw PROVE Typed'
  OBVIOUS
<1>1. CASE RedrawStart
  <2>1. /\ ScriptTyped
        /\ pending' \in Size \cup {NoSize} /\ applied' \in Size \cup {NoSize}
        /\ viewport' \in Size /\ innerSize' \in Size /\ redraw' \in BOOLEAN
    BY <1>1, ApplyResizeTyped DEF RedrawStart
  <2>2. ui' \in UiState
    BY <1>1 DEF RedrawStart, Goes, UiState, Redrawing
  <2>3. startupPaint' \in BOOLEAN /\ shown' \in BOOLEAN
    BY <1>1 DEF RedrawStart, StartupReady
  <2>4. QED BY <1>1, <2>1, <2>2, <2>3 DEF RedrawStart, Typed, ScriptTyped, surfaceVars
<1>2. CASE RedrawInput
  <2>1. ScriptTyped
    BY <1>2, ScriptTypes, QuietTypes DEF RedrawInput
  <2>2. ui' \in UiState
    BY <1>2 DEF RedrawInput, Goes, UiState, Redrawing
  <2>3. QED
    BY <1>2, <2>1, <2>2
    DEF RedrawInput, Typed, ScriptTyped, surfaceVars, paintVars, sizeVars, startVars
<1>3. CASE RedrawFrame
  <2>1. waiting \ ready \subseteq waiting
    OBVIOUS
  <2>2. ScriptTyped
    BY <1>3, <2>1, ScriptTypes, QuietTypes DEF RedrawFrame
  <2>3. ui' \in UiState
    BY <1>3 DEF RedrawFrame, Goes, UiState, Redrawing
  <2>4. QED
    BY <1>3, <2>2, <2>3
    DEF RedrawFrame, Typed, ScriptTyped, surfaceVars, paintVars, sizeVars, startVars
<1>4. CASE RedrawPaint
  <2>1. ui' \in UiState
    BY <1>4 DEF RedrawPaint, Goes, UiState
  <2>2. critical' \in Nat /\ arrived' \in Nat /\ arrived' <= critical' /\ critical' <= started
    BY <1>4 DEF RedrawPaint, Typed
  <2>3. /\ error' \in BOOLEAN /\ complete' \in BOOLEAN /\ mapped' \in BOOLEAN
        /\ startupRevealed' \in BOOLEAN /\ shown' \in BOOLEAN /\ startupPaint' \in BOOLEAN
    BY <1>4 DEF RedrawPaint, Typed
  <2>4. QED
    BY <1>4, <2>1, <2>2, <2>3
    DEF RedrawPaint, Typed, surfaceVars, sizeVars, askVars, frameVars
<1>5. QED BY <1>1, <1>2, <1>3, <1>4 DEF Redraw

\* What is left of a number when a smaller one is taken away.
LEMMA DifferenceBound ==
  \A m, n \in Nat : m <= n => n - m \in Nat /\ n - m <= n
  OBVIOUS

\* The other callbacks of winit, the script between two pumps and the reload.
LEMMA CallbackTyped ==
  Typed /\ (Tasks \/ Reload \/ Pump \/ ProxyWake \/ AboutToWait \/ WakeLoad \/ WakeAsk
              \/ CreateLoad \/ WaitResize \/ WaitLoad \/ PumpEnds) => Typed'
<1> SUFFICES ASSUME Typed,
                    Tasks \/ Reload \/ Pump \/ ProxyWake \/ AboutToWait \/ WakeLoad
                      \/ WakeAsk \/ CreateLoad \/ WaitResize \/ WaitLoad \/ PumpEnds
             PROVE  Typed'
  OBVIOUS
<1> USE DEF surfaceVars, paintVars, sizeVars, askVars, startVars, resourceVars, frameVars
<1>1. CASE Tasks
  <2>1. ScriptTyped
    BY <1>1, ScriptTypes DEF Tasks
  <2>2. QED BY <1>1, <2>1 DEF Tasks, Typed, ScriptTyped
<1>2. CASE Reload
  <2>1. doc' \in 0 .. MaxReloads
    BY <1>2, BoundAssumption DEF Reload, Typed
  <2>2. /\ started' \in 0 .. MaxResources
        /\ critical' \in Nat /\ arrived' \in Nat
        /\ arrived' <= critical' /\ critical' <= started'
    <3>1. started' \in started .. MaxResources /\ critical' = started' - started
            /\ arrived' = 0
      BY <1>2 DEF Reload
    <3>2. started \in Nat
      BY BoundAssumption DEF Typed
    <3>3. started' \in Nat /\ started <= started' /\ started' <= MaxResources
      BY <3>1, <3>2, BoundAssumption
    <3>4. critical' \in Nat /\ critical' <= started'
      BY <3>1, <3>2, <3>3, DifferenceBound, Zenon
    <3>5. started' \in 0 .. MaxResources
      BY <3>3, BoundAssumption
    <3>6. QED BY <3>1, <3>3, <3>4, <3>5
  <2>3. waiting' \subseteq Callback /\ ready' \subseteq waiting'
    BY <1>2 DEF Reload
  <2>4. ui' \in UiState
    BY <1>2 DEF Reload, Goes, UiState
  <2>5. /\ UNCHANGED <<mobile, overtaken, error, closing, surface, renderer, redraw,
                      wake, shown, mapped, complete, pending, applied, viewport>>
        /\ UNCHANGED <<winSize, claimed, startupRevealed, startupPaint>>
        /\ loadDispatched' = FALSE /\ innerSize' = viewport
    BY <1>2 DEF Reload
  <2>6. /\ mobile' \in BOOLEAN /\ error' \in BOOLEAN /\ redraw' \in BOOLEAN
        /\ wake' \in BOOLEAN /\ shown' \in BOOLEAN /\ mapped' \in BOOLEAN
        /\ complete' \in BOOLEAN /\ loadDispatched' \in BOOLEAN
        /\ startupRevealed' \in BOOLEAN /\ startupPaint' \in BOOLEAN /\ overtaken' \in BOOLEAN
    BY <2>5 DEF Typed
  <2>7. /\ closing' \in {"no", "asked", "gone"}
        /\ surface' \in {"initial", "present", "lost"}
        /\ renderer' \in {"none", "starting", "active"}
    BY <2>5 DEF Typed
  <2>8. /\ winSize' \in Size /\ viewport' \in Size /\ innerSize' \in Size
        /\ claimed' \in Size \cup {NoSize}
        /\ pending' \in Size \cup {NoSize} /\ applied' \in Size \cup {NoSize}
    BY <2>5 DEF Typed
  <2>9. QED BY <2>1, <2>2, <2>3, <2>4, <2>6, <2>7, <2>8 DEF Typed
<1>3. CASE Pump
  BY <1>3 DEF Pump, Goes, UiState, Typed, scriptVars
<1>4. CASE ProxyWake
  <2>1. ui' \in UiState
    BY <1>4 DEF ProxyWake, Goes, UiState
  <2>2. /\ critical' \in Nat /\ arrived' \in Nat
        /\ arrived' <= critical' /\ critical' <= started'
    BY <1>4 DEF ProxyWake, Typed
  <2>3. /\ UNCHANGED <<mobile, overtaken, error, closing, surface, renderer, redraw,
                      shown, mapped, complete, pending, applied, viewport, innerSize>>
        /\ UNCHANGED <<winSize, claimed, doc, loadDispatched, startupRevealed,
                      startupPaint, started, waiting, ready>>
        /\ wake' = FALSE
    BY <1>4 DEF ProxyWake
  <2>4. /\ mobile' \in BOOLEAN /\ error' \in BOOLEAN /\ redraw' \in BOOLEAN
        /\ wake' \in BOOLEAN /\ shown' \in BOOLEAN /\ mapped' \in BOOLEAN
        /\ complete' \in BOOLEAN /\ loadDispatched' \in BOOLEAN
        /\ startupRevealed' \in BOOLEAN /\ startupPaint' \in BOOLEAN /\ overtaken' \in BOOLEAN
    BY <2>3 DEF Typed
  <2>5. /\ closing' \in {"no", "asked", "gone"}
        /\ surface' \in {"initial", "present", "lost"}
        /\ renderer' \in {"none", "starting", "active"}
    BY <2>3 DEF Typed
  <2>6. /\ winSize' \in Size /\ viewport' \in Size /\ innerSize' \in Size
        /\ claimed' \in Size \cup {NoSize}
        /\ pending' \in Size \cup {NoSize} /\ applied' \in Size \cup {NoSize}
    BY <2>3 DEF Typed
  <2>7. /\ doc' \in 0 .. MaxReloads /\ started' \in 0 .. MaxResources
        /\ waiting' \subseteq Callback /\ ready' \subseteq waiting'
    BY <2>3 DEF Typed
  <2>8. QED BY <2>1, <2>2, <2>4, <2>5, <2>6, <2>7 DEF Typed
<1>5. CASE AboutToWait
  <2>1. ui' \in UiState
    BY <1>5 DEF AboutToWait, Goes, UiState, Waiting
  <2>2. pending' \in Size \cup {NoSize} /\ redraw' \in BOOLEAN
    BY <1>5 DEF AboutToWait, Typed
  <2>3. claimed' \in Size \cup {NoSize}
    BY <1>5 DEF AboutToWait
  <2>4. QED BY <1>5, <2>1, <2>2, <2>3 DEF AboutToWait, Typed
<1>6. CASE WakeLoad
  BY <1>6, MaybeLoadTyped DEF WakeLoad, UiState
<1>7. CASE WakeAsk
  BY <1>7 DEF WakeAsk, Goes, UiState, Typed, StartupReady, HasWindow, scriptVars
<1>8. CASE CreateLoad
  BY <1>8, MaybeLoadTyped DEF CreateLoad, UiState
<1>9. CASE WaitResize
  BY <1>9, ApplyResizeTyped DEF WaitResize, Typed, Goes, UiState, Waiting, ScriptTyped
<1>10. CASE WaitLoad
  BY <1>10, MaybeLoadTyped DEF WaitLoad, UiState, Waiting
<1>11. CASE PumpEnds
  BY <1>11 DEF PumpEnds, UiState, Ended, Typed, HasWindow, scriptVars
<1>12. QED
  BY <1>1, <1>2, <1>3, <1>4, <1>5, <1>6, <1>7, <1>8, <1>9, <1>10, <1>11

\* What the platform does to the window.
LEMMA PlatformTyped == Typed /\ Platform => Typed'
<1> SUFFICES ASSUME Typed, Platform PROVE Typed'
  OBVIOUS
<1> USE DEF surfaceVars, paintVars, sizeVars, askVars, startVars, resourceVars, frameVars
<1>1. CASE CreateSurfaces
  BY <1>1 DEF CreateSurfaces, Goes, UiState, Typed
<1>2. CASE DestroySurfaces
  <2>1. ScriptTyped
    BY <1>2, ScriptTypes, QuietTypes DEF DestroySurfaces
  <2>2. QED BY <1>2, <2>1 DEF DestroySurfaces, Goes, Typed, ScriptTyped
<1>3. CASE SurfaceResized
  BY <1>3 DEF SurfaceResized, Typed, Goes
<1>4. CASE CloseRequested
  BY <1>4 DEF CloseRequested, Goes, Typed
<1>5. QED BY <1>1, <1>2, <1>3, <1>4 DEF Platform

\* What the other threads finish.
LEMMA ArrivalTyped ==
  Typed /\ (ResourceArrives \/ RendererReady \/ \E c \in Callback : JobFinishes(c))
    => Typed'
<1> SUFFICES ASSUME Typed,
                    ResourceArrives \/ RendererReady \/ \E c \in Callback : JobFinishes(c)
             PROVE  Typed'
  OBVIOUS
<1> USE DEF threadVars, surfaceVars, paintVars, sizeVars, askVars, startVars,
            resourceVars, frameVars
<1>1. CASE ResourceArrives
  BY <1>1 DEF ResourceArrives, Typed
<1>2. CASE RendererReady
  BY <1>2 DEF RendererReady, Typed
<1>3. ASSUME NEW c \in Callback, JobFinishes(c) PROVE Typed'
  BY <1>3 DEF JobFinishes, Typed
<1>4. QED BY <1>1, <1>2, <1>3

\* Every step keeps the types.
LEMMA NextTyped == Typed /\ [Next]_vars => Typed'
<1> SUFFICES ASSUME Typed, [Next]_vars PROVE Typed'
  OBVIOUS
<1>1. CASE UNCHANGED vars
  BY <1>1
  DEF vars, threadVars, surfaceVars, paintVars, sizeVars, askVars, startVars,
      resourceVars, frameVars, Typed
<1>2. CASE Next
  BY <1>1, <1>2, RedrawTyped, CallbackTyped, PlatformTyped, ArrivalTyped
  DEF Next, Continue, Ends
<1>3. QED BY <1>1, <1>2

\* Typed is an invariant.
LEMMA SpecTyped == Spec => []Typed
  BY InitTyped, NextTyped, PTL DEF Spec

\* Every variable holds a value of its kind, and neither arrivals nor callbacks
\* outnumber what the document waits for, through any number of resources,
\* reloads, lost surfaces and scripts.
THEOREM TypeCorrect == Spec => []TypeOK
  BY SpecTyped, TypedIsTypeOK, PTL

-----------------------------------------------------------------------------
(* The startup reveal                                                      *)

\* What held when a redraw was prepared as the startup frame holds until it has
\* been painted, whatever script runs in between: only the error and the critical
\* resources have to be looked at again.
RevealInv ==
  /\ mapped => complete
  /\ startupPaint =>
       ui \in Redrawing /\ shown /\ loadDispatched /\ renderer = "active"

\* Nothing is mapped or prepared when the window is created.
LEMMA InitReveal == Init => RevealInv
  BY DEF Init, RevealInv

\* A step outside the redraw maps nothing and prepares nothing.
LEMMA RevealKept ==
  ASSUME RevealInv, ui \notin Redrawing,
         UNCHANGED <<mapped, complete, startupPaint>>
  PROVE  RevealInv'
  BY DEF RevealInv

\* Script and other threads leave alone what the startup frame was prepared from.
LEMMA RevealCarried ==
  ASSUME RevealInv,
         ui \in Redrawing => ui' \in Redrawing,
         renderer = "active" => renderer' = "active",
         UNCHANGED <<paintVars, startVars>>
  PROVE  RevealInv'
  BY DEF RevealInv, paintVars, startVars

\* Every step keeps the reveal invariant.
LEMMA NextReveal == Typed /\ RevealInv /\ [Next]_vars => RevealInv'
<1> SUFFICES ASSUME Typed, RevealInv, [Next]_vars PROVE RevealInv'
  OBVIOUS
<1>0. ASSUME ui \in {"tasks", "events", "wake.load", "wake.ask", "create.load"} \cup Waiting
      PROVE  ui \notin Redrawing
  BY <1>0 DEF Redrawing, Waiting
<1>1. CASE RedrawStart
  BY <1>1 DEF RedrawStart, RevealInv, StartupReady, Typed, Goes, Redrawing, surfaceVars
<1>2. CASE RedrawInput \/ RedrawFrame
  BY <1>2, RevealCarried DEF RedrawInput, RedrawFrame, Goes, Redrawing, surfaceVars
<1>3. CASE RedrawPaint
  BY <1>3 DEF RedrawPaint, RevealInv, Typed
<1>4. CASE WakeLoad \/ WaitLoad \/ CreateLoad
  BY <1>0, <1>4, RevealKept
  DEF WakeLoad, WaitLoad, CreateLoad, MaybeLoad, Goes, paintVars, Waiting
<1>5. CASE Tasks \/ Reload \/ Pump \/ ProxyWake \/ AboutToWait \/ WakeAsk \/ WaitResize \/ PumpEnds
  BY <1>0, <1>5, RevealKept
  DEF Tasks, Reload, Pump, ProxyWake, AboutToWait, WakeAsk, WaitResize, PumpEnds, Goes,
      paintVars, startVars, Waiting
<1>6. CASE Platform
  BY <1>0, <1>6, RevealKept
  DEF Platform, CreateSurfaces, DestroySurfaces, SurfaceResized, CloseRequested, Goes,
      paintVars, startVars
<1>7. CASE \/ ResourceArrives \/ RendererReady \/ UNCHANGED vars
           \/ \E c \in Callback : JobFinishes(c)
  BY <1>7, RevealCarried
  DEF ResourceArrives, RendererReady, JobFinishes, vars, threadVars, surfaceVars
<1>8. QED
  BY <1>1, <1>2, <1>3, <1>4, <1>5, <1>6, <1>7 DEF Next, Continue, Redraw, Ends

\* The platform window is never mapped before a complete frame has been painted,
\* whatever resources, scripts, errors, reloads and lost surfaces come between the
\* preparation of the revealing redraw and its end.
THEOREM MappedHolds == Spec => []MappedIsComplete
<1>1. RevealInv => MappedIsComplete
  BY DEF RevealInv, MappedIsComplete
<1>2. Spec => []RevealInv
  BY SpecTyped, InitReveal, NextReveal, PTL DEF Spec
<1>3. QED BY <1>1, <1>2, PTL

-----------------------------------------------------------------------------
(* The size                                                                *)

\* The newest size is the one script claimed in this turn, else the one that is
\* held back, else the one the document is laid out for.
Newest ==
  IF claimed # NoSize THEN claimed ELSE IF pending # NoSize THEN pending ELSE viewport

\* What the host keeps of the sizes before the window exists, on platforms that
\* take surfaces away, after an error, and once a turn has applied what it held.
SizeInv ==
  /\ surface = "lost" => mobile
  /\ mobile \/ surface = "initial" => claimed = NoSize
  /\ surface = "initial" => pending = NoSize /\ applied = NoSize
  /\ applied # NoSize => applied = viewport
  /\ ~error => innerSize = viewport
  /\ ui = "tasks" => ~error
  /\ ui \in {"wait.load", "wait.end", "tasks"} => error \/ pending = NoSize
  /\ HasWindow /\ ~overtaken => winSize = Newest

\* What script does to the sizes, to an error and to the close of the window.
ScriptEffect ==
  /\ error => error'
  /\ closing' = "gone" <=> closing = "gone"
  /\ \/ UNCHANGED askVars
     \/ /\ ~mobile /\ HasWindow
        /\ claimed' = winSize' /\ claimed' \in Size

\* Each piece of script has at most that effect, and throws only where the host hears it.
LEMMA ScriptHasEffect ==
  ASSUME Typed, NEW before, NEW hosted, Script(before, hosted)
  PROVE  /\ ScriptEffect
         /\ ~hosted => error' = error
<1>1. CASE AskFrame(before)
  BY <1>1 DEF AskFrame, ScriptEffect
<1>2. CASE AskResource \/ ForceLayout \/ Nothing
  BY <1>2 DEF AskResource, ForceLayout, Nothing, ScriptEffect
<1>3. CASE AskSize
  BY <1>3 DEF AskSize, ScriptEffect
<1>4. CASE AskClose
  BY <1>4 DEF AskClose, ScriptEffect
<1>5. CASE hosted /\ Throw
  BY <1>5 DEF Throw, ScriptEffect
<1>6. QED BY <1>1, <1>2, <1>3, <1>4, <1>5 DEF Script

\* No script is a script without effect.
LEMMA QuietHasEffect ==
  ASSUME UNCHANGED <<error, closing, askVars>>
  PROVE  ScriptEffect
  BY DEF ScriptEffect

\* Where a turn may end, nothing is held back and no error is parked.
AtRest ==
  /\ ui = "tasks" => ~error
  /\ ui \in {"wait.load", "wait.end", "tasks"} => error \/ pending = NoSize

\* Script may claim a size, and the rest of the step leaves the sizes alone.
LEMMA SizeKept ==
  ASSUME Typed, SizeInv, AtRest', ScriptEffect,
         UNCHANGED <<mobile, surface, overtaken, sizeVars>>
  PROVE  SizeInv'
<1>1. HasWindow' = HasWindow
  BY DEF HasWindow, ScriptEffect
<1>2. CASE UNCHANGED askVars
  BY <1>1, <1>2 DEF SizeInv, AtRest, Newest, ScriptEffect, askVars, sizeVars
<1>3. CASE /\ ~mobile /\ HasWindow
           /\ claimed' = winSize' /\ claimed' \in Size
  BY <1>3, SizeAssumption, <1>1 DEF HasWindow, SizeInv, AtRest, Newest, ScriptEffect, sizeVars
<1>4. QED BY <1>2, <1>3 DEF ScriptEffect

\* The size that was held back is applied, to document and script alike.
LEMMA SizeApplied ==
  ASSUME Typed, SizeInv, NEW drawn, ApplyResize(drawn), ui' # "tasks",
         UNCHANGED <<mobile, surface, overtaken>>
  PROVE  SizeInv'
<1>1. CASE error
  BY <1>1, QuietHasEffect, SizeKept DEF ApplyResize, scriptVars, AtRest, SizeInv, sizeVars, Typed
<1>2. CASE ~error /\ pending \in {NoSize, applied}
  BY <1>2 DEF ApplyResize, scriptVars, askVars, HasWindow, SizeInv, Newest
<1>3. CASE ~error /\ pending \notin {NoSize, applied}
  <2>1. /\ pending' = NoSize /\ applied' = pending /\ viewport' = pending
        /\ innerSize' = pending
    BY <1>3 DEF ApplyResize
  <2>2. ScriptEffect
    BY <1>3, ScriptHasEffect DEF ApplyResize
  <2>3. HasWindow' = HasWindow
    BY <2>2 DEF HasWindow, ScriptEffect
  <2>4. CASE UNCHANGED askVars
    BY <1>3, <2>1, <2>3, <2>4 DEF SizeInv, Newest, askVars
  <2>5. CASE /\ ~mobile /\ HasWindow
             /\ claimed' = winSize' /\ claimed' \in Size
    BY <2>5, SizeAssumption, <2>1, <2>3 DEF HasWindow, SizeInv, Newest
  <2>6. QED BY <2>2, <2>4, <2>5 DEF ScriptEffect
<1>4. QED BY <1>1, <1>2, <1>3

\* A window that does not exist yet holds no size back.
LEMMA InitSize == Init => SizeInv
  BY DEF Init, SizeInv, HasWindow

\* What the platform does to the sizes.
LEMMA PlatformSize ==
  ASSUME Typed, SizeInv, Platform
  PROVE  SizeInv'
<1>1. CASE CreateSurfaces
  BY <1>1 DEF SizeInv, CreateSurfaces, Goes, Newest, HasWindow, Typed
<1>2. CASE DestroySurfaces
  <2>1. ScriptEffect
    BY <1>2, QuietHasEffect, ScriptHasEffect DEF DestroySurfaces, scriptVars
  <2>2. /\ mobile /\ surface' = "lost" /\ surface = "present" /\ ui = "events"
        /\ ui' = "events" /\ UNCHANGED <<mobile, overtaken, sizeVars>>
    BY <1>2 DEF DestroySurfaces, Goes
  <2>3. UNCHANGED askVars
    BY <2>1, <2>2 DEF ScriptEffect
  <2>4. HasWindow' = HasWindow
    BY <2>1, <2>2 DEF ScriptEffect, HasWindow
  <2>5. QED
    BY <2>1, <2>2, <2>3, <2>4 DEF SizeInv, ScriptEffect, Newest, askVars, sizeVars
<1>3. CASE SurfaceResized
  BY <1>3, SizeAssumption DEF SurfaceResized, Goes, surfaceVars, HasWindow, SizeInv, Newest
<1>4. CASE CloseRequested
  BY <1>4 DEF CloseRequested, Goes, HasWindow, SizeInv, surfaceVars, sizeVars, askVars
<1>5. QED BY <1>1, <1>2, <1>3, <1>4 DEF Platform

\* The script between two pumps, and the redraw after it has begun.
LEMMA ScriptSize ==
  ASSUME Typed, SizeInv, Tasks \/ RedrawInput \/ RedrawFrame
  PROVE  SizeInv'
<1>1. CASE Tasks
  BY <1>1, ScriptHasEffect, SizeKept DEF Tasks, AtRest, SizeInv, surfaceVars, sizeVars
<1>2. CASE RedrawInput
  BY <1>2, QuietHasEffect, ScriptHasEffect, SizeKept DEF RedrawInput, scriptVars, Goes, AtRest,
     surfaceVars
<1>3. CASE RedrawFrame
  BY <1>3, QuietHasEffect, ScriptHasEffect, SizeKept DEF RedrawFrame, scriptVars, Goes, AtRest,
     surfaceVars
<1>4. QED BY <1>1, <1>2, <1>3

\* The three places that may dispatch load.
LEMMA LoadSize ==
  ASSUME Typed, SizeInv, WakeLoad \/ CreateLoad \/ WaitLoad
  PROVE  SizeInv'
<1>1. ScriptEffect
  BY QuietHasEffect, ScriptHasEffect DEF WakeLoad, CreateLoad, WaitLoad, MaybeLoad, scriptVars
<1>2. UNCHANGED <<mobile, surface, overtaken, sizeVars>>
  BY DEF WakeLoad, CreateLoad, WaitLoad, MaybeLoad, surfaceVars
<1>3. AtRest'
  BY <1>1, <1>2
  DEF WakeLoad, CreateLoad, WaitLoad, MaybeLoad, Goes, AtRest, SizeInv, ScriptEffect, sizeVars
<1>4. QED BY <1>1, <1>2, <1>3, SizeKept

\* The steps that run no script.
LEMMA QuietSize ==
  ASSUME Typed, SizeInv, RedrawPaint \/ ProxyWake \/ WakeAsk \/ PumpEnds \/ Pump
                           \/ ResourceArrives \/ RendererReady \/ UNCHANGED vars
                           \/ \E c \in Callback : JobFinishes(c)
  PROVE  SizeInv'
<1>1. ScriptEffect
  BY DEF RedrawPaint, ProxyWake, WakeAsk, PumpEnds, Pump, ResourceArrives, RendererReady,
         JobFinishes, vars, ScriptEffect, scriptVars, threadVars, Typed
<1>2. UNCHANGED <<mobile, surface, overtaken, sizeVars>>
  BY DEF RedrawPaint, ProxyWake, WakeAsk, PumpEnds, Pump, ResourceArrives, RendererReady,
         JobFinishes, vars, surfaceVars
<1>3. CASE RedrawPaint \/ ProxyWake \/ WakeAsk \/ Pump
  BY <1>3, <1>1, <1>2, SizeKept DEF RedrawPaint, ProxyWake, WakeAsk, Pump, Goes, AtRest
<1>4. CASE PumpEnds
  BY <1>4, <1>1, <1>2, SizeKept DEF PumpEnds, scriptVars, sizeVars, AtRest, SizeInv
<1>5. CASE \/ ResourceArrives \/ RendererReady \/ UNCHANGED vars
           \/ \E c \in Callback : JobFinishes(c)
  BY <1>5, <1>1, <1>2, SizeKept DEF ResourceArrives, RendererReady, JobFinishes, vars,
     threadVars, sizeVars, AtRest, SizeInv
<1>6. QED BY <1>3, <1>4, <1>5

\* Every step keeps the size invariant.
LEMMA NextSize == Typed /\ SizeInv /\ [Next]_vars => SizeInv'
<1> SUFFICES ASSUME Typed, SizeInv, [Next]_vars PROVE SizeInv'
  OBVIOUS
<1>1. CASE RedrawStart \/ WaitResize
  BY <1>1, SizeApplied DEF RedrawStart, WaitResize, Goes, surfaceVars
<1>2. CASE Reload
  BY <1>2 DEF Reload, Goes, surfaceVars, askVars, HasWindow, SizeInv, Newest
<1>3. CASE AboutToWait
  BY <1>3 DEF AboutToWait, Goes, surfaceVars, HasWindow, SizeInv, Newest
<1>4. QED
  BY <1>1, <1>2, <1>3, ScriptSize, LoadSize, QuietSize, PlatformSize
  DEF Next, Continue, Redraw, Ends

\* SizeInv is an invariant of every window.
LEMMA SpecSize == Spec => []SizeInv
  BY SpecTyped, InitSize, NextSize, PTL DEF Spec

\* Between two pumps document and script have the window's size, whatever order the
\* platform and script have asked for sizes in, unless the platform has overtaken a
\* size script asked for.
THEOREM SizeHolds == Spec => []SizeFollowsWindow
<1>1. Typed /\ SizeInv => SizeFollowsWindow
  BY DEF SizeInv, SizeFollowsWindow, Newest, HasWindow
<1>2. QED BY <1>1, SpecTyped, SpecSize, PTL

\* Together: what the user sees is complete and of the window's size.
THEOREM WindowHolds == Spec => []WindowIsTrue
<1>1. MappedIsComplete /\ SizeFollowsWindow => WindowIsTrue
  BY DEF WindowIsTrue
<1>2. QED BY <1>1, MappedHolds, SizeHolds, PTL

-----------------------------------------------------------------------------
(* A parked error                                                          *)

\* What may happen while an error is parked.
Stopped ==
  /\ UNCHANGED <<error, waiting, started, loadDispatched, applied>>
  /\ ready \subseteq ready'

\* An error is never parked between two pumps, and everywhere else each piece of
\* script asks for it first.
LEMMA StepStops == Typed /\ SizeInv /\ error /\ Next => Stopped
<1> SUFFICES ASSUME Typed, SizeInv, error, Next PROVE Stopped
  OBVIOUS
<1>1. ui # "tasks" /\ error = TRUE
  BY DEF SizeInv, Typed
<1> USE DEF scriptVars, sizeVars, startVars, resourceVars, frameVars, threadVars, vars
<1>2. CASE Tasks \/ Reload \/ Pump
  BY <1>1, <1>2 DEF Tasks, Reload, Pump, Goes
<1>3. CASE RedrawStart \/ WaitResize
  BY <1>1, <1>3 DEF RedrawStart, WaitResize, ApplyResize, Stopped
<1>4. CASE RedrawInput \/ RedrawFrame
  BY <1>1, <1>4 DEF RedrawInput, RedrawFrame, Stopped
<1>5. CASE RedrawPaint
  BY <1>1, <1>5 DEF RedrawPaint, Stopped
<1>6. CASE WakeLoad \/ CreateLoad \/ WaitLoad
  BY <1>1, <1>6 DEF WakeLoad, CreateLoad, WaitLoad, MaybeLoad, Stopped
<1>7. CASE ProxyWake \/ AboutToWait \/ WakeAsk \/ PumpEnds
  BY <1>7 DEF ProxyWake, AboutToWait, WakeAsk, PumpEnds, Stopped
<1>8. CASE Platform
  BY <1>1, <1>8
  DEF Platform, CreateSurfaces, DestroySurfaces, SurfaceResized, CloseRequested, Stopped
<1>9. CASE ResourceArrives \/ RendererReady \/ Ends
  BY <1>9 DEF ResourceArrives, RendererReady, Ends, Stopped
<1>10. CASE \E c \in Callback : JobFinishes(c)
  BY <1>10 DEF JobFinishes, Stopped
<1>11. QED
  BY <1>2, <1>3, <1>4, <1>5, <1>6, <1>7, <1>8, <1>9, <1>10 DEF Next, Continue, Redraw

\* Once an error is parked nothing runs script until the pump has surfaced it.
THEOREM ErrorStops == Spec => ErrorStopsScript
<1>1. Typed /\ SizeInv /\ [Next]_vars => [error => Stopped]_vars
  BY StepStops
<1>2. Spec => [][error => Stopped]_vars
  BY <1>1, SpecTyped, SpecSize, PTL DEF Spec
<1>3. QED BY <1>2 DEF ErrorStopsScript, Stopped

-----------------------------------------------------------------------------
(* FrameReplay: only the trace decides when something is heard              *)

\* What a document is: its page, what its application heard and what it asked for.
ReplayStages == {"off", "refused", "done", "input", "settle", "tick", "layout", "failed"}
Heards == [what : ReplaySounds, id : Nat, frame : Nat, time : Nat]
Asks == [what : {"image", "frame", "cancelled"}, frame : Nat, at : ReplayStages]
Pages == [time : Nat, images : Seq(Nat), waiting : Seq(Nat), running : Seq(Nat)]
Docs == [page : Pages, heard : Seq(Heards), asked : Seq(Asks)]

\* The types that a replay keeps.
ReplayTyped ==
  /\ trace.frames \in Nat /\ trace.events \in Seq(Nat)
  /\ reaction \in [ReplaySounds -> Reactions]
  /\ replaying \in [at : ReplayStages, frame : Nat]
  /\ Document \in Docs /\ frames \in Seq([heard : Nat, time : Nat])

\* The fields of a document.
LEMMA DocIs ==
  ASSUME NEW s \in Docs
  PROVE  /\ s.page \in Pages /\ s.heard \in Seq(Heards) /\ s.asked \in Seq(Asks)
         /\ s.page.time \in Nat /\ s.page.images \in Seq(Nat) /\ s.page.waiting \in Seq(Nat)
         /\ s.page.running \in Seq(Nat)
         /\ Len(s.asked) \in Nat /\ DOMAIN s.asked = 1 .. Len(s.asked)
         /\ Len(s.heard) \in Nat /\ DOMAIN s.heard = 1 .. Len(s.heard)
         /\ \A i \in DOMAIN s.asked : s.asked[i] \in Asks
         /\ \A k \in DOMAIN s.heard : s.heard[k] \in Heards
<1>1. s.page \in Pages /\ s.heard \in Seq(Heards) /\ s.asked \in Seq(Asks)
  BY DEF Docs
<1>2. /\ s.page.time \in Nat /\ s.page.images \in Seq(Nat) /\ s.page.waiting \in Seq(Nat)
      /\ s.page.running \in Seq(Nat)
  BY <1>1 DEF Pages
<1>3. /\ Len(s.asked) \in Nat /\ DOMAIN s.asked = 1 .. Len(s.asked)
      /\ \A i \in DOMAIN s.asked : s.asked[i] \in Asks
  <2> DEFINE q == s.asked
  <2>1. q \in Seq(Asks)
    BY <1>1
  <2> HIDE DEF q
  <2>2. Len(q) \in Nat /\ DOMAIN q = 1 .. Len(q) /\ \A i \in DOMAIN q : q[i] \in Asks
    BY <2>1
  <2>3. QED BY <2>2 DEF q
<1>4. /\ Len(s.heard) \in Nat /\ DOMAIN s.heard = 1 .. Len(s.heard)
      /\ \A k \in DOMAIN s.heard : s.heard[k] \in Heards
  <2> DEFINE q == s.heard
  <2>1. q \in Seq(Heards)
    BY <1>1
  <2> HIDE DEF q
  <2>2. Len(q) \in Nat /\ DOMAIN q = 1 .. Len(q) /\ \A i \in DOMAIN q : q[i] \in Heards
    BY <2>1
  <2>3. QED BY <2>2 DEF q
<1>5. QED BY <1>1, <1>2, <1>3, <1>4

\* What one thing asked for adds to a document.
LEMMA AskIs ==
  ASSUME NEW s \in Docs, ReplayTyped, NEW what \in {"image", "frame"},
         Len(s.asked) # MaxReplayAsks
  PROVE  LET d == AskInFrame(s, what)
             a == [what |-> what, frame |-> replaying.frame, at |-> replaying.at]
             id == Len(s.asked) + 1 IN
         /\ d \in Docs /\ d.heard = s.heard /\ d.asked = Append(s.asked, a) /\ a \in Asks
         /\ d.page.time = s.page.time /\ d.page.running = s.page.running
         /\ what = "image" => /\ d.page.images = Append(s.page.images, id)
                              /\ d.page.waiting = s.page.waiting
         /\ what = "frame" => /\ d.page.waiting = Append(s.page.waiting, id)
                              /\ d.page.images = s.page.images
<1> DEFINE a == [what |-> what, frame |-> replaying.frame, at |-> replaying.at]
           id == Len(s.asked) + 1
<1>1. a \in Asks
  BY DEF Asks, ReplayTyped
<1>2. id \in Nat /\ Append(s.asked, a) \in Seq(Asks)
  <2> HIDE DEF a
  <2>1. QED BY <1>1, DocIs
<1> HIDE DEF a, id
<1> USE DEF Docs, Pages
<1> DEFINE m == [s EXCEPT !.asked = Append(@, a)]
<1>3. /\ m \in Docs /\ m.heard = s.heard /\ m.asked = Append(s.asked, a) /\ m.page = s.page
  BY <1>2
<1> HIDE DEF m
<1>4. CASE what = "image"
  <2> DEFINE d == [m EXCEPT !.page.images = Append(@, id)]
  <2>1. AskInFrame(s, what) = d
    BY <1>4 DEF AskInFrame, a, id, m
  <2>2. Append(m.page.images, id) \in Seq(Nat)
    BY <1>2, <1>3
  <2>3. /\ d \in Docs /\ d.heard = m.heard /\ d.asked = m.asked /\ d.page.time = m.page.time
        /\ d.page.running = m.page.running /\ d.page.waiting = m.page.waiting
        /\ d.page.images = Append(m.page.images, id)
    BY <1>3, <2>2
  <2>4. QED BY <1>1, <1>3, <1>4, <2>1, <2>3 DEF a, id
<1>5. CASE what = "frame"
  <2> DEFINE d == [m EXCEPT !.page.waiting = Append(@, id)]
  <2>1. AskInFrame(s, what) = d
    BY <1>5 DEF AskInFrame, a, id, m
  <2>2. Append(m.page.waiting, id) \in Seq(Nat)
    BY <1>2, <1>3
  <2>3. /\ d \in Docs /\ d.heard = m.heard /\ d.asked = m.asked /\ d.page.time = m.page.time
        /\ d.page.running = m.page.running /\ d.page.images = m.page.images
        /\ d.page.waiting = Append(m.page.waiting, id)
    BY <1>3, <2>2
  <2>4. QED BY <1>1, <1>3, <1>5, <2>1, <2>3 DEF a, id
<1>6. QED BY <1>4, <1>5

\* What a cancellation leaves of a document.
LEMMA CancelIs ==
  ASSUME NEW s \in Docs
  PROVE  LET d == CancelAnimationFrames(s)
             left == Range(s.page.waiting) \cup Range(s.page.running) IN
         /\ d \in Docs /\ d.heard = s.heard /\ d.page.time = s.page.time
         /\ d.page.images = s.page.images /\ d.page.waiting = <<>> /\ d.page.running = <<>>
         /\ DOMAIN d.asked = DOMAIN s.asked
         /\ \A i \in DOMAIN s.asked :
              d.asked[i] = IF i \in left THEN [s.asked[i] EXCEPT !.what = "cancelled"] ELSE s.asked[i]
<1> DEFINE left == Range(s.page.waiting) \cup Range(s.page.running)
           q == [i \in DOMAIN s.asked |->
                   IF i \in left THEN [s.asked[i] EXCEPT !.what = "cancelled"] ELSE s.asked[i]]
           p == [s.page EXCEPT !.waiting = <<>>, !.running = <<>>]
           d == CancelAnimationFrames(s)
<1>1. q \in Seq(Asks) /\ DOMAIN q = DOMAIN s.asked
  <2>1. \A i \in DOMAIN s.asked : [s.asked[i] EXCEPT !.what = "cancelled"] \in Asks /\ s.asked[i] \in Asks
    BY DocIs DEF Asks
  <2>2. q \in [1 .. Len(s.asked) -> Asks] /\ Len(s.asked) \in Nat
    <3> HIDE DEF left
    <3>1. QED BY <2>1, DocIs
  <2>3. DOMAIN q = DOMAIN s.asked
    OBVIOUS
  <2> HIDE DEF q
  <2>4. q \in Seq(Asks)
    BY <2>2
  <2>5. QED BY <2>3, <2>4
<1>2. <<>> \in Seq(Nat)
  OBVIOUS
<1>3. /\ p \in Pages /\ p.waiting = <<>> /\ p.running = <<>> /\ p.images = s.page.images
      /\ p.time = s.page.time
  BY <1>2, DocIs DEF Pages
<1>4. d = [page |-> p, heard |-> s.heard, asked |-> q]
  <2> DEFINE e == [s EXCEPT !.page.waiting = <<>>, !.page.running = <<>>, !.asked = q]
  <2>1. d = e
    BY DEF CancelAnimationFrames
  <2> DEFINE p1 == [s.page EXCEPT !.waiting = <<>>]
             e1 == [s EXCEPT !.page.waiting = <<>>]
             e2 == [e1 EXCEPT !.page.running = <<>>]
             e3 == [e2 EXCEPT !.asked = q]
  <2> HIDE DEF q, d
  <2>2. e = e3
    OBVIOUS
  <2>3. p = [p1 EXCEPT !.running = <<>>]
    OBVIOUS
  <2>4. s = [page |-> s.page, heard |-> s.heard, asked |-> s.asked]
    BY DEF Docs
  <2>5. e1 = [s EXCEPT !.page = p1]
    BY <2>4
  <2>6. [s EXCEPT !.page = p1] = [page |-> p1, heard |-> s.heard, asked |-> s.asked]
    <3> HIDE DEF p1
    <3>1. QED BY <2>4
  <2>7. e1 = [page |-> p1, heard |-> s.heard, asked |-> s.asked] /\ p = [p1 EXCEPT !.running = <<>>]
    BY <2>3, <2>5, <2>6
  <2> HIDE DEF e1, p1, p
  <2>8. e2 = [page |-> p, heard |-> s.heard, asked |-> s.asked]
    BY <2>7
  <2> HIDE DEF e2
  <2>9. e3 = [page |-> p, heard |-> s.heard, asked |-> q]
    BY <2>8
  <2>10. QED BY <2>1, <2>2, <2>9
<1> HIDE DEF d, p
<1>5. d \in Docs /\ d.heard = s.heard /\ d.page = p /\ d.asked = q
  <2> HIDE DEF q
  <2>1. QED BY <1>1, <1>3, <1>4, DocIs DEF Docs
<1>6. QED BY <1>1, <1>3, <1>5 DEF d

\* What is heard is written down, before the application answers it.
HeardAs(sound, id, s) ==
  [what |-> sound, id |-> id, frame |-> replaying.frame, time |-> s.page.time]
Hearing(s, sound, id) == [s EXCEPT !.heard = Append(@, HeardAs(sound, id, s))]

LEMMA HearingIs ==
  ASSUME NEW s \in Docs, ReplayTyped, NEW sound \in ReplaySounds, NEW id \in Nat
  PROVE  LET d == Hearing(s, sound, id) IN
         /\ d \in Docs /\ d.page = s.page /\ d.asked = s.asked
         /\ d.heard = Append(s.heard, HeardAs(sound, id, s)) /\ HeardAs(sound, id, s) \in Heards
         /\ DispatchTo(s, sound, id) = React(d, sound)
<1>1. HeardAs(sound, id, s) \in Heards
  BY DocIs DEF Heards, HeardAs, ReplayTyped
<1>2. DispatchTo(s, sound, id) = React(Hearing(s, sound, id), sound)
  BY DEF DispatchTo, Hearing, HeardAs
<1>3. Append(s.heard, HeardAs(sound, id, s)) \in Seq(Heards)
  BY <1>1, DocIs
<1> HIDE DEF HeardAs
<1>4. QED BY <1>1, <1>2, <1>3, DocIs DEF Hearing, Docs


\* One after the other: h tells what there is after each.
HearTurns(h, D, base, sound, s) ==
  /\ h \in [0 .. Len(s) -> D] /\ h[0] = base /\ h[Len(s)] = HearAll(base, sound, s)
  /\ \A k \in 1 .. Len(s) : h[k] = DispatchTo(h[k - 1], sound, s[k])

\* What is heard is heard one after the other.
LEMMA HearTurnsExist ==
  ASSUME NEW sound, NEW D, NEW base \in D, NEW X, NEW s \in Seq(X),
         \A a \in D, x \in X : DispatchTo(a, sound, x) \in D
  PROVE  \E h : HearTurns(h, D, base, sound, s)
<1> DEFINE n == Len(s)
           G == [p \in D \X (1 .. n) |-> DispatchTo(p[1], sound, s[p[2]])]
           Then(f, t) == DispatchTo(f[t \ {Max(t)}], sound, s[Max(t)])
           c == CHOOSE f : f = [t \in SUBSET (DOMAIN s) |-> IF t = {} THEN base ELSE Then(f, t)]
<1>1. n \in Nat /\ DOMAIN s = 1 .. n /\ \A i \in 1 .. n : s[i] \in X
  OBVIOUS
<1>2. ASSUME NEW a \in D, NEW i \in 1 .. n
      PROVE  G[<<a, i>>] = DispatchTo(a, sound, s[i]) /\ G[<<a, i>>] \in D
  BY <1>1
<1>3. G \in [D \X (1 .. n) -> D]
  BY <1>1
<1>4. PICK it \in [SUBSET (1 .. n) -> D] : Folding(it, n, base, G)
  <2> HIDE DEF G, n
  <2>1. QED BY <1>1, <1>3, FoldExists
<1>5. ASSUME NEW t \in SUBSET (1 .. n), t # {}
      PROVE  Max(t) \in 1 .. n /\ t \ {Max(t)} \in SUBSET (1 .. n)
  BY <1>1, <1>5, LargestIsIn
<1>6. it = [t \in SUBSET (DOMAIN s) |-> IF t = {} THEN base ELSE Then(it, t)]
  <2>1. ASSUME NEW t \in SUBSET (1 .. n) PROVE it[t] = IF t = {} THEN base ELSE Then(it, t)
    <3>1. CASE t = {}
      BY <3>1, <1>4 DEF Folding
    <3>2. CASE t # {}
      <4> HIDE DEF G
      <4>1. Max(t) \in 1 .. n /\ it[t \ {Max(t)}] \in D
        BY <3>2, <1>4, <1>5
      <4>2. it[t] = G[<<it[t \ {Max(t)}], Max(t)>>]
        BY <3>2, <1>4 DEF Folding
      <4>3. QED BY <3>2, <4>1, <4>2, <1>2
    <3>3. QED BY <3>1, <3>2
  <2> HIDE DEF Then
  <2>2. QED BY <2>1, <1>1, <1>4
<1>7. c = [t \in SUBSET (DOMAIN s) |-> IF t = {} THEN base ELSE Then(c, t)]
  <2> HIDE DEF Then
  <2>1. QED BY <1>6
<1>8. HearAll(base, sound, s) = c[1 .. n]
  BY <1>1 DEF HearAll, FoldLeft, MapThenFoldSet
<1>9. PICK h \in [0 .. n -> D] : h[n] = c[1 .. n] /\ Stepping(h, n, base, G)
  <2>1. FoldingIn(c, n, D, base, G)
    <3>1. c[{}] = base
      <4> HIDE DEF c, Then
      <4>1. {} \in SUBSET (DOMAIN s)
        OBVIOUS
      <4>2. QED BY <1>7, <4>1
    <3>2. ASSUME NEW t \in SUBSET (1 .. n), t # {}, c[t \ {Max(t)}] \in D
          PROVE  c[t] = G[<<c[t \ {Max(t)}], Max(t)>>]
      <4> HIDE DEF G, c
      <4>1. c[t] = Then(c, t)
        <5> HIDE DEF Then
        <5>1. QED BY <1>1, <1>7, <3>2
      <4>2. Max(t) \in 1 .. n
        BY <1>5, <3>2
      <4>3. QED BY <1>2, <3>2, <4>1, <4>2
    <3>3. QED BY <3>1, <3>2 DEF FoldingIn
  <2> HIDE DEF G, n, c
  <2>2. QED BY <2>1, <1>1, <1>3, FoldSteps
<1>10. ASSUME NEW k \in 1 .. n PROVE h[k] = DispatchTo(h[k - 1], sound, s[k])
  <2> HIDE DEF G, c
  <2>1. h[k] = G[<<h[k - 1], k>>] /\ k - 1 \in 0 .. n
    BY <1>1, <1>9 DEF Stepping
  <2>2. QED BY <2>1, <1>2
<1>11. h[0] = base /\ h[n] = HearAll(base, sound, s)
  <2>1. h[n] = HearAll(base, sound, s)
    BY <1>8, <1>9
  <2> HIDE DEF G, c
  <2>2. h[0] = base
    BY <1>9 DEF Stepping
  <2>3. QED BY <2>1, <2>2
<1>12. HearTurns(h, D, base, sound, s)
  <2> HIDE DEF G, c
  <2>1. QED BY <1>9, <1>10, <1>11 DEF HearTurns
<1>13. QED BY <1>12


\* The callbacks of a frame are called one after the other.
Called(base, s) == FoldLeft(Call, base, s)

\* One after the other: h tells what there is after each.
CallTurns(h, D, base, s) ==
  /\ h \in [0 .. Len(s) -> D] /\ h[0] = base /\ h[Len(s)] = Called(base, s)
  /\ \A k \in 1 .. Len(s) : h[k] = Call(h[k - 1], s[k])

\* The callbacks of a frame are called one after the other.
LEMMA CallTurnsExist ==
  ASSUME NEW D, NEW base \in D, NEW X, NEW s \in Seq(X),
         \A a \in D, x \in X : Call(a, x) \in D
  PROVE  \E h : CallTurns(h, D, base, s)
<1> DEFINE n == Len(s)
           G == [p \in D \X (1 .. n) |-> Call(p[1], s[p[2]])]
           Then(f, t) == Call(f[t \ {Max(t)}], s[Max(t)])
           c == CHOOSE f : f = [t \in SUBSET (DOMAIN s) |-> IF t = {} THEN base ELSE Then(f, t)]
<1>1. n \in Nat /\ DOMAIN s = 1 .. n /\ \A i \in 1 .. n : s[i] \in X
  OBVIOUS
<1>2. ASSUME NEW a \in D, NEW i \in 1 .. n
      PROVE  G[<<a, i>>] = Call(a, s[i]) /\ G[<<a, i>>] \in D
  BY <1>1
<1>3. G \in [D \X (1 .. n) -> D]
  BY <1>1
<1>4. PICK it \in [SUBSET (1 .. n) -> D] : Folding(it, n, base, G)
  <2> HIDE DEF G, n
  <2>1. QED BY <1>1, <1>3, FoldExists
<1>5. ASSUME NEW t \in SUBSET (1 .. n), t # {}
      PROVE  Max(t) \in 1 .. n /\ t \ {Max(t)} \in SUBSET (1 .. n)
  BY <1>1, <1>5, LargestIsIn
<1>6. it = [t \in SUBSET (DOMAIN s) |-> IF t = {} THEN base ELSE Then(it, t)]
  <2>1. ASSUME NEW t \in SUBSET (1 .. n) PROVE it[t] = IF t = {} THEN base ELSE Then(it, t)
    <3>1. CASE t = {}
      BY <3>1, <1>4 DEF Folding
    <3>2. CASE t # {}
      <4> HIDE DEF G
      <4>1. Max(t) \in 1 .. n /\ it[t \ {Max(t)}] \in D
        BY <3>2, <1>4, <1>5
      <4>2. it[t] = G[<<it[t \ {Max(t)}], Max(t)>>]
        BY <3>2, <1>4 DEF Folding
      <4>3. QED BY <3>2, <4>1, <4>2, <1>2
    <3>3. QED BY <3>1, <3>2
  <2> HIDE DEF Then
  <2>2. QED BY <2>1, <1>1, <1>4
<1>7. c = [t \in SUBSET (DOMAIN s) |-> IF t = {} THEN base ELSE Then(c, t)]
  <2> HIDE DEF Then
  <2>1. QED BY <1>6
<1>8. Called(base, s) = c[1 .. n]
  BY <1>1 DEF Called, FoldLeft, MapThenFoldSet
<1>9. PICK h \in [0 .. n -> D] : h[n] = c[1 .. n] /\ Stepping(h, n, base, G)
  <2>1. FoldingIn(c, n, D, base, G)
    <3>1. c[{}] = base
      <4> HIDE DEF c, Then
      <4>1. {} \in SUBSET (DOMAIN s)
        OBVIOUS
      <4>2. QED BY <1>7, <4>1
    <3>2. ASSUME NEW t \in SUBSET (1 .. n), t # {}, c[t \ {Max(t)}] \in D
          PROVE  c[t] = G[<<c[t \ {Max(t)}], Max(t)>>]
      <4> HIDE DEF G, c
      <4>1. c[t] = Then(c, t)
        <5> HIDE DEF Then
        <5>1. QED BY <1>1, <1>7, <3>2
      <4>2. Max(t) \in 1 .. n
        BY <1>5, <3>2
      <4>3. QED BY <1>2, <3>2, <4>1, <4>2
    <3>3. QED BY <3>1, <3>2 DEF FoldingIn
  <2> HIDE DEF G, n, c
  <2>2. QED BY <2>1, <1>1, <1>3, FoldSteps
<1>10. ASSUME NEW k \in 1 .. n PROVE h[k] = Call(h[k - 1], s[k])
  <2> HIDE DEF G, c
  <2>1. h[k] = G[<<h[k - 1], k>>] /\ k - 1 \in 0 .. n
    BY <1>1, <1>9 DEF Stepping
  <2>2. QED BY <2>1, <1>2
<1>11. h[0] = base /\ h[n] = Called(base, s)
  <2>1. h[n] = Called(base, s)
    BY <1>8, <1>9
  <2> HIDE DEF G, c
  <2>2. h[0] = base
    BY <1>9 DEF Stepping
  <2>3. QED BY <2>1, <2>2
<1>12. CallTurns(h, D, base, s)
  <2> HIDE DEF G, c
  <2>1. QED BY <1>9, <1>10, <1>11 DEF CallTurns
<1>13. QED BY <1>12


\* The things of one kind that were heard, and those of one kind that were asked for.
HeardOf(heard, w) == {heard[k].id : k \in {j \in DOMAIN heard : heard[j].what = w}}
WantedOf(asked, w) == {i \in DOMAIN asked : asked[i].what = w}

\* One thing heard was due when it was heard, with inputs e and the asks of asked.
WasDue(e, asked, x) ==
  \/ x.what = "input" /\ x.id \in DOMAIN e /\ x.frame = e[x.id] /\ x.time = x.frame - 1
  \/ /\ x.what = "load" /\ x.id \in DOMAIN asked /\ asked[x.id].what = "image"
     /\ x.frame = DueIn(asked[x.id]) /\ x.time = x.frame
  \/ /\ x.what = "tick" /\ x.id \in DOMAIN asked /\ asked[x.id].what = "frame"
     /\ x.frame = DueIn(asked[x.id]) /\ x.time = x.frame

\* All that was heard was due, and heard once.
HeardIsTrue(e, heard, asked) ==
  /\ \A k \in DOMAIN heard : WasDue(e, asked, heard[k])
  /\ \A k, l \in DOMAIN heard : heard[k].what = heard[l].what /\ heard[k].id = heard[l].id => k = l

\* Each of all is in one of three.
InOneOf(all, A, B, C) ==
  all = A \cup B \cup C /\ A \cap B = {} /\ A \cap C = {} /\ B \cap C = {}

\* The images that owe an outcome are those of I, due in frame si, and those of P, due
\* in f; the callbacks that did not run are those of W, due in wi, and those of R, due
\* in f; all else that was asked for, and not cancelled, was heard when it was due.
Stands(e, f, si, wi, heard, asked, I, P, W, R) ==
  /\ HeardIsTrue(e, heard, asked)
  /\ InOneOf(WantedOf(asked, "image"), I, P, HeardOf(heard, "load"))
  /\ InOneOf(WantedOf(asked, "frame"), W, R, HeardOf(heard, "tick"))
  /\ \A i \in I : DueIn(asked[i]) = si
  /\ \A i \in W : DueIn(asked[i]) = wi
  /\ \A i \in P \cup R : DueIn(asked[i]) = f

\* What is heard next is heard besides.
LEMMA HeardMore ==
  ASSUME NEW heard \in Seq(Heards), NEW x \in Heards, NEW w
  PROVE  HeardOf(Append(heard, x), w) =
           HeardOf(heard, w) \cup (IF x.what = w THEN {x.id} ELSE {})
<1> DEFINE h == Append(heard, x)
           n == Len(heard)
<1>1. /\ n \in Nat /\ DOMAIN heard = 1 .. n /\ DOMAIN h = 1 .. (n + 1)
      /\ h[n + 1] = x /\ \A k \in 1 .. n : h[k] = heard[k]
  OBVIOUS
<1> HIDE DEF h, n
<1>2. DOMAIN h = DOMAIN heard \cup {n + 1} /\ n + 1 \notin DOMAIN heard
  BY <1>1
<1>3. HeardOf(h, w) = HeardOf(heard, w) \cup (IF x.what = w THEN {x.id} ELSE {})
  BY <1>1, <1>2, Zenon DEF HeardOf
<1>4. QED BY <1>3 DEF h

\* One thing more that was due, and not heard before.
LEMMA DueIsHeard ==
  ASSUME NEW heard \in Seq(Heards), NEW x \in Heards, NEW e, NEW asked,
         HeardIsTrue(e, heard, asked), WasDue(e, asked, x), x.id \notin HeardOf(heard, x.what)
  PROVE  HeardIsTrue(e, Append(heard, x), asked)
<1> DEFINE h == Append(heard, x)
           n == Len(heard)
<1>1. /\ n \in Nat /\ DOMAIN heard = 1 .. n /\ DOMAIN h = 1 .. (n + 1)
      /\ h[n + 1] = x /\ \A k \in 1 .. n : h[k] = heard[k]
  OBVIOUS
<1> HIDE DEF h, n
<1>2. DOMAIN h = DOMAIN heard \cup {n + 1} /\ n + 1 \notin DOMAIN heard
  BY <1>1
<1>3. \A k \in DOMAIN heard : ~(heard[k].what = x.what /\ heard[k].id = x.id)
  BY DEF HeardOf
<1>4. \A k \in DOMAIN h : WasDue(e, asked, h[k])
  BY <1>1, <1>2, Zenon DEF HeardIsTrue
<1>5. ASSUME NEW k \in DOMAIN h, NEW l \in DOMAIN h, h[k].what = h[l].what, h[k].id = h[l].id
      PROVE  k = l
  BY <1>1, <1>2, <1>3, <1>5 DEF HeardIsTrue
<1>6. HeardIsTrue(e, h, asked)
  BY <1>4, <1>5, Zenon DEF HeardIsTrue
<1>7. QED BY <1>6 DEF h

\* An input of this frame is heard, one that was not heard before.
LEMMA InputStands ==
  ASSUME NEW heard \in Seq(Heards), NEW x \in Heards, NEW asked, NEW e, NEW f, NEW si, NEW wi,
         NEW I, NEW P, NEW W, NEW R, Stands(e, f, si, wi, heard, asked, I, P, W, R),
         x.what = "input", x.id \in DOMAIN e, x.frame = e[x.id], x.time = x.frame - 1,
         x.id \notin HeardOf(heard, "input")
  PROVE  Stands(e, f, si, wi, Append(heard, x), asked, I, P, W, R)
<1>1. HeardIsTrue(e, Append(heard, x), asked)
  BY DueIsHeard DEF Stands, WasDue
<1>2. /\ HeardOf(Append(heard, x), "load") = HeardOf(heard, "load")
      /\ HeardOf(Append(heard, x), "tick") = HeardOf(heard, "tick")
  <2>1. \A w : HeardOf(Append(heard, x), w) = HeardOf(heard, w) \cup (IF x.what = w THEN {x.id} ELSE {})
    BY HeardMore
  <2>2. QED BY <2>1
<1>3. QED BY <1>1, <1>2 DEF Stands

\* The outcome of an image that is owed one in this frame.
LEMMA LoadStands ==
  ASSUME NEW heard \in Seq(Heards), NEW x \in Heards, NEW asked, NEW e, NEW f, NEW si, NEW wi,
         NEW I, NEW P, NEW W, NEW R, Stands(e, f, si, wi, heard, asked, I, P, W, R),
         x.what = "load", x.id \in P, x.frame = f, x.time = f
  PROVE  Stands(e, f, si, wi, Append(heard, x), asked, I, P \ {x.id}, W, R)
<1>1. /\ x.id \in DOMAIN asked /\ asked[x.id].what = "image" /\ DueIn(asked[x.id]) = f
      /\ x.id \notin HeardOf(heard, "load")
  BY DEF Stands, InOneOf, WantedOf
<1>2. HeardIsTrue(e, Append(heard, x), asked)
  BY <1>1, DueIsHeard DEF Stands, WasDue
<1>3. /\ HeardOf(Append(heard, x), "load") = HeardOf(heard, "load") \cup {x.id}
      /\ HeardOf(Append(heard, x), "tick") = HeardOf(heard, "tick")
  <2>1. \A w : HeardOf(Append(heard, x), w) = HeardOf(heard, w) \cup (IF x.what = w THEN {x.id} ELSE {})
    BY HeardMore
  <2>2. QED BY <2>1
<1>4. InOneOf(WantedOf(asked, "image"), I, P \ {x.id}, HeardOf(heard, "load") \cup {x.id})
  BY DEF Stands, InOneOf
<1>5. QED BY <1>2, <1>3, <1>4 DEF Stands

\* A callback that is due in this frame is called.
LEMMA TickStands ==
  ASSUME NEW heard \in Seq(Heards), NEW x \in Heards, NEW asked, NEW e, NEW f, NEW si, NEW wi,
         NEW I, NEW P, NEW W, NEW R, Stands(e, f, si, wi, heard, asked, I, P, W, R),
         x.what = "tick", x.id \in R, x.frame = f, x.time = f
  PROVE  Stands(e, f, si, wi, Append(heard, x), asked, I, P, W, R \ {x.id})
<1>1. /\ x.id \in DOMAIN asked /\ asked[x.id].what = "frame" /\ DueIn(asked[x.id]) = f
      /\ x.id \notin HeardOf(heard, "tick")
  BY DEF Stands, InOneOf, WantedOf
<1>2. HeardIsTrue(e, Append(heard, x), asked)
  BY <1>1, DueIsHeard DEF Stands, WasDue
<1>3. /\ HeardOf(Append(heard, x), "tick") = HeardOf(heard, "tick") \cup {x.id}
      /\ HeardOf(Append(heard, x), "load") = HeardOf(heard, "load")
  <2>1. \A w : HeardOf(Append(heard, x), w) = HeardOf(heard, w) \cup (IF x.what = w THEN {x.id} ELSE {})
    BY HeardMore
  <2>2. QED BY <2>1
<1>4. InOneOf(WantedOf(asked, "frame"), W, R \ {x.id}, HeardOf(heard, "tick") \cup {x.id})
  BY DEF Stands, InOneOf
<1>5. QED BY <1>2, <1>3, <1>4 DEF Stands

\* One thing more that is asked for.
LEMMA AskedMore ==
  ASSUME NEW asked \in Seq(Asks), NEW a \in Asks
  PROVE  /\ Len(asked) + 1 \notin DOMAIN asked
         /\ Append(asked, a)[Len(asked) + 1] = a
         /\ \A i \in DOMAIN asked : i \in DOMAIN Append(asked, a) /\ Append(asked, a)[i] = asked[i]
         /\ \A w : WantedOf(Append(asked, a), w) =
                     WantedOf(asked, w) \cup (IF a.what = w THEN {Len(asked) + 1} ELSE {})
<1> DEFINE q == Append(asked, a)
           n == Len(asked)
<1>1. /\ n \in Nat /\ DOMAIN asked = 1 .. n /\ DOMAIN q = 1 .. (n + 1)
      /\ q[n + 1] = a /\ \A k \in 1 .. n : q[k] = asked[k]
  OBVIOUS
<1> HIDE DEF q, n
<1>2. DOMAIN q = DOMAIN asked \cup {n + 1} /\ n + 1 \notin DOMAIN asked
  BY <1>1
<1>3. ASSUME NEW w
      PROVE  WantedOf(q, w) = WantedOf(asked, w) \cup (IF a.what = w THEN {n + 1} ELSE {})
  BY <1>1, <1>2, Zenon DEF WantedOf
<1>4. \A k \in DOMAIN asked : k \in DOMAIN q /\ q[k] = asked[k]
  BY <1>1, <1>2
<1>5. QED BY <1>1, <1>2, <1>3, <1>4 DEF q, n

\* What was heard stays true as long as what was asked for stays as it was.
LEMMA StaysTrue ==
  ASSUME NEW e, NEW heard, NEW asked, NEW q, HeardIsTrue(e, heard, asked),
         \A w \in {"load", "tick"} : \A i \in HeardOf(heard, w) : i \in DOMAIN q /\ q[i] = asked[i]
  PROVE  HeardIsTrue(e, heard, q)
<1>1. ASSUME NEW k \in DOMAIN heard PROVE WasDue(e, q, heard[k])
  BY DEF HeardIsTrue, HeardOf, WasDue
<1>2. QED BY <1>1 DEF HeardIsTrue

\* An image is asked for.
LEMMA ImageStands ==
  ASSUME NEW heard, NEW asked \in Seq(Asks), NEW a \in Asks, NEW e, NEW f, NEW si, NEW wi,
         NEW I, NEW P, NEW W, NEW R, Stands(e, f, si, wi, heard, asked, I, P, W, R),
         a.what = "image", DueIn(a) = si
  PROVE  Stands(e, f, si, wi, heard, Append(asked, a), I \cup {Len(asked) + 1}, P, W, R)
<1> DEFINE q == Append(asked, a)
           n == Len(asked) + 1
<1>1. /\ n \notin DOMAIN asked /\ q[n] = a /\ \A i \in DOMAIN asked : i \in DOMAIN q /\ q[i] = asked[i]
      /\ WantedOf(q, "image") = WantedOf(asked, "image") \cup {n}
      /\ WantedOf(q, "frame") = WantedOf(asked, "frame")
  <2>1. /\ n \notin DOMAIN asked /\ q[n] = a /\ \A i \in DOMAIN asked : i \in DOMAIN q /\ q[i] = asked[i]
        /\ \A w : WantedOf(q, w) = WantedOf(asked, w) \cup (IF a.what = w THEN {n} ELSE {})
    BY AskedMore
  <2> HIDE DEF q, n
  <2>2. QED BY <2>1
<1> HIDE DEF q, n
<1>2. I \cup P \cup W \cup R \cup HeardOf(heard, "load") \cup HeardOf(heard, "tick") \subseteq DOMAIN asked
  BY DEF Stands, InOneOf, WantedOf
<1>3. HeardIsTrue(e, heard, q)
  BY <1>1, <1>2, StaysTrue DEF Stands
<1>4. InOneOf(WantedOf(q, "image"), I \cup {n}, P, HeardOf(heard, "load"))
  BY <1>1, <1>2 DEF Stands, InOneOf
<1>5. InOneOf(WantedOf(q, "frame"), W, R, HeardOf(heard, "tick"))
  BY <1>1 DEF Stands
<1>6. /\ \A i \in I \cup {n} : DueIn(q[i]) = si
      /\ \A i \in W : DueIn(q[i]) = wi
      /\ \A i \in P \cup R : DueIn(q[i]) = f
  <2> HIDE DEF DueIn
  <2>1. QED BY <1>1, <1>2 DEF Stands
<1>7. Stands(e, f, si, wi, heard, q, I \cup {n}, P, W, R)
  BY <1>3, <1>4, <1>5, <1>6 DEF Stands
<1>8. QED BY <1>7 DEF q, n

\* A callback is asked for.
LEMMA FrameStands ==
  ASSUME NEW heard, NEW asked \in Seq(Asks), NEW a \in Asks, NEW e, NEW f, NEW si, NEW wi,
         NEW I, NEW P, NEW W, NEW R, Stands(e, f, si, wi, heard, asked, I, P, W, R),
         a.what = "frame", DueIn(a) = wi
  PROVE  Stands(e, f, si, wi, heard, Append(asked, a), I, P, W \cup {Len(asked) + 1}, R)
<1> DEFINE q == Append(asked, a)
           n == Len(asked) + 1
<1>1. /\ n \notin DOMAIN asked /\ q[n] = a /\ \A i \in DOMAIN asked : i \in DOMAIN q /\ q[i] = asked[i]
      /\ WantedOf(q, "frame") = WantedOf(asked, "frame") \cup {n}
      /\ WantedOf(q, "image") = WantedOf(asked, "image")
  <2>1. /\ n \notin DOMAIN asked /\ q[n] = a /\ \A i \in DOMAIN asked : i \in DOMAIN q /\ q[i] = asked[i]
        /\ \A w : WantedOf(q, w) = WantedOf(asked, w) \cup (IF a.what = w THEN {n} ELSE {})
    BY AskedMore
  <2> HIDE DEF q, n
  <2>2. QED BY <2>1
<1> HIDE DEF q, n
<1>2. I \cup P \cup W \cup R \cup HeardOf(heard, "load") \cup HeardOf(heard, "tick") \subseteq DOMAIN asked
  BY DEF Stands, InOneOf, WantedOf
<1>3. HeardIsTrue(e, heard, q)
  BY <1>1, <1>2, StaysTrue DEF Stands
<1>4. InOneOf(WantedOf(q, "frame"), W \cup {n}, R, HeardOf(heard, "tick"))
  BY <1>1, <1>2 DEF Stands, InOneOf
<1>5. InOneOf(WantedOf(q, "image"), I, P, HeardOf(heard, "load"))
  BY <1>1 DEF Stands
<1>6. /\ \A i \in I : DueIn(q[i]) = si
      /\ \A i \in W \cup {n} : DueIn(q[i]) = wi
      /\ \A i \in P \cup R : DueIn(q[i]) = f
  <2> HIDE DEF DueIn
  <2>1. QED BY <1>1, <1>2 DEF Stands
<1>7. Stands(e, f, si, wi, heard, q, I, P, W \cup {n}, R)
  BY <1>3, <1>4, <1>5, <1>6 DEF Stands
<1>8. QED BY <1>7 DEF q, n

\* The callbacks that did not run are cancelled.
LEMMA CancelStands ==
  ASSUME NEW heard, NEW asked, NEW q, NEW e, NEW f, NEW si, NEW wi,
         NEW I, NEW P, NEW W, NEW R, Stands(e, f, si, wi, heard, asked, I, P, W, R),
         DOMAIN q = DOMAIN asked,
         \A i \in DOMAIN asked : i \in W \cup R => q[i].what = "cancelled",
         \A i \in DOMAIN asked : i \notin W \cup R => q[i] = asked[i]
  PROVE  Stands(e, f, si, wi, heard, q, I, P, {}, {})
<1> USE DEF Stands, InOneOf, WantedOf
<1>1. (I \cup P \cup HeardOf(heard, "load")) \cap (W \cup R) = {}
  OBVIOUS
<1>2. HeardOf(heard, "tick") \cap (W \cup R) = {}
  OBVIOUS
<1>3. I \cup P \cup W \cup R \cup HeardOf(heard, "load") \cup HeardOf(heard, "tick") \subseteq DOMAIN asked
  OBVIOUS
<1>4. HeardIsTrue(e, heard, q)
  BY <1>1, <1>2, <1>3, StaysTrue
<1>5. WantedOf(q, "image") = WantedOf(asked, "image")
  BY <1>1
<1>6. WantedOf(q, "frame") = HeardOf(heard, "tick")
  BY <1>2, <1>3
<1>7. (\A i \in I : DueIn(q[i]) = si) /\ \A i \in P : DueIn(q[i]) = f
  BY <1>1, <1>3
<1>8. QED BY <1>4, <1>5, <1>6, <1>7

\* The frames for which an image and a callback asked for in this stage are due.
SettleAfter == IF replaying.at = "input" THEN replaying.frame ELSE replaying.frame + 1
TickAfter == IF replaying.at = "tick" THEN replaying.frame + 1 ELSE replaying.frame

OnceEach(q) == \A i, j \in DOMAIN q : q[i] = q[j] => i = j

\* A document in the middle of a stage; the images of P owe an outcome in this frame.
Good(s, P) ==
  /\ Stands(trace.events, replaying.frame, SettleAfter, TickAfter, s.heard, s.asked,
            Range(s.page.images), P, Range(s.page.waiting), Range(s.page.running))
  /\ OnceEach(s.page.images)

\* d is a document that answered s.
Answered(s, d, P) ==
  /\ d \in Docs /\ Good(d, P) /\ d.heard = s.heard /\ d.page.time = s.page.time
  /\ Range(d.page.running) \subseteq Range(s.page.running)

\* A list with one item more.
LEMMA OneMore ==
  ASSUME NEW q \in Seq(Nat), NEW x \in Nat
  PROVE  /\ Range(Append(q, x)) = Range(q) \cup {x}
         /\ OnceEach(q) /\ x \notin Range(q) => OnceEach(Append(q, x))
<1> DEFINE p == Append(q, x)
           n == Len(q)
<1>1. /\ n \in Nat /\ DOMAIN q = 1 .. n /\ DOMAIN p = 1 .. (n + 1)
      /\ p[n + 1] = x /\ \A k \in 1 .. n : p[k] = q[k]
  OBVIOUS
<1> HIDE DEF p, n
<1>2. DOMAIN p = DOMAIN q \cup {n + 1} /\ n + 1 \notin DOMAIN q
  BY <1>1
<1>3. Range(p) = Range(q) \cup {x}
  BY <1>1, <1>2 DEF Range
<1>4. OnceEach(q) /\ x \notin Range(q) => OnceEach(p)
  BY <1>1, <1>2 DEF Range, OnceEach
<1>5. QED BY <1>3, <1>4 DEF p

\* Nothing is in the empty list.
LEMMA NoneIn == Range(<<>>) = {}
  BY DEF Range

\* Asking is an answer.
LEMMA AskAnswers ==
  ASSUME NEW s \in Docs, ReplayTyped, NEW what \in {"image", "frame"}, NEW P, Good(s, P)
  PROVE  Answered(s, AskInFrame(s, what), P)
<1> DEFINE d == AskInFrame(s, what)
           a == [what |-> what, frame |-> replaying.frame, at |-> replaying.at]
           id == Len(s.asked) + 1
<1>1. CASE Len(s.asked) = MaxReplayAsks
  BY <1>1 DEF AskInFrame, Answered
<1>2. CASE Len(s.asked) # MaxReplayAsks
  <2>1. /\ d \in Docs /\ d.heard = s.heard /\ d.asked = Append(s.asked, a) /\ a \in Asks
        /\ d.page.time = s.page.time /\ d.page.running = s.page.running
        /\ what = "image" => /\ d.page.images = Append(s.page.images, id)
                             /\ d.page.waiting = s.page.waiting
        /\ what = "frame" => /\ d.page.waiting = Append(s.page.waiting, id)
                             /\ d.page.images = s.page.images
    BY <1>2, AskIs
  <2>2. a.what = what /\ DueIn(a) = IF what = "image" THEN SettleAfter ELSE TickAfter
    BY DEF DueIn, SettleAfter, TickAfter
  <2>3. s.asked \in Seq(Asks) /\ s.page.images \in Seq(Nat) /\ s.page.waiting \in Seq(Nat) /\ id \in Nat
    BY DocIs
  <2>4. id \notin Range(s.page.images)
    BY DocIs DEF Good, Stands, InOneOf, WantedOf
  <2> DEFINE sa == SettleAfter
             ta == TickAfter
             ev == trace.events
             fr == replaying.frame
  <2>5. Stands(ev, fr, sa, ta, s.heard, s.asked,
               Range(s.page.images), P, Range(s.page.waiting), Range(s.page.running))
        /\ OnceEach(s.page.images)
    BY DEF Good
  <2>6. CASE what = "image"
    <3>1. DueIn(a) = sa /\ a.what = "image"
      BY <2>2, <2>6
    <3> HIDE DEF a, id, sa, ta, ev, fr, d
    <3>2. Stands(ev, fr, sa, ta, s.heard, Append(s.asked, a),
               Range(s.page.images) \cup {Len(s.asked) + 1}, P, Range(s.page.waiting), Range(s.page.running))
      BY <3>1, <2>1, <2>3, <2>5, ImageStands
    <3>3. Range(d.page.images) = Range(s.page.images) \cup {id} /\ OnceEach(d.page.images)
      BY <2>1, <2>3, <2>4, <2>5, <2>6, OneMore
    <3>4. Stands(ev, fr, sa, ta, d.heard, d.asked,
               Range(d.page.images), P, Range(d.page.waiting), Range(d.page.running))
      BY <3>2, <3>3, <2>1, <2>6 DEF id
    <3>5. Good(d, P)
      BY <3>3, <3>4 DEF Good, ev, fr, sa, ta
    <3>6. QED BY <3>5, <2>1 DEF Answered, d
  <2>7. CASE what = "frame"
    <3>1. DueIn(a) = ta /\ a.what = "frame"
      BY <2>2, <2>7
    <3> HIDE DEF a, id, sa, ta, ev, fr, d
    <3>2. Stands(ev, fr, sa, ta, s.heard, Append(s.asked, a),
               Range(s.page.images), P, Range(s.page.waiting) \cup {Len(s.asked) + 1}, Range(s.page.running))
      BY <3>1, <2>1, <2>3, <2>5, FrameStands
    <3>3. Range(d.page.waiting) = Range(s.page.waiting) \cup {id}
      BY <2>1, <2>3, <2>7, OneMore
    <3>4. Stands(ev, fr, sa, ta, d.heard, d.asked,
               Range(d.page.images), P, Range(d.page.waiting), Range(d.page.running))
      BY <3>2, <3>3, <2>1, <2>7 DEF id
    <3>5. Good(d, P)
      BY <3>4, <2>1, <2>5, <2>7 DEF Good, ev, fr, sa, ta
    <3>6. QED BY <3>5, <2>1 DEF Answered, d
  <2>8. QED BY <2>6, <2>7
<1>3. QED BY <1>1, <1>2

\* Cancelling is an answer.
LEMMA CancelAnswers ==
  ASSUME NEW s \in Docs, NEW P, Good(s, P)
  PROVE  Answered(s, CancelAnimationFrames(s), P)
<1> DEFINE d == CancelAnimationFrames(s)
           left == Range(s.page.waiting) \cup Range(s.page.running)
           ev == trace.events
           fr == replaying.frame
           sa == SettleAfter
           ta == TickAfter
<1>1. /\ d \in Docs /\ d.heard = s.heard /\ d.page.time = s.page.time
      /\ d.page.images = s.page.images /\ d.page.waiting = <<>> /\ d.page.running = <<>>
      /\ DOMAIN d.asked = DOMAIN s.asked
      /\ \A i \in DOMAIN s.asked :
           d.asked[i] = IF i \in left THEN [s.asked[i] EXCEPT !.what = "cancelled"] ELSE s.asked[i]
  BY CancelIs
<1>2. \A i \in DOMAIN s.asked : i \in left => d.asked[i].what = "cancelled"
  <2>1. \A i \in DOMAIN s.asked : s.asked[i] \in Asks
    BY DocIs
  <2>2. \A i \in DOMAIN s.asked : [s.asked[i] EXCEPT !.what = "cancelled"].what = "cancelled"
    BY <2>1 DEF Asks
  <2> HIDE DEF left, d
  <2>3. QED BY <1>1, <2>2
<1>3. Stands(ev, fr, sa, ta, s.heard, s.asked,
             Range(s.page.images), P, Range(s.page.waiting), Range(s.page.running))
      /\ OnceEach(s.page.images)
  BY DEF Good
<1> HIDE DEF d, ev, fr, sa, ta
<1>4. Stands(ev, fr, sa, ta, s.heard, d.asked, Range(s.page.images), P, {}, {})
  <2>1. \A i \in DOMAIN s.asked : i \notin left => d.asked[i] = s.asked[i]
    BY <1>1
  <2> DEFINE I == Range(s.page.images)
             W == Range(s.page.waiting)
             R == Range(s.page.running)
  <2>2. left = W \cup R /\ DOMAIN d.asked = DOMAIN s.asked
    BY <1>1
  <2>3. Stands(ev, fr, sa, ta, s.heard, s.asked, I, P, W, R)
    BY <1>3
  <2> HIDE DEF left, I, W, R
  <2>4. Stands(ev, fr, sa, ta, s.heard, d.asked, I, P, {}, {})
    BY <1>2, <2>1, <2>2, <2>3, CancelStands
  <2>5. QED BY <2>4 DEF I
<1>5. Good(d, P)
  BY <1>1, <1>3, <1>4, NoneIn DEF Good, ev, fr, sa, ta
<1>6. QED BY <1>1, <1>5, NoneIn DEF Answered, d

\* Whatever the application does, it answers.
LEMMA ReactAnswers ==
  ASSUME NEW s \in Docs, ReplayTyped, NEW sound \in ReplaySounds, NEW P, Good(s, P)
  PROVE  Answered(s, React(s, sound), P)
<1>0. reaction[sound] \in Reactions
  BY DEF ReplayTyped
<1>1. CASE reaction[sound] = "nothing"
  BY <1>1 DEF React, Answered
<1>2. CASE reaction[sound] = "cancel"
  BY <1>2, CancelAnswers DEF React
<1>3. CASE reaction[sound] = "both"
  <2> DEFINE d == AskInFrame(s, "image")
             g == AskInFrame(d, "frame")
  <2>1. React(s, sound) = g
    BY <1>3 DEF React
  <2>2. Answered(s, d, P)
    BY AskAnswers
  <2> HIDE DEF d
  <2>3. d \in Docs /\ Good(d, P)
    BY <2>2 DEF Answered
  <2>4. Answered(d, g, P)
    BY <2>3, AskAnswers
  <2> HIDE DEF g
  <2>5. QED BY <2>1, <2>2, <2>4 DEF Answered
<1>4. CASE reaction[sound] \in {"image", "frame"}
  BY <1>4, AskAnswers DEF React
<1>5. QED BY <1>0, <1>1, <1>2, <1>3, <1>4 DEF Reactions

\* What is in a list without x is the list's items but x.
LEMMA WithoutIs ==
  ASSUME NEW q \in Seq(Nat), NEW x
  PROVE  WithoutCallback(q, x) \in Seq(Nat) /\ Range(WithoutCallback(q, x)) = Range(q) \ {x}
<1> DEFINE K == Range(q) \ {x}
           r == ItemsIn(q, K)
<1>1. WithoutCallback(q, x) = r
  BY DEF WithoutCallback
<1>2. r \in Seq(Nat) /\ Kept(r, q, K)
  <2> HIDE DEF K
  <2>1. QED BY ItemsAreKept
<1> HIDE DEF r
<1>3. Range(r) = K
  <2>1. PICK e \in [DOMAIN r -> DOMAIN q] :
          /\ \A i \in DOMAIN r : r[i] = q[e[i]] /\ q[e[i]] \in K
          /\ \A k \in DOMAIN q : q[k] \in K => \E i \in DOMAIN r : e[i] = k
    BY <1>2 DEF Kept
  <2>2. Range(r) \subseteq K
    BY <2>1 DEF Range
  <2>3. ASSUME NEW y \in K PROVE y \in Range(r)
    <3>1. PICK k \in DOMAIN q : q[k] = y
      BY DEF Range
    <3>2. PICK i \in DOMAIN r : e[i] = k
      BY <2>1, <3>1
    <3>3. r[i] = y
      BY <2>1, <3>1, <3>2
    <3>4. QED BY <3>3 DEF Range
  <2>4. QED BY <2>2, <2>3
<1>4. QED BY <1>1, <1>2, <1>3

\* An input of this frame is heard and answered.
LEMMA InputIsHeard ==
  ASSUME NEW s \in Docs, ReplayTyped, NEW P, Good(s, P), NEW id \in Nat,
         id \in DOMAIN trace.events, trace.events[id] = replaying.frame,
         s.page.time = replaying.frame - 1, id \notin HeardOf(s.heard, "input")
  PROVE  LET d == DispatchTo(s, "input", id) IN
         /\ d \in Docs /\ Good(d, P) /\ d.page.time = s.page.time
         /\ HeardOf(d.heard, "input") = HeardOf(s.heard, "input") \cup {id}
         /\ Range(d.page.running) \subseteq Range(s.page.running)
<1> DEFINE d == DispatchTo(s, "input", id)
           g == Hearing(s, "input", id)
           x == HeardAs("input", id, s)
           ev == trace.events
           fr == replaying.frame
           sa == SettleAfter
           ta == TickAfter
<1>1. /\ g \in Docs /\ g.page = s.page /\ g.asked = s.asked
      /\ g.heard = Append(s.heard, x) /\ x \in Heards /\ d = React(g, "input")
  BY HearingIs DEF ReplaySounds
<1>2. x.what = "input" /\ x.id = id /\ x.frame = ev[id] /\ x.time = x.frame - 1
  BY DEF HeardAs
<1>3. /\ Stands(ev, fr, sa, ta, s.heard, s.asked,
                Range(s.page.images), P, Range(s.page.waiting), Range(s.page.running))
      /\ OnceEach(s.page.images) /\ s.heard \in Seq(Heards)
  BY DocIs DEF Good
<1> HIDE DEF d, g, x, ev, fr, sa, ta
<1>4. Stands(ev, fr, sa, ta, Append(s.heard, x), s.asked,
                Range(s.page.images), P, Range(s.page.waiting), Range(s.page.running))
  BY <1>1, <1>2, <1>3, InputStands DEF ev
<1>5. Good(g, P)
  BY <1>1, <1>3, <1>4 DEF Good, ev, fr, sa, ta
<1>6. Answered(g, d, P)
  BY <1>1, <1>5, ReactAnswers DEF ReplaySounds
<1>7. HeardOf(g.heard, "input") = HeardOf(s.heard, "input") \cup {id}
  BY <1>1, <1>3, HeardMore, <1>2
<1>8. QED BY <1>1, <1>6, <1>7 DEF Answered, d

\* The outcome of an image of P is heard and answered.
LEMMA LoadIsHeard ==
  ASSUME NEW s \in Docs, ReplayTyped, NEW P, Good(s, P), NEW id \in Nat, id \in P,
         s.page.time = replaying.frame
  PROVE  LET d == DispatchTo(s, "load", id) IN
         /\ d \in Docs /\ Good(d, P \ {id}) /\ d.page.time = s.page.time
         /\ HeardOf(d.heard, "input") = HeardOf(s.heard, "input")
         /\ Range(d.page.running) \subseteq Range(s.page.running)
<1> DEFINE d == DispatchTo(s, "load", id)
           g == Hearing(s, "load", id)
           x == HeardAs("load", id, s)
           ev == trace.events
           fr == replaying.frame
           sa == SettleAfter
           ta == TickAfter
<1>1. /\ g \in Docs /\ g.page = s.page /\ g.asked = s.asked
      /\ g.heard = Append(s.heard, x) /\ x \in Heards /\ d = React(g, "load")
  BY HearingIs DEF ReplaySounds
<1>2. x.what = "load" /\ x.id = id /\ x.frame = fr /\ x.time = fr
  BY DEF HeardAs
<1>3. /\ Stands(ev, fr, sa, ta, s.heard, s.asked,
                Range(s.page.images), P, Range(s.page.waiting), Range(s.page.running))
      /\ OnceEach(s.page.images) /\ s.heard \in Seq(Heards)
  BY DocIs DEF Good
<1> HIDE DEF d, g, x, ev, fr, sa, ta
<1>4. Stands(ev, fr, sa, ta, Append(s.heard, x), s.asked,
                Range(s.page.images), P \ {x.id}, Range(s.page.waiting), Range(s.page.running))
  BY <1>1, <1>2, <1>3, LoadStands
<1>5. Good(g, P \ {id})
  BY <1>1, <1>2, <1>3, <1>4 DEF Good, ev, fr, sa, ta
<1>6. Answered(g, d, P \ {id})
  BY <1>1, <1>5, ReactAnswers DEF ReplaySounds
<1>7. HeardOf(g.heard, "input") = HeardOf(s.heard, "input")
  <2>1. HeardOf(g.heard, "input") =
          HeardOf(s.heard, "input") \cup (IF x.what = "input" THEN {x.id} ELSE {})
    BY <1>1, <1>3, HeardMore
  <2>2. QED BY <2>1, <1>2
<1>8. QED BY <1>1, <1>6, <1>7 DEF Answered, d

\* A callback is called if it was not cancelled meanwhile, and is not to run any more.
LEMMA CallIsHeard ==
  ASSUME NEW s \in Docs, ReplayTyped, Good(s, {}), NEW id \in Nat,
         s.page.time = replaying.frame
  PROVE  LET d == Call(s, id) IN
         /\ d \in Docs /\ Good(d, {}) /\ d.page.time = s.page.time
         /\ HeardOf(d.heard, "input") = HeardOf(s.heard, "input")
         /\ Range(d.page.running) \subseteq Range(s.page.running) \ {id}
<1>1. CASE id \notin Range(s.page.running)
  BY <1>1 DEF Call
<1>2. CASE id \in Range(s.page.running)
  <2> DEFINE q == WithoutCallback(s.page.running, id)
             r == [s EXCEPT !.page.running = q]
             d == Call(s, id)
             g == Hearing(r, "tick", id)
             x == HeardAs("tick", id, r)
             ev == trace.events
             fr == replaying.frame
             sa == SettleAfter
             ta == TickAfter
  <2>1. q \in Seq(Nat) /\ Range(q) = Range(s.page.running) \ {id}
    BY DocIs, WithoutIs
  <2>2. d = DispatchTo(r, "tick", id)
    BY <1>2 DEF Call
  <2>3. /\ r \in Docs /\ r.heard = s.heard /\ r.asked = s.asked /\ r.page.time = s.page.time
        /\ r.page.images = s.page.images /\ r.page.waiting = s.page.waiting /\ r.page.running = q
    <3> HIDE DEF q
    <3>1. QED BY <2>1 DEF Docs, Pages
  <2> HIDE DEF q, r, d
  <2>4. /\ g \in Docs /\ g.page = r.page /\ g.asked = r.asked
        /\ g.heard = Append(r.heard, x) /\ x \in Heards /\ d = React(g, "tick")
    BY <2>2, <2>3, HearingIs DEF ReplaySounds
  <2>5. x.what = "tick" /\ x.id = id /\ x.frame = fr /\ x.time = fr
    BY <2>3 DEF HeardAs
  <2>6. /\ Stands(ev, fr, sa, ta, s.heard, s.asked,
                  Range(s.page.images), {}, Range(s.page.waiting), Range(s.page.running))
        /\ OnceEach(s.page.images) /\ s.heard \in Seq(Heards)
    BY DocIs DEF Good
  <2> HIDE DEF g, x, ev, fr, sa, ta
  <2>7. Stands(ev, fr, sa, ta, Append(s.heard, x), s.asked,
                  Range(s.page.images), {}, Range(s.page.waiting), Range(s.page.running) \ {x.id})
    BY <1>2, <2>4, <2>5, <2>6, TickStands
  <2>8. Good(g, {})
    BY <2>1, <2>3, <2>4, <2>5, <2>6, <2>7 DEF Good, ev, fr, sa, ta
  <2>9. Answered(g, d, {})
    BY <2>4, <2>8, ReactAnswers DEF ReplaySounds
  <2>10. HeardOf(g.heard, "input") = HeardOf(s.heard, "input")
    <3>1. HeardOf(g.heard, "input") =
            HeardOf(s.heard, "input") \cup (IF x.what = "input" THEN {x.id} ELSE {})
      BY <2>3, <2>4, <2>6, HeardMore
    <3>2. QED BY <3>1, <2>5
  <2>11. QED BY <2>1, <2>3, <2>4, <2>9, <2>10 DEF Answered, d
<1>3. QED BY <1>1, <1>2

\* Whatever is heard, a document stays one.
LEMMA ReactTyped ==
  ASSUME NEW s \in Docs, ReplayTyped, NEW sound \in ReplaySounds
  PROVE  React(s, sound) \in Docs
<1>1. ASSUME NEW d \in Docs, NEW what \in {"image", "frame"} PROVE AskInFrame(d, what) \in Docs
  BY AskIs DEF AskInFrame
<1>2. CancelAnimationFrames(s) \in Docs
  BY CancelIs
<1>3. AskInFrame(AskInFrame(s, "image"), "frame") \in Docs
  BY <1>1
<1>4. reaction[sound] \in Reactions
  BY DEF ReplayTyped
<1>5. QED BY <1>1, <1>2, <1>3, <1>4 DEF React, Reactions

LEMMA DispatchTyped ==
  ASSUME NEW s \in Docs, ReplayTyped, NEW sound \in ReplaySounds, NEW id \in Nat
  PROVE  DispatchTo(s, sound, id) \in Docs
<1>1. DispatchTo(s, sound, id) = React(Hearing(s, sound, id), sound) /\ Hearing(s, sound, id) \in Docs
  BY HearingIs
<1>2. QED BY <1>1, ReactTyped

LEMMA CallTyped ==
  ASSUME NEW s \in Docs, ReplayTyped, NEW id \in Nat
  PROVE  Call(s, id) \in Docs
<1> DEFINE q == WithoutCallback(s.page.running, id)
           r == [s EXCEPT !.page.running = q]
<1>1. q \in Seq(Nat)
  BY DocIs, WithoutIs
<1>2. Call(s, id) = s \/ Call(s, id) = DispatchTo(r, "tick", id)
  BY DEF Call
<1>3. r \in Docs
  <2> HIDE DEF q
  <2>1. QED BY <1>1 DEF Docs, Pages
<1> HIDE DEF r
<1>4. QED BY <1>2, <1>3, DispatchTyped DEF ReplaySounds

\* The inputs of a frame, each once.
LEMMA InputsAre ==
  ASSUME ReplayTyped, NEW f
  PROVE  /\ InputsForFrame(f) \in Seq(Nat) /\ OnceEach(InputsForFrame(f))
         /\ Range(InputsForFrame(f)) = {i \in DOMAIN trace.events : trace.events[i] = f}
<1> DEFINE ev == trace.events
           n == Len(ev)
           q == [i \in DOMAIN ev |-> i]
           K == {i \in DOMAIN ev : ev[i] = f}
           r == ItemsIn(q, K)
<1>1. InputsForFrame(f) = r
  BY DEF InputsForFrame
<1>2. n \in Nat /\ DOMAIN ev = 1 .. n
  <2>1. ev \in Seq(Nat)
    BY DEF ReplayTyped
  <2> HIDE DEF ev
  <2>2. QED BY <2>1
<1>3. q \in Seq(Nat) /\ DOMAIN q = DOMAIN ev /\ \A i \in DOMAIN ev : q[i] = i
  <2> HIDE DEF ev
  <2>1. q \in [1 .. n -> Nat]
    BY <1>2
  <2>2. QED BY <1>2, <2>1
<1>4. r \in Seq(Nat) /\ Kept(r, q, K)
  <2> HIDE DEF q, K
  <2>1. QED BY <1>3, ItemsAreKept
<1>5. DOMAIN r = 1 .. Len(r) /\ Len(r) \in Nat
  BY <1>4
<1> HIDE DEF r, q, n, ev
<1>6. PICK e \in [DOMAIN r -> DOMAIN q] :
        /\ \A i, j \in DOMAIN r : i < j => e[i] < e[j]
        /\ \A i \in DOMAIN r : r[i] = q[e[i]] /\ q[e[i]] \in K
        /\ \A k \in DOMAIN q : q[k] \in K => \E i \in DOMAIN r : e[i] = k
  BY <1>4 DEF Kept
<1>7. \A i \in DOMAIN r : r[i] = e[i] /\ e[i] \in K
  BY <1>3, <1>6
<1>8. OnceEach(r)
  BY <1>5, <1>2, <1>3, <1>6, <1>7 DEF OnceEach
<1>9. Range(r) = K
  <2>1. Range(r) \subseteq K
    BY <1>7 DEF Range
  <2>2. ASSUME NEW k \in K PROVE k \in Range(r)
    <3>1. k \in DOMAIN q /\ q[k] = k
      BY <1>3
    <3>2. PICK i \in DOMAIN r : e[i] = k
      BY <1>6, <3>1
    <3>3. r[i] = k
      BY <3>2, <1>7
    <3>4. QED BY <3>3 DEF Range
  <2>3. QED BY <2>1, <2>2
<1>10. QED BY <1>1, <1>4, <1>8, <1>9 DEF ev

\* What has been taken of a list, and what is left of it.
TakenOf(q, k) == {q[j] : j \in 1 .. k}
LeftOf(q, k) == {q[j] : j \in (k + 1) .. Len(q)}

LEMMA TakenAndLeft ==
  ASSUME NEW q \in Seq(Nat)
  PROVE  /\ TakenOf(q, 0) = {} /\ TakenOf(q, Len(q)) = Range(q)
         /\ LeftOf(q, 0) = Range(q) /\ LeftOf(q, Len(q)) = {}
         /\ \A k \in 1 .. Len(q) :
              /\ TakenOf(q, k) = TakenOf(q, k - 1) \cup {q[k]} /\ q[k] \in Nat
              /\ LeftOf(q, k - 1) \ {q[k]} \subseteq LeftOf(q, k) /\ q[k] \in LeftOf(q, k - 1)
              /\ OnceEach(q) => /\ LeftOf(q, k) = LeftOf(q, k - 1) \ {q[k]}
                                /\ q[k] \notin TakenOf(q, k - 1)
<1> DEFINE n == Len(q)
<1>1. n \in Nat /\ DOMAIN q = 1 .. n /\ \A k \in 1 .. n : q[k] \in Nat
  OBVIOUS
<1> HIDE DEF n
<1>2. 1 .. 0 = {} /\ (n + 1) .. n = {} /\ (0 + 1) .. n = 1 .. n
  BY <1>1
<1>3. TakenOf(q, 0) = {} /\ TakenOf(q, n) = Range(q) /\ LeftOf(q, 0) = Range(q) /\ LeftOf(q, n) = {}
  BY <1>1, <1>2 DEF TakenOf, LeftOf, Range, n
<1>4. ASSUME NEW k \in 1 .. n
      PROVE  /\ TakenOf(q, k) = TakenOf(q, k - 1) \cup {q[k]} /\ q[k] \in Nat
             /\ LeftOf(q, k - 1) \ {q[k]} \subseteq LeftOf(q, k) /\ q[k] \in LeftOf(q, k - 1)
             /\ OnceEach(q) => /\ LeftOf(q, k) = LeftOf(q, k - 1) \ {q[k]}
                               /\ q[k] \notin TakenOf(q, k - 1)
  <2>1. 1 .. k = (1 .. (k - 1)) \cup {k} /\ k \notin 1 .. (k - 1) /\ 1 .. (k - 1) \subseteq 1 .. n
    BY <1>1
  <2>2. /\ ((k - 1) + 1) .. n = ((k + 1) .. n) \cup {k} /\ k \notin (k + 1) .. n
        /\ (k + 1) .. n \subseteq 1 .. n
    BY <1>1
  <2>3. TakenOf(q, k) = TakenOf(q, k - 1) \cup {q[k]} /\ q[k] \in Nat
    BY <1>1, <2>1 DEF TakenOf
  <2>4. LeftOf(q, k - 1) = LeftOf(q, k) \cup {q[k]}
    <3>1. LeftOf(q, k - 1) = {q[j] : j \in ((k - 1) + 1) .. n} /\ LeftOf(q, k) = {q[j] : j \in (k + 1) .. n}
      BY DEF LeftOf, n
    <3>2. QED BY <2>2, <3>1, Zenon
  <2>5. ASSUME OnceEach(q) PROVE q[k] \notin LeftOf(q, k) /\ q[k] \notin TakenOf(q, k - 1)
    <3>1. \A j \in 1 .. n : q[j] = q[k] => j = k
      BY <2>5, <1>1 DEF OnceEach
    <3>2. q[k] \notin {q[j] : j \in (k + 1) .. n}
      BY <3>1, <2>2
    <3>3. q[k] \notin {q[j] : j \in 1 .. (k - 1)}
      BY <3>1, <2>1
    <3>4. QED BY <3>2, <3>3 DEF LeftOf, TakenOf, n
  <2>6. QED BY <2>3, <2>4, <2>5
<1>5. QED BY <1>3, <1>4 DEF n

\* The inputs of the frame were heard, each in its turn.
LEMMA InputsHeard ==
  ASSUME NEW s \in Docs, ReplayTyped, Good(s, {}), s.page.time = replaying.frame - 1,
         Range(s.page.running) = {},
         HeardOf(s.heard, "input") = {i \in DOMAIN trace.events : trace.events[i] < replaying.frame}
  PROVE  LET d == HearAll(s, "input", InputsForFrame(replaying.frame)) IN
         /\ d \in Docs /\ Good(d, {}) /\ d.page.time = replaying.frame - 1
         /\ Range(d.page.running) = {}
         /\ HeardOf(d.heard, "input") =
              {i \in DOMAIN trace.events : trace.events[i] < replaying.frame + 1}
<1> DEFINE f == replaying.frame
           q == InputsForFrame(f)
           n == Len(q)
           d == HearAll(s, "input", q)
           before == {i \in DOMAIN trace.events : trace.events[i] < f}
<1>1. q \in Seq(Nat) /\ OnceEach(q) /\ Range(q) = {i \in DOMAIN trace.events : trace.events[i] = f}
  BY InputsAre
<1> HIDE DEF q, n
<1>2. PICK h : HearTurns(h, Docs, s, "input", q)
  BY DispatchTyped, <1>1, HearTurnsExist DEF ReplaySounds
<1>3. /\ n \in Nat /\ h \in [0 .. n -> Docs] /\ h[0] = s /\ h[n] = d
      /\ \A k \in 1 .. n : h[k] = DispatchTo(h[k - 1], "input", q[k])
  BY <1>1, <1>2 DEF HearTurns, n
<1>4. f \in Nat /\ \A i \in DOMAIN trace.events : trace.events[i] \in Nat
  BY DEF ReplayTyped
<1> HIDE DEF before, d
<1> DEFINE After(k) == /\ Good(h[k], {}) /\ h[k].page.time = f - 1 /\ Range(h[k].page.running) = {}
                       /\ HeardOf(h[k].heard, "input") = before \cup TakenOf(q, k)
           T == {k \in 0 .. n : After(k)}
<1>5. 0 \in T
  BY <1>1, TakenAndLeft, <1>3 DEF before
<1>6. ASSUME NEW k \in 1 .. n, k - 1 \in T PROVE k \in T
  <2>1. k - 1 \in 0 .. n /\ k \in 0 .. n /\ After(k - 1)
    BY <1>3, <1>6
  <2>2. /\ TakenOf(q, k) = TakenOf(q, k - 1) \cup {q[k]} /\ q[k] \in Nat
        /\ q[k] \notin TakenOf(q, k - 1)
    BY <1>1, TakenAndLeft DEF n
  <2>3. q[k] \in Range(q)
    BY <1>1 DEF Range, n
  <2>4. /\ q[k] \in DOMAIN trace.events /\ trace.events[q[k]] = f
        /\ q[k] \notin before
    BY <1>1, <1>4, <2>3 DEF before
  <2> DEFINE a == h[k - 1]
  <2>5. /\ a \in Docs /\ Good(a, {}) /\ a.page.time = f - 1 /\ q[k] \notin HeardOf(a.heard, "input")
    BY <1>3, <2>1, <2>2, <2>4
  <2>6. h[k] = DispatchTo(a, "input", q[k])
    BY <1>3
  <2> HIDE DEF a
  <2>7. /\ Good(h[k], {}) /\ h[k].page.time = f - 1
        /\ HeardOf(h[k].heard, "input") = HeardOf(a.heard, "input") \cup {q[k]}
        /\ Range(h[k].page.running) \subseteq Range(a.page.running)
    BY <2>2, <2>4, <2>5, <2>6, InputIsHeard
  <2>8. After(k)
    BY <2>1, <2>2, <2>7 DEF a
  <2>9. QED BY <2>1, <2>8
<1>7. n \in T
  <2> HIDE DEF T
  <2>1. \A k \in 0 .. n : k \in T
    BY <1>3, <1>5, <1>6, StepsStay
  <2>2. QED BY <1>3, <2>1
<1>8. before \cup TakenOf(q, n) = {i \in DOMAIN trace.events : trace.events[i] < f + 1}
  BY <1>1, TakenAndLeft, <1>4 DEF n, before
<1>9. QED BY <1>3, <1>7, <1>8 DEF q, d

\* The images that owed an outcome when the tick started have it.
LEMMA ImagesHeard ==
  ASSUME NEW s \in Docs, ReplayTyped, NEW q \in Seq(Nat), OnceEach(q), Good(s, Range(q)),
         s.page.time = replaying.frame, Range(s.page.running) = {}
  PROVE  LET d == HearAll(s, "load", q) IN
         /\ d \in Docs /\ Good(d, {}) /\ d.page.time = replaying.frame
         /\ Range(d.page.running) = {} /\ HeardOf(d.heard, "input") = HeardOf(s.heard, "input")
<1> DEFINE f == replaying.frame
           n == Len(q)
           d == HearAll(s, "load", q)
<1>1. PICK h : HearTurns(h, Docs, s, "load", q)
  BY DispatchTyped, HearTurnsExist DEF ReplaySounds
<1>2. /\ n \in Nat /\ h \in [0 .. n -> Docs] /\ h[0] = s /\ h[n] = d
      /\ \A k \in 1 .. n : h[k] = DispatchTo(h[k - 1], "load", q[k])
  BY <1>1 DEF HearTurns
<1> HIDE DEF d, n
<1> DEFINE After(k) == /\ Good(h[k], LeftOf(q, k)) /\ h[k].page.time = f
                       /\ Range(h[k].page.running) = {}
                       /\ HeardOf(h[k].heard, "input") = HeardOf(s.heard, "input")
           T == {k \in 0 .. n : After(k)}
<1>3. 0 \in T
  BY TakenAndLeft, <1>2
<1>4. ASSUME NEW k \in 1 .. n, k - 1 \in T PROVE k \in T
  <2>1. k - 1 \in 0 .. n /\ k \in 0 .. n /\ After(k - 1)
    BY <1>2, <1>4
  <2>2. /\ q[k] \in Nat /\ q[k] \in LeftOf(q, k - 1)
        /\ LeftOf(q, k) = LeftOf(q, k - 1) \ {q[k]}
    BY TakenAndLeft DEF n
  <2> DEFINE a == h[k - 1]
  <2>3. /\ a \in Docs /\ Good(a, LeftOf(q, k - 1)) /\ a.page.time = f
    BY <1>2, <2>1
  <2>4. h[k] = DispatchTo(a, "load", q[k])
    BY <1>2
  <2> HIDE DEF a
  <2>5. /\ Good(h[k], LeftOf(q, k - 1) \ {q[k]}) /\ h[k].page.time = f
        /\ HeardOf(h[k].heard, "input") = HeardOf(a.heard, "input")
        /\ Range(h[k].page.running) \subseteq Range(a.page.running)
    <3> DEFINE x == q[k]
               P == LeftOf(q, k - 1)
               b == DispatchTo(a, "load", x)
    <3>1. x \in Nat /\ x \in P /\ Good(a, P) /\ a \in Docs /\ a.page.time = replaying.frame
      BY <2>2, <2>3
    <3> HIDE DEF x, P
    <3>2. /\ Good(b, P \ {x}) /\ b.page.time = a.page.time
          /\ HeardOf(b.heard, "input") = HeardOf(a.heard, "input")
          /\ Range(b.page.running) \subseteq Range(a.page.running)
      <4>1. Good(b, P \ {x})
        BY <3>1, LoadIsHeard
      <4>2. /\ b.page.time = a.page.time
            /\ HeardOf(b.heard, "input") = HeardOf(a.heard, "input")
            /\ Range(b.page.running) \subseteq Range(a.page.running)
        BY <3>1, <4>1, LoadIsHeard
      <4>3. QED BY <4>1, <4>2
    <3> HIDE DEF b
    <3>3. QED BY <2>3, <2>4, <3>2 DEF x, P, b
  <2>6. After(k)
    BY <2>1, <2>2, <2>5 DEF a
  <2>7. QED BY <2>1, <2>6
<1>5. n \in T
  <2> HIDE DEF T
  <2>1. \A k \in 0 .. n : k \in T
    BY <1>2, <1>3, <1>4, StepsStay
  <2>2. QED BY <1>2, <2>1
<1>6. LeftOf(q, n) = {}
  BY TakenAndLeft DEF n
<1>7. QED BY <1>2, <1>5, <1>6 DEF d

\* The callbacks that waited for the tick were called, but those cancelled meanwhile.
LEMMA CallbacksHeard ==
  ASSUME NEW s \in Docs, ReplayTyped, NEW q \in Seq(Nat), Good(s, {}),
         s.page.time = replaying.frame, Range(s.page.running) = Range(q)
  PROVE  LET d == Called(s, q) IN
         /\ d \in Docs /\ Good(d, {}) /\ d.page.time = replaying.frame
         /\ Range(d.page.running) = {} /\ HeardOf(d.heard, "input") = HeardOf(s.heard, "input")
<1> DEFINE f == replaying.frame
           n == Len(q)
           d == Called(s, q)
<1>1. PICK h : CallTurns(h, Docs, s, q)
  BY CallTyped, CallTurnsExist
<1>2. /\ n \in Nat /\ h \in [0 .. n -> Docs] /\ h[0] = s /\ h[n] = d
      /\ \A k \in 1 .. n : h[k] = Call(h[k - 1], q[k])
  BY <1>1 DEF CallTurns
<1> HIDE DEF d, n
<1> DEFINE After(k) == /\ Good(h[k], {}) /\ h[k].page.time = f
                       /\ Range(h[k].page.running) \subseteq LeftOf(q, k)
                       /\ HeardOf(h[k].heard, "input") = HeardOf(s.heard, "input")
           T == {k \in 0 .. n : After(k)}
<1>3. 0 \in T
  BY TakenAndLeft, <1>2
<1>4. ASSUME NEW k \in 1 .. n, k - 1 \in T PROVE k \in T
  <2>1. k - 1 \in 0 .. n /\ k \in 0 .. n /\ After(k - 1)
    BY <1>2, <1>4
  <2>2. q[k] \in Nat /\ LeftOf(q, k - 1) \ {q[k]} \subseteq LeftOf(q, k)
    BY TakenAndLeft DEF n
  <2> DEFINE a == h[k - 1]
  <2>3. /\ a \in Docs /\ Good(a, {}) /\ a.page.time = f
    BY <1>2, <2>1
  <2>4. h[k] = Call(a, q[k])
    BY <1>2
  <2> HIDE DEF a
  <2>5. /\ Good(h[k], {}) /\ h[k].page.time = f
        /\ HeardOf(h[k].heard, "input") = HeardOf(a.heard, "input")
        /\ Range(h[k].page.running) \subseteq Range(a.page.running) \ {q[k]}
    <3> DEFINE x == q[k]
               b == Call(a, x)
    <3>1. x \in Nat /\ Good(a, {}) /\ a \in Docs /\ a.page.time = replaying.frame
      BY <2>2, <2>3
    <3> HIDE DEF x
    <3>2. /\ Good(b, {}) /\ b.page.time = a.page.time
          /\ HeardOf(b.heard, "input") = HeardOf(a.heard, "input")
          /\ Range(b.page.running) \subseteq Range(a.page.running) \ {x}
      BY <3>1, CallIsHeard
    <3> HIDE DEF b
    <3>3. QED BY <2>3, <2>4, <3>2 DEF x, b
  <2>6. After(k)
    BY <2>1, <2>2, <2>5 DEF a
  <2>7. QED BY <2>1, <2>6
<1>5. n \in T
  <2> HIDE DEF T
  <2>1. \A k \in 0 .. n : k \in T
    BY <1>2, <1>3, <1>4, StepsStay
  <2>2. QED BY <1>2, <2>1
<1>6. LeftOf(q, n) = {}
  BY TakenAndLeft DEF n
<1>7. QED BY <1>2, <1>5, <1>6 DEF d

\* The frames for which what is asked for next is due, the first frame whose inputs
\* were not heard, and the frame that is shown next, at r.
NextSettle(r) == IF r.at \in {"input", "settle"} THEN r.frame ELSE r.frame + 1
NextTick(r) == IF r.at \in {"input", "settle", "tick"} THEN r.frame ELSE r.frame + 1
NextInput(r) == IF r.at = "input" THEN r.frame ELSE r.frame + 1
NextShown(r) == IF r.at = "done" THEN r.frame + 1 ELSE r.frame

\* Between two stages, before the one of r: nothing is overdue and nothing was heard early.
Ready(r, e, document, painted) ==
  /\ Stands(e, r.frame, NextSettle(r), NextTick(r), document.heard, document.asked,
            Range(document.page.images), {}, Range(document.page.waiting), {})
  /\ OnceEach(document.page.images) /\ Range(document.page.running) = {}
  /\ document.page.time = NextSettle(r) - 1
  /\ HeardOf(document.heard, "input") = {i \in DOMAIN e : e[i] < NextInput(r)}
  /\ Len(painted) = NextShown(r) - 1

Blank == [page |-> [time |-> 0, images |-> <<>>, waiting |-> <<>>, running |-> <<>>],
          heard |-> <<>>, asked |-> <<>>]
LiveStages == {"done", "input", "settle", "tick", "layout"}

InStep(r, e, document, painted) ==
  /\ HeardIsTrue(e, document.heard, document.asked)
  /\ r.at = "off" => r.frame = 0 /\ document = Blank /\ painted = <<>>
  /\ r.at \in LiveStages => Ready(r, e, document, painted)

\* A replay is in step with its trace.
ReplayInv == ReplayTyped /\ InStep(replaying, trace.events, Document, frames)

\* What a stage leaves is the document.
LEMMA BecomesIs ==
  ASSUME NEW s \in Docs, Becomes(s)
  PROVE  Document' = s
<1>1. s = [page |-> s.page, heard |-> s.heard, asked |-> s.asked]
  BY DEF Docs
<1>2. QED BY <1>1 DEF Becomes, Document

\* The types of the next state, from those of its parts.
LEMMA TypedNext ==
  ASSUME trace'.frames \in Nat, trace'.events \in Seq(Nat),
         reaction' \in [ReplaySounds -> Reactions],
         replaying' \in [at : ReplayStages, frame : Nat],
         Document' \in Docs, frames' \in Seq([heard : Nat, time : Nat])
  PROVE  ReplayTyped'
BY DEF ReplayTyped

\* The first state.
LEMMA ReplayStarts == ReplayInit => ReplayInv
<1> SUFFICES ASSUME ReplayInit PROVE ReplayInv
  OBVIOUS
<1>1. Document = Blank
  BY DEF ReplayInit, Document, Blank
<1>2. <<>> \in Seq(Nat) /\ <<>> \in Seq(Heards) /\ <<>> \in Seq(Asks)
  OBVIOUS
<1>3. Blank \in Docs
  BY <1>2 DEF Blank, Docs, Pages
<1>4. frames \in Seq([heard : Nat, time : Nat]) /\ frames = <<>>
  BY DEF ReplayInit
<1>5. ReplayTyped
  BY <1>2, <1>1, <1>3, <1>4 DEF ReplayInit, NoTrace, Reactions, ReplayStages, ReplayTyped
<1>6. HeardIsTrue(trace.events, <<>>, <<>>)
  BY DEF HeardIsTrue
<1>7. QED BY <1>1, <1>4, <1>5, <1>6 DEF ReplayInv, InStep, Blank, ReplayInit, LiveStages

\* The harness is loaded: one callback is asked for.
LEMMA LoadKeeps ==
  ASSUME ReplayInv, replaying.at = "off", LoadHarness,
         trace'.frames \in Nat, trace'.events \in Seq(Nat),
         \A i \in DOMAIN trace'.events : trace'.events[i] >= 1
  PROVE  ReplayInv'
<1> DEFINE a == [what |-> "frame", frame |-> 0, at |-> "tick"]
           p == [time |-> 0, images |-> <<>>, waiting |-> <<1>>, running |-> <<>>]
           document == [page |-> p, heard |-> <<>>, asked |-> <<a>>]
           ev == trace'.events
<1>1. replaying.frame = 0 /\ Document = Blank /\ frames = <<>> /\ ReplayTyped
  BY DEF ReplayInv, InStep
<1>2. page = Blank.page /\ replayed = <<>>
  BY <1>1 DEF Document, Blank
<1>3. Document' = document
  <2>1. page' = p
    BY <1>2 DEF LoadHarness, Blank
  <2> HIDE DEF p
  <2>2. QED BY <2>1, <1>2 DEF LoadHarness, Document
<1>4. a \in Asks /\ <<a>> \in Seq(Asks)
  <2>1. a \in Asks
    BY DEF Asks, ReplayStages
  <2> HIDE DEF a
  <2>2. QED BY <2>1
<1>5. document \in Docs
  <2>1. <<>> \in Seq(Nat) /\ <<>> \in Seq(Heards) /\ <<1>> \in Seq(Nat)
    OBVIOUS
  <2>2. p \in Pages
    BY <2>1 DEF Pages
  <2> HIDE DEF p, a
  <2>3. QED BY <1>4, <2>1, <2>2 DEF Docs
<1>6. replaying' = [at |-> "done", frame |-> 0] /\ replaying' \in [at : ReplayStages, frame : Nat]
  BY <1>1 DEF LoadHarness, ReplayTyped, ReplayStages
<1>7. frames' = <<>> /\ frames' \in Seq([heard : Nat, time : Nat])
  BY <1>1 DEF LoadHarness
<1>8. ReplayTyped'
  <2> HIDE DEF document
  <2>1. Document' \in Docs
    BY <1>3, <1>5
  <2>2. reaction' \in [ReplaySounds -> Reactions]
    BY DEF LoadHarness
  <2>3. QED BY <1>6, <1>7, <2>1, <2>2, TypedNext
<1>9. DueIn(a) = 1
  BY DEF DueIn
<1> HIDE DEF ev
<1>10. Stands(ev, 0, 1, 1, <<>>, <<a>>, {}, {}, {1}, {})
  <2>1. DOMAIN <<a>> = {1} /\ <<a>>[1] = a /\ a.what = "frame"
    OBVIOUS
  <2> HIDE DEF a
  <2>2. WantedOf(<<a>>, "image") = {} /\ WantedOf(<<a>>, "frame") = {1}
    BY <2>1 DEF WantedOf
  <2>3. HeardOf(<<>>, "load") = {} /\ HeardOf(<<>>, "tick") = {}
    BY DEF HeardOf
  <2>4. HeardIsTrue(ev, <<>>, <<a>>)
    BY DEF HeardIsTrue
  <2>5. QED BY <1>9, <2>1, <2>2, <2>3, <2>4 DEF Stands, InOneOf
<1>11. Ready(replaying', ev, document, <<>>)
  <2>1. /\ NextSettle(replaying') = 1 /\ NextTick(replaying') = 1 /\ NextInput(replaying') = 1
        /\ NextShown(replaying') = 1
    BY <1>6 DEF NextSettle, NextTick, NextInput, NextShown
  <2>2. Range(<<>>) = {} /\ Range(<<1>>) = {1}
    BY DEF Range
  <2>3. HeardOf(<<>>, "input") = {i \in DOMAIN ev : ev[i] < 1}
    BY DEF HeardOf, ev
  <2>4. OnceEach(<<>>)
    BY DEF OnceEach
  <2>5. Len(<<>>) = 0
    OBVIOUS
  <2>6. /\ document.heard = <<>> /\ document.asked = <<a>> /\ document.page.images = <<>> /\ document.page.time = 0
        /\ document.page.waiting = <<1>> /\ document.page.running = <<>>
    OBVIOUS
  <2> DEFINE r == replaying'
             none == <<>>
             one == <<1>>
             q == <<a>>
  <2>7. /\ Stands(ev, 0, 1, 1, none, q, {}, {}, {1}, {}) /\ Range(none) = {} /\ Range(one) = {1}
        /\ HeardOf(none, "input") = {i \in DOMAIN ev : ev[i] < 1} /\ OnceEach(none) /\ Len(none) = 0
        /\ document.heard = none /\ document.asked = q /\ document.page.images = none /\ document.page.time = 0
        /\ document.page.waiting = one /\ document.page.running = none
        /\ r.frame = 0 /\ NextSettle(r) = 1 /\ NextTick(r) = 1 /\ NextInput(r) = 1 /\ NextShown(r) = 1
    BY <1>6, <1>10, <2>1, <2>2, <2>3, <2>4, <2>5, <2>6
  <2> HIDE DEF document, none, one, q, r
  <2>8. Ready(r, ev, document, none)
    <3>1. Stands(ev, r.frame, NextSettle(r), NextTick(r), document.heard, document.asked,
                 Range(document.page.images), {}, Range(document.page.waiting), {})
      BY <2>7
    <3>2. /\ OnceEach(document.page.images) /\ Range(document.page.running) = {}
          /\ document.page.time = NextSettle(r) - 1 /\ Len(none) = NextShown(r) - 1
      BY <2>7
    <3>3. HeardOf(document.heard, "input") = {i \in DOMAIN ev : ev[i] < NextInput(r)}
      BY <2>7
    <3>4. QED BY <3>1, <3>2, <3>3 DEF Ready
  <2>9. QED BY <2>8 DEF none, r
<1>12. HeardIsTrue(ev, <<>>, <<a>>)
  BY DEF HeardIsTrue
<1>13. QED
  <2>1. InStep(replaying', ev, document, <<>>)
    BY <1>6, <1>11, <1>12 DEF InStep
  <2> HIDE DEF document
  <2>2. InStep(replaying', ev, Document', frames')
    BY <1>3, <1>7, <2>1
  <2>3. QED BY <1>8, <2>2 DEF ReplayInv, ev

\* A trace starts, or is refused.
LEMMA TraceKeeps ==
  ASSUME ReplayInv, ReplayTrace
  PROVE  ReplayInv'
<1>0. replaying.at = "off"
  BY DEF ReplayTrace
<1>1. PICK n \in 0 .. MaxReplayFrames, es \in BoundedSeq(0 .. MaxReplayFrames + 1, MaxReplayInputs) :
        trace' = [frames |-> n, events |-> es]
  BY DEF ReplayTrace
<1>2. MaxReplayFrames \in Nat /\ MaxReplayInputs \in Nat
  BY ReplayAssumption
<1>3. trace'.frames \in Nat /\ trace'.events \in Seq(Nat) /\ trace'.events = es
  <2>1. PICK m \in 0 .. MaxReplayInputs : es \in [1 .. m -> 0 .. MaxReplayFrames + 1]
    BY DEF BoundedSeq, SeqOf
  <2>2. m \in Nat /\ 0 .. MaxReplayFrames + 1 \subseteq Nat /\ n \in Nat
    BY <1>2
  <2>3. es \in Seq(Nat)
    BY <2>1, <2>2
  <2>4. QED BY <1>1, <2>2, <2>3
<1>4. CASE Valid(trace')
  BY <1>4, <1>3, <1>0, LoadKeeps DEF ReplayTrace, Valid
<1>5. CASE ~Valid(trace')
  <2>1. /\ replaying' = [replaying EXCEPT !.at = "refused"]
        /\ UNCHANGED <<reaction, page, replayed, replayAsks, frames>>
    BY <1>5 DEF ReplayTrace
  <2>2. ReplayTyped /\ Document = Blank
    BY <1>0 DEF ReplayInv, InStep
  <2>3. Document' = Document
    BY <2>1 DEF Document
  <2>4. replaying' \in [at : ReplayStages, frame : Nat] /\ replaying'.at = "refused"
    BY <2>1, <2>2 DEF ReplayTyped, ReplayStages
  <2>5. ReplayTyped'
    BY <2>1, <2>2, <2>3, <1>3, <2>4, TypedNext DEF ReplayTyped
  <2>6. HeardIsTrue(trace'.events, Document'.heard, Document'.asked)
    BY <2>2, <2>3 DEF HeardIsTrue, Blank
  <2>7. InStep(replaying', trace'.events, Document', frames')
    BY <2>4, <2>6 DEF InStep, LiveStages
  <2>8. QED BY <2>5, <2>7 DEF ReplayInv
<1>6. QED BY <1>4, <1>5

\* Frames without a trace start.
LEMMA AnimateKeeps ==
  ASSUME ReplayInv, Animate
  PROVE  ReplayInv'
<1>1. PICK n \in 0 .. MaxReplayFrames : trace' = [NoTrace EXCEPT !.frames = n]
  BY DEF Animate
<1>2. trace' = [frames |-> n, events |-> <<>>] /\ n \in Nat
  BY <1>1, ReplayAssumption DEF NoTrace
<1>3. /\ trace'.frames \in Nat /\ trace'.events \in Seq(Nat)
      /\ \A i \in DOMAIN trace'.events : trace'.events[i] >= 1
  BY <1>2
<1>4. replaying.at = "off" /\ LoadHarness
  BY DEF Animate
<1>5. QED BY <1>3, <1>4, LoadKeeps

\* The next frame starts: nothing is due in it that was not due already.
LEMMA AdvanceKeeps ==
  ASSUME ReplayInv, Advance
  PROVE  ReplayInv'
<1> DEFINE r == replaying
           n == replaying'
           ev == trace.events
<1>1. /\ ReplayTyped /\ HeardIsTrue(ev, Document.heard, Document.asked)
      /\ Ready(r, ev, Document, frames)
  BY DEF ReplayInv, InStep, LiveStages, Advance
<1>2. r.at = "done" /\ n = [at |-> "input", frame |-> r.frame + 1] /\ r.frame \in Nat
  BY <1>1 DEF Advance, ReplayTyped
<1>3. Document' = Document /\ trace' = trace /\ reaction' = reaction /\ frames' = frames
  BY DEF Advance, Document
<1>4. ReplayTyped'
  BY <1>2, <1>1, <1>3, TypedNext DEF ReplayStages, ReplayTyped
<1>5. /\ NextSettle(n) = NextSettle(r) /\ NextTick(n) = NextTick(r) /\ NextInput(n) = NextInput(r)
      /\ NextShown(n) = NextShown(r) /\ n.at = "input"
  BY <1>2 DEF NextSettle, NextTick, NextInput, NextShown
<1> DEFINE document == Document
<1> HIDE DEF document, r, n, ev
<1>6. Ready(n, ev, document, frames)
  BY <1>1, <1>5 DEF Ready, Stands, document
<1>7. InStep(n, ev, document, frames)
  BY <1>1, <1>5, <1>6 DEF InStep, document
<1>8. QED BY <1>3, <1>4, <1>7 DEF ReplayInv, document, n, ev

\* The facts of a stage: what it starts from, and what it leaves.
LEMMA StageIs ==
  ASSUME ReplayInv, NEW at \in LiveStages, NEW next \in LiveStages, Stage(at, next)
  PROVE  /\ ReplayTyped /\ Document \in Docs /\ Ready(replaying, trace.events, Document, frames)
         /\ replaying.at = at /\ replaying' = [at |-> next, frame |-> replaying.frame]
         /\ replaying.frame \in Nat
         /\ trace' = trace /\ reaction' = reaction
<1>1. ReplayTyped /\ Ready(replaying, trace.events, Document, frames)
  BY DEF ReplayInv, InStep, Stage
<1>2. QED BY <1>1 DEF Stage, ReplayTyped

\* A stage that leaves a document in step keeps the invariant.
LEMMA StageKeeps ==
  ASSUME ReplayInv, NEW at \in LiveStages, NEW next \in LiveStages, Stage(at, next),
         NEW d \in Docs, Document' = d, frames' \in Seq([heard : Nat, time : Nat]),
         Ready([at |-> next, frame |-> replaying.frame], trace.events, d, frames')
  PROVE  ReplayInv'
<1>1. /\ ReplayTyped /\ replaying' = [at |-> next, frame |-> replaying.frame]
      /\ replaying.frame \in Nat /\ trace' = trace /\ reaction' = reaction
  BY StageIs
<1>2. ReplayTyped'
  BY <1>1, TypedNext DEF ReplayStages, LiveStages, ReplayTyped
<1>3. HeardIsTrue(trace.events, d.heard, d.asked)
  BY DEF Ready, Stands
<1>4. InStep(replaying', trace.events, d, frames')
  BY <1>1, <1>3 DEF InStep, LiveStages
<1>5. QED BY <1>1, <1>2, <1>4 DEF ReplayInv

\* A good document with nothing left to do in its stage is ready for the next.
LEMMA GoodIsReady ==
  ASSUME NEW d \in Docs, NEW n, Good(d, {}), Range(d.page.running) = {}, NEW painted,
         n.frame = replaying.frame, NextSettle(n) = SettleAfter, NextTick(n) = TickAfter,
         d.page.time = NextSettle(n) - 1,
         HeardOf(d.heard, "input") = {i \in DOMAIN trace.events : trace.events[i] < NextInput(n)},
         Len(painted) = NextShown(n) - 1
  PROVE  Ready(n, trace.events, d, painted)
BY DEF Ready, Good

\* The inputs of the frame are dispatched.
LEMMA DrainKeeps ==
  ASSUME ReplayInv, DrainInput
  PROVE  ReplayInv'
<1> DEFINE f == replaying.frame
           n == [at |-> "settle", frame |-> f]
           d == HearAll(Document, "input", InputsForFrame(f))
<1>0. Stage("input", "settle") /\ Becomes(d) /\ frames' = frames
  BY DEF DrainInput
<1>1. {"input", "settle"} \subseteq LiveStages
  BY DEF LiveStages
<1>2. /\ ReplayTyped /\ Document \in Docs /\ Ready(replaying, trace.events, Document, frames)
      /\ replaying.at = "input" /\ f \in Nat
  BY <1>0, <1>1, StageIs
<1>3. /\ NextSettle(replaying) = f /\ NextTick(replaying) = f /\ NextInput(replaying) = f
      /\ NextShown(replaying) = f /\ SettleAfter = f /\ TickAfter = f
      /\ NextSettle(n) = f /\ NextTick(n) = f /\ NextInput(n) = f + 1 /\ NextShown(n) = f
  BY <1>2 DEF NextSettle, NextTick, NextInput, NextShown, SettleAfter, TickAfter
<1>4. /\ Good(Document, {}) /\ Document.page.time = f - 1 /\ Range(Document.page.running) = {}
      /\ HeardOf(Document.heard, "input") = {i \in DOMAIN trace.events : trace.events[i] < f}
      /\ Len(frames) = f - 1
  BY <1>2, <1>3 DEF Ready, Good
<1>5. /\ d \in Docs /\ Good(d, {}) /\ d.page.time = f - 1 /\ Range(d.page.running) = {}
      /\ HeardOf(d.heard, "input") = {i \in DOMAIN trace.events : trace.events[i] < f + 1}
  BY <1>2, <1>4, InputsHeard
<1> HIDE DEF d
<1>6. n.frame = f
  OBVIOUS
<1> HIDE DEF n
<1>7. Ready(n, trace.events, d, frames)
  BY <1>3, <1>4, <1>5, <1>6, GoodIsReady
<1>8. Document' = d
  BY <1>0, <1>5, BecomesIs
<1>9. frames' \in Seq([heard : Nat, time : Nat]) /\ Ready(n, trace.events, d, frames')
  BY <1>0, <1>2, <1>7 DEF ReplayTyped
<1>10. QED BY <1>0, <1>1, <1>5, <1>8, <1>9, StageKeeps DEF n

\* The images that owe an outcome have it.
LEMMA SettleKeeps ==
  ASSUME ReplayInv, SettleImages
  PROVE  ReplayInv'
<1> DEFINE f == replaying.frame
           n == [at |-> "tick", frame |-> f]
           s == [Document EXCEPT !.page.time = f, !.page.images = <<>>]
           d == HearAll(s, "load", page.images)
<1>0. Stage("settle", "tick") /\ Becomes(d) /\ frames' = frames
  BY DEF SettleImages
<1>1. {"tick", "settle"} \subseteq LiveStages
  BY DEF LiveStages
<1>2. /\ ReplayTyped /\ Document \in Docs /\ Ready(replaying, trace.events, Document, frames)
      /\ replaying.at = "settle" /\ f \in Nat
  BY <1>0, <1>1, StageIs
<1>3. /\ NextSettle(replaying) = f /\ NextTick(replaying) = f /\ NextInput(replaying) = f + 1
      /\ NextShown(replaying) = f /\ SettleAfter = f + 1 /\ TickAfter = f
      /\ NextSettle(n) = f + 1 /\ NextTick(n) = f /\ NextInput(n) = f + 1 /\ NextShown(n) = f
  BY <1>2 DEF NextSettle, NextTick, NextInput, NextShown, SettleAfter, TickAfter
<1>4. /\ s \in Docs /\ s.heard = Document.heard /\ s.asked = Document.asked
      /\ s.page.time = f /\ s.page.images = <<>>
      /\ s.page.waiting = Document.page.waiting /\ s.page.running = Document.page.running
  <2>1. <<>> \in Seq(Nat)
    OBVIOUS
  <2> DEFINE document == Document
             s1 == [document EXCEPT !.page.time = f]
             s2 == [s1 EXCEPT !.page.images = <<>>]
  <2>2. s = s2
    OBVIOUS
  <2> HIDE DEF s, document
  <2>3. /\ s1 \in Docs /\ s1.heard = document.heard /\ s1.asked = document.asked
        /\ s1.page.time = f /\ s1.page.images = document.page.images
        /\ s1.page.waiting = document.page.waiting /\ s1.page.running = document.page.running
    BY <1>2 DEF Docs, Pages, document
  <2> HIDE DEF s1
  <2>4. /\ s2 \in Docs /\ s2.heard = s1.heard /\ s2.asked = s1.asked
        /\ s2.page.time = s1.page.time /\ s2.page.images = <<>>
        /\ s2.page.waiting = s1.page.waiting /\ s2.page.running = s1.page.running
    BY <2>1, <2>3 DEF Docs, Pages
  <2> HIDE DEF s2
  <2>5. QED BY <2>2, <2>3, <2>4 DEF document
<1>5. page.images = Document.page.images /\ page.images \in Seq(Nat)
  BY <1>2, DocIs DEF Document
<1> DEFINE q == page.images
<1> HIDE DEF d, s, q, n
<1>6. /\ Good(s, Range(q)) /\ OnceEach(q) /\ Range(s.page.running) = {}
      /\ HeardOf(s.heard, "input") = {i \in DOMAIN trace.events : trace.events[i] < f + 1}
      /\ Len(frames) = f - 1
  BY <1>2, <1>3, <1>4, <1>5, NoneIn DEF Ready, q, Stands, InOneOf, OnceEach, Good
<1>7. /\ d \in Docs /\ Good(d, {}) /\ d.page.time = f /\ Range(d.page.running) = {}
      /\ HeardOf(d.heard, "input") = HeardOf(s.heard, "input")
  BY <1>2, <1>4, <1>5, <1>6, ImagesHeard DEF d, q
<1>8. n.frame = f
  BY DEF n
<1>9. Ready(n, trace.events, d, frames)
  BY <1>2, <1>3, <1>7, <1>6, <1>8, GoodIsReady
<1>10. Document' = d
  BY <1>0, <1>7, BecomesIs
<1>11. frames' \in Seq([heard : Nat, time : Nat]) /\ Ready(n, trace.events, d, frames')
  BY <1>0, <1>2, <1>9 DEF ReplayTyped
<1>12. QED BY <1>0, <1>1, <1>7, <1>10, <1>11, StageKeeps DEF n

\* The callbacks that waited are called.
LEMMA RunKeeps ==
  ASSUME ReplayInv, RunAnimationFrames
  PROVE  ReplayInv'
<1> DEFINE f == replaying.frame
           n == [at |-> "layout", frame |-> f]
           s == [Document EXCEPT !.page.running = page.waiting, !.page.waiting = <<>>]
           d == Called(s, page.waiting)
<1>0. Stage("tick", "layout") /\ Becomes(d) /\ frames' = frames
  BY DEF RunAnimationFrames, Called
<1>1. {"tick", "layout"} \subseteq LiveStages
  BY DEF LiveStages
<1>2. /\ ReplayTyped /\ Document \in Docs /\ Ready(replaying, trace.events, Document, frames)
      /\ replaying.at = "tick" /\ f \in Nat
  BY <1>0, <1>1, StageIs
<1>3. /\ NextSettle(replaying) = f + 1 /\ NextTick(replaying) = f /\ NextInput(replaying) = f + 1
      /\ NextShown(replaying) = f /\ SettleAfter = f + 1 /\ TickAfter = f + 1
      /\ NextSettle(n) = f + 1 /\ NextTick(n) = f + 1 /\ NextInput(n) = f + 1 /\ NextShown(n) = f
  BY <1>2 DEF NextSettle, NextTick, NextInput, NextShown, SettleAfter, TickAfter
<1> DEFINE q == page.waiting
<1>4. q = Document.page.waiting /\ q \in Seq(Nat)
  BY <1>2, DocIs DEF Document
<1> HIDE DEF q
<1>5. /\ s \in Docs /\ s.heard = Document.heard /\ s.asked = Document.asked
      /\ s.page.time = Document.page.time /\ s.page.images = Document.page.images
      /\ s.page.waiting = <<>> /\ s.page.running = q
  <2>1. <<>> \in Seq(Nat)
    OBVIOUS
  <2> DEFINE document == Document
             s1 == [document EXCEPT !.page.running = q]
             s2 == [s1 EXCEPT !.page.waiting = <<>>]
  <2>2. s = s2
    BY DEF q
  <2> HIDE DEF s, document
  <2>3. /\ s1 \in Docs /\ s1.heard = document.heard /\ s1.asked = document.asked
        /\ s1.page.time = document.page.time /\ s1.page.images = document.page.images
        /\ s1.page.waiting = document.page.waiting /\ s1.page.running = q
    BY <1>2, <1>4 DEF Docs, Pages, document
  <2> HIDE DEF s1
  <2>4. /\ s2 \in Docs /\ s2.heard = s1.heard /\ s2.asked = s1.asked
        /\ s2.page.time = s1.page.time /\ s2.page.images = s1.page.images
        /\ s2.page.waiting = <<>> /\ s2.page.running = s1.page.running
    BY <2>1, <2>3 DEF Docs, Pages
  <2> HIDE DEF s2
  <2>5. QED BY <2>2, <2>3, <2>4 DEF document
<1>6. d = Called(s, q)
  BY DEF q
<1> HIDE DEF d, s, n
<1>7. /\ Good(s, {}) /\ s.page.time = f
      /\ HeardOf(s.heard, "input") = {i \in DOMAIN trace.events : trace.events[i] < f + 1}
      /\ Len(frames) = f - 1
  <2>1. /\ s.page.time = (f + 1) - 1 /\ OnceEach(s.page.images)
        /\ HeardOf(s.heard, "input") = {i \in DOMAIN trace.events : trace.events[i] < f + 1}
        /\ Len(frames) = f - 1
    BY <1>2, <1>3, <1>5 DEF Ready
  <2>2. Stands(trace.events, f, f + 1, f, s.heard, s.asked, Range(s.page.images), {}, Range(q), {})
    BY <1>2, <1>3, <1>4, <1>5 DEF Ready
  <2>3. Stands(trace.events, f, f + 1, f + 1, s.heard, s.asked, Range(s.page.images), {}, {}, Range(q))
    BY <2>2 DEF Stands, InOneOf
  <2>4. Range(s.page.waiting) = {} /\ Range(s.page.running) = Range(q)
    BY <1>5, NoneIn
  <2>5. Good(s, {})
    BY <1>3, <2>1, <2>3, <2>4 DEF Good
  <2>6. s.page.time = f
    BY <1>2, <2>1
  <2>7. QED BY <2>1, <2>5, <2>6
<1>8. /\ d \in Docs /\ Good(d, {}) /\ d.page.time = f /\ Range(d.page.running) = {}
      /\ HeardOf(d.heard, "input") = HeardOf(s.heard, "input")
  BY <1>5, <1>2, <1>4, <1>6, <1>7, CallbacksHeard
<1>9. n.frame = f
  BY DEF n
<1>10. Ready(n, trace.events, d, frames)
  BY <1>2, <1>3, <1>8, <1>7, <1>9, GoodIsReady
<1>11. Document' = d
  BY <1>0, <1>8, BecomesIs
<1>12. frames' \in Seq([heard : Nat, time : Nat]) /\ Ready(n, trace.events, d, frames')
  BY <1>0, <1>2, <1>10 DEF ReplayTyped
<1>13. QED BY <1>0, <1>1, <1>8, <1>11, <1>12, StageKeeps DEF n

\* The frame is shown.
LEMMA LayoutKeeps ==
  ASSUME ReplayInv, LayoutAndPaint
  PROVE  ReplayInv'
<1> DEFINE f == replaying.frame
           n == [at |-> "done", frame |-> f]
           d == Document
<1>0. Stage("layout", "done") /\ frames' = Append(frames, Digest) /\ Document' = d
  BY DEF LayoutAndPaint, Document
<1>1. {"layout", "done"} \subseteq LiveStages
  BY DEF LiveStages
<1>2. /\ ReplayTyped /\ d \in Docs /\ Ready(replaying, trace.events, d, frames)
      /\ replaying.at = "layout" /\ f \in Nat
  BY <1>0, <1>1, StageIs
<1>3. /\ NextSettle(replaying) = f + 1 /\ NextTick(replaying) = f + 1 /\ NextInput(replaying) = f + 1
      /\ NextShown(replaying) = f /\ n.frame = f
      /\ NextSettle(n) = f + 1 /\ NextTick(n) = f + 1 /\ NextInput(n) = f + 1 /\ NextShown(n) = f + 1
  BY <1>2 DEF NextSettle, NextTick, NextInput, NextShown
<1>4. Digest \in [heard : Nat, time : Nat]
  BY <1>2, DocIs DEF Document, Digest
<1>5. frames' \in Seq([heard : Nat, time : Nat]) /\ Len(frames') = Len(frames) + 1 /\ Len(frames) \in Nat
  BY <1>0, <1>2, <1>4 DEF ReplayTyped
<1> HIDE DEF d, n
<1>6. Ready(n, trace.events, d, frames')
  BY <1>2, <1>3, <1>5 DEF Ready
<1>7. QED BY <1>0, <1>1, <1>2, <1>5, <1>6, StageKeeps DEF n

\* A stage fails.
LEMMA FailKeeps ==
  ASSUME ReplayInv, Fail
  PROVE  ReplayInv'
<1>1. /\ ReplayTyped /\ HeardIsTrue(trace.events, Document.heard, Document.asked)
  BY DEF ReplayInv, InStep
<1>2. /\ Document' = Document /\ trace' = trace /\ reaction' = reaction /\ frames' = frames
      /\ replaying' = [replaying EXCEPT !.at = "failed"]
  BY DEF Fail, Document
<1>3. replaying' \in [at : ReplayStages, frame : Nat] /\ replaying'.at = "failed"
  BY <1>1, <1>2 DEF ReplayTyped, ReplayStages
<1>4. ReplayTyped'
  BY <1>1, <1>2, <1>3, TypedNext DEF ReplayTyped
<1>5. InStep(replaying', trace.events, Document, frames)
  BY <1>1, <1>3 DEF InStep, LiveStages
<1>6. QED BY <1>2, <1>4, <1>5 DEF ReplayInv

\* Every step keeps the invariant.
LEMMA ReplayKeeps == ReplayInv /\ [ReplayNext]_replayVars => ReplayInv'
<1> SUFFICES ASSUME ReplayInv, [ReplayNext]_replayVars PROVE ReplayInv'
  OBVIOUS
<1>1. CASE ReplayTrace
  BY <1>1, TraceKeeps
<1>2. CASE Animate
  BY <1>2, AnimateKeeps
<1>3. CASE Advance
  BY <1>3, AdvanceKeeps
<1>4. CASE DrainInput
  BY <1>4, DrainKeeps
<1>5. CASE SettleImages
  BY <1>5, SettleKeeps
<1>6. CASE RunAnimationFrames
  BY <1>6, RunKeeps
<1>7. CASE LayoutAndPaint
  BY <1>7, LayoutKeeps
<1>8. CASE Fail
  BY <1>8, FailKeeps
<1>9. CASE UNCHANGED replayVars
  BY <1>9 DEF replayVars, Document, ReplayInv, ReplayTyped
<1>10. QED
  BY <1>1, <1>2, <1>3, <1>4, <1>5, <1>6, <1>7, <1>8, <1>9 DEF ReplayNext, FrameStage

\* A replay in step follows its trace.
LEMMA InStepFollows == ReplayInv => FramesFollowTrace
<1> SUFFICES ASSUME ReplayInv PROVE FramesFollowTrace
  OBVIOUS
<1> DEFINE ev == trace.events
<1>1. /\ HeardIsTrue(ev, replayed, replayAsks) /\ ReplayTyped
      /\ replaying.at = "done" => Ready(replaying, ev, Document, frames)
  BY DEF ReplayInv, InStep, Document, LiveStages
<1>2. \A x \in ReplaySounds : \A h \in RepliesTo(x) : WasDue(ev, replayAsks, h) /\ h.what = x
  BY <1>1 DEF RepliesTo, HeardIsTrue
<1>3. \A x \in ReplaySounds : Once(x)
  BY <1>1 DEF Once, HeardIsTrue
<1>4. \A h \in RepliesTo("input") : h.frame = ev[h.id] /\ h.time = h.frame - 1
  BY <1>2 DEF WasDue, ReplaySounds
<1>5. \A h \in RepliesTo("load") \cup RepliesTo("tick") :
        /\ h.frame = DueIn(replayAsks[h.id]) /\ h.time = h.frame
        /\ replayAsks[h.id].what # "cancelled"
  <2> HIDE DEF DueIn
  <2>1. QED BY <1>2 DEF WasDue, ReplaySounds
<1>6. ASSUME NEW x, NEW i \in HeardOf(replayed, x) PROVE \E h \in RepliesTo(x) : h.id = i
  BY DEF HeardOf, RepliesTo
<1>7. ASSUME replaying.at = "done"
      PROVE  /\ Len(frames) = replaying.frame
             /\ \A i \in DOMAIN ev : ev[i] <= replaying.frame => \E h \in RepliesTo("input") : h.id = i
             /\ \A i \in DOMAIN replayAsks :
                  replayAsks[i].what # "cancelled" /\ DueIn(replayAsks[i]) <= replaying.frame =>
                    \E h \in RepliesTo("load") \cup RepliesTo("tick") : h.id = i
  <2> DEFINE f == replaying.frame
             I == Range(page.images)
             W == Range(page.waiting)
  <2>1. f \in Nat /\ Ready(replaying, ev, Document, frames)
    BY <1>1, <1>7 DEF ReplayTyped
  <2>2. /\ NextSettle(replaying) = f + 1 /\ NextTick(replaying) = f + 1
        /\ NextInput(replaying) = f + 1 /\ NextShown(replaying) = f + 1
    BY <1>7 DEF NextSettle, NextTick, NextInput, NextShown
  <2>3. Document.heard = replayed /\ Document.asked = replayAsks /\ Document.page = page
    BY DEF Document
  <2>4. /\ Stands(ev, f, f + 1, f + 1, replayed, replayAsks, I, {}, W, {})
        /\ HeardOf(replayed, "input") = {i \in DOMAIN ev : ev[i] < f + 1}
        /\ Len(frames) = (f + 1) - 1
    BY <2>1, <2>2, <2>3 DEF Ready
  <2>5. Len(frames) = f
    BY <2>1, <2>4
  <2>6. ASSUME NEW i \in DOMAIN ev, ev[i] <= f PROVE \E h \in RepliesTo("input") : h.id = i
    BY <1>1, <2>1, <2>4, <2>6, <1>6 DEF ReplayTyped
  <2>7. ASSUME NEW i \in DOMAIN replayAsks, replayAsks[i].what # "cancelled",
               DueIn(replayAsks[i]) <= f
        PROVE  \E h \in RepliesTo("load") \cup RepliesTo("tick") : h.id = i
    <3>1. replayAsks[i].what \in {"image", "frame"}
      BY <1>1, <2>3, DocIs, <2>7 DEF ReplayTyped, Asks
    <3>2. i \in I \cup W \cup HeardOf(replayed, "load") \cup HeardOf(replayed, "tick")
      BY <2>4, <3>1 DEF Stands, InOneOf, WantedOf
    <3>3. i \notin I \cup W
      <4> DEFINE due == DueIn(replayAsks[i])
      <4>1. i \in I \cup W => due = f + 1
        BY <2>4 DEF Stands
      <4> HIDE DEF due
      <4>2. due = f + 1 => ~(due <= f)
        BY <2>1
      <4>3. QED BY <4>1, <4>2, <2>7 DEF due
    <3>4. QED BY <3>2, <3>3, <1>6
  <2>8. QED BY <2>5, <2>6, <2>7
<1>8. QED BY <1>3, <1>4, <1>5, <1>7 DEF FramesFollowTrace

\* Only the trace decides when something is heard (FramePipeline::run, prelude.js): each
\* input in its frame, and whatever the application asked for in the first frame whose
\* stage was still to come, with that frame's time, once, unless it was cancelled; a
\* frame that is shown has heard all that was due in it.
THEOREM FramesHold == ReplaySpec => []FramesFollowTrace
<1>1. ReplayInit => ReplayInv
  BY ReplayStarts
<1>2. ReplayInv /\ [ReplayNext]_replayVars => ReplayInv'
  BY ReplayKeeps
<1>3. ReplayInv => FramesFollowTrace
  BY InStepFollows
<1>4. QED BY <1>1, <1>2, <1>3, PTL DEF ReplaySpec

-----------------------------------------------------------------------------
(* MenuSurfaces: a document knows what its menus show                       *)

\* Menus, and what goes to the document about them.
Items == Checkable \cup {"quit"}
Menus == [gen : Nat, checked : SUBSET Checkable, close : BOOLEAN, quit : BOOLEAN]
Events == [gen : Nat \ {0}, item : Items]
Actions == [type : {"action"}, gen : Nat, item : Items, on : BOOLEAN]
IconSignals == {[type |-> "click"], [type |-> "show"]}
Signals == Actions \cup IconSignals
Answers == [type : {"done"}, gen : Nat, menu : Menus]
Messages == Signals \cup Answers \cup {MenuRefused}
Requests == [type : {"configure"}, menu : Parsed] \cup {[type |-> "remove"]}

\* A click on one of the items of a menu has not been claimed.
Outstanding(events, gen, items) ==
  \E j \in DOMAIN events : events[j].gen = gen /\ events[j].item \in items

\* What the document will know, h, is what the menu m shows, but for what is outstanding.
AgreesWith(m, h, events) ==
  /\ h.gen = m.gen /\ h.close = m.close /\ h.quit = m.quit
  /\ ~Outstanding(events, m.gen, Radios) => h.checked \cap Radios = m.checked \cap Radios
  /\ ~Outstanding(events, m.gen, {"box"}) => ("box" \in h.checked <=> "box" \in m.checked)

ChosenOnce(m, events) ==
  m # NoMenu /\ ~Outstanding(events, m.gen, Radios) => m.checked \cap Radios \in {{"light"}, {"dark"}}

\* A document that was told of its menu, or is about to be.
Knows(b, messages) == b # NoMenu \/ \E x \in ToSet(messages) : x.type = "done"

\* No answer is of a later menu, and no action behind one of an earlier.
InGenerations(m, messages, next) ==
  /\ \A i \in DOMAIN messages : messages[i].type = "done" =>
       messages[i].gen < next /\ (m # NoMenu => messages[i].gen <= m.gen)
  /\ \A i, j \in DOMAIN messages :
       i < j /\ messages[i].type = "done" /\ messages[j].type = "action"
         => messages[j].gen >= messages[i].gen

\* A surface: its menu, what its document knows, the messages and the signals on their
\* way to it, the events nobody claimed and the next menu's number.  A document that has
\* lost something need not know its menu.
SurfaceAgrees(lost, m, b, messages, signals, events, next) ==
  /\ m \in Menus /\ (m = NoMenu \/ m.gen # 0) /\ m.gen < next
  /\ b \in Menus /\ messages \in Seq(Messages) /\ signals \in Seq(Signals)
  /\ ChosenOnce(m, events)
  /\ lost = {} /\ Knows(b, messages) => AgreesWith(m, LearntAll(LearntAll(b, messages), signals), events)
  /\ InGenerations(m, messages, next)
  /\ \A i \in DOMAIN signals : signals[i].type = "action" => signals[i].gen = m.gen
  /\ m = NoMenu => signals = <<>>

MissedBy(s) == misled \cap {s}
SignalsOf(s) == IF s = "tray" THEN pendingSignals ELSE <<>>

\* What each of the two toolkits has no use for.
Kits ==
  /\ toolkit \in {"muda", "ksni"}
  /\ toolkit = "ksni" => native = <<>> /\ menu["bar"] = NoMenu /\ menuRequests["bar"] = <<>>
  /\ toolkit # "ksni" => pendingSignals = <<>>

MenuTyped ==
  /\ nextMenu \in Nat /\ nextMenu # 0 /\ iconClicks \in Nat
  /\ native \in Seq(Events)
  /\ menuRequests \in [Surfaces -> Seq(Requests)]
  /\ menu \in [Surfaces -> Menus] /\ believed \in [Surfaces -> Menus]
  /\ menuMessages \in [Surfaces -> Seq(Messages)]

MenuInv ==
  /\ MenuTyped /\ Kits
  /\ \A s \in Surfaces :
       SurfaceAgrees(MissedBy(s), menu[s], believed[s], menuMessages[s], SignalsOf(s), native, nextMenu)
\* What one message tells.
LEMMA LearntIs ==
  ASSUME NEW b \in Menus, NEW x \in Messages
  PROVE  /\ Learnt(b, x) \in Menus
         /\ x \in Actions =>
              /\ Learnt(b, x).gen = b.gen /\ Learnt(b, x).close = b.close /\ Learnt(b, x).quit = b.quit
              /\ x.item \in Radios => Learnt(b, x).checked = Selected(b.checked, x.item)
              /\ x.item = "box" =>
                   Learnt(b, x).checked = IF x.on THEN b.checked \cup {"box"} ELSE b.checked \ {"box"}
              /\ x.item = "quit" => Learnt(b, x) = b
         /\ x \in IconSignals \cup {MenuRefused} => Learnt(b, x) = b
         /\ x \in Answers => Learnt(b, x) = x.menu
<1>1. ASSUME x \in Actions, x.item \in Radios
      PROVE  Learnt(b, x) = [b EXCEPT !.checked = Selected(@, x.item)] /\ Learnt(b, x) \in Menus
  BY <1>1 DEF Learnt, Actions, Radios, Menus, Selected, Checkable
<1>2. ASSUME x \in Actions, x.item = "box"
      PROVE  /\ Learnt(b, x) = [b EXCEPT !.checked = IF x.on THEN @ \cup {"box"} ELSE @ \ {"box"}]
             /\ Learnt(b, x) \in Menus
  BY <1>2 DEF Learnt, Actions, Radios, Menus, Checkable
<1>3. ASSUME x \in Actions, x.item = "quit" PROVE Learnt(b, x) = b
  BY <1>3 DEF Learnt, Actions, Radios
<1>4. ASSUME x \in IconSignals \cup {MenuRefused} PROVE Learnt(b, x) = b
  BY <1>4 DEF Learnt, IconSignals, MenuRefused
<1>5. ASSUME x \in Answers PROVE Learnt(b, x) = x.menu /\ Learnt(b, x) \in Menus
  BY <1>5 DEF Learnt, Answers
<1>6. x \in Actions => x.item \in Radios \/ x.item = "box" \/ x.item = "quit"
  BY DEF Actions, Items, Checkable
<1>7. x \in Actions \/ x \in IconSignals \cup {MenuRefused} \/ x \in Answers
  BY DEF Messages, Signals
<1>8. Learnt(b, x) \in Menus
  BY <1>1, <1>2, <1>3, <1>4, <1>5, <1>6, <1>7
<1>9. ASSUME x \in Actions, x.item \in Radios
      PROVE  /\ Learnt(b, x).gen = b.gen /\ Learnt(b, x).close = b.close /\ Learnt(b, x).quit = b.quit
             /\ Learnt(b, x).checked = Selected(b.checked, x.item)
  BY <1>1, <1>9 DEF Menus
<1>10. ASSUME x \in Actions, x.item = "box"
       PROVE  /\ Learnt(b, x).gen = b.gen /\ Learnt(b, x).close = b.close /\ Learnt(b, x).quit = b.quit
              /\ Learnt(b, x).checked = IF x.on THEN b.checked \cup {"box"} ELSE b.checked \ {"box"}
  BY <1>2, <1>10 DEF Menus
<1>11. "box" \notin Radios /\ "quit" \notin Radios
  BY DEF Radios
<1>12. QED BY <1>3, <1>4, <1>5, <1>6, <1>8, <1>9, <1>10, <1>11

\* What a document learns, one message after the other: h tells what it knows after each.
LearntTurns(h, D, base, s) ==
  /\ h \in [0 .. Len(s) -> D] /\ h[0] = base /\ h[Len(s)] = LearntAll(base, s)
  /\ \A k \in 1 .. Len(s) : h[k] = Learnt(h[k - 1], s[k])

\* Messages are learnt one after the other.
LEMMA LearntTurnsExist ==
  ASSUME NEW D, NEW base \in D, NEW X, NEW s \in Seq(X),
         \A a \in D, x \in X : Learnt(a, x) \in D
  PROVE  \E h : LearntTurns(h, D, base, s)
<1> DEFINE n == Len(s)
           G == [p \in D \X (1 .. n) |-> Learnt(p[1], s[p[2]])]
           Then(f, t) == Learnt(f[t \ {Max(t)}], s[Max(t)])
           c == CHOOSE f : f = [t \in SUBSET (DOMAIN s) |-> IF t = {} THEN base ELSE Then(f, t)]
<1>1. n \in Nat /\ DOMAIN s = 1 .. n /\ \A i \in 1 .. n : s[i] \in X
  OBVIOUS
<1>2. ASSUME NEW a \in D, NEW i \in 1 .. n
      PROVE  G[<<a, i>>] = Learnt(a, s[i]) /\ G[<<a, i>>] \in D
  BY <1>1
<1>3. G \in [D \X (1 .. n) -> D]
  BY <1>1
<1>4. PICK it \in [SUBSET (1 .. n) -> D] : Folding(it, n, base, G)
  <2> HIDE DEF G, n
  <2>1. QED BY <1>1, <1>3, FoldExists
<1>5. ASSUME NEW t \in SUBSET (1 .. n), t # {}
      PROVE  Max(t) \in 1 .. n /\ t \ {Max(t)} \in SUBSET (1 .. n)
  BY <1>1, <1>5, LargestIsIn
<1>6. it = [t \in SUBSET (DOMAIN s) |-> IF t = {} THEN base ELSE Then(it, t)]
  <2>1. ASSUME NEW t \in SUBSET (1 .. n) PROVE it[t] = IF t = {} THEN base ELSE Then(it, t)
    <3>1. CASE t = {}
      BY <3>1, <1>4 DEF Folding
    <3>2. CASE t # {}
      <4> HIDE DEF G
      <4>1. Max(t) \in 1 .. n /\ it[t \ {Max(t)}] \in D
        BY <3>2, <1>4, <1>5
      <4>2. it[t] = G[<<it[t \ {Max(t)}], Max(t)>>]
        BY <3>2, <1>4 DEF Folding
      <4>3. QED BY <3>2, <4>1, <4>2, <1>2
    <3>3. QED BY <3>1, <3>2
  <2> HIDE DEF Then
  <2>2. QED BY <2>1, <1>1, <1>4
<1>7. c = [t \in SUBSET (DOMAIN s) |-> IF t = {} THEN base ELSE Then(c, t)]
  <2> HIDE DEF Then
  <2>1. QED BY <1>6
<1>8. LearntAll(base, s) = c[1 .. n]
  BY <1>1 DEF LearntAll, FoldLeft, MapThenFoldSet
<1>9. PICK h \in [0 .. n -> D] : h[n] = c[1 .. n] /\ Stepping(h, n, base, G)
  <2>1. FoldingIn(c, n, D, base, G)
    <3>1. c[{}] = base
      <4> HIDE DEF c, Then
      <4>1. {} \in SUBSET (DOMAIN s)
        OBVIOUS
      <4>2. QED BY <1>7, <4>1
    <3>2. ASSUME NEW t \in SUBSET (1 .. n), t # {}, c[t \ {Max(t)}] \in D
          PROVE  c[t] = G[<<c[t \ {Max(t)}], Max(t)>>]
      <4> HIDE DEF G, c
      <4>1. c[t] = Then(c, t)
        <5> HIDE DEF Then
        <5>1. QED BY <1>1, <1>7, <3>2
      <4>2. Max(t) \in 1 .. n
        BY <1>5, <3>2
      <4>3. QED BY <1>2, <3>2, <4>1, <4>2
    <3>3. QED BY <3>1, <3>2 DEF FoldingIn
  <2> HIDE DEF G, n, c
  <2>2. QED BY <2>1, <1>1, <1>3, FoldSteps
<1>10. ASSUME NEW k \in 1 .. n PROVE h[k] = Learnt(h[k - 1], s[k])
  <2> HIDE DEF G, c
  <2>1. h[k] = G[<<h[k - 1], k>>] /\ k - 1 \in 0 .. n
    BY <1>1, <1>9 DEF Stepping
  <2>2. QED BY <2>1, <1>2
<1>11. h[0] = base /\ h[n] = LearntAll(base, s)
  <2>1. h[n] = LearntAll(base, s)
    BY <1>8, <1>9
  <2> HIDE DEF G, c
  <2>2. h[0] = base
    BY <1>9 DEF Stepping
  <2>3. QED BY <2>1, <2>2
<1>12. LearntTurns(h, D, base, s)
  <2> HIDE DEF G, c
  <2>1. QED BY <1>9, <1>10, <1>11 DEF LearntTurns
<1>13. QED BY <1>12

LEMMA LearntGoesOn ==
  ASSUME NEW b \in Menus, NEW s \in Seq(Messages), NEW t \in Seq(Messages)
  PROVE  LearntAll(b, s) \in Menus /\ LearntAll(b, s \o t) = LearntAll(LearntAll(b, s), t)
<1> DEFINE D == Menus
           m == Len(s)
           n == Len(t)
           u == s \o t
<1>1. /\ m \in Nat /\ n \in Nat /\ u \in Seq(Messages) /\ Len(u) = m + n
      /\ \A k \in 1 .. m : u[k] = s[k] /\ k \in 1 .. (m + n)
      /\ \A k \in 1 .. n : u[m + k] = t[k] /\ m + k \in 1 .. (m + n)
  OBVIOUS
<1>2. \A a \in D, x \in Messages : Learnt(a, x) \in D
  BY LearntIs
<1>3. PICK g : LearntTurns(g, D, b, s)
  BY <1>2, LearntTurnsExist
<1>4. LearntAll(b, s) \in D /\ g[m] = LearntAll(b, s)
  BY <1>1, <1>3 DEF LearntTurns
<1>5. PICK j : LearntTurns(j, D, LearntAll(b, s), t)
  BY <1>2, <1>4, LearntTurnsExist
<1>6. PICK h : LearntTurns(h, D, b, u)
  BY <1>1, <1>2, LearntTurnsExist
<1> HIDE DEF D, m, n, u
<1>7. /\ g[0] = b /\ h[0] = b /\ j[0] = LearntAll(b, s)
      /\ h[m + n] = LearntAll(b, u) /\ j[n] = LearntAll(LearntAll(b, s), t)
      /\ \A k \in 1 .. m : g[k] = Learnt(g[k - 1], s[k])
      /\ \A k \in 1 .. n : j[k] = Learnt(j[k - 1], t[k])
      /\ \A k \in 1 .. (m + n) : h[k] = Learnt(h[k - 1], u[k])
  BY <1>1, <1>3, <1>5, <1>6 DEF LearntTurns, m, n
<1>8. h[m] = g[m]
  <2> DEFINE T == {k \in 0 .. m : h[k] = g[k]}
  <2>1. 0 \in T
    BY <1>1, <1>7
  <2>2. ASSUME NEW k \in 1 .. m, k - 1 \in T PROVE k \in T
    BY <1>1, <1>7, <2>2
  <2> HIDE DEF T
  <2>3. \A k \in 0 .. m : k \in T
    BY <1>1, <2>1, <2>2, StepsStay
  <2>4. m \in 0 .. m
    BY <1>1
  <2>5. QED BY <2>3, <2>4 DEF T
<1>9. h[m + n] = j[n]
  <2> DEFINE T == {k \in 0 .. n : h[m + k] = j[k]}
  <2>1. 0 \in T
    BY <1>1, <1>4, <1>7, <1>8
  <2>2. ASSUME NEW k \in 1 .. n, k - 1 \in T PROVE k \in T
    BY <1>1, <1>7, <2>2
  <2> HIDE DEF T
  <2>3. \A k \in 0 .. n : k \in T
    BY <1>1, <2>1, <2>2, StepsStay
  <2>4. n \in 0 .. n
    BY <1>1
  <2>5. QED BY <2>3, <2>4 DEF T
<1>10. QED BY <1>4, <1>7, <1>9 DEF D, u

\* No message, and one more.
LEMMA LearntLast ==
  ASSUME NEW b \in Menus, NEW s \in Seq(Messages), NEW x \in Messages
  PROVE  LearntAll(b, <<>>) = b /\ LearntAll(b, Append(s, x)) = Learnt(LearntAll(b, s), x)
<1>0. \A a \in Menus, y \in Messages : Learnt(a, y) \in Menus
  BY LearntIs
<1>1. LearntAll(b, <<>>) = b
  <2>1. <<>> \in Seq(Messages)
    OBVIOUS
  <2>2. PICK h : LearntTurns(h, Menus, b, <<>>)
    BY <2>1, <1>0, LearntTurnsExist
  <2>3. QED BY <2>2 DEF LearntTurns
<1>2. LearntAll(b, s) \in Menus
  BY LearntGoesOn
<1>3. LearntAll(LearntAll(b, s), <<x>>) = Learnt(LearntAll(b, s), x)
  <2> DEFINE a == LearntAll(b, s)
  <2>1. <<x>> \in Seq(Messages) /\ Len(<<x>>) = 1 /\ <<x>>[1] = x
    OBVIOUS
  <2> HIDE DEF a
  <2>2. a \in Menus
    BY <1>2 DEF a
  <2>3. PICK h : LearntTurns(h, Menus, a, <<x>>)
    BY <2>1, <2>2, <1>0, LearntTurnsExist
  <2>4. h[0] = a /\ h[1] = LearntAll(a, <<x>>) /\ h[1] = Learnt(h[0], x)
    BY <2>1, <2>3 DEF LearntTurns
  <2>5. QED BY <2>4 DEF a
<1>4. Append(s, x) = s \o <<x>> /\ <<x>> \in Seq(Messages)
  OBVIOUS
<1>5. LearntAll(b, s \o <<x>>) = LearntAll(LearntAll(b, s), <<x>>)
  BY <1>4, LearntGoesOn
<1>6. QED BY <1>1, <1>3, <1>4, <1>5

\* Clicks on the icon tell nothing of a menu.
LEMMA NothingIsLearnt ==
  ASSUME NEW b \in Menus, NEW s \in Seq(IconSignals)
  PROVE  LearntAll(b, s) = b
<1>0. s \in Seq(Messages) /\ \A k \in 1 .. Len(s) : s[k] \in IconSignals /\ s[k] \in Messages
  BY DEF Messages, Signals
<1>1. \A a \in Menus, y \in Messages : Learnt(a, y) \in Menus
  BY LearntIs
<1>2. PICK h : LearntTurns(h, Menus, b, s)
  BY <1>0, <1>1, LearntTurnsExist
<1> DEFINE T == {k \in 0 .. Len(s) : h[k] = b}
<1>3. 0 \in T
  BY <1>2 DEF LearntTurns
<1>4. ASSUME NEW k \in 1 .. Len(s), k - 1 \in T PROVE k \in T
  <2>1. h[k] = Learnt(b, s[k]) /\ s[k] \in IconSignals /\ s[k] \in Messages
    BY <1>0, <1>2, <1>4 DEF LearntTurns
  <2>2. Learnt(b, s[k]) = b
    BY <2>1, LearntIs
  <2>3. QED BY <2>1, <2>2
<1>5. Len(s) \in Nat /\ Len(s) \in 0 .. Len(s)
  OBVIOUS
<1> HIDE DEF T
<1>6. \A k \in 0 .. Len(s) : k \in T
  BY <1>3, <1>4, <1>5, StepsStay
<1>7. QED BY <1>2, <1>5, <1>6 DEF T, LearntTurns

\* Only words tell something, and what is no word is no answer.
LEMMA WordsAreLearnt ==
  ASSUME NEW b \in Menus, NEW s \in Seq(Signals)
  PROVE  /\ WordsOf(s) \in Seq(Signals) /\ LearntAll(b, WordsOf(s)) = LearntAll(b, s)
         /\ \A i \in DOMAIN WordsOf(s) : \E k \in DOMAIN s : WordsOf(s)[i] = s[k]
<1> DEFINE K == {x \in Range(s) : IsWord(x)}
           r == ItemsIn(s, K)
<1>1. s \in Seq(Messages) /\ DOMAIN s = 1 .. Len(s) /\ Len(s) \in Nat
      /\ \A k \in 1 .. Len(s) : s[k] \in Signals /\ s[k] \in Messages
  BY DEF Messages
<1>2. \A a \in Menus, y \in Messages : Learnt(a, y) \in Menus
  BY LearntIs
<1>3. PICK h : LearntTurns(h, Menus, b, s)
  BY <1>1, <1>2, LearntTurnsExist
<1>4. ASSUME NEW k \in 1 .. Len(s), NEW a \in Menus, s[k] \notin K PROVE Learnt(a, s[k]) = a
  BY <1>1, <1>4, LearntIs DEF Range, IsWord, Signals, Actions
<1>5. r = WordsOf(s)
  BY DEF WordsOf
<1> HIDE DEF K, r
<1>6. r \in Seq(Signals) /\ Kept(r, s, K)
  BY ItemsAreKept DEF r
<1>7. PICK f \in [0 .. Len(s) -> Seq(Signals)] : Filtering(f, s, K)
  BY FilterSteps
<1> DEFINE T == {k \in 0 .. Len(s) : LearntAll(b, f[k]) = h[k]}
<1>8. 0 \in T
  BY <1>3, <1>7, LearntLast, <1>1 DEF Filtering, LearntTurns, Messages
<1>9. ASSUME NEW k \in 1 .. Len(s), k - 1 \in T PROVE k \in T
  <2>1. /\ h[k] = Learnt(h[k - 1], s[k]) /\ k - 1 \in 0 .. Len(s) /\ h[k - 1] \in Menus
        /\ h[k - 1] = LearntAll(b, f[k - 1])
    BY <1>1, <1>3, <1>9 DEF LearntTurns
  <2>2. f[k] = IF s[k] \in K THEN Append(f[k - 1], s[k]) ELSE f[k - 1]
    BY <1>7 DEF Filtering
  <2>3. CASE s[k] \in K
    <3>1. f[k - 1] \in Seq(Signals) /\ Seq(Signals) \subseteq Seq(Messages) /\ s[k] \in Messages
      BY <1>7, <2>1, <1>1 DEF Messages
    <3>2. f[k - 1] \in Seq(Messages)
      BY <3>1
    <3>3. LearntAll(b, Append(f[k - 1], s[k])) = Learnt(LearntAll(b, f[k - 1]), s[k])
      BY <3>1, <3>2, LearntLast
    <3>4. f[k] = Append(f[k - 1], s[k])
      BY <2>2, <2>3
    <3>5. LearntAll(b, f[k]) = h[k]
      BY <2>1, <3>3, <3>4
    <3>6. QED BY <3>5
  <2>4. CASE s[k] \notin K
    BY <2>1, <2>4, <1>4, <2>2
  <2>5. QED BY <2>3, <2>4
<1>10. Len(s) \in 0 .. Len(s)
  BY <1>1
<1> HIDE DEF T
<1>11. \A k \in 0 .. Len(s) : k \in T
  BY <1>1, <1>8, <1>9, StepsStay
<1>12. LearntAll(b, f[Len(s)]) = h[Len(s)]
  BY <1>10, <1>11 DEF T
<1>13. f[Len(s)] = r /\ h[Len(s)] = LearntAll(b, s)
  BY <1>3, <1>7 DEF Filtering, LearntTurns, r
<1>14. \A i \in DOMAIN r : \E k \in DOMAIN s : r[i] = s[k]
  BY <1>6 DEF Kept
<1>15. QED BY <1>5, <1>6, <1>12, <1>13, <1>14

\* What a binding makes of its events.
ClaimedAll(base, s) == FoldLeft(EventClaimed, base, s)

\* One after the other: h tells what there is after each.
ClaimedTurns(h, D, base, s) ==
  /\ h \in [0 .. Len(s) -> D] /\ h[0] = base /\ h[Len(s)] = ClaimedAll(base, s)
  /\ \A k \in 1 .. Len(s) : h[k] = EventClaimed(h[k - 1], s[k])

\* Events are claimed one after the other.
LEMMA ClaimedTurnsExist ==
  ASSUME NEW D, NEW base \in D, NEW X, NEW s \in Seq(X),
         \A a \in D, x \in X : EventClaimed(a, x) \in D
  PROVE  \E h : ClaimedTurns(h, D, base, s)
<1> DEFINE n == Len(s)
           G == [p \in D \X (1 .. n) |-> EventClaimed(p[1], s[p[2]])]
           Then(f, t) == EventClaimed(f[t \ {Max(t)}], s[Max(t)])
           c == CHOOSE f : f = [t \in SUBSET (DOMAIN s) |-> IF t = {} THEN base ELSE Then(f, t)]
<1>1. n \in Nat /\ DOMAIN s = 1 .. n /\ \A i \in 1 .. n : s[i] \in X
  OBVIOUS
<1>2. ASSUME NEW a \in D, NEW i \in 1 .. n
      PROVE  G[<<a, i>>] = EventClaimed(a, s[i]) /\ G[<<a, i>>] \in D
  BY <1>1
<1>3. G \in [D \X (1 .. n) -> D]
  BY <1>1
<1>4. PICK it \in [SUBSET (1 .. n) -> D] : Folding(it, n, base, G)
  <2> HIDE DEF G, n
  <2>1. QED BY <1>1, <1>3, FoldExists
<1>5. ASSUME NEW t \in SUBSET (1 .. n), t # {}
      PROVE  Max(t) \in 1 .. n /\ t \ {Max(t)} \in SUBSET (1 .. n)
  BY <1>1, <1>5, LargestIsIn
<1>6. it = [t \in SUBSET (DOMAIN s) |-> IF t = {} THEN base ELSE Then(it, t)]
  <2>1. ASSUME NEW t \in SUBSET (1 .. n) PROVE it[t] = IF t = {} THEN base ELSE Then(it, t)
    <3>1. CASE t = {}
      BY <3>1, <1>4 DEF Folding
    <3>2. CASE t # {}
      <4> HIDE DEF G
      <4>1. Max(t) \in 1 .. n /\ it[t \ {Max(t)}] \in D
        BY <3>2, <1>4, <1>5
      <4>2. it[t] = G[<<it[t \ {Max(t)}], Max(t)>>]
        BY <3>2, <1>4 DEF Folding
      <4>3. QED BY <3>2, <4>1, <4>2, <1>2
    <3>3. QED BY <3>1, <3>2
  <2> HIDE DEF Then
  <2>2. QED BY <2>1, <1>1, <1>4
<1>7. c = [t \in SUBSET (DOMAIN s) |-> IF t = {} THEN base ELSE Then(c, t)]
  <2> HIDE DEF Then
  <2>1. QED BY <1>6
<1>8. ClaimedAll(base, s) = c[1 .. n]
  BY <1>1 DEF ClaimedAll, FoldLeft, MapThenFoldSet
<1>9. PICK h \in [0 .. n -> D] : h[n] = c[1 .. n] /\ Stepping(h, n, base, G)
  <2>1. FoldingIn(c, n, D, base, G)
    <3>1. c[{}] = base
      <4> HIDE DEF c, Then
      <4>1. {} \in SUBSET (DOMAIN s)
        OBVIOUS
      <4>2. QED BY <1>7, <4>1
    <3>2. ASSUME NEW t \in SUBSET (1 .. n), t # {}, c[t \ {Max(t)}] \in D
          PROVE  c[t] = G[<<c[t \ {Max(t)}], Max(t)>>]
      <4> HIDE DEF G, c
      <4>1. c[t] = Then(c, t)
        <5> HIDE DEF Then
        <5>1. QED BY <1>1, <1>7, <3>2
      <4>2. Max(t) \in 1 .. n
        BY <1>5, <3>2
      <4>3. QED BY <1>2, <3>2, <4>1, <4>2
    <3>3. QED BY <3>1, <3>2 DEF FoldingIn
  <2> HIDE DEF G, n, c
  <2>2. QED BY <2>1, <1>1, <1>3, FoldSteps
<1>10. ASSUME NEW k \in 1 .. n PROVE h[k] = EventClaimed(h[k - 1], s[k])
  <2> HIDE DEF G, c
  <2>1. h[k] = G[<<h[k - 1], k>>] /\ k - 1 \in 0 .. n
    BY <1>1, <1>9 DEF Stepping
  <2>2. QED BY <2>1, <1>2
<1>11. h[0] = base /\ h[n] = ClaimedAll(base, s)
  <2>1. h[n] = ClaimedAll(base, s)
    BY <1>8, <1>9
  <2> HIDE DEF G, c
  <2>2. h[0] = base
    BY <1>9 DEF Stepping
  <2>3. QED BY <2>1, <2>2
<1>12. ClaimedTurns(h, D, base, s)
  <2> HIDE DEF G, c
  <2>1. QED BY <1>9, <1>10, <1>11 DEF ClaimedTurns
<1>13. QED BY <1>12
\* Among the first k events, a binding of m claims one of the items.
ClaimsOne(m, events, k, items) ==
  \E j \in 1 .. k : Recognised(m, events[j]) /\ events[j].item \in items

\* What k events have made of the menu m, and what a document that knew h will know.
KeepsMenu(c, m) ==
  /\ c.menu \in Menus /\ c.out \in Seq(Actions)
  /\ c.menu.gen = m.gen /\ c.menu.close = m.close /\ c.menu.quit = m.quit
  /\ m = NoMenu => c.menu = NoMenu /\ c.out = <<>>
  /\ "box" \in c.menu.checked <=> "box" \in m.checked
  /\ \A i \in DOMAIN c.out : c.out[i].gen = m.gen
KeepsKnown(g, h) == g.gen = h.gen /\ g.close = h.close /\ g.quit = h.quit
RadioClaimed(c, g, m, h, some) ==
  IF some THEN /\ g.checked \cap Radios = c.menu.checked \cap Radios
               /\ c.menu.checked \cap Radios \in {{"light"}, {"dark"}}
          ELSE /\ g.checked \cap Radios = h.checked \cap Radios
               /\ c.menu.checked \cap Radios = m.checked \cap Radios
BoxClaimed(g, m, h, some) ==
  "box" \in g.checked <=> IF some THEN "box" \in m.checked ELSE "box" \in h.checked

ClaimedSo(c, m, h, events, k) ==
  /\ KeepsMenu(c, m)
  /\ KeepsKnown(LearntAll(h, c.out), h)
  /\ RadioClaimed(c, LearntAll(h, c.out), m, h, ClaimsOne(m, events, k, Radios))
  /\ BoxClaimed(LearntAll(h, c.out), m, h, ClaimsOne(m, events, k, {"box"}))

\* A radio that is selected is the one of its group.
LEMMA SelectedIs ==
  ASSUME NEW checked \in SUBSET Checkable, NEW i \in Radios
  PROVE  /\ Selected(checked, i) \in SUBSET Checkable
         /\ Selected(checked, i) \cap Radios = {i} /\ {i} \in {{"light"}, {"dark"}}
         /\ "box" \in Selected(checked, i) <=> "box" \in checked
BY DEF Selected, Checkable, Radios

LEMMA OneMoreClaimed ==
  ASSUME NEW m, NEW events, NEW k \in Nat \ {0}, NEW items
  PROVE  ClaimsOne(m, events, k, items) <=>
           \/ ClaimsOne(m, events, k - 1, items)
           \/ Recognised(m, events[k]) /\ events[k].item \in items
<1>1. \A j : j \in 1 .. k <=> j \in 1 .. (k - 1) \/ j = k
  OBVIOUS
<1>2. QED BY <1>1 DEF ClaimsOne

\* The signal of an event, and the menu it is claimed of.
LEMMA ClaimedIs ==
  ASSUME NEW c \in [menu : Menus, out : Seq(Actions)], NEW e \in Events, Recognised(c.menu, e)
  PROVE  \E x \in Actions :
           /\ EventClaimed(c, e).out = Append(c.out, x) /\ EventClaimed(c, e).menu = AsClaimed(c.menu, e)
           /\ x.gen = e.gen /\ x.item = e.item
           /\ x.on = (e.item \in AsClaimed(c.menu, e).checked)
<1> DEFINE now == AsClaimed(c.menu, e)
           x == [type |-> "action", gen |-> e.gen, item |-> e.item, on |-> e.item \in now.checked]
<1>1. [MenuSignal(now, e.item) EXCEPT !.gen = e.gen] = x
  BY DEF MenuSignal
<1>2. EventClaimed(c, e) = [menu |-> now, out |-> Append(c.out, x)]
  BY <1>1 DEF EventClaimed
<1>3. x \in Actions
  <2>1. (e.item \in now.checked) \in BOOLEAN /\ e.gen \in Nat /\ e.item \in Items
    BY DEF Events
  <2> HIDE DEF now
  <2>2. QED BY <2>1 DEF Actions
<1>4. x.gen = e.gen /\ x.item = e.item /\ x.on = (e.item \in now.checked)
  OBVIOUS
<1>5. EventClaimed(c, e).out = Append(c.out, x) /\ EventClaimed(c, e).menu = now
  BY <1>2
<1> HIDE DEF x, now
<1>6. QED BY <1>3, <1>4, <1>5 DEF now

\* What the menu is once an event is claimed of it.
LEMMA AsClaimedIs ==
  ASSUME NEW m \in Menus, NEW e \in Events
  PROVE  /\ AsClaimed(m, e) \in Menus
         /\ AsClaimed(m, e).gen = m.gen /\ AsClaimed(m, e).close = m.close /\ AsClaimed(m, e).quit = m.quit
         /\ "box" \in AsClaimed(m, e).checked <=> "box" \in m.checked
         /\ Recognised(m, e) /\ e.item \in Radios =>
              AsClaimed(m, e).checked \cap Radios = {e.item}
         /\ ~(Recognised(m, e) /\ e.item \in Radios) => AsClaimed(m, e) = m
<1>1. CASE Recognised(m, e) /\ e.item \in Radios
  <2>1. AsClaimed(m, e) = [m EXCEPT !.checked = Selected(@, e.item)]
    BY <1>1 DEF AsClaimed
  <2>2. m.checked \in SUBSET Checkable
    BY DEF Menus
  <2>3. /\ Selected(m.checked, e.item) \in SUBSET Checkable
        /\ Selected(m.checked, e.item) \cap Radios = {e.item}
        /\ "box" \in Selected(m.checked, e.item) <=> "box" \in m.checked
    BY <1>1, <2>2, SelectedIs
  <2>4. AsClaimed(m, e) \in Menus
    BY <2>1, <2>3 DEF Menus
  <2>5. /\ AsClaimed(m, e).gen = m.gen /\ AsClaimed(m, e).close = m.close /\ AsClaimed(m, e).quit = m.quit
        /\ AsClaimed(m, e).checked = Selected(m.checked, e.item)
    BY <2>1 DEF Menus
  <2>6. QED BY <1>1, <2>3, <2>4, <2>5
<1>2. CASE ~(Recognised(m, e) /\ e.item \in Radios)
  BY <1>2 DEF AsClaimed
<1>3. QED BY <1>1, <1>2

\* One more event.
LEMMA ClaimGoesOn ==
  ASSUME NEW m \in Menus, m = NoMenu \/ m.gen # 0, NEW h \in Menus, NEW events \in Seq(Events),
         NEW k \in 1 .. Len(events), NEW c \in [menu : Menus, out : Seq(Actions)],
         ClaimedSo(c, m, h, events, k - 1)
  PROVE  ClaimedSo(EventClaimed(c, events[k]), m, h, events, k)
<1> DEFINE e == events[k]
           d == EventClaimed(c, e)
           g == LearntAll(h, c.out)
           r == ClaimsOne(m, events, k - 1, Radios)
           r2 == ClaimsOne(m, events, k, Radios)
           b == ClaimsOne(m, events, k - 1, {"box"})
           b2 == ClaimsOne(m, events, k, {"box"})
<1>1. e \in Events /\ e.gen # 0 /\ e.gen \in Nat /\ e.item \in Items /\ k \in Nat \ {0}
  <2>1. e \in Events /\ k \in Nat \ {0}
    OBVIOUS
  <2> HIDE DEF e
  <2>2. QED BY <2>1 DEF Events
<1>2. /\ KeepsMenu(c, m) /\ KeepsKnown(g, h) /\ RadioClaimed(c, g, m, h, r) /\ BoxClaimed(g, m, h, b)
  BY DEF ClaimedSo
<1>3. Recognised(c.menu, e) <=> Recognised(m, e)
  BY <1>2 DEF NoMenu, KeepsMenu, Recognised, Recognises
<1>4. /\ r2 <=> r \/ (Recognised(m, e) /\ e.item \in Radios)
      /\ b2 <=> b \/ (Recognised(m, e) /\ e.item = "box")
  BY <1>1, OneMoreClaimed
<1>5. c.out \in Seq(Actions) /\ c.out \in Seq(Messages) /\ g \in Menus
  <2>1. c.out \in Seq(Actions)
    OBVIOUS
  <2>2. Seq(Actions) \subseteq Seq(Messages)
    BY DEF Messages, Signals
  <2>3. c.out \in Seq(Messages)
    BY <2>1, <2>2
  <2>4. QED BY <2>1, <2>3, LearntGoesOn
<1>6. CASE ~Recognised(m, e)
  <2>1. d = c
    BY <1>6, <1>3 DEF EventClaimed
  <2>2. (r2 <=> r) /\ (b2 <=> b)
    BY <1>4, <1>6
  <2> HIDE DEF d, r, r2, b, b2, g
  <2>3. RadioClaimed(c, g, m, h, r2) /\ BoxClaimed(g, m, h, b2)
    BY <1>2, <2>2 DEF RadioClaimed, BoxClaimed
  <2>4. QED BY <1>2, <2>1, <2>3 DEF ClaimedSo, d, g, r2, b2
<1>7. CASE Recognised(m, e)
  <2>1. PICK x \in Actions :
          /\ d.out = Append(c.out, x) /\ d.menu = AsClaimed(c.menu, e)
          /\ x.gen = e.gen /\ x.item = e.item
          /\ x.on = (e.item \in AsClaimed(c.menu, e).checked)
    BY <1>1, <1>3, <1>7, ClaimedIs
  <2>2. x \in Messages
    BY DEF Messages, Signals
  <2>3. LearntAll(h, d.out) = Learnt(g, x)
    BY <1>5, <2>2, LearntLast, <2>1
  <2> DEFINE g2 == Learnt(g, x)
             now == AsClaimed(c.menu, e)
  <2>4. /\ g2 \in Menus /\ g2.gen = g.gen /\ g2.close = g.close /\ g2.quit = g.quit
        /\ x.item \in Radios => g2.checked = Selected(g.checked, x.item)
        /\ x.item = "box" => g2.checked = IF x.on THEN g.checked \cup {"box"} ELSE g.checked \ {"box"}
        /\ x.item = "quit" => g2 = g
    <3>1. x.item \in Radios \/ x.item = "box" \/ x.item = "quit"
      BY DEF Actions, Items, Checkable
    <3> HIDE DEF g
    <3>2. /\ x.item \in Radios => g2.checked = Selected(g.checked, x.item)
          /\ x.item = "box" => g2.checked = IF x.on THEN g.checked \cup {"box"} ELSE g.checked \ {"box"}
          /\ x.item = "quit" => g2 = g
      BY <1>5, <2>2, LearntIs
    <3>3. g2 \in Menus /\ g2.gen = g.gen /\ g2.close = g.close /\ g2.quit = g.quit
      BY <1>5, <2>2, LearntIs
    <3>4. QED BY <3>2, <3>3
  <2>5. /\ now \in Menus
        /\ now.gen = c.menu.gen /\ now.close = c.menu.close /\ now.quit = c.menu.quit
        /\ "box" \in now.checked <=> "box" \in c.menu.checked
        /\ e.item \in Radios => now.checked \cap Radios = {e.item}
        /\ e.item \notin Radios => now = c.menu
    BY <1>1, <1>3, <1>7, AsClaimedIs
  <2>6. KeepsMenu(d, m)
    <3>1. m # NoMenu /\ e.gen = m.gen
      BY <1>7 DEF Recognised, Recognises
    <3>2. d.out \in Seq(Actions) /\ \A i \in DOMAIN d.out : d.out[i].gen = m.gen
      <4>1. /\ d.out \in Seq(Actions)
            /\ \A i \in DOMAIN d.out : (i \in DOMAIN c.out /\ d.out[i] = c.out[i]) \/ d.out[i] = x
        <5> HIDE DEF d
        <5>1. QED BY <1>5, <2>1
      <4>2. QED BY <4>1, <3>1, <2>1, <1>2 DEF KeepsMenu
    <3> HIDE DEF d, now
    <3>3. d.menu = now
      BY <2>1 DEF now
    <3>4. QED BY <3>1, <3>2, <3>3, <2>5, <1>2 DEF KeepsMenu
  <2>7. KeepsKnown(g2, h)
    BY <2>4, <1>2 DEF KeepsKnown
  <2>8. RadioClaimed(d, g2, m, h, r2)
    <3>0. g.checked \in SUBSET Checkable /\ d.menu = now
      BY <1>5, <2>1 DEF Menus
    <3> HIDE DEF d, now, g, g2, r, r2, b, b2
    <3>1. CASE e.item \in Radios
      <4>1. g2.checked \cap Radios = {e.item} /\ now.checked \cap Radios = {e.item} /\ {e.item} \in {{"light"}, {"dark"}}
        <5>1. x.item = e.item /\ g2.checked = Selected(g.checked, e.item)
          BY <3>1, <2>1, <2>4
        <5>2. /\ Selected(g.checked, e.item) \cap Radios = {e.item}
              /\ {e.item} \in {{"light"}, {"dark"}}
          BY <3>0, <3>1, SelectedIs
        <5>3. now.checked \cap Radios = {e.item}
          BY <3>1, <2>5
        <5>4. QED BY <5>1, <5>2, <5>3
      <4>2. r2
        BY <3>1, <1>4, <1>7
      <4>3. QED BY <3>0, <4>1, <4>2 DEF RadioClaimed
    <3>2. CASE e.item \notin Radios
      BY <3>2, <1>4, <1>1, <2>1, <2>4, <3>0, <2>5, <1>2 DEF Items, Checkable, Radios,
         RadioClaimed
    <3>3. QED BY <3>1, <3>2
  <2>9. BoxClaimed(g2, m, h, b2)
    <3>0. g.checked \in SUBSET Checkable
      BY <1>5 DEF Menus
    <3>1. CASE e.item = "box"
      <4>1. b2
        BY <3>1, <1>4, <1>7
      <4>2. x.on <=> "box" \in m.checked
        BY <3>1, <2>1, <2>5, <1>2 DEF KeepsMenu
      <4>3. "box" \in g2.checked <=> x.on
        <5>1. g2.checked = IF x.on THEN g.checked \cup {"box"} ELSE g.checked \ {"box"}
          BY <3>1, <2>1, <2>4
        <5> HIDE DEF g2, g
        <5>2. QED BY <5>1
      <4> HIDE DEF g2, b2
      <4>4. QED BY <4>1, <4>2, <4>3 DEF BoxClaimed
    <3>2. CASE e.item # "box"
      <4>1. b2 <=> b
        BY <3>2, <1>4
      <4>2. "box" \in g2.checked <=> "box" \in g.checked
        <5>1. e.item \in Radios \/ e.item = "quit"
          BY <3>2, <1>1 DEF Items, Checkable
        <5>2. CASE e.item \in Radios
          <6>1. g2.checked = Selected(g.checked, e.item)
            BY <5>2, <2>1, <2>4
          <6> HIDE DEF g2, g
          <6>2. QED BY <6>1, <5>2, <3>0, SelectedIs
        <5>3. CASE e.item = "quit"
          BY <5>3, <2>1, <2>4
        <5>4. QED BY <5>1, <5>2, <5>3
      <4> HIDE DEF g2, b2, b, g
      <4>3. QED BY <4>1, <4>2, <1>2 DEF BoxClaimed
    <3>3. QED BY <3>1, <3>2
  <2> HIDE DEF d, g2, r2, b2
  <2>10. QED BY <2>3, <2>6, <2>7, <2>8, <2>9 DEF ClaimedSo, d, g2, r2, b2
<1>8. QED BY <1>6, <1>7

\* All events of a channel, claimed of one menu.
LEMMA ClaimsAre ==
  ASSUME NEW m \in Menus, m = NoMenu \/ m.gen # 0, NEW h \in Menus, NEW events \in Seq(Events)
  PROVE  ClaimedSo(ClaimEvents(m, events), m, h, events, Len(events))
<1> DEFINE D == [menu : Menus, out : Seq(Actions)]
           base == [menu |-> m, out |-> <<>>]
<1>1. base \in D
  OBVIOUS
<1>2. ASSUME NEW c \in D, NEW e \in Events PROVE EventClaimed(c, e) \in D
  <2>1. CASE Recognised(c.menu, e)
    <3>1. PICK x \in Actions : EventClaimed(c, e).out = Append(c.out, x) /\ EventClaimed(c, e).menu = AsClaimed(c.menu, e)
      BY <2>1, ClaimedIs
    <3>2. AsClaimed(c.menu, e) \in Menus /\ Append(c.out, x) \in Seq(Actions)
      BY AsClaimedIs
    <3>3. EventClaimed(c, e) = [menu |-> EventClaimed(c, e).menu, out |-> EventClaimed(c, e).out]
      BY <2>1 DEF EventClaimed
    <3>4. QED BY <3>1, <3>2, <3>3
  <2>2. CASE ~Recognised(c.menu, e)
    BY <2>2 DEF EventClaimed
  <2>3. QED BY <2>1, <2>2
<1>3. PICK t : ClaimedTurns(t, D, base, events)
  <2> HIDE DEF D, base
  <2>1. QED BY <1>1, <1>2, ClaimedTurnsExist
<1> DEFINE T == {k \in 0 .. Len(events) : ClaimedSo(t[k], m, h, events, k)}
<1>4. 0 \in T
  <2>1. t[0] = base
    BY <1>3 DEF ClaimedTurns
  <2>2. base.menu = m /\ base.out = <<>>
    OBVIOUS
  <2>3. LearntAll(h, <<>>) = h
    <3>1. MenuRefused \in Messages /\ <<>> \in Seq(Messages)
      BY DEF Messages
    <3>2. QED BY <3>1, LearntLast
  <2>4. ~ClaimsOne(m, events, 0, Radios) /\ ~ClaimsOne(m, events, 0, {"box"})
    BY DEF ClaimsOne
  <2>5. <<>> \in Seq(Actions)
    OBVIOUS
  <2> HIDE DEF base
  <2>6. ClaimedSo(base, m, h, events, 0)
    BY <2>2, <2>3, <2>4, <2>5 DEF ClaimedSo, KeepsMenu, KeepsKnown, RadioClaimed, BoxClaimed
  <2>7. QED BY <2>1, <2>6
<1>5. ASSUME NEW k \in 1 .. Len(events), k - 1 \in T PROVE k \in T
  <2>1. t[k - 1] \in D /\ t[k] = EventClaimed(t[k - 1], events[k]) /\ k \in 0 .. Len(events)
    BY <1>3 DEF ClaimedTurns
  <2>2. ClaimedSo(t[k - 1], m, h, events, k - 1)
    BY <1>5
  <2>3. ClaimedSo(EventClaimed(t[k - 1], events[k]), m, h, events, k)
    BY <2>1, <2>2, ClaimGoesOn
  <2>4. QED BY <2>1, <2>3
<1>6. Len(events) \in Nat /\ Len(events) \in 0 .. Len(events)
  OBVIOUS
<1> HIDE DEF T
<1>7. Len(events) \in T
  BY <1>4, <1>5, <1>6, StepsStay
<1>8. t[Len(events)] = ClaimEvents(m, events)
  BY <1>3 DEF ClaimedTurns, ClaimEvents, ClaimedAll
<1>9. QED BY <1>7, <1>8 DEF T
\* What a channel of events comes to, once it is claimed of a menu.
LEMMA ClaimsAgree ==
  ASSUME NEW m \in Menus, m = NoMenu \/ m.gen # 0, NEW h \in Menus, NEW events \in Seq(Events),
         NEW cl, cl = ClaimEvents(m, events)
  PROVE  /\ cl.menu \in Menus /\ cl.menu.gen = m.gen /\ (cl.menu = NoMenu <=> m = NoMenu)
         /\ cl.out \in Seq(Actions) /\ \A i \in DOMAIN cl.out : cl.out[i].gen = m.gen
         /\ m = NoMenu => cl.out = <<>>
         /\ AgreesWith(m, h, events) => AgreesWith(cl.menu, LearntAll(h, cl.out), <<>>)
         /\ ChosenOnce(m, events) => ChosenOnce(cl.menu, <<>>)
<1> DEFINE g == LearntAll(h, cl.out)
           r == ClaimsOne(m, events, Len(events), Radios)
           b == ClaimsOne(m, events, Len(events), {"box"})
<1>1. KeepsMenu(cl, m) /\ KeepsKnown(g, h) /\ RadioClaimed(cl, g, m, h, r) /\ BoxClaimed(g, m, h, b)
  BY ClaimsAre DEF ClaimedSo
<1>2. ASSUME NEW items PROVE Outstanding(events, m.gen, items) <=> ClaimsOne(m, events, Len(events), items)
  <2>1. \A j \in DOMAIN events : events[j] \in Events /\ events[j].gen # 0
    <3>1. \A j \in DOMAIN events : events[j] \in Events
      OBVIOUS
    <3>2. QED BY <3>1 DEF Events
  <2>2. NoMenu.gen = 0 /\ DOMAIN events = 1 .. Len(events)
    BY DEF NoMenu
  <2>3. \A j \in DOMAIN events : Recognised(m, events[j]) <=> events[j].gen = m.gen
    BY <2>1, <2>2 DEF Recognised, Recognises
  <2>4. QED BY <2>2, <2>3 DEF Outstanding, ClaimsOne
<1>3. (Outstanding(events, m.gen, Radios) <=> r) /\ (Outstanding(events, m.gen, {"box"}) <=> b)
  BY <1>2
<1>4. cl.menu = NoMenu <=> m = NoMenu
  BY <1>1 DEF NoMenu, KeepsMenu
<1>5. \A n, items : ~Outstanding(<<>>, n, items)
  BY DEF Outstanding
<1> HIDE DEF g, r, b
<1>6. ASSUME AgreesWith(m, h, events) PROVE AgreesWith(cl.menu, g, <<>>)
  BY <1>3, <1>6, <1>1 DEF AgreesWith, KeepsMenu, KeepsKnown, RadioClaimed, BoxClaimed
<1>7. ASSUME ChosenOnce(m, events) PROVE ChosenOnce(cl.menu, <<>>)
  BY <1>1, <1>3, <1>4, <1>7 DEF ChosenOnce, RadioClaimed
<1>8. QED BY <1>1, <1>4, <1>6, <1>7 DEF KeepsMenu, g

-----------------------------------------------------------------------------
\* What is heard, and what is known.
LEMMA HeardIs ==
  ASSUME NEW lost, NEW m, NEW b, NEW ms, NEW sg, NEW ev, NEW nx, SurfaceAgrees(lost, m, b, ms, sg, ev, nx)
  PROVE  /\ m \in Menus /\ b \in Menus /\ ms \in Seq(Messages) /\ sg \in Seq(Signals) /\ sg \in Seq(Messages)
         /\ LearntAll(b, ms) \in Menus /\ LearntAll(LearntAll(b, ms), sg) \in Menus
<1>1. m \in Menus /\ b \in Menus /\ ms \in Seq(Messages) /\ sg \in Seq(Signals)
  BY DEF SurfaceAgrees
<1>2. sg \in Seq(Messages)
  BY <1>1 DEF Messages
<1>3. LearntAll(b, ms) \in Menus
  BY <1>1, LearntGoesOn
<1>4. QED BY <1>1, <1>2, <1>3, LearntGoesOn

\* Another event takes nothing away.
LEMMA OneMoreEvent ==
  ASSUME NEW lost, NEW m, NEW b, NEW ms, NEW sg, NEW ev \in Seq(Events), NEW nx, NEW e \in Events,
         SurfaceAgrees(lost, m, b, ms, sg, ev, nx)
  PROVE  SurfaceAgrees(lost, m, b, ms, sg, Append(ev, e), nx)
<1>1. \A j \in DOMAIN ev : j \in DOMAIN Append(ev, e) /\ Append(ev, e)[j] = ev[j]
  OBVIOUS
<1>2. \A n, items : Outstanding(ev, n, items) => Outstanding(Append(ev, e), n, items)
  BY <1>1 DEF Outstanding
<1>3. ChosenOnce(m, ev) => ChosenOnce(m, Append(ev, e))
  BY <1>2 DEF ChosenOnce
<1>4. \A h : AgreesWith(m, h, ev) => AgreesWith(m, h, Append(ev, e))
  BY <1>2 DEF AgreesWith
<1>5. QED BY <1>3, <1>4 DEF SurfaceAgrees

\* muda toggles what is clicked, and queues its event.
LEMMA ToggledIsOutstanding ==
  ASSUME NEW lost, NEW m, NEW b, NEW ms, NEW sg, NEW ev \in Seq(Events), NEW nx, NEW i \in Items,
         m # NoMenu, NEW e \in Events, e.gen = m.gen, e.item = i, NEW m2,
         m2 = IF i \in Checkable THEN [m EXCEPT !.checked = Toggled(@, i)] ELSE m,
         SurfaceAgrees(lost, m, b, ms, sg, ev, nx)
  PROVE  SurfaceAgrees(lost, m2, b, ms, sg, Append(ev, e), nx)
<1> DEFINE h == LearntAll(LearntAll(b, ms), sg)
           evs == Append(ev, e)
<1>1. m \in Menus /\ m.gen # 0
  BY DEF SurfaceAgrees
<1>2. SurfaceAgrees(lost, m, b, ms, sg, evs, nx)
  BY OneMoreEvent
<1>3. m.checked \in SUBSET Checkable /\ Toggled(m.checked, i) \cap (Checkable \ {i}) = m.checked \cap (Checkable \ {i})
  BY <1>1 DEF Menus, Toggled
<1>4. /\ m2 \in Menus /\ m2.gen = m.gen /\ m2.close = m.close /\ m2.quit = m.quit
      /\ m2.checked \cap (Checkable \ {i}) = m.checked \cap (Checkable \ {i})
  BY <1>3, <1>1 DEF Toggled, Menus
<1>5. m2 # NoMenu
  BY <1>1, <1>4 DEF NoMenu
<1>6. Len(evs) \in DOMAIN evs /\ evs[Len(evs)] = e
  OBVIOUS
<1>7. /\ i \in Radios => Outstanding(evs, m.gen, Radios)
      /\ i = "box" => Outstanding(evs, m.gen, {"box"})
  BY <1>6 DEF Outstanding
<1>8. /\ i \notin Radios => m2.checked \cap Radios = m.checked \cap Radios
      /\ i # "box" => ("box" \in m2.checked <=> "box" \in m.checked)
  BY <1>4 DEF Checkable
<1> HIDE DEF evs, h
<1>9. ChosenOnce(m, evs) => ChosenOnce(m2, evs)
  BY <1>4, <1>5, <1>7, <1>8 DEF ChosenOnce
<1>10. AgreesWith(m, h, evs) => AgreesWith(m2, h, evs)
  BY <1>4, <1>7, <1>8 DEF AgreesWith
<1>11. InGenerations(m, ms, nx) => InGenerations(m2, ms, nx)
  BY <1>4, <1>5 DEF InGenerations
<1>12. QED BY <1>1, <1>2, <1>4, <1>5, <1>9, <1>10, <1>11 DEF SurfaceAgrees, h, evs
\* ksni chooses what is clicked, and queues its signal at once.
LEMMA ChosenIsSignalled ==
  ASSUME NEW lost, NEW m, NEW b, NEW ms, NEW sg, NEW nx, NEW i \in Items, m # NoMenu,
         NEW m2, m2 = [m EXCEPT !.checked = Chosen(@, i)],
         SurfaceAgrees(lost, m, b, ms, sg, <<>>, nx)
  PROVE  SurfaceAgrees(lost, m2, b, ms, Append(sg, MenuSignal(m2, i)), <<>>, nx)
<1> DEFINE h == LearntAll(LearntAll(b, ms), sg)
           x == MenuSignal(m2, i)
           h2 == LearntAll(LearntAll(b, ms), Append(sg, x))
           c2 == Chosen(m.checked, i)
<1>1. m \in Menus /\ m.gen # 0 /\ m.checked \in SUBSET Checkable
  BY DEF SurfaceAgrees, Menus
<1>2. /\ c2 \in SUBSET Checkable
      /\ i \in Radios => c2 \cap Radios = {i} /\ {i} \in {{"light"}, {"dark"}}
      /\ i \notin Radios => c2 \cap Radios = m.checked \cap Radios
      /\ i # "box" => ("box" \in c2 <=> "box" \in m.checked)
  <2>1. CASE i \in Radios
    <3>1. c2 = Selected(m.checked, i) /\ i # "box"
      BY <2>1 DEF Chosen, Radios
    <3> HIDE DEF c2
    <3>2. QED BY <3>1, <2>1, <1>1, SelectedIs
  <2>2. CASE i = "box"
    <3>1. c2 = Toggled(m.checked, i) /\ i \notin Radios
      BY <2>2 DEF Chosen, Radios
    <3>2. Toggled(m.checked, i) \in SUBSET Checkable /\ Toggled(m.checked, i) \cap Radios = m.checked \cap Radios
      BY <2>2, <1>1 DEF Toggled, Checkable, Radios
    <3> HIDE DEF c2
    <3>3. QED BY <3>1, <3>2, <2>2
  <2>3. CASE i \notin Radios /\ i # "box"
    <3>1. c2 = m.checked
      BY <2>3 DEF Chosen
    <3> HIDE DEF c2
    <3>2. QED BY <3>1, <2>3, <1>1
  <2>4. QED BY <2>1, <2>2, <2>3
<1> HIDE DEF c2
<1>3. m2 \in Menus /\ m2.gen = m.gen /\ m2.close = m.close /\ m2.quit = m.quit /\ m2.checked = c2
  BY <1>1, <1>2 DEF c2, Menus
<1>4. m2 # NoMenu
  BY <1>1, <1>3 DEF NoMenu
<1>5. x \in Actions /\ x.gen = m.gen /\ x.item = i /\ x.on = (i \in c2) /\ x \in Signals /\ x \in Messages
  <2>1. m2.gen \in Nat /\ (i \in m2.checked) \in BOOLEAN
    BY <1>3 DEF Menus
  <2>2. x \in Actions
    BY <2>1 DEF MenuSignal, Actions
  <2>3. x.gen = m.gen /\ x.item = i /\ x.on = (i \in c2)
    BY <1>3 DEF MenuSignal
  <2> HIDE DEF x
  <2>4. QED BY <2>2, <2>3 DEF Signals, Messages
<1> HIDE DEF x
<1>6. sg \in Seq(Signals) /\ sg \in Seq(Messages) /\ h \in Menus /\ LearntAll(b, ms) \in Menus
  BY HeardIs
<1>7. h2 = Learnt(h, x)
  <2> DEFINE k == LearntAll(b, ms)
  <2>1. k \in Menus
    BY <1>6
  <2> HIDE DEF k
  <2>2. LearntAll(k, Append(sg, x)) = Learnt(LearntAll(k, sg), x)
    BY <2>1, <1>5, <1>6, LearntLast
  <2>3. QED BY <2>2 DEF k
<1> HIDE DEF h, h2
<1>8. ASSUME AgreesWith(m, h, <<>>) PROVE AgreesWith(m2, h2, <<>>)
  <2>0. \A n, items : ~Outstanding(<<>>, n, items)
    BY DEF Outstanding
  <2>1. /\ h.gen = m.gen /\ h.close = m.close /\ h.quit = m.quit
        /\ h.checked \cap Radios = m.checked \cap Radios
        /\ "box" \in h.checked <=> "box" \in m.checked
    BY <2>0, <1>8 DEF AgreesWith
  <2>2. h.checked \in SUBSET Checkable
    BY <1>6 DEF Menus
  <2>3. i \in Radios \/ i = "box" \/ i = "quit"
    BY DEF Items, Checkable
  <2>4. /\ i \in Radios => h2.checked = Selected(h.checked, i)
        /\ i = "box" => h2.checked = IF x.on THEN h.checked \cup {"box"} ELSE h.checked \ {"box"}
        /\ i = "quit" => h2 = h
    BY <1>5, <1>6, <1>7, LearntIs
  <2>5. h2.gen = h.gen /\ h2.close = h.close /\ h2.quit = h.quit
    BY <2>3, <1>5, <1>6, <1>7, LearntIs
  <2>6. h2.checked \cap Radios = c2 \cap Radios /\ ("box" \in h2.checked <=> "box" \in c2)
    <3>1. CASE i \in Radios
      BY <3>1, <2>2, SelectedIs, <2>1, <2>4, <1>2 DEF Radios
    <3>2. CASE i = "box"
      BY <3>2, <1>5, <2>4, <2>1, <1>2 DEF Radios
    <3>3. CASE i = "quit"
      BY <3>3, <2>1, <2>4, <1>2 DEF Radios
    <3>4. QED BY <2>3, <3>1, <3>2, <3>3
  <2>7. QED BY <2>1, <2>5, <2>6, <1>3 DEF AgreesWith
<1>9. ChosenOnce(m, <<>>) => ChosenOnce(m2, <<>>)
  BY <1>2, <1>3, <1>4 DEF Outstanding, ChosenOnce
<1>10. InGenerations(m, ms, nx) => InGenerations(m2, ms, nx)
  BY <1>3, <1>4 DEF InGenerations
<1>11. /\ Append(sg, x) \in Seq(Signals)
       /\ \A k \in DOMAIN Append(sg, x) :
            (k \in DOMAIN sg /\ Append(sg, x)[k] = sg[k]) \/ Append(sg, x)[k] = x
  BY <1>5, <1>6
<1>12. \A k \in DOMAIN Append(sg, x) :
         Append(sg, x)[k].type = "action" => Append(sg, x)[k].gen = m2.gen
  BY <1>3, <1>5, <1>11 DEF SurfaceAgrees
<1>13. lost = {} /\ Knows(b, ms) => AgreesWith(m2, h2, <<>>)
  BY <1>8 DEF SurfaceAgrees, h
<1>14. QED
  BY <1>1, <1>3, <1>4, <1>9, <1>10, <1>11, <1>12, <1>13 DEF SurfaceAgrees, h2, x

\* A click on the icon says nothing of the menu.
LEMMA IconIsNoNews ==
  ASSUME NEW lost, NEW m, NEW b, NEW ms, NEW sg, NEW ev, NEW nx, NEW t \in Seq(IconSignals), m # NoMenu,
         SurfaceAgrees(lost, m, b, ms, sg, ev, nx)
  PROVE  SurfaceAgrees(lost, m, b, ms, sg \o t, ev, nx)
<1> DEFINE k == LearntAll(b, ms)
<1>1. sg \in Seq(Signals) /\ sg \in Seq(Messages) /\ k \in Menus /\ LearntAll(k, sg) \in Menus
  BY HeardIs
<1>2. t \in Seq(Signals) /\ t \in Seq(Messages)
  BY DEF Signals, Messages
<1> HIDE DEF k
<1>3. LearntAll(k, sg \o t) = LearntAll(k, sg)
  BY <1>1, <1>2, LearntGoesOn, NothingIsLearnt
<1>4. /\ sg \o t \in Seq(Signals)
      /\ \A j \in DOMAIN (sg \o t) : (j \in DOMAIN sg /\ (sg \o t)[j] = sg[j]) \/ (sg \o t)[j] \in IconSignals
  <2>1. \A j \in DOMAIN t : t[j] \in IconSignals
    OBVIOUS
  <2> HIDE DEF IconSignals
  <2>2. QED BY <2>1, <1>1, <1>2
<1>5. \A x \in IconSignals : x.type # "action"
  BY DEF IconSignals
<1>6. \A j \in DOMAIN (sg \o t) : (sg \o t)[j].type = "action" => (sg \o t)[j].gen = m.gen
  BY <1>4, <1>5 DEF SurfaceAgrees
<1>7. QED BY <1>3, <1>4, <1>6 DEF SurfaceAgrees, k

\* What is no answer tells nobody of a menu.
LEMMA WordsAreNoAnswers ==
  ASSUME NEW b, NEW ms \in Seq(Messages), NEW w \in Seq(Signals)
  PROVE  /\ ms \o w \in Seq(Messages)
         /\ Knows(b, ms \o w) <=> Knows(b, ms)
         /\ \A j \in DOMAIN (ms \o w) :
              \/ j \in DOMAIN ms /\ (ms \o w)[j] = ms[j]
              \/ j > Len(ms) /\ j - Len(ms) \in DOMAIN w /\ (ms \o w)[j] = w[j - Len(ms)]
         /\ \A j \in DOMAIN w : w[j].type # "done"
<1>1. \A j \in DOMAIN w : w[j].type # "done"
  BY DEF Signals, Actions, IconSignals
<1>2. w \in Seq(Messages)
  BY DEF Messages
<1>3. /\ ms \o w \in Seq(Messages)
      /\ \A j \in DOMAIN (ms \o w) :
           \/ j \in DOMAIN ms /\ (ms \o w)[j] = ms[j]
           \/ j > Len(ms) /\ j - Len(ms) \in DOMAIN w /\ (ms \o w)[j] = w[j - Len(ms)]
      /\ \A j \in DOMAIN ms : j \in DOMAIN (ms \o w) /\ (ms \o w)[j] = ms[j]
  BY <1>2
<1>4. (\E x \in ToSet(ms \o w) : x.type = "done") <=> (\E x \in ToSet(ms) : x.type = "done")
  BY <1>1, <1>3 DEF ToSet
<1>5. QED BY <1>1, <1>3, <1>4 DEF Knows
\* A turn claims the events of both menus, and sends the words of all signals.
LEMMA SignalsAreSent ==
  ASSUME NEW lost, NEW m, NEW b, NEW ms, NEW sg, NEW ev \in Seq(Events), NEW nx, NEW t \in Seq(IconSignals),
         NEW cl, cl = ClaimEvents(m, ev), NEW q,
         IF m = NoMenu THEN q = <<>> ELSE q = (sg \o cl.out) \o t,
         SurfaceAgrees(lost, m, b, ms, sg, ev, nx)
  PROVE  SurfaceAgrees(lost, cl.menu, b, ms \o WordsOf(q), <<>>, <<>>, nx)
<1> DEFINE k == LearntAll(b, ms)
           h == LearntAll(k, sg)
           w == WordsOf(q)
<1>1. /\ m \in Menus /\ b \in Menus /\ ms \in Seq(Messages) /\ sg \in Seq(Signals) /\ sg \in Seq(Messages)
      /\ k \in Menus /\ h \in Menus
  BY HeardIs
<1>2. m = NoMenu \/ m.gen # 0
  BY DEF SurfaceAgrees
<1>3. /\ cl.menu \in Menus /\ cl.menu.gen = m.gen /\ (cl.menu = NoMenu <=> m = NoMenu)
      /\ cl.out \in Seq(Actions) /\ \A i \in DOMAIN cl.out : cl.out[i].gen = m.gen
      /\ m = NoMenu => cl.out = <<>>
      /\ AgreesWith(m, h, ev) => AgreesWith(cl.menu, LearntAll(h, cl.out), <<>>)
      /\ ChosenOnce(m, ev) => ChosenOnce(cl.menu, <<>>)
  BY <1>1, <1>2, ClaimsAgree
<1>4. /\ cl.out \in Seq(Signals) /\ cl.out \in Seq(Messages) /\ t \in Seq(Signals) /\ t \in Seq(Messages)
      /\ <<>> \in Seq(Signals) /\ <<>> \in Seq(Messages)
  BY <1>3 DEF Signals, Messages
<1> HIDE DEF k, h, w
<1>5. q \in Seq(Signals) /\ LearntAll(k, q) = LearntAll(h, cl.out)
  <2>1. CASE m = NoMenu
    BY <2>1, <1>3, <1>1, <1>4, LearntLast DEF SurfaceAgrees, Messages, h
  <2>2. CASE m # NoMenu
    <3>1. q = (sg \o cl.out) \o t
      BY <2>2
    <3>2. sg \o cl.out \in Seq(Signals) /\ sg \o cl.out \in Seq(Messages) /\ q \in Seq(Signals)
      BY <3>1, <1>1, <1>4
    <3>3. LearntAll(k, sg \o cl.out) \in Menus /\ LearntAll(k, sg \o cl.out) = LearntAll(h, cl.out)
      BY <3>2, <1>1, <1>4, LearntGoesOn DEF h
    <3>4. LearntAll(k, q) = LearntAll(LearntAll(k, sg \o cl.out), t)
      BY <3>1, <3>2, <1>1, <1>4, LearntGoesOn
    <3>5. LearntAll(LearntAll(k, sg \o cl.out), t) = LearntAll(k, sg \o cl.out)
      BY <3>3, NothingIsLearnt
    <3>6. QED BY <3>2, <3>3, <3>4, <3>5
  <2>3. QED BY <2>1, <2>2
<1>6. /\ w \in Seq(Signals) /\ LearntAll(k, w) = LearntAll(k, q)
      /\ \A i \in DOMAIN w : \E j \in DOMAIN q : w[i] = q[j]
  BY <1>1, <1>5, WordsAreLearnt DEF w
<1>7. /\ ms \o w \in Seq(Messages)
      /\ Knows(b, ms \o w) <=> Knows(b, ms)
      /\ \A j \in DOMAIN (ms \o w) :
           \/ j \in DOMAIN ms /\ (ms \o w)[j] = ms[j]
           \/ j > Len(ms) /\ j - Len(ms) \in DOMAIN w /\ (ms \o w)[j] = w[j - Len(ms)]
      /\ \A j \in DOMAIN w : w[j].type # "done"
  BY <1>1, <1>6, WordsAreNoAnswers
<1>8. LearntAll(LearntAll(b, ms \o w), <<>>) = LearntAll(h, cl.out)
  <2>1. w \in Seq(Messages)
    BY <1>6 DEF Messages
  <2>2. LearntAll(b, ms \o w) \in Menus /\ LearntAll(b, ms \o w) = LearntAll(k, w)
    BY <2>1, <1>1, <1>7, LearntGoesOn DEF k
  <2>3. MenuRefused \in Messages
    BY DEF Messages
  <2>4. LearntAll(LearntAll(b, ms \o w), <<>>) = LearntAll(b, ms \o w)
    BY <2>2, <2>3, <1>4, LearntLast
  <2>5. QED BY <2>2, <2>4, <1>5, <1>6
<1>9. \A i \in DOMAIN w : w[i].type = "action" => w[i].gen = m.gen /\ m # NoMenu
  <2>1. ASSUME NEW j \in DOMAIN q, q[j].type = "action" PROVE q[j].gen = m.gen /\ m # NoMenu
    <3>1. m # NoMenu /\ q = (sg \o cl.out) \o t
      BY <2>1
    <3>2. /\ \A i \in DOMAIN sg : sg[i].type = "action" => sg[i].gen = m.gen
          /\ \A i \in DOMAIN t : t[i].type # "action"
      BY DEF SurfaceAgrees, IconSignals
    <3>3. \/ \E i \in DOMAIN sg : q[j] = sg[i]
          \/ \E i \in DOMAIN cl.out : q[j] = cl.out[i]
          \/ \E i \in DOMAIN t : q[j] = t[i]
      <4> HIDE DEF IconSignals
      <4>1. q \in Seq(Signals) /\ sg \o cl.out \in Seq(Signals) /\ Len(sg \o cl.out) = Len(sg) + Len(cl.out)
        BY <1>1, <1>4, <1>5
      <4>2. CASE j \in DOMAIN (sg \o cl.out)
        <5>1. q[j] = (sg \o cl.out)[j]
          BY <4>2, <3>1, <1>4, <4>1
        <5>2. QED BY <4>2, <5>1, <1>1, <1>4
      <4>3. CASE j \notin DOMAIN (sg \o cl.out)
        <5>1. j - Len(sg \o cl.out) \in DOMAIN t /\ q[j] = t[j - Len(sg \o cl.out)]
          BY <4>3, <3>1, <1>4, <4>1
        <5>2. QED BY <5>1
      <4>4. QED BY <4>2, <4>3
    <3>4. QED BY <2>1, <3>1, <3>2, <3>3, <1>3
  <2>2. QED BY <2>1, <1>6
<1>10. InGenerations(cl.menu, ms \o w, nx)
  <2>1. InGenerations(m, ms, nx)
    BY DEF SurfaceAgrees
  <2>2. \A j \in DOMAIN (ms \o w) : (ms \o w)[j].type = "done" => j \in DOMAIN ms /\ (ms \o w)[j] = ms[j]
    BY <1>7
  <2>3. ASSUME NEW i \in DOMAIN (ms \o w), (ms \o w)[i].type = "done"
        PROVE  (ms \o w)[i].gen < nx /\ (cl.menu # NoMenu => (ms \o w)[i].gen <= cl.menu.gen)
    BY <2>1, <2>2, <2>3, <1>3 DEF InGenerations
  <2>4. ASSUME NEW i \in DOMAIN (ms \o w), NEW j \in DOMAIN (ms \o w), i < j,
               (ms \o w)[i].type = "done", (ms \o w)[j].type = "action"
        PROVE  (ms \o w)[j].gen >= (ms \o w)[i].gen
    <3>1. i \in DOMAIN ms /\ (ms \o w)[i] = ms[i]
      BY <2>2, <2>4
    <3>2. CASE j \in DOMAIN ms /\ (ms \o w)[j] = ms[j]
      BY <3>1, <3>2, <2>1, <2>4 DEF InGenerations
    <3>3. CASE ~(j \in DOMAIN ms /\ (ms \o w)[j] = ms[j])
      <4>1. j - Len(ms) \in DOMAIN w /\ (ms \o w)[j] = w[j - Len(ms)]
        BY <3>3, <1>7
      <4>2. (ms \o w)[j].gen = m.gen /\ m # NoMenu
        BY <4>1, <2>4, <1>9
      <4>3. (ms \o w)[i].gen <= m.gen
        BY <3>1, <2>1, <2>4, <4>2 DEF InGenerations
      <4>4. ms[i] \in Messages /\ ms[i].type = "done"
        BY <3>1, <1>1, <2>4
      <4>5. ms[i].gen \in Nat /\ m.gen \in Nat
        BY <4>4, <1>1 DEF Messages, Signals, Actions, IconSignals, Answers, MenuRefused, Menus
      <4>6. QED BY <3>1, <4>2, <4>3, <4>5
    <3>4. QED BY <3>2, <3>3
  <2>5. QED BY <2>3, <2>4 DEF InGenerations
<1>11. ChosenOnce(cl.menu, <<>>) /\ cl.menu.gen < nx /\ (cl.menu = NoMenu \/ cl.menu.gen # 0)
  BY <1>2, <1>3 DEF SurfaceAgrees
<1>12. lost = {} /\ Knows(b, ms \o w) => AgreesWith(cl.menu, LearntAll(LearntAll(b, ms \o w), <<>>), <<>>)
  BY <1>3, <1>7, <1>8 DEF SurfaceAgrees, h, k
<1>13. SurfaceAgrees(lost, cl.menu, b, ms \o w, <<>>, <<>>, nx)
  BY <1>1, <1>3, <1>4, <1>7, <1>10, <1>11, <1>12 DEF SurfaceAgrees
<1>14. QED BY <1>13 DEF w

\* A message that answers for no menu, and later menus elsewhere, change nothing.
LEMMA RefusalIsNoNews ==
  ASSUME NEW lost, NEW m, NEW b, NEW ms, NEW sg, NEW ev, NEW nx \in Nat, NEW nx2 \in Nat, nx <= nx2,
         SurfaceAgrees(lost, m, b, ms, sg, ev, nx)
  PROVE  /\ SurfaceAgrees(lost, m, b, ms, sg, ev, nx2)
         /\ SurfaceAgrees(lost, m, b, Append(ms, MenuRefused), sg, ev, nx2)
<1> DEFINE r == Append(ms, MenuRefused)
<1>1. m \in Menus /\ b \in Menus /\ ms \in Seq(Messages)
  BY DEF SurfaceAgrees
<1>2. MenuRefused \in Messages /\ MenuRefused.type = "refused"
  BY DEF Messages, MenuRefused
<1>3. /\ r \in Seq(Messages) /\ \A i \in DOMAIN ms : i \in DOMAIN r /\ r[i] = ms[i]
      /\ \A i \in DOMAIN r : (i \in DOMAIN ms /\ r[i] = ms[i]) \/ r[i] = MenuRefused
  BY <1>1, <1>2
<1> HIDE DEF r
<1>4. Learnt(LearntAll(b, ms), MenuRefused) = LearntAll(b, ms)
  BY HeardIs, <1>2, LearntIs
<1>5. LearntAll(b, r) = LearntAll(b, ms)
  BY <1>1, <1>2, <1>4, LearntLast DEF r
<1>6. Knows(b, r) <=> Knows(b, ms)
  BY <1>2, <1>3 DEF Knows, ToSet
<1>7. InGenerations(m, ms, nx2) /\ m.gen < nx2
  <2>1. \A i \in DOMAIN ms : ms[i].type = "done" => ms[i].gen \in Nat
    BY <1>1 DEF Messages, Signals, Actions, IconSignals, Answers, MenuRefused
  <2>2. m.gen \in Nat /\ m.gen < nx /\ InGenerations(m, ms, nx)
    BY <1>1 DEF SurfaceAgrees, Menus
  <2>3. \A i \in DOMAIN ms : ms[i].type = "done" => ms[i].gen < nx2
    BY <2>1, <2>2 DEF InGenerations
  <2>4. QED BY <2>2, <2>3 DEF InGenerations
<1>8. InGenerations(m, r, nx2)
  BY <1>2, <1>3, <1>7 DEF InGenerations
<1>9. QED BY <1>3, <1>5, <1>6, <1>7, <1>8 DEF SurfaceAgrees, r
\* What a document may ask for has one choice.
LEMMA AskedIsChosen ==
  ASSUME NEW d \in Parsed, NEW gen \in Nat \ {0}
  PROVE  /\ Installed(d, gen) \in Menus /\ Installed(d, gen).gen = gen /\ Installed(d, gen) # NoMenu
         /\ Installed(d, gen).checked \cap Radios \in {{"light"}, {"dark"}}
<1>1. /\ d.checked \in Trees /\ d.close \in BOOLEAN /\ d.quit \in BOOLEAN
      /\ Cardinality(d.checked \cap Radios) = 1
  BY DEF Parsed
<1>2. d.checked \in SUBSET Checkable
  BY <1>1 DEF Trees, Checkable, Radios
<1>3. Installed(d, gen) \in Menus /\ Installed(d, gen).gen = gen /\ Installed(d, gen).checked = d.checked
  BY <1>1, <1>2 DEF Installed, Menus
<1>4. Installed(d, gen) # NoMenu
  BY <1>3 DEF NoMenu
<1>5. PICK x : d.checked \cap Radios = {x}
  <2>1. IsFiniteSet(Radios)
    <3>1. Radios = {"light"} \cup {"dark"}
      BY DEF Radios
    <3>2. IsFiniteSet({"light"}) /\ IsFiniteSet({"dark"})
      BY FS_Singleton
    <3>3. QED BY <3>1, <3>2, FS_Union
  <2>2. IsFiniteSet(d.checked \cap Radios)
    BY <2>1, FS_Subset
  <2>3. QED BY <2>2, <1>1, FS_Singleton
<1>6. {x} \in {{"light"}, {"dark"}}
  BY <1>5 DEF Radios
<1>7. QED BY <1>3, <1>4, <1>5, <1>6

\* A menu takes the place of the last, and the document is told, or has lost that.
LEMMA ReplacedIsTold ==
  ASSUME NEW lost, NEW m, NEW b, NEW ms, NEW sg, NEW ev, NEW nx \in Nat \ {0}, NEW nx2 \in Nat,
         nx <= nx2, NEW r, NEW x, NEW gone,
         \/ x = [type |-> "done", gen |-> r.gen, menu |-> r]
         \/ x = MenuRefused /\ gone # {},
         r = NoMenu \/ (\E d \in Parsed : r = Installed(d, nx) /\ nx < nx2),
         SurfaceAgrees(lost, m, b, ms, sg, ev, nx)
  PROVE  SurfaceAgrees(gone, r, b, Append(ms, x), <<>>, ev, nx2)
<1> DEFINE a == Append(ms, x)
<1>1. m \in Menus /\ b \in Menus /\ ms \in Seq(Messages) /\ LearntAll(b, ms) \in Menus
  BY HeardIs
<1>2. /\ r \in Menus /\ (r = NoMenu \/ r.gen = nx) /\ r.gen < nx2
      /\ r # NoMenu => r.checked \cap Radios \in {{"light"}, {"dark"}}
  <2>1. CASE r = NoMenu
    BY <2>1 DEF NoMenu, Menus
  <2>2. CASE r # NoMenu
    BY <2>2, AskedIsChosen
  <2>3. QED BY <2>1, <2>2
<1>3. /\ x \in Messages /\ x.type # "action"
      /\ x.type = "done" => x \in Answers /\ x.gen = r.gen /\ x.menu = r
      /\ gone = {} => x.type = "done"
  BY <1>2 DEF Answers, Messages, Menus, MenuRefused
<1>4. /\ a \in Seq(Messages)
      /\ \A i \in DOMAIN a : (i \in DOMAIN ms /\ a[i] = ms[i]) \/ (i = Len(a) /\ a[i] = x)
  BY <1>1, <1>3
<1>5. ASSUME gone = {} PROVE LearntAll(LearntAll(b, a), <<>>) = r
  <2>1. LearntAll(b, a) = Learnt(LearntAll(b, ms), x)
    BY <1>1, <1>3, LearntLast
  <2>2. Learnt(LearntAll(b, ms), x) = r
    BY <1>1, <1>3, <1>5, LearntIs
  <2>3. <<>> \in Seq(Messages)
    OBVIOUS
  <2> HIDE DEF a
  <2>4. QED BY <2>1, <2>2, <2>3, <1>2, <1>3, LearntLast
<1>6. AgreesWith(r, r, ev) /\ ChosenOnce(r, ev)
  BY <1>2 DEF AgreesWith, ChosenOnce
<1>7. InGenerations(r, a, nx2)
  <2>1. \A i \in DOMAIN ms : ms[i].type = "done" => ms[i].gen \in Nat
    BY <1>1 DEF Messages, Signals, Actions, IconSignals, Answers, MenuRefused
  <2>2. \A i \in DOMAIN ms : ms[i].type = "done" => ms[i].gen < nx
    BY DEF SurfaceAgrees, InGenerations
  <2>3. r.gen \in Nat
    BY <1>2 DEF Menus
  <2>4. ASSUME NEW i \in DOMAIN a, a[i].type = "done"
        PROVE  a[i].gen < nx2 /\ (r # NoMenu => a[i].gen <= r.gen)
    BY <2>1, <2>2, <2>3, <2>4, <1>2, <1>3, <1>4
  <2>5. ASSUME NEW i \in DOMAIN a, NEW j \in DOMAIN a, i < j, a[i].type = "done", a[j].type = "action"
        PROVE  a[j].gen >= a[i].gen
    BY <2>5, <1>3, <1>4 DEF SurfaceAgrees, InGenerations
  <2>6. QED BY <2>4, <2>5 DEF InGenerations
<1>8. <<>> \in Seq(Signals) /\ DOMAIN <<>> = {}
  OBVIOUS
<1> HIDE DEF a
<1>9. SurfaceAgrees(gone, r, b, a, <<>>, ev, nx2)
  BY <1>1, <1>2, <1>4, <1>5, <1>6, <1>7, <1>8 DEF SurfaceAgrees
<1>10. QED BY <1>9 DEF a

\* A document hears what was sent, is new and knows nothing, or has lost what was sent.
LEMMA HearingKeeps ==
  ASSUME NEW lost, NEW m, NEW b, NEW ms, NEW sg, NEW ev, NEW nx, NEW gone,
         SurfaceAgrees(lost, m, b, ms, sg, ev, nx)
  PROVE  /\ SurfaceAgrees(gone, m, NoMenu, <<>>, sg, ev, nx)
         /\ gone # {} => SurfaceAgrees(gone, m, b, <<>>, sg, ev, nx)
         /\ Knows(b, ms) => SurfaceAgrees(lost, m, LearntAll(b, ms), <<>>, sg, ev, nx)
<1> DEFINE h == LearntAll(b, ms)
<1>1. m \in Menus /\ h \in Menus /\ NoMenu \in Menus
  BY HeardIs DEF NoMenu, Menus
<1>2. <<>> \in Seq(Messages) /\ InGenerations(m, <<>>, nx) /\ ~Knows(NoMenu, <<>>)
  BY DEF InGenerations, Knows, ToSet
<1> HIDE DEF h
<1>3. LearntAll(h, <<>>) = h
  BY <1>1, <1>2, LearntLast DEF Messages
<1>4. /\ SurfaceAgrees(gone, m, NoMenu, <<>>, sg, ev, nx)
      /\ gone # {} => SurfaceAgrees(gone, m, b, <<>>, sg, ev, nx)
  BY <1>1, <1>2 DEF SurfaceAgrees
<1>5. lost = {} /\ Knows(b, ms) => AgreesWith(m, LearntAll(LearntAll(h, <<>>), sg), ev)
  BY <1>3 DEF SurfaceAgrees, h
<1>6. Knows(b, ms) => SurfaceAgrees(lost, m, h, <<>>, sg, ev, nx)
  BY <1>1, <1>2, <1>5 DEF SurfaceAgrees
<1>7. QED BY <1>4, <1>6 DEF h
-----------------------------------------------------------------------------
\* Each step is one of these, of one surface or of both.
LEMMA MenusStart == MenuInit => MenuInv
<1> SUFFICES ASSUME MenuInit PROVE MenuInv
  OBVIOUS
<1>1. PICK tray \in PackageTrays \cup {NoMenu}, bar \in {PackageBar, NoMenu} :
        /\ toolkit = "ksni" => bar = NoMenu
        /\ menu = [s \in Surfaces |-> IF s = "tray" THEN tray ELSE bar]
  BY DEF MenuInit
<1>2. ASSUME NEW m \in PackageTrays \cup {PackageBar, NoMenu}
      PROVE  /\ m \in Menus /\ m.gen < 3 /\ (m = NoMenu \/ m.gen # 0)
             /\ m # NoMenu => m.checked \cap Radios \in {{"light"}, {"dark"}}
  <2>1. CASE m = NoMenu
    BY <2>1 DEF Menus, NoMenu
  <2>2. CASE m = PackageBar
    BY <2>2 DEF Menus, PackageBar, Checkable, Radios
  <2>3. CASE m \in PackageTrays
    <3>1. PICK c \in BOOLEAN : m = [gen |-> 1, checked |-> {"light"}, close |-> c, quit |-> TRUE]
      BY <2>3 DEF PackageTrays
    <3>2. m \in Menus
      BY <3>1 DEF Menus, Checkable, Radios
    <3>3. m.gen = 1 /\ m.checked \cap Radios = {"light"}
      BY <3>1 DEF Radios
    <3>4. QED BY <3>2, <3>3
  <2>4. QED BY <2>1, <2>2, <2>3
<1>3. /\ "tray" \in Surfaces /\ "bar" \in Surfaces /\ \A s \in Surfaces : s = "tray" \/ s = "bar"
      /\ "tray" # "bar"
  BY DEF Surfaces
<1>4. menu \in [Surfaces -> Menus] /\ menu["tray"] = tray /\ menu["bar"] = bar
  BY <1>1, <1>2, <1>3
<1>5. /\ toolkit \in {"muda", "ksni"} /\ nextMenu = 3 /\ native = <<>> /\ iconClicks = 0
      /\ pendingSignals = <<>>
      /\ menuRequests = [s \in Surfaces |-> <<>>] /\ menuMessages = [s \in Surfaces |-> <<>>]
      /\ believed = [s \in Surfaces |-> NoMenu]
  BY DEF MenuInit, NoQueues
<1>6. MenuTyped
  BY <1>2, <1>4, <1>5 DEF MenuTyped
<1>7. Kits
  BY <1>1, <1>3, <1>4, <1>5 DEF Kits
<1>8. ASSUME NEW lost, NEW m \in PackageTrays \cup {PackageBar, NoMenu}
      PROVE  SurfaceAgrees(lost, m, NoMenu, <<>>, <<>>, <<>>, 3)
  BY <1>2 DEF Knows, ToSet, InGenerations, ChosenOnce, SurfaceAgrees
<1>9. ASSUME NEW s \in Surfaces
      PROVE  SurfaceAgrees(MissedBy(s), menu[s], believed[s], menuMessages[s], SignalsOf(s), native, nextMenu)
  BY <1>1, <1>3, <1>4, <1>5, <1>8 DEF SignalsOf
<1>10. QED BY <1>6, <1>7, <1>9 DEF MenuInv

\* A step that leaves the document, the queues between and the numbers alone.
LEMMA ClickKeepsMenus ==
  ASSUME MenuInv, NEW s \in Surfaces, NEW i \in Items, ClickEntry(s, i)
  PROVE  MenuInv'
<1>1. /\ MenuTyped /\ Kits
      /\ \A z \in Surfaces :
           SurfaceAgrees(MissedBy(z), menu[z], believed[z], menuMessages[z], SignalsOf(z), native, nextMenu)
  BY DEF MenuInv
<1>2. /\ menu[s] # NoMenu /\ menu[s] \in Menus /\ menu[s].gen # 0
      /\ believed' = believed /\ menuMessages' = menuMessages /\ menuRequests' = menuRequests
      /\ nextMenu' = nextMenu /\ toolkit' = toolkit /\ iconClicks' = iconClicks /\ misled' = misled
  BY <1>1 DEF ClickEntry, menuChannels, MenuTyped, SurfaceAgrees
<1>3. Surfaces = {"tray", "bar"}
  BY DEF Surfaces
<1>4. CASE toolkit = "ksni"
  <2> DEFINE m2 == [menu[s] EXCEPT !.checked = Chosen(@, i)]
  <2>1. /\ menu' = [menu EXCEPT ![s] = m2] /\ pendingSignals' = Append(pendingSignals, MenuSignal(m2, i))
        /\ native' = native
    BY <1>4 DEF ClickEntry
  <2>2. s = "tray" /\ native = <<>> /\ menu["bar"] = NoMenu /\ menuRequests["bar"] = <<>>
    BY <1>1, <1>2, <1>3, <1>4 DEF Kits
  <2>3. SurfaceAgrees(MissedBy(s), m2, believed[s], menuMessages[s], Append(pendingSignals, MenuSignal(m2, i)), <<>>, nextMenu)
    BY <1>1, <2>2, <1>2, ChosenIsSignalled DEF SignalsOf, MissedBy
  <2> HIDE DEF m2
  <2>4. m2 \in Menus
    BY <2>3 DEF SurfaceAgrees
  <2>5. menu' \in [Surfaces -> Menus] /\ menu'[s] = m2 /\ \A z \in Surfaces : z # s => menu'[z] = menu[z]
    BY <2>1, <2>4, <1>1 DEF MenuTyped
  <2>6. MenuTyped' /\ Kits'
    BY <1>1, <1>2, <1>3, <1>4, <2>1, <2>2, <2>5 DEF MenuTyped, Kits
  <2>7. ASSUME NEW z \in Surfaces
        PROVE  SurfaceAgrees(MissedBy(z)', menu'[z], believed'[z], menuMessages'[z], SignalsOf(z)', native', nextMenu')
    BY <1>2, <2>1, <2>2, <2>3, <2>5, <1>1 DEF SignalsOf, MissedBy
  <2>8. QED BY <2>6, <2>7 DEF MenuInv
<1>5. CASE toolkit # "ksni"
  <2> DEFINE m2 == IF i \in Checkable THEN [menu[s] EXCEPT !.checked = Toggled(@, i)] ELSE menu[s]
             e == [gen |-> menu[s].gen, item |-> i]
  <2>1. /\ menu' = [menu EXCEPT ![s] = m2] /\ native' = Append(native, e)
        /\ pendingSignals' = pendingSignals
    BY <1>5, <1>1 DEF ClickEntry, MenuTyped
  <2>2. e \in Events /\ e.gen = menu[s].gen /\ e.item = i /\ native \in Seq(Events)
    BY <1>1, <1>2 DEF Events, MenuTyped, Menus
  <2>3. SurfaceAgrees(MissedBy(s), m2, believed[s], menuMessages[s], SignalsOf(s), Append(native, e), nextMenu)
    <3> HIDE DEF e
    <3>1. SurfaceAgrees(MissedBy(s), menu[s], believed[s], menuMessages[s], SignalsOf(s), native, nextMenu)
      BY <1>1
    <3>2. QED BY <3>1, <2>2, <1>2, ToggledIsOutstanding
  <2>4. ASSUME NEW z \in Surfaces
        PROVE  SurfaceAgrees(MissedBy(z), menu[z], believed[z], menuMessages[z], SignalsOf(z), Append(native, e), nextMenu)
    BY <1>1, <2>2, OneMoreEvent
  <2> HIDE DEF m2, e
  <2>5. m2 \in Menus
    BY <2>3 DEF SurfaceAgrees
  <2>6. menu' \in [Surfaces -> Menus] /\ menu'[s] = m2 /\ \A z \in Surfaces : z # s => menu'[z] = menu[z]
    BY <2>1, <2>5, <1>1 DEF MenuTyped
  <2>7. MenuTyped' /\ Kits'
    BY <1>1, <1>2, <1>5, <2>1, <2>2, <2>6 DEF MenuTyped, Kits
  <2>8. ASSUME NEW z \in Surfaces
        PROVE  SurfaceAgrees(MissedBy(z)', menu'[z], believed'[z], menuMessages'[z], SignalsOf(z)', native', nextMenu')
    BY <2>1, <1>2, <2>3, <2>4, <2>6 DEF SignalsOf, MissedBy
  <2>9. QED BY <2>7, <2>8 DEF MenuInv
<1>6. QED BY <1>4, <1>5

LEMMA IconKeepsMenus ==
  ASSUME MenuInv, ClickIcon
  PROVE  MenuInv'
<1>1. /\ MenuTyped /\ Kits
      /\ \A z \in Surfaces :
           SurfaceAgrees(MissedBy(z), menu[z], believed[z], menuMessages[z], SignalsOf(z), native, nextMenu)
  BY DEF MenuInv
<1>2. /\ menu["tray"] # NoMenu /\ menu' = menu /\ native' = native
      /\ believed' = believed /\ menuMessages' = menuMessages /\ menuRequests' = menuRequests
      /\ nextMenu' = nextMenu /\ toolkit' = toolkit /\ misled' = misled
      /\ IF toolkit = "ksni" THEN pendingSignals' = pendingSignals \o ClickSignals /\ iconClicks' = iconClicks
                             ELSE iconClicks' = iconClicks + 1 /\ pendingSignals' = pendingSignals
  BY DEF ClickIcon, menuChannels
<1>3. MenuTyped' /\ Kits'
  BY <1>1, <1>2 DEF MenuTyped, Kits
<1>4. ASSUME NEW z \in Surfaces
      PROVE  SurfaceAgrees(MissedBy(z), menu[z], believed[z], menuMessages[z], SignalsOf(z)', native, nextMenu)
  <2>1. SurfaceAgrees(MissedBy(z), menu[z], believed[z], menuMessages[z], SignalsOf(z), native, nextMenu)
    BY <1>1
  <2>2. CASE SignalsOf(z)' = SignalsOf(z)
    BY <2>1, <2>2
  <2>3. CASE SignalsOf(z)' # SignalsOf(z)
    <3>1. z = "tray" /\ SignalsOf(z) = pendingSignals /\ SignalsOf(z)' = pendingSignals \o ClickSignals
      BY <2>3, <1>2 DEF SignalsOf, MissedBy
    <3>2. ClickSignals \in Seq(IconSignals)
      BY DEF ClickSignals, IconSignals
    <3>3. QED BY <3>1, <3>2, <2>1, <1>2, IconIsNoNews
  <2>4. QED BY <2>2, <2>3
<1>5. QED BY <1>2, <1>3, <1>4 DEF MenuInv, MissedBy
LEMMA SignalsKeepMenus ==
  ASSUME MenuInv, ApplyMenuSignals
  PROVE  MenuInv'
<1> DEFINE cl(z) == ClaimEvents(menu[z], native)
           polled == [k \in 1..2 * iconClicks |-> ClickSignals[IF k % 2 = 1 THEN 1 ELSE 2]]
           tray == IF menu["tray"] = NoMenu THEN <<>> ELSE pendingSignals \o cl("tray").out \o polled
           q(z) == IF z = "tray" THEN tray ELSE cl(z).out
<1>1. /\ MenuTyped /\ Kits
      /\ \A z \in Surfaces :
           SurfaceAgrees(MissedBy(z), menu[z], believed[z], menuMessages[z], SignalsOf(z), native, nextMenu)
  BY DEF MenuInv
<1>2. /\ menu' = [z \in Surfaces |-> cl(z).menu]
      /\ menuMessages' = [z \in Surfaces |-> menuMessages[z] \o WordsOf(q(z))]
      /\ native' = <<>> /\ pendingSignals' = <<>> /\ iconClicks' \in {iconClicks, 0}
      /\ believed' = believed /\ menuRequests' = menuRequests
      /\ nextMenu' = nextMenu /\ toolkit' = toolkit /\ misled' = misled
  <2>1. /\ native' = <<>> /\ pendingSignals' = <<>> /\ iconClicks' \in {iconClicks, 0}
        /\ believed' = believed /\ menuRequests' = menuRequests
        /\ nextMenu' = nextMenu /\ toolkit' = toolkit /\ misled' = misled
    BY DEF ApplyMenuSignals
  <2> DEFINE offered == [z \in Surfaces |-> ClaimEvents(menu[z], OfferedIds[z])]
             its == IF menu["tray"] = NoMenu THEN <<>>
                    ELSE pendingSignals \o offered["tray"].out \o polled
             words == [z \in Surfaces |-> WordsOf(IF z = "tray" THEN its ELSE offered[z].out)]
  <2>2. /\ menu' = [z \in Surfaces |-> offered[z].menu]
        /\ menuMessages' = [z \in Surfaces |-> menuMessages[z] \o words[z]]
    BY DEF ApplyMenuSignals
  <2>3. "tray" \in Surfaces
    BY DEF Surfaces
  <2>4. \A z \in Surfaces : offered[z] = cl(z)
    BY DEF OfferedIds
  <2> HIDE DEF polled, offered
  <2>5. its = tray
    BY <2>3, <2>4
  <2> HIDE DEF its, tray
  <2>6. \A z \in Surfaces : words[z] = WordsOf(q(z))
    BY <2>4, <2>5
  <2> HIDE DEF words, q
  <2>7. QED BY <2>1, <2>2, <2>4, <2>6
<1>3. polled \in Seq(IconSignals)
  <2>1. 2 * iconClicks \in Nat /\ \A k \in 1 .. 2 * iconClicks : ClickSignals[IF k % 2 = 1 THEN 1 ELSE 2] \in IconSignals
    BY <1>1 DEF MenuTyped, ClickSignals, IconSignals
  <2> HIDE DEF IconSignals
  <2>2. polled \in [1 .. 2 * iconClicks -> IconSignals]
    BY <2>1
  <2> HIDE DEF polled
  <2>3. QED BY <2>1, <2>2, SeqDef
<1> HIDE DEF polled
<1>4. ASSUME NEW z \in Surfaces
      PROVE  SurfaceAgrees(MissedBy(z), cl(z).menu, believed[z], menuMessages[z] \o WordsOf(q(z)), <<>>, <<>>, nextMenu)
  <2>1. SurfaceAgrees(MissedBy(z), menu[z], believed[z], menuMessages[z], SignalsOf(z), native, nextMenu)
    BY <1>1
  <2>2. native \in Seq(Events) /\ menu[z] \in Menus /\ (menu[z] = NoMenu \/ menu[z].gen # 0)
    BY <1>1, <2>1 DEF MenuTyped, SurfaceAgrees
  <2>3. cl(z).out \in Seq(Actions) /\ (menu[z] = NoMenu => cl(z).out = <<>>)
    BY <2>2, ClaimsAgree DEF NoMenu, Menus
  <2>4. CASE z = "tray"
    <3>1. SignalsOf(z) = pendingSignals /\ q(z) = tray
      BY <2>4 DEF SignalsOf, MissedBy
    <3>2. IF menu[z] = NoMenu THEN q(z) = <<>> ELSE q(z) = (SignalsOf(z) \o cl(z).out) \o polled
      BY <3>1, <2>4
    <3> HIDE DEF q, tray
    <3>3. QED BY <3>2, <2>1, <2>2, <1>3, SignalsAreSent
  <2>5. CASE z # "tray"
    <3>1. SignalsOf(z) = <<>> /\ q(z) = cl(z).out
      BY <2>5 DEF SignalsOf, MissedBy
    <3>2. <<>> \in Seq(IconSignals)
      OBVIOUS
    <3>3. cl(z).out = (<<>> \o cl(z).out) \o <<>>
      BY <2>3
    <3>4. IF menu[z] = NoMenu THEN q(z) = <<>> ELSE q(z) = (SignalsOf(z) \o cl(z).out) \o <<>>
      BY <3>1, <3>3, <2>3
    <3> HIDE DEF q, tray
    <3>5. QED BY <3>2, <3>4, <2>1, <2>2, SignalsAreSent
  <2>6. QED BY <2>4, <2>5
<1> HIDE DEF q, tray
<1>5. MenuTyped' /\ Kits'
  <2>1. \A z \in Surfaces : cl(z).menu \in Menus /\ menuMessages[z] \o WordsOf(q(z)) \in Seq(Messages)
    BY <1>4 DEF SurfaceAgrees
  <2>2. toolkit = "ksni" => cl("bar").menu = NoMenu
    <3>1. "bar" \in Surfaces /\ NoMenu \in Menus
      BY DEF Surfaces, NoMenu, Menus
    <3>2. native \in Seq(Events)
      BY <1>1 DEF MenuTyped
    <3>3. toolkit = "ksni" => menu["bar"] = NoMenu
      BY <1>1 DEF Kits
    <3>4. ClaimEvents(NoMenu, native).menu = NoMenu
      BY <3>1, <3>2, ClaimsAgree
    <3>5. QED BY <3>3, <3>4
  <2>3. "bar" \in Surfaces /\ <<>> \in Seq(Events)
    BY DEF Surfaces
  <2> HIDE DEF cl
  <2>4. MenuTyped'
    BY <1>1, <1>2, <2>1, <2>3 DEF MenuTyped
  <2>5. QED BY <1>1, <1>2, <2>2, <2>3, <2>4 DEF Kits
<1> HIDE DEF cl
<1>6. ASSUME NEW z \in Surfaces
      PROVE  SurfaceAgrees(MissedBy(z)', menu'[z], believed'[z], menuMessages'[z], SignalsOf(z)', native', nextMenu')
  BY <1>2, <1>4 DEF SignalsOf, MissedBy
<1>7. QED BY <1>5, <1>6 DEF MenuInv

\* What becomes of a surface whose menu is kept, replaced, or replaced untold.
RequestEnds(s, rep) ==
  \/ NotPutUp(s) /\ pendingSignals' = pendingSignals
  \/ /\ menu' = [menu EXCEPT ![s] = rep]
     /\ pendingSignals' = IF s = "tray" THEN <<>> ELSE pendingSignals
     /\ \/ /\ menuMessages' = [menuMessages EXCEPT ![s] = Append(@, Done(rep))]
           /\ misled' = misled \ {s}
        \/ /\ menuMessages' = [menuMessages EXCEPT ![s] = Append(@, MenuRefused)]
           /\ misled' = misled \cup {s}

LEMMA RequestsKeepMenus ==
  ASSUME MenuInv, NEW s \in Surfaces, Taking(s), RequestEnds(s, Replacement(NextRequest(s)))
  PROVE  MenuInv'
<1> DEFINE r == NextRequest(s)
           rep == Replacement(r)
<1>1. /\ MenuTyped /\ Kits
      /\ \A z \in Surfaces :
           SurfaceAgrees(MissedBy(z), menu[z], believed[z], menuMessages[z], SignalsOf(z), native, nextMenu)
  BY DEF MenuInv
<1>2. /\ menuRequests[s] # <<>> /\ menuRequests' = [menuRequests EXCEPT ![s] = Tail(@)]
      /\ nextMenu' = nextMenu + (IF r.type = "configure" THEN 1 ELSE 0)
      /\ native' = native /\ iconClicks' = iconClicks /\ believed' = believed /\ toolkit' = toolkit
  BY DEF Taking
<1>3. r \in Requests /\ Tail(menuRequests[s]) \in Seq(Requests)
  <2>1. menuRequests[s] \in Seq(Requests)
    BY <1>1 DEF MenuTyped
  <2> HIDE DEF Requests
  <2>2. QED BY <2>1, <1>2 DEF NextRequest
<1>4. RequestEnds(s, rep)
  OBVIOUS
<1>5. rep = NoMenu \/ (\E d \in Parsed : rep = Installed(d, nextMenu) /\ r.type = "configure")
  BY <1>3 DEF Requests, Replacement
<1> HIDE DEF r, rep
<1>6. /\ nextMenu \in Nat \ {0} /\ nextMenu' \in Nat /\ nextMenu <= nextMenu'
      /\ r.type = "configure" => nextMenu < nextMenu'
  BY <1>1, <1>2 DEF MenuTyped
<1>7. ASSUME NEW gone, NEW x, x = Done(rep) \/ (x = MenuRefused /\ gone # {})
      PROVE  SurfaceAgrees(gone, rep, believed[s], Append(menuMessages[s], x), <<>>, native, nextMenu')
  <2>1. x = [type |-> "done", gen |-> rep.gen, menu |-> rep] \/ (x = MenuRefused /\ gone # {})
    BY <1>7 DEF Done
  <2>2. QED BY <2>1, <1>1, <1>5, <1>6, ReplacedIsTold
<1>8. ASSUME NEW z \in Surfaces
      PROVE  /\ SurfaceAgrees(MissedBy(z), menu[z], believed[z], menuMessages[z], SignalsOf(z), native, nextMenu')
             /\ SurfaceAgrees(MissedBy(z), menu[z], believed[z], Append(menuMessages[z], MenuRefused), SignalsOf(z),
                              native, nextMenu')
  BY <1>1, <1>6, RefusalIsNoNews
<1>9. /\ rep \in Menus /\ Append(menuMessages[s], Done(rep)) \in Seq(Messages)
      /\ Append(menuMessages[s], MenuRefused) \in Seq(Messages)
  <2>1. SurfaceAgrees({}, rep, believed[s], Append(menuMessages[s], Done(rep)), <<>>, native, nextMenu')
    BY <1>7
  <2>2. QED BY <2>1, <1>8 DEF SurfaceAgrees
<1>10. /\ menu \in [Surfaces -> Menus] /\ menuMessages \in [Surfaces -> Seq(Messages)]
       /\ menuRequests \in [Surfaces -> Seq(Requests)]
  BY <1>1 DEF MenuTyped
<1>11. toolkit = "ksni" => s = "tray" /\ menuRequests["bar"] = <<>> /\ menu["bar"] = NoMenu
  BY <1>1, <1>2 DEF Kits, Surfaces
<1>12. MenuTyped'
  <2>1. menu' \in [Surfaces -> Menus] /\ menuMessages' \in [Surfaces -> Seq(Messages)]
    BY <1>4, <1>9, <1>10 DEF RequestEnds, NotPutUp
  <2>2. QED BY <2>1, <1>1, <1>2, <1>3, <1>6, <1>10 DEF MenuTyped
<1>13. Kits'
  <2>1. toolkit = "ksni" => menu'["bar"] = NoMenu /\ menuRequests'["bar"] = <<>>
    BY <1>2, <1>4, <1>10, <1>11 DEF Surfaces, RequestEnds, NotPutUp
  <2>2. toolkit # "ksni" => pendingSignals' = <<>>
    BY <1>1, <1>4 DEF RequestEnds, Kits
  <2>3. QED BY <2>1, <2>2, <1>1, <1>2 DEF Kits
<1>14. ASSUME NEW z \in Surfaces
       PROVE  SurfaceAgrees(MissedBy(z)', menu'[z], believed'[z], menuMessages'[z], SignalsOf(z)', native', nextMenu')
  <2>1. CASE NotPutUp(s) /\ pendingSignals' = pendingSignals
    BY <2>1, <1>2, <1>8, <1>10 DEF NotPutUp, SignalsOf, MissedBy
  <2>2. CASE ~(NotPutUp(s) /\ pendingSignals' = pendingSignals)
    <3>1. /\ menu' = [menu EXCEPT ![s] = rep]
          /\ pendingSignals' = IF s = "tray" THEN <<>> ELSE pendingSignals
      BY <2>2, <1>4 DEF RequestEnds
    <3>2. \/ /\ menuMessages' = [menuMessages EXCEPT ![s] = Append(@, Done(rep))]
             /\ misled' = misled \ {s}
          \/ /\ menuMessages' = [menuMessages EXCEPT ![s] = Append(@, MenuRefused)]
             /\ misled' = misled \cup {s}
      BY <2>2, <1>4 DEF RequestEnds
    <3>3. CASE z # s
      <4>1. MissedBy(z)' = MissedBy(z)
        BY <3>2, <3>3 DEF MissedBy
      <4>2. menu'[z] = menu[z] /\ menuMessages'[z] = menuMessages[z] /\ SignalsOf(z)' = SignalsOf(z)
        BY <3>1, <3>2, <3>3, <1>10 DEF SignalsOf, Surfaces
      <4>3. QED BY <4>1, <4>2, <1>2, <1>8
    <3>4. CASE z = s
      <4>1. menu'[z] = rep /\ SignalsOf(z)' = <<>>
        BY <3>1, <3>4, <1>10 DEF SignalsOf, Surfaces
      <4>2. \/ menuMessages'[z] = Append(menuMessages[z], Done(rep))
            \/ menuMessages'[z] = Append(menuMessages[z], MenuRefused) /\ MissedBy(z)' # {}
        BY <3>2, <3>4, <1>10 DEF MissedBy
      <4>3. QED BY <4>1, <4>2, <3>4, <1>2, <1>7
    <3>5. QED BY <3>3, <3>4
  <2>3. QED BY <2>1, <2>2
<1>15. QED BY <1>12, <1>13, <1>14 DEF MenuInv

LEMMA AppliedKeepsMenus ==
  ASSUME MenuInv, (\E works \in BOOLEAN : ApplyTrayRequest(works))
                  \/ (\E outcome, again : ApplyBarRequest(outcome, again))
  PROVE  MenuInv'
<1>1. "tray" \in Surfaces /\ "bar" \in Surfaces /\ "bar" # "tray"
  BY DEF Surfaces
<1>2. ASSUME NEW works \in BOOLEAN, ApplyTrayRequest(works) PROVE MenuInv'
  <2>1. Taking("tray") /\ RequestEnds("tray", Replacement(NextRequest("tray")))
    BY <1>2 DEF ApplyTrayRequest, RequestEnds, PutInPlace
  <2>2. QED BY <2>1, <1>1, RequestsKeepMenus
<1>3. ASSUME NEW outcome, NEW again, ApplyBarRequest(outcome, again) PROVE MenuInv'
  <2>1. Taking("bar") /\ pendingSignals' = pendingSignals
    BY <1>3 DEF ApplyBarRequest
  <2>2. NotPutUp("bar") \/ Untold \/ PutInPlace("bar")
    BY <1>3 DEF ApplyBarRequest
  <2>3. RequestEnds("bar", Replacement(NextRequest("bar")))
    BY <2>1, <2>2, <1>1 DEF RequestEnds, PutInPlace, Untold
  <2>4. QED BY <2>1, <2>3, <1>1, RequestsKeepMenus
<1>4. QED BY <1>2, <1>3

LEMMA AsksKeepMenus ==
  ASSUME MenuInv, NEW s \in Surfaces, NEW r \in Requests, Asking(s, r)
  PROVE  MenuInv'
<1>1. /\ MenuTyped /\ Kits
      /\ \A z \in Surfaces :
           SurfaceAgrees(MissedBy(z), menu[z], believed[z], menuMessages[z], SignalsOf(z), native, nextMenu)
  BY DEF MenuInv
<1>2. /\ s = "bar" => toolkit = "muda"
      /\ menuRequests' = [menuRequests EXCEPT ![s] = Append(@, r)]
      /\ UNCHANGED <<toolkit, menu, nextMenu, native, iconClicks, pendingSignals, menuMessages, believed, misled>>
  BY DEF Asking, menuQueues
<1>3. menuRequests \in [Surfaces -> Seq(Requests)] /\ Append(menuRequests[s], r) \in Seq(Requests)
  <2>1. menuRequests \in [Surfaces -> Seq(Requests)]
    BY <1>1 DEF MenuTyped
  <2> HIDE DEF Requests
  <2>2. QED BY <2>1
<1>4. MenuTyped'
  <2>1. menuRequests' \in [Surfaces -> Seq(Requests)]
    <3> HIDE DEF Requests
    <3>1. QED BY <1>2, <1>3
  <2>2. QED BY <2>1, <1>1, <1>2 DEF MenuTyped
<1>5. Kits'
  BY <1>2, <1>3, <1>1 DEF Surfaces, Kits
<1>6. QED BY <1>1, <1>2, <1>4, <1>5 DEF MenuInv, SignalsOf, MissedBy

LEMMA HearingKeepsMenus ==
  ASSUME MenuInv, NEW s \in Surfaces, HearMenus(s)
  PROVE  MenuInv'
<1> DEFINE b2 == IF Knows(believed[s], menuMessages[s]) THEN LearntAll(believed[s], menuMessages[s])
                 ELSE believed[s]
<1>1. /\ MenuTyped /\ Kits
      /\ \A z \in Surfaces :
           SurfaceAgrees(MissedBy(z), menu[z], believed[z], menuMessages[z], SignalsOf(z), native, nextMenu)
  BY DEF MenuInv
<1>2. /\ menuMessages' = [menuMessages EXCEPT ![s] = <<>>]
      /\ believed' = [believed EXCEPT ![s] = b2]
      /\ UNCHANGED <<toolkit, menu, nextMenu, native, iconClicks, pendingSignals, menuRequests, misled>>
  BY DEF HearMenus, Knows, menuQueues
<1>3. SurfaceAgrees(MissedBy(s), menu[s], b2, <<>>, SignalsOf(s), native, nextMenu)
  <2>1. SurfaceAgrees(MissedBy(s), menu[s], believed[s], menuMessages[s], SignalsOf(s), native, nextMenu)
    BY <1>1
  <2>2. ~Knows(believed[s], menuMessages[s]) => believed[s] = NoMenu
    BY DEF Knows
  <2>3. QED BY <2>1, <2>2, HearingKeeps
<1> HIDE DEF b2
<1>4. b2 \in Menus /\ <<>> \in Seq(Messages)
  BY <1>3 DEF SurfaceAgrees
<1>5. /\ menuMessages \in [Surfaces -> Seq(Messages)] /\ believed \in [Surfaces -> Menus]
  BY <1>1 DEF MenuTyped
<1>6. MenuTyped' /\ Kits'
  BY <1>1, <1>2, <1>4 DEF MenuTyped, Kits
<1>7. ASSUME NEW z \in Surfaces
      PROVE  SurfaceAgrees(MissedBy(z), menu[z], believed'[z], menuMessages'[z], SignalsOf(z), native, nextMenu)
  BY <1>1, <1>2, <1>3, <1>5
<1>8. QED BY <1>2, <1>6, <1>7 DEF MenuInv, SignalsOf, MissedBy

LEMMA ReloadKeepsMenus ==
  ASSUME MenuInv, NEW fails \in BOOLEAN, ReloadMenus(fails)
  PROVE  MenuInv'
<1>1. /\ MenuTyped /\ Kits
      /\ \A z \in Surfaces :
           SurfaceAgrees(MissedBy(z), menu[z], believed[z], menuMessages[z], SignalsOf(z), native, nextMenu)
  BY DEF MenuInv
<1>2. /\ menuRequests' = [z \in Surfaces |-> <<>>] /\ menuMessages' = [z \in Surfaces |-> <<>>]
      /\ believed' = IF fails THEN believed ELSE [z \in Surfaces |-> NoMenu]
      /\ misled' = IF fails THEN misled \cup {z \in Surfaces : menuMessages[z] # <<>>} ELSE {}
      /\ UNCHANGED <<toolkit, menu, nextMenu, native, iconClicks, pendingSignals>>
  BY DEF ReloadMenus, menuQueues, NoQueues
<1>3. <<>> \in Seq(Requests) /\ <<>> \in Seq(Messages) /\ NoMenu \in Menus /\ "bar" \in Surfaces
  BY DEF NoMenu, Menus, Surfaces
<1>4. MenuTyped' /\ Kits'
  BY <1>1, <1>2, <1>3 DEF MenuTyped, Kits
<1>5. ASSUME NEW z \in Surfaces
      PROVE  SurfaceAgrees(MissedBy(z)', menu[z], believed'[z], <<>>, SignalsOf(z), native, nextMenu)
  <2>1. SurfaceAgrees(MissedBy(z), menu[z], believed[z], menuMessages[z], SignalsOf(z), native, nextMenu)
    BY <1>1
  <2>2. CASE ~fails
    BY <2>1, <2>2, <1>2, HearingKeeps
  <2>3. CASE fails /\ menuMessages[z] # <<>>
    <3>1. MissedBy(z)' # {} /\ believed' = believed
      BY <2>3, <1>2 DEF MissedBy
    <3>2. QED BY <3>1, <2>1, HearingKeeps
  <2>4. CASE fails /\ menuMessages[z] = <<>>
    <3>1. MissedBy(z)' = MissedBy(z) /\ believed' = believed
      BY <2>4, <1>2 DEF MissedBy
    <3>2. QED BY <3>1, <2>1, <2>4
  <2>5. QED BY <2>2, <2>3, <2>4
<1>6. ASSUME NEW z \in Surfaces
      PROVE  SurfaceAgrees(MissedBy(z)', menu'[z], believed'[z], menuMessages'[z], SignalsOf(z)', native', nextMenu')
  BY <1>2, <1>5 DEF SignalsOf
<1>7. QED BY <1>4, <1>6 DEF MenuInv

LEMMA MenusStep == MenuInv /\ [MenuNext]_menuVars => MenuInv'
<1> SUFFICES ASSUME MenuInv, [MenuNext]_menuVars PROVE MenuInv'
  OBVIOUS
<1>1. ASSUME UNCHANGED <<toolkit, menu, nextMenu, menuQueues, menuChannels, believed, misled>> PROVE MenuInv'
  BY <1>1 DEF menuQueues, menuChannels, MenuInv, MenuTyped, Kits, SignalsOf, MissedBy
<1>2. CASE CloseWindow \/ OpenWindow \/ (\E again : PutUpWaiting(again)) \/ UNCHANGED menuVars
  BY <1>1, <1>2 DEF CloseWindow, OpenWindow, PutUpWaiting, menuVars
<1>3. ASSUME NEW s \in Surfaces, NEW i \in Items, ClickEntry(s, i) PROVE MenuInv'
  BY <1>3, ClickKeepsMenus
<1>4. CASE \E s \in Surfaces, d \in Parsed : ConfigureMenu(s, d)
  <2>1. PICK s \in Surfaces, d \in Parsed : ConfigureMenu(s, d)
    BY <1>4
  <2>2. [type |-> "configure", menu |-> d] \in Requests
    BY DEF Requests
  <2>3. QED BY <2>1, <2>2, AsksKeepMenus DEF ConfigureMenu
<1>5. CASE \E s \in Surfaces : RemoveMenu(s)
  BY <1>5, AsksKeepMenus DEF Requests, RemoveMenu
<1>6. "tray" \in Surfaces /\ "quit" \in Items /\ Checkable \subseteq Items
  BY DEF Surfaces, Items
<1>7. QED BY <1>2, <1>3, <1>4, <1>5, <1>6, IconKeepsMenus, SignalsKeepMenus, AppliedKeepsMenus,
             HearingKeepsMenus, ReloadKeepsMenus DEF MenuNext

\* Once nothing is on its way, the document knows what its menu shows, radio groups show
\* one choice, and no action of an earlier menu is heard behind the answer for a later.
THEOREM MenusHold == MenuSpec => []MenusAgree
<1>1. MenuInv => MenusAgree
  <2> SUFFICES ASSUME MenuInv PROVE MenusAgree
    OBVIOUS
  <2>1. ASSUME NEW s \in Surfaces
        PROVE  SurfaceAgrees(MissedBy(s), menu[s], believed[s], menuMessages[s], SignalsOf(s), native, nextMenu)
    BY DEF MenuInv
  <2>2. ASSUME NEW s \in Surfaces, SurfaceQuiet(s)
        PROVE  /\ SignalsOf(s) = <<>> /\ menuMessages[s] = <<>>
               /\ \A items : ~Outstanding(native, menu[s].gen, items)
    BY <2>2 DEF SurfaceQuiet, SignalsOf, MissedBy, Outstanding
  <2>3. BelievedIsChecked
    <3> SUFFICES ASSUME NEW s \in Surfaces \ misled, SurfaceQuiet(s), believed[s] # NoMenu
                 PROVE  believed[s] = menu[s]
      BY DEF BelievedIsChecked
    <3>1. menu[s] \in Menus /\ believed[s] \in Menus
      BY <2>1, HeardIs
    <3>2. LearntAll(LearntAll(believed[s], <<>>), <<>>) = believed[s]
      <4>1. MenuRefused \in Messages /\ <<>> \in Seq(Messages)
        BY DEF Messages
      <4>2. LearntAll(believed[s], <<>>) = believed[s]
        BY <4>1, <3>1, LearntLast
      <4>3. QED BY <4>2
    <3>3. AgreesWith(menu[s], believed[s], native)
      <4>1. MissedBy(s) = {}
        BY DEF MissedBy
      <4>2. QED BY <4>1, <3>2, <2>1, <2>2 DEF Knows, SurfaceAgrees
    <3>4. /\ believed[s].gen = menu[s].gen /\ believed[s].close = menu[s].close
          /\ believed[s].quit = menu[s].quit
          /\ believed[s].checked \cap Radios = menu[s].checked \cap Radios
          /\ "box" \in believed[s].checked <=> "box" \in menu[s].checked
      BY <3>3, <2>2 DEF AgreesWith
    <3>5. believed[s].checked \in SUBSET Checkable /\ menu[s].checked \in SUBSET Checkable
      BY <3>1 DEF Menus
    <3>6. believed[s].checked = menu[s].checked
      BY <3>4, <3>5 DEF Checkable
    <3>7. QED BY <3>1, <3>4, <3>6 DEF Menus
  <2>4. HeardFromItsMenu
    BY <2>1 DEF HeardFromItsMenu, SurfaceAgrees, InGenerations
  <2>5. OneChoice
    <3> SUFFICES ASSUME NEW s \in Surfaces, menu[s] # NoMenu, SurfaceQuiet(s)
                 PROVE  Cardinality(menu[s].checked \cap Radios) = 1
      BY DEF OneChoice
    <3>1. menu[s].checked \cap Radios \in {{"light"}, {"dark"}}
      BY <2>1, <2>2 DEF SurfaceAgrees, ChosenOnce
    <3>2. QED BY <3>1, FS_Singleton
  <2>6. QED BY <2>3, <2>4, <2>5 DEF MenusAgree
<1>2. QED BY <1>1, MenusStart, MenusStep, PTL DEF MenuSpec

=============================================================================
