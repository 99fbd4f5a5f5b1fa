--------------------------- MODULE ServicesProofs ---------------------------
(***************************************************************************)
(* What holds of the services of a document, each for every value of its   *)
(* constants: a layout at rest, the subresource log, timers, work left     *)
(* with the host, event streams, the desktop's dialogs and hand-offs, the  *)
(* reloads of an application, the voices of audio, the notifications of    *)
(* Android and of a desktop, and the controllers a page vibrates.          *)
(***************************************************************************)
EXTENDS LayoutFlush, HostWork, ResourceLog, TimerQueue, EventStream,
        DesktopRequests, ApplicationReload, AudioPlayback, AndroidNotices,
        Notifications, Gamepads, FiniteSetTheorems, SequenceTheorems,
        FoldTheorems, TLAPS

-----------------------------------------------------------------------------
(* LayoutFlush: what is at rest has been seen                              *)

\* A flush resolves the tree in passes, then once more after its controls.
PassStep == [at : {"pass"}, number : 1 .. ResolvePasses, controls : BOOLEAN]
ControlsStep == [at |-> "controls"]

\* What the proof needs to know of the kinds of values.
FlagsTyped ==
  /\ dirty \in BOOLEAN /\ structureChanged \in BOOLEAN /\ scrolled \in BOOLEAN
  /\ hinted \in BOOLEAN /\ animating \in BOOLEAN

\* The kinds of values of a document's flags and counts, and the step of a flush.
FlushTyped ==
  /\ FlagsTyped
  /\ settledCount \in Nat /\ flushedCount \in Nat /\ flushedCount <= settledCount
  /\ theme \in {1, 2} /\ flushedTheme \in {0, 1, 2}
  /\ step \in {Resting, ControlsStep} \cup PassStep

\* Between flushes, each change that waits to be seen has left its own mark.
Marked ==
  /\ "mutation" \in unseen => dirty
  /\ "resource" \in unseen => flushedCount < settledCount
  /\ "viewport" \in unseen => theme # flushedTheme
  /\ "scroll" \in unseen => scrolled
  /\ "hint" \in unseen => hinted
  /\ "animation" \in unseen => animating

\* All that can happen to a document that its next flush has to see.
Kinds == {"mutation", "resource", "viewport", "scroll", "hint", "animation", "wheel", "late"}

\* A flush that is under way sees what is marked; only what came late is left over.
MarksAreKept ==
  /\ unseen \subseteq Kinds
  /\ step = Resting => Marked
  /\ step = ControlsStep => unseen \subseteq {"late"}

\* Until the structure changes, widgets and states are those of its canvases.
SurfacesAreKept ==
  ~structureChanged => InDocument \subseteq painted /\ surfaces \cap Dead = {}

\* The inductive invariant of LayoutFlush.
FlushInv == FlushTyped /\ MarksAreKept /\ SurfacesAreKept

\* Being at rest, passing and settling the controls are three different steps.
LEMMA StepsDiffer ==
  /\ Resting # ControlsStep
  /\ \A s \in PassStep : s # Resting /\ s # ControlsStep
<1>1. Resting.at # ControlsStep.at
  BY DEF Resting, ControlsStep
<1>2. \A s \in PassStep : s.at # Resting.at /\ s.at # ControlsStep.at
  BY DEF Resting, ControlsStep, PassStep
<1>3. QED BY <1>1, <1>2

\* A new document satisfies the invariant.
LEMMA FlushInitially == FlushInit => FlushInv
<1> SUFFICES ASSUME FlushInit PROVE FlushInv
  OBVIOUS
<1>1. FlushTyped
  <2>1. FlagsTyped
    BY DEF FlushInit, FlagsTyped
  <2>2. QED BY <2>1 DEF FlushInit, FlushTyped
<1>2. MarksAreKept
  BY StepsDiffer DEF FlushInit, MarksAreKept, Marked, Kinds
<1>3. SurfacesAreKept
  BY DEF FlushInit, SurfacesAreKept
<1>4. QED BY <1>1, <1>2, <1>3 DEF FlushInv

\* A resolve sees all there is, and what settles in it is counted.
LEMMA ResolveSees ==
  ASSUME FlushInv, NEW n \in {0, 1}, NEW last \in BOOLEAN, Resolve(n, last)
  PROVE  /\ hinted' \in BOOLEAN /\ animating' \in BOOLEAN
         /\ settledCount' \in Nat /\ flushedCount <= settledCount'
         /\ unseen' \subseteq Kinds
         /\ last \/ n = 0 => unseen' \subseteq {"late"}
         /\ SurfacesAreKept'
<1>1. hinted' \in BOOLEAN /\ animating' \in BOOLEAN
  BY DEF Resolve
<1>0. settledCount' \in Nat /\ flushedCount <= settledCount'
  BY DEF FlushInv, FlushTyped, Resolve, Requests
<1>2. unseen' \subseteq Kinds /\ (last \/ n = 0 => unseen' \subseteq {"late"})
  BY DEF Resolve, Kinds
<1>3. SurfacesAreKept'
  BY DEF FlushInv, Resolve, surfaceVars, SurfacesAreKept, InDocument, Dead
<1>4. QED BY <1>0, <1>1, <1>2, <1>3

\* What a flush leaves when it has seen everything but what came late.
LEMMA FlushAtRest ==
  ASSUME FlushInv, Flushed,
         hinted' \in BOOLEAN, animating' \in BOOLEAN, settledCount' \in Nat,
         unseen' \subseteq {"late"}, SurfacesAreKept',
         structureChanged' = structureChanged, scrolled' = scrolled, theme' = theme
  PROVE  FlushInv'
<1>1. FlushTyped'
  <2>1. FlagsTyped'
    BY DEF FlushInv, FlushTyped, FlagsTyped, Flushed
  <2>2. QED BY <2>1 DEF FlushInv, FlushTyped, Flushed
<1>2. MarksAreKept'
  BY StepsDiffer DEF Flushed, MarksAreKept, Marked, Kinds
<1>3. QED BY <1>1, <1>2 DEF FlushInv

\* One pass of the loop of resolve_layout, the last or not.
LEMMA FlushPasses ==
  ASSUME FlushInv, NEW n \in {0, 1}, Pass(n), step # Resting
  PROVE  FlushInv'
<1> DEFINE last == step.number = ResolvePasses
<1>1. step \in PassStep
  BY DEF Pass, FlushInv, FlushTyped, FlagsTyped, Resting, ControlsStep
<1>2. last \in BOOLEAN /\ Resolve(n, last)
  BY DEF Pass
<1> HIDE DEF last
<1>3. /\ hinted' \in BOOLEAN /\ animating' \in BOOLEAN
      /\ settledCount' \in Nat /\ flushedCount <= settledCount'
      /\ unseen' \subseteq Kinds
      /\ last \/ n = 0 => unseen' \subseteq {"late"}
      /\ SurfacesAreKept'
  BY <1>2, ResolveSees
<1>4. /\ structureChanged' = structureChanged /\ scrolled' = scrolled /\ theme' = theme
  BY <1>2 DEF Resolve
<1>5. CASE n > 0 /\ step.number < ResolvePasses
  BY <1>1, <1>5, ResolvePassesAssumption, StepsDiffer, <1>3, <1>4 DEF Pass, PassStep, FlushInv,
     FlushTyped, FlagsTyped, MarksAreKept, flushedVars
<1>6. CASE ~(n > 0 /\ step.number < ResolvePasses)
  <2>1. last \/ n = 0
    BY <1>1, <1>6, ResolvePassesAssumption DEF last, PassStep
  <2>2. unseen' \subseteq {"late"}
    BY <1>3, <2>1
  <2>3. CASE step.controls
    BY <1>6, <2>3, <1>3, <1>4, <2>2, StepsDiffer DEF Pass, ControlsStep, FlushInv, FlushTyped,
       FlagsTyped, MarksAreKept, flushedVars
  <2>4. CASE ~step.controls
    BY <1>6, <2>4, <1>3, <1>4, <2>2, FlushAtRest DEF Pass
  <2>5. QED BY <2>3, <2>4
<1>7. QED BY <1>5, <1>6

\* The pass after the controls have their shown values.
LEMMA ControlsSettle ==
  ASSUME FlushInv, NEW n \in {0, 1}, SettleControls(n), step # Resting
  PROVE  FlushInv'
<1>1. step = ControlsStep
  BY DEF SettleControls, FlushInv, FlushTyped, FlagsTyped, PassStep
<1>2. /\ hinted' \in BOOLEAN /\ animating' \in BOOLEAN
      /\ settledCount' \in Nat /\ flushedCount <= settledCount'
      /\ unseen' \subseteq {"late"} /\ SurfacesAreKept'
      /\ structureChanged' = structureChanged /\ scrolled' = scrolled /\ theme' = theme
  <2>1. CASE Resolve(n, TRUE)
    BY <2>1, ResolveSees DEF Resolve
  <2>2. CASE UNCHANGED <<structureChanged, scrolled, theme, hinted, animating, settledCount,
                         surfaceVars, unseen>>
    BY <1>1, <2>2 DEF FlushInv, FlushTyped, FlagsTyped, MarksAreKept, SurfacesAreKept, surfaceVars,
       InDocument, Dead
  <2>3. QED BY <2>1, <2>2 DEF SettleControls
<1>3. Flushed
  BY DEF SettleControls
<1>4. QED BY <1>2, <1>3, FlushAtRest

\* A flush that begins: it stops at once only when no mark asks for more.
LEMMA FlushStarts == ASSUME FlushInv, FlushBegins PROVE FlushInv'
<1>1. SurfacesAreKept' /\ hinted' \in BOOLEAN /\ (hinted => hinted')
  BY DEF FlushInv, FlushBegins, Attach, SurfacesAreKept, InDocument, Dead, FlushTyped, FlagsTyped
<1>2. CASE ~dirty /\ IsSettled /\ hinted' = hinted
  BY <1>1, <1>2, StepsDiffer DEF FlushBegins, FlushInv, FlushTyped, FlagsTyped, MarksAreKept, Marked, flushedVars
<1>3. CASE ~(~dirty /\ IsSettled /\ hinted' = hinted)
  <2>1. step' \in PassStep /\ scrolled' = FALSE
    BY <1>3, ResolvePassesAssumption DEF FlushBegins, FlushInv, FlushTyped, FlagsTyped, PassStep
  <2>2. QED BY <1>1, <2>1, StepsDiffer
               DEF FlushBegins, FlushInv, FlushTyped, FlagsTyped, MarksAreKept, flushedVars
<1>4. QED BY <1>2, <1>3

\* Every step keeps the invariant.
LEMMA FlushKept == FlushInv /\ [FlushNext]_flushVars => FlushInv'
<1> SUFFICES ASSUME FlushInv, [FlushNext]_flushVars PROVE FlushInv'
  OBVIOUS
<1> USE DEF FlushInv, FlushTyped, FlagsTyped, MarksAreKept, Marked, SurfacesAreKept, InDocument, Dead,
            Kinds, Told, flushedVars, surfaceVars, markVars
<1>1. ASSUME NEW n \in {0, 1}, Mutate(n) PROVE FlushInv'
  BY <1>1, StepsDiffer DEF Mutate, Requests
<1>2. ASSUME NEW n \in {0, 1}, step # Resting, Pass(n) PROVE FlushInv'
  BY <1>2, FlushPasses
<1>3. ASSUME NEW n \in {0, 1}, step # Resting, SettleControls(n) PROVE FlushInv'
  BY <1>3, ControlsSettle
<1>4. CASE SetViewport
  BY <1>4, StepsDiffer DEF SetViewport
<1>5. CASE ReloadSheets
  BY <1>5, StepsDiffer DEF ReloadSheets, Requests
<1>6. CASE SetScrollOffset
  BY <1>6, StepsDiffer DEF SetScrollOffset
<1>7. CASE ScrollDefault
  BY <1>7, StepsDiffer DEF ScrollDefault
<1>8. CASE Hint
  BY <1>8, StepsDiffer DEF Hint
<1>9. CASE SetAnimationTime
  BY <1>9, StepsDiffer DEF SetAnimationTime
<1>10. CASE FlushBegins
  BY <1>10, FlushStarts
<1>11. ASSUME NEW c \in Canvases, CreateCanvas(c) PROVE FlushInv'
  BY <1>11, StepsDiffer DEF CreateCanvas
<1>12. ASSUME NEW c \in Canvases, InsertCanvas(c) \/ RemoveCanvas(c) PROVE FlushInv'
  BY <1>12, StepsDiffer DEF InsertCanvas, RemoveCanvas, Moves
<1>13. ASSUME NEW c \in Canvases, ReleaseCanvas(c) PROVE FlushInv'
  BY <1>13, StepsDiffer DEF ReleaseCanvas
<1>14. ASSUME NEW c \in Canvases, Draw(c) PROVE FlushInv'
  BY <1>14, StepsDiffer DEF Draw
<1>15. CASE UNCHANGED flushVars
  BY <1>15 DEF flushVars
<1>16. QED BY <1>1, <1>2, <1>3, <1>4, <1>5, <1>6, <1>7, <1>8, <1>9, <1>10, <1>11, <1>12,
              <1>13, <1>14, <1>15 DEF FlushNext

\* For every set of canvases and number of passes: the invariant holds throughout.
THEOREM FlushInvHolds == FlushSpec => []FlushInv
  BY FlushInitially, FlushKept, PTL DEF FlushSpec

\* RestIsComplete, for every bound: a flush that found nothing to do missed nothing, so
\* layout and surfaces of a document at rest show all that happened to it.
THEOREM RestHolds == FlushSpec => []RestIsComplete
<1>1. FlushInv => RestIsComplete
  BY DEF FlushInv, FlushTyped, FlagsTyped, MarksAreKept, Marked, SurfacesAreKept, RestIsComplete, AtRest,
     IsSettled, Kinds
<1>2. QED BY <1>1, FlushInvHolds, PTL

-----------------------------------------------------------------------------
(* HostWork: a fetch settles once                                          *)

\* The records that wait to be handed over by settle().
Completion == [kind : {"fetch", "close", "message"}, of : Calls \cup Links]

\* Types, of what the proof needs.
WorkTyped ==
  /\ hostFetch \in [Calls -> {"no", "sent", "over"}] /\ inFlight \subseteq Calls
  /\ settled \in [Calls -> Nat]
  /\ phase \in {"idle", "settling", "frames"}
  /\ completions \in Seq(Completion) /\ batch \in Seq(Completion)

\* A frame settles its batch to the end before anything else happens in it.
BatchIsOfTheFrame == phase # "settling" => batch = <<>>

\* What has not been asked for is neither listed nor settled.
NothingUnasked ==
  \A f \in Calls : hostFetch[f] = "no" => f \notin inFlight /\ settled[f] = 0

\* The inductive invariant of HostWork: each call has its outcome on one way only.
WorkInv == WorkTyped /\ BatchIsOfTheFrame /\ NothingUnasked /\ FetchSettlesOnce

\* A new document satisfies the invariant.
LEMMA WorkInitially == WorkInit => WorkInv
  BY DEF WorkInit, WorkInv, WorkTyped, BatchIsOfTheFrame, NothingUnasked, FetchSettlesOnce,
     Completion

\* A new call of fetch() is settled nowhere yet.
LEMMA FetchStarts == ASSUME WorkInv, NEW f \in Calls, Fetch(f) PROVE WorkInv'
<1>1. WorkTyped' /\ BatchIsOfTheFrame' /\ NothingUnasked'
  BY DEF Fetch, WorkInv, WorkTyped, BatchIsOfTheFrame, NothingUnasked, linksVars, frameVars
<1>2. settled[f] = 0 /\ f \notin inFlight
  BY DEF WorkInv, NothingUnasked, Fetch
<1>3. FetchSettlesOnce'
  BY <1>2 DEF Fetch, WorkInv, WorkTyped, FetchSettlesOnce, InQueue, InBatch, frameVars
<1>4. QED BY <1>1, <1>3 DEF WorkInv

\* What leaves the fetches, the queue and the frame alone.
LEMMA ElsewhereKeeps ==
  ASSUME WorkInv, UNCHANGED <<fetchesVars, frameVars>>
  PROVE  WorkInv'
  BY DEF WorkInv, WorkTyped, BatchIsOfTheFrame, NothingUnasked, FetchSettlesOnce, InQueue,
     InBatch, fetchesVars, frameVars

\* A record joins the queue behind those that wait.
LEMMA QueueGrows ==
  ASSUME WorkInv, NEW record \in Completion, NEW own \in BOOLEAN, Queued(record, own)
  PROVE  /\ completions' \in Seq(Completion)
         /\ \A f \in Calls : InQueue(f) => InQueue(f)'
         /\ own /\ record.kind = "fetch" => InQueue(record.of)'
<1>1. CASE own
  <2>1. completions' = Append(completions, record)
    BY <1>1 DEF Queued
  <2>2. completions \in Seq(Completion)
    BY DEF WorkInv, WorkTyped
  <2>3. /\ completions' \in Seq(Completion) /\ Len(completions') = Len(completions) + 1
        /\ \A i \in 1 .. Len(completions) : completions'[i] = completions[i]
        /\ completions'[Len(completions')] = record
    BY <2>1, <2>2
  <2>4. /\ DOMAIN completions = 1 .. Len(completions) /\ Len(completions) \in Nat
        /\ DOMAIN completions' = 1 .. Len(completions')
    BY <2>2, <2>3
  <2>5. Len(completions') \in DOMAIN completions' /\ DOMAIN completions \subseteq DOMAIN completions'
    BY <2>3, <2>4
  <2>6. QED BY <2>3, <2>4, <2>5 DEF InQueue
<1>2. CASE ~own
  BY <1>2 DEF Queued, WorkInv, WorkTyped, InQueue
<1>3. QED BY <1>1, <1>2

\* The answer of a call that is still in flight joins the queue; another is dropped.
LEMMA AnswerArrives == ASSUME WorkInv, NEW f \in Calls, Reply(f) PROVE WorkInv'
<1> DEFINE record == [kind |-> "fetch", of |-> f]
<1>1. record \in Completion /\ record.kind = "fetch" /\ record.of = f
  BY DEF Completion
<1>2. Queued(record, f \in inFlight) /\ (f \in inFlight) \in BOOLEAN
  BY DEF Reply
<1> HIDE DEF record
<1>3. /\ completions' \in Seq(Completion)
      /\ \A g \in Calls : InQueue(g) => InQueue(g)'
      /\ f \in inFlight => InQueue(f)'
  BY <1>1, <1>2, QueueGrows
<1>4. WorkTyped' /\ BatchIsOfTheFrame' /\ NothingUnasked'
  BY <1>3 DEF Reply, WorkInv, WorkTyped, BatchIsOfTheFrame, NothingUnasked
<1>5. FetchSettlesOnce'
  BY <1>3 DEF Reply, WorkInv, WorkTyped, FetchSettlesOnce, InBatch
<1>6. QED BY <1>4, <1>5 DEF WorkInv

\* What a socket or a worker says joins the queue and touches no fetch.
LEMMA LinkIsHeard ==
  ASSUME WorkInv, NEW l \in Links, NEW last \in BOOLEAN, Hear(l, last) PROVE WorkInv'
<1> DEFINE record == [kind |-> IF last THEN "close" ELSE "message", of |-> l]
<1>1. record \in Completion
  BY DEF Completion
<1>2. Queued(record, l \in liveLinks) /\ (l \in liveLinks) \in BOOLEAN
  BY DEF Hear
<1> HIDE DEF record
<1>3. completions' \in Seq(Completion) /\ \A g \in Calls : InQueue(g) => InQueue(g)'
  BY <1>1, <1>2, QueueGrows
<1>4. QED BY <1>3 DEF Hear, WorkInv, WorkTyped, BatchIsOfTheFrame, NothingUnasked,
             FetchSettlesOnce, InBatch, fetchesVars

\* A frame that begins takes the whole queue as its batch.
LEMMA FrameStarts == ASSUME WorkInv, FrameBegins PROVE WorkInv'
<1>2. \A f \in Calls : ~InBatch(f) /\ (InQueue(f) => InBatch(f)')
  BY DEF FrameBegins, WorkInv, BatchIsOfTheFrame, InBatch, InQueue
<1>3. QED BY <1>2 DEF FrameBegins, WorkInv, WorkTyped, BatchIsOfTheFrame, NothingUnasked,
             FetchSettlesOnce, fetchesVars

\* One record of the batch: every other answer is still in it.
LEMMA OneIsSettled == ASSUME WorkInv, SettleNext PROVE WorkInv'
<1> DEFINE record == Head(batch)
<1>1. batch \in Seq(Completion) /\ batch # <<>> /\ batch' = Tail(batch)
  BY DEF WorkInv, WorkTyped, SettleNext
<1>2. /\ record \in Completion /\ batch' \in Seq(Completion)
      /\ record = batch[1]
      /\ \A i \in DOMAIN batch : i # 1 => i - 1 \in DOMAIN batch' /\ batch'[i - 1] = batch[i]
  BY <1>1
<1>3. \A f \in Calls : InBatch(f) => InBatch(f)' \/ (record.kind = "fetch" /\ record.of = f)
  BY <1>2 DEF InBatch
<1>4. UNCHANGED <<hostFetch, completions, phase>> /\ phase = "settling"
  BY DEF SettleNext
<1>5. CASE record.kind = "fetch" /\ record.of \in inFlight
  <2>1. inFlight' = inFlight \ {record.of} /\ settled' = [settled EXCEPT ![record.of] = @ + 1]
    BY <1>5 DEF SettleNext, SettledIfListed
  <2>2. record.of \in Calls /\ settled[record.of] = 0
    BY <1>5 DEF WorkInv, WorkTyped, FetchSettlesOnce
  <2> HIDE DEF record
  <2>3. /\ settled' \in [Calls -> Nat] /\ settled'[record.of] = 1
        /\ \A f \in Calls : f # record.of => settled'[f] = settled[f]
    BY <2>1, <2>2 DEF WorkInv, WorkTyped
  <2>4. WorkTyped' /\ BatchIsOfTheFrame' /\ NothingUnasked'
    BY <1>2, <1>4, <1>5, <2>1, <2>3 DEF WorkInv, WorkTyped, BatchIsOfTheFrame, NothingUnasked
  <2>5. FetchSettlesOnce'
    BY <1>3, <1>4, <1>5, <2>1, <2>2, <2>3 DEF WorkInv, WorkTyped, NothingUnasked,
       FetchSettlesOnce, InQueue
  <2>6. QED BY <2>4, <2>5 DEF WorkInv
<1>6. CASE ~(record.kind = "fetch" /\ record.of \in inFlight)
  <2>1. UNCHANGED <<inFlight, settled>>
    BY <1>6 DEF SettleNext, SettledIfListed
  <2> HIDE DEF record
  <2>2. QED BY <1>2, <1>3, <1>4, <1>6, <2>1 DEF WorkInv, WorkTyped, BatchIsOfTheFrame,
               NothingUnasked, FetchSettlesOnce, InQueue
<1>7. QED BY <1>5, <1>6

\* A document that is disposed of settles nothing more.
LEMMA DisposalSettles == ASSUME WorkInv, Dispose PROVE WorkInv'
<1>1. WorkTyped' /\ BatchIsOfTheFrame' /\ NothingUnasked'
  BY DEF Dispose, WorkInv, WorkTyped, BatchIsOfTheFrame, NothingUnasked
<1>2. FetchSettlesOnce'
  BY DEF Dispose, WorkInv, WorkTyped, FetchSettlesOnce
<1>3. QED BY <1>1, <1>2 DEF WorkInv

\* Every step keeps the invariant.
LEMMA WorkKept == WorkInv /\ [WorkNext]_workVars => WorkInv'
<1> SUFFICES ASSUME WorkInv, [WorkNext]_workVars PROVE WorkInv'
  OBVIOUS
<1>1. CASE Script
  BY <1>1, FetchStarts, ElsewhereKeeps
     DEF Script, OpenLink, CloseSocket, Terminate, SetTimer, ClearTimer, PostMessage,
         RequestFrame, CancelFrame
<1>2. ASSUME NEW f \in Calls, Reply(f) PROVE WorkInv'
  BY <1>2, AnswerArrives
<1>3. ASSUME NEW l \in Links, NEW last \in BOOLEAN, Hear(l, last) PROVE WorkInv'
  BY <1>3, LinkIsHeard
<1>4. ASSUME NEW d \in Waits, TimerFires(d) \/ PostArrives(d) PROVE WorkInv'
  BY <1>4, ElsewhereKeeps DEF TimerFires, PostArrives
<1>5. CASE FrameBegins
  BY <1>5, FrameStarts
<1>6. CASE SettleNext
  BY <1>6, OneIsSettled
<1>7. CASE FramesBegin \/ FrameEnds
  BY <1>7 DEF FramesBegin, FrameEnds, WorkInv, WorkTyped, BatchIsOfTheFrame, NothingUnasked,
              FetchSettlesOnce, InQueue, InBatch, fetchesVars
<1>8. CASE RunFrame
  BY <1>8, ElsewhereKeeps DEF RunFrame
<1>9. CASE Dispose
  BY <1>9, DisposalSettles
<1>10. CASE UNCHANGED workVars
  BY <1>10, ElsewhereKeeps DEF workVars
<1>11. QED BY <1>1, <1>2, <1>3, <1>4, <1>5, <1>6, <1>7, <1>8, <1>9, <1>10 DEF WorkNext

\* For every set of calls and links: the invariant holds throughout.
THEOREM WorkInvHolds == WorkSpec => []WorkInv
  BY WorkInitially, WorkKept, PTL DEF WorkSpec

\* FetchSettlesOnce: no fetch is settled twice, and one that is in flight has its
\* outcome with the host, in the queue or in the batch, so that none is lost.
THEOREM FetchHolds == WorkSpec => []FetchSettlesOnce
  BY WorkInvHolds, PTL DEF WorkInv

-----------------------------------------------------------------------------
(* ResourceLog: what was taken from the log is settled once                *)

\* The requests somebody has taken the handler of.
TakenFetches == {r \in Fetches : taker[r] # "free"}

\* Types, of what the proof needs.
LogTyped ==
  /\ stepOf \in [Fetches -> {"no", "named", "listed", "sent"}]
  /\ DOMAIN urlOf = Fetches
  /\ wire \in [Fetches -> {"none", "flying", "over"}]
  /\ taker \in [Fetches -> {"free", "arrival", "drop", "stop"}]
  /\ settling \subseteq Fetches /\ handed \in [Fetches -> {0, 1}]
  /\ urlState \in [Urls -> {"none", "Loading", "Loaded", "Failed"}]
  /\ inflight \subseteq Fetches /\ overtaken \subseteq Fetches

\* A request is on the wire when it was sent, and listed or taken by a stop only after
\* it was named.
RequestsInOrder ==
  \A r \in Fetches :
    /\ wire[r] # "none" => stepOf[r] = "sent"
    /\ stepOf[r] \in {"no", "named"} => r \notin inflight /\ r \notin abandoned /\ taker[r] = "free"

\* Who took a handler has still to settle it, or has settled it once.
TakersSettle ==
  /\ \A r \in settling : taker[r] # "free"
  /\ \A r \in Fetches : taker[r] = "free" \/ r \in settling => handed[r] = 0
  /\ IsFiniteSet(TakenFetches \ settling) /\ settlements = Cardinality(TakenFetches \ settling)

\* What is over has been taken, and what a stop found in flight is taken, or still on
\* the way of that stop.
NothingSlipsThrough ==
  \A r \in Fetches :
    /\ wire[r] = "over" => taker[r] # "free" /\ r \notin inflight
    /\ r \in overtaken =>
         /\ stepOf[r] = "sent" /\ (r \in inflight => stopping = "aborted")
         /\ \/ taker[r] # "free"
            \/ stopping = "aborted" /\ r \in inflight
            \/ stopping = "walking" /\ r \in abandoned

\* A URL is loading for a request that nobody has settled.
LoadingIsOwed ==
  \A u \in Urls : urlState[u] = "Loading" =>
    \E r \in Fetches : urlOf[r] = u /\ stepOf[r] # "no" /\ (taker[r] = "free" \/ r \in settling)

\* The inductive invariant of ResourceLog.
LogInv == LogTyped /\ RequestsInOrder /\ TakersSettle /\ NothingSlipsThrough /\ LoadingIsOwed

\* An empty log satisfies the invariant.
LEMMA LogInitially == LogInit => LogInv
<1> SUFFICES ASSUME LogInit PROVE LogInv
  OBVIOUS
<1>1. TakenFetches = {} /\ settling = {} /\ TakenFetches \ settling = {}
  BY DEF LogInit, TakenFetches
<1>2. TakersSettle
  BY <1>1, FS_EmptySet DEF LogInit, TakersSettle
<1>3. QED BY <1>2 DEF LogInit, LogInv, LogTyped, RequestsInOrder, NothingSlipsThrough,
             LoadingIsOwed

\* A claim moves at most the one request, from free to settling.
LEMMA ClaimTakes ==
  ASSUME LogInv, NEW r \in Fetches, NEW who \in {"arrival", "drop", "stop"},
         IF taker[r] = "free"
         THEN taker' = [taker EXCEPT ![r] = who] /\ settling' = settling \union {r}
         ELSE UNCHANGED <<taker, settling>>,
         UNCHANGED <<handed, settlements>>
  PROVE  /\ taker' \in [Fetches -> {"free", "arrival", "drop", "stop"}]
         /\ settling' \subseteq Fetches /\ taker'[r] # "free"
         /\ \A q \in Fetches : q # r => taker'[q] = taker[q] /\ (q \in settling' <=> q \in settling)
         /\ \A q \in Fetches : taker[q] = "free" \/ q \in settling
                                => taker'[q] = "free" \/ q \in settling'
         /\ TakersSettle'
<1>1. CASE taker[r] = "free"
  BY <1>1 DEF LogInv, TakersSettle, TakenFetches, LogTyped
<1>2. CASE taker[r] # "free"
  BY <1>2 DEF LogInv, LogTyped, TakersSettle, TakenFetches
<1>3. QED BY <1>1, <1>2

\* A request that is named makes its URL loading, and is the one that owes it.
LEMMA RequestNamed ==
  ASSUME LogInv, NEW r \in Fetches, NEW u \in Urls, NEW byUi \in BOOLEAN, Name(r, u, byUi)
  PROVE  LogInv'
<1>1. taker[r] = "free" /\ stepOf'[r] = "named" /\ urlOf'[r] = u
  BY DEF Name, LogInv, LogTyped, RequestsInOrder
<1>2. \A q \in Fetches : q # r => stepOf'[q] = stepOf[q] /\ urlOf'[q] = urlOf[q]
  BY DEF Name, LogInv, LogTyped
<1>3. LogTyped' /\ RequestsInOrder' /\ TakersSettle' /\ NothingSlipsThrough'
  BY <1>1, <1>2 DEF Name, LogInv, LogTyped, RequestsInOrder, TakersSettle, TakenFetches,
     NothingSlipsThrough, stopVars
<1>4. LoadingIsOwed'
  BY <1>1, <1>2 DEF Name, LogInv, LogTyped, LoadingIsOwed
<1>5. QED BY <1>3, <1>4 DEF LogInv

\* A request joins the list of those in flight.
LEMMA RequestListed == ASSUME LogInv, NEW r \in Fetches, List(r) PROVE LogInv'
<1>1. \A q \in Fetches : q # r => stepOf'[q] = stepOf[q]
  BY DEF List, LogInv, LogTyped
<1>2. r \notin overtaken /\ wire[r] = "none"
  BY DEF List, LogInv, LogTyped, RequestsInOrder, NothingSlipsThrough
<1>3. stepOf'[r] = "listed"
  BY DEF List, LogInv, LogTyped
<1>4. QED BY <1>1, <1>2, <1>3 DEF List, LogInv, LogTyped, RequestsInOrder, TakersSettle, TakenFetches,
             NothingSlipsThrough, LoadingIsOwed, settleVars, stopVars

\* A request is sent, or refused on the spot when the navigation was stopped.
LEMMA RequestSent == ASSUME LogInv, NEW r \in Fetches, Send(r) PROVE LogInv'
<1>1. \A q \in Fetches : q # r => stepOf'[q] = stepOf[q] /\ wire'[q] = wire[q]
  BY DEF Send, LogInv, LogTyped
<1>2. stepOf'[r] = "sent" /\ wire'[r] = "flying"
  BY DEF Send, LogInv, LogTyped
<1>3. QED BY <1>1, <1>2 DEF Send, LogInv, LogTyped, RequestsInOrder, TakersSettle, TakenFetches,
             NothingSlipsThrough, LoadingIsOwed, settleVars, stopVars

\* The transfer of a request ends, with an answer or without one.
LEMMA TransferEnds ==
  ASSUME LogInv, NEW r \in Fetches, NEW who \in {"arrival", "drop"},
         wire[r] = "flying", wire' = [wire EXCEPT ![r] = "over"], Claimed(r, who),
         UNCHANGED <<stepOf, ours, urlOf, signal, handed, urlState, settlements, stopVars>>
  PROVE  LogInv'
<1>1. /\ taker' \in [Fetches -> {"free", "arrival", "drop", "stop"}]
      /\ settling' \subseteq Fetches /\ taker'[r] # "free"
      /\ \A q \in Fetches : q # r => taker'[q] = taker[q] /\ (q \in settling' <=> q \in settling)
      /\ \A q \in Fetches : taker[q] = "free" \/ q \in settling
                             => taker'[q] = "free" \/ q \in settling'
      /\ TakersSettle'
  BY ClaimTakes DEF Claimed
<1>2. inflight' = inflight \ {r}
  BY DEF Claimed
<1>3. stepOf[r] = "sent"
  BY DEF LogInv, RequestsInOrder
<1>4. \A q \in Fetches : q # r => wire'[q] = wire[q]
  BY DEF LogInv, LogTyped
<1>5. LogTyped' /\ RequestsInOrder' /\ NothingSlipsThrough'
  BY <1>1, <1>2, <1>3, <1>4 DEF LogInv, LogTyped, RequestsInOrder, NothingSlipsThrough, stopVars
<1>6. LoadingIsOwed'
  BY <1>1 DEF LogInv, LoadingIsOwed
<1>7. QED BY <1>1, <1>5, <1>6 DEF LogInv

\* The outcome of a request is recorded once, by whoever took its handler.
LEMMA OutcomeRecorded == ASSUME LogInv, NEW r \in Fetches, Settle(r) PROVE LogInv'
<1>1. taker[r] # "free" /\ handed[r] = 0 /\ r \in settling /\ settling' = settling \ {r}
      /\ UNCHANGED <<taker, stepOf, urlOf, wire, inflight, stopVars>>
  BY DEF Settle, LogInv, TakersSettle, fetchVars
<1>2. (TakenFetches \ settling)' = (TakenFetches \ settling) \cup {r} /\ r \notin TakenFetches \ settling
  BY <1>1 DEF TakenFetches
<1>3. handed' \in [Fetches -> {0, 1}] /\ \A q \in Fetches : q # r => handed'[q] = handed[q]
  BY <1>1 DEF Settle, LogInv, LogTyped
<1>4. IsFiniteSet((TakenFetches \ settling)') /\ Cardinality((TakenFetches \ settling)') = settlements + 1
  BY <1>2, FS_AddElement DEF LogInv, TakersSettle
<1>5. TakersSettle'
  BY <1>1, <1>3, <1>4 DEF Settle, LogInv, TakersSettle
<1>6. /\ urlState' \in [Urls -> {"none", "Loading", "Loaded", "Failed"}]
      /\ \A u \in Urls : urlState'[u] = "Loading" => urlState[u] = "Loading" /\ u # urlOf[r]
  BY DEF Settle, LogInv, LogTyped
<1>7. LogTyped' /\ RequestsInOrder' /\ NothingSlipsThrough'
  BY <1>1, <1>3, <1>6 DEF LogInv, LogTyped, RequestsInOrder, NothingSlipsThrough, stopVars
<1>8. LoadingIsOwed'
  BY <1>1, <1>6 DEF LogInv, LoadingIsOwed
<1>9. QED BY <1>5, <1>7, <1>8 DEF LogInv

\* The stop takes the handlers of what it found, one after the other.
LEMMA StopGoesThrough == ASSUME LogInv, NEW r \in Fetches, StopWalks(r) PROVE LogInv'
<1>1. /\ taker' \in [Fetches -> {"free", "arrival", "drop", "stop"}]
      /\ settling' \subseteq Fetches /\ taker'[r] # "free"
      /\ \A q \in Fetches : q # r => taker'[q] = taker[q] /\ (q \in settling' <=> q \in settling)
      /\ \A q \in Fetches : taker[q] = "free" \/ q \in settling
                             => taker'[q] = "free" \/ q \in settling'
      /\ TakersSettle'
  BY ClaimTakes DEF StopWalks
<1>2. stepOf[r] \in {"listed", "sent"}
  BY DEF StopWalks, LogInv, LogTyped, RequestsInOrder
<1>3. LogTyped' /\ RequestsInOrder' /\ NothingSlipsThrough'
  BY <1>1, <1>2 DEF StopWalks, LogInv, LogTyped, RequestsInOrder, NothingSlipsThrough, fetchVars
<1>4. LoadingIsOwed'
  BY <1>1 DEF StopWalks, LogInv, LoadingIsOwed, fetchVars
<1>5. QED BY <1>1, <1>3, <1>4 DEF LogInv

\* Every step keeps the invariant.
LEMMA LogKept == LogInv /\ [LogNext]_logVars => LogInv'
<1> SUFFICES ASSUME LogInv, [LogNext]_logVars PROVE LogInv'
  OBVIOUS
<1>1. CASE StopAborts
  BY <1>1 DEF StopAborts, LogInv, LogTyped, RequestsInOrder, TakersSettle, TakenFetches,
     NothingSlipsThrough, LoadingIsOwed, fetchVars, settleVars, stopVars
<1>2. CASE StopTakes
  BY <1>2 DEF StopTakes, LogInv, LogTyped, RequestsInOrder, TakersSettle, TakenFetches,
     NothingSlipsThrough, LoadingIsOwed, fetchVars, settleVars, stopVars
<1>3. CASE StopReturns
  BY <1>3 DEF StopReturns, LogInv, LogTyped, RequestsInOrder, TakersSettle, TakenFetches,
     NothingSlipsThrough, LoadingIsOwed, fetchVars, settleVars, stopVars
<1>4. CASE UNCHANGED logVars
  BY <1>4 DEF logVars, LogInv, LogTyped, RequestsInOrder, TakersSettle, TakenFetches,
     NothingSlipsThrough, LoadingIsOwed, fetchVars, settleVars, stopVars
<1>5. ASSUME NEW r \in Fetches, NEW withBytes \in BOOLEAN, Arrive(r, withBytes) PROVE LogInv'
  BY <1>5, TransferEnds DEF Arrive
<1>6. ASSUME NEW r \in Fetches, Drop(r) PROVE LogInv'
  BY <1>6, TransferEnds DEF Drop
<1>7. QED BY <1>1, <1>2, <1>3, <1>4, <1>5, <1>6, RequestNamed, RequestListed, RequestSent,
             OutcomeRecorded, StopGoesThrough DEF LogNext, LogDone

\* For every set of requests and URLs: the invariant holds throughout.
THEOREM LogInvHolds == LogSpec => []LogInv
  BY LogInitially, LogKept, PTL DEF LogSpec

\* SettledOnce: exactly one of the answer, the loss of the connection and a stop settles
\* a request that is over, and no URL stays loading when all of them are.
THEOREM SettledHolds == LogSpec => []SettledOnce
<1>1. LogInv => SettledOnce
  <2> SUFFICES ASSUME LogInv PROVE SettledOnce
    OBVIOUS
  <2>1. \A r \in Fetches : Quiet(r) => taker[r] # "free" /\ r \notin inflight
    BY DEF LogInv, NothingSlipsThrough, Quiet
  <2>2. \A r \in Fetches : handed[r] <= 1
    BY DEF LogInv, LogTyped
  <2>3. ASSUME \A r \in Fetches : stepOf[r] # "no" => Quiet(r), settling = {}
        PROVE  \A u \in Urls : urlState[u] # "Loading"
    BY <2>1, <2>3 DEF LogInv, LoadingIsOwed
  <2>4. QED BY <2>1, <2>2, <2>3 DEF SettledOnce, LogInv, TakersSettle, TakenFetches
<1>2. QED BY <1>1, LogInvHolds, PTL

-----------------------------------------------------------------------------
(* TimerQueue: an owed callback is queued                                  *)

\* A task of the queue, and the task that runs.
Task == [deadline : Nat, sequence : Nat, repeats : BOOLEAN, interval : Nat, nesting : Nat,
         birth : Nat]
RunningTask == [id : 1 .. MaxTimerId, nesting : Nat, cancelled : BOOLEAN, birth : Nat, task : Task]

\* Types, of what the proof needs.
TimerTyped ==
  /\ DOMAIN timers \subseteq 1 .. MaxTimerId /\ \A i \in DOMAIN timers : timers[i] \in Task
  /\ nextSequence \in Nat /\ clock \in Nat /\ births \in Nat
  /\ active \in {Idle} \cup RunningTask

\* No two tasks are of one birth, and the identifier of the entry that runs is not
\* given to another.
OneOfEachBirth ==
  /\ \A i \in DOMAIN timers : timers[i].birth <= births
  /\ \A i, j \in DOMAIN timers : timers[i].birth = timers[j].birth => i = j
  /\ active # Idle =>
       /\ active.task.birth = active.birth /\ active.birth <= births
       /\ active.id \notin DOMAIN timers
       /\ \A i \in DOMAIN timers : timers[i].birth # active.birth

\* The inductive invariant of TimerQueue.
TimerInv == TimerTyped /\ OneOfEachBirth /\ OwedIsQueued

\* A callback that runs is not mistaken for none.
LEMMA RunningIsNotIdle == \A a \in RunningTask : a # Idle
<1>1. \A a \in RunningTask : a.id # Idle.id
  BY TimerAssumption DEF RunningTask, Idle
<1>2. QED BY <1>1

\* An empty queue satisfies the invariant.
LEMMA TimerInitially == TimerInit => TimerInv
<1> SUFFICES ASSUME TimerInit PROVE TimerInv
  OBVIOUS
<1>1. DOMAIN timers = {}
  BY DEF TimerInit
<1>2. TimerTyped /\ OneOfEachBirth
  BY <1>1 DEF TimerInit, TimerTyped, OneOfEachBirth
<1>3. OwedIsQueued
  BY <1>1 DEF TimerInit, OwedIsQueued
<1>4. QED BY <1>2, <1>3 DEF TimerInv

\* Only the deadline and the order of a entry change when it is armedNow.
LEMMA ArmedKeepsBirth ==
  ASSUME NEW entry \in Task, NEW deadline \in Nat, NEW sequence \in Nat
  PROVE  LET armedNow == [entry EXCEPT !.deadline = deadline, !.sequence = sequence]
         IN  armedNow \in Task /\ armedNow.birth = entry.birth /\ armedNow.repeats = entry.repeats
  BY DEF Task

\* A entry joins the queue under an identifier nobody has.
LEMMA InsertedJoins ==
  ASSUME TimerInv, NEW id \in 1 .. MaxTimerId, id \notin DOMAIN timers,
         NEW deadline \in Nat, NEW entry \in Task, Inserted(id, deadline, entry)
  PROVE  /\ DOMAIN timers' = DOMAIN timers \cup {id}
         /\ \A i \in DOMAIN timers : timers'[i] = timers[i]
         /\ timers'[id] \in Task /\ timers'[id].birth = entry.birth
         /\ nextSequence' \in Nat
         /\ {timers'[i].birth : i \in DOMAIN timers'}
              = {timers[i].birth : i \in DOMAIN timers} \cup {entry.birth}
<1> DEFINE armedNow == [entry EXCEPT !.deadline = deadline, !.sequence = nextSequence]
<1>1. nextSequence \in Nat
  BY DEF TimerInv, TimerTyped
<1>2. armedNow \in Task /\ armedNow.birth = entry.birth
  BY <1>1, ArmedKeepsBirth
<1>3. timers' = [i \in DOMAIN timers \union {id} |-> IF i = id THEN armedNow ELSE timers[i]]
  BY DEF Inserted
<1>4. nextSequence' \in Nat
  BY <1>1 DEF Inserted
<1> HIDE DEF armedNow
<1>5. QED BY <1>2, <1>3, <1>4

\* setTimeout and setInterval owe one callback, that of the task they queue.
LEMMA ArmingOwes ==
  ASSUME TimerInv, NEW delay \in Delays, NEW repeats \in BOOLEAN, Schedule(delay, repeats)
  PROVE  TimerInv'
<1> DEFINE fresh == [deadline |-> 0, sequence |-> 0, repeats |-> repeats, interval |-> delay,
                     nesting |-> active.nesting + 1, birth |-> births + 1]
<1>1. active.nesting \in Nat /\ births \in Nat /\ clock \in Nat
  BY DEF TimerInv, TimerTyped, RunningTask, Idle
<1>2. fresh \in Task /\ fresh.birth = births + 1
  BY <1>1, TimerAssumption DEF Task
<1> HIDE DEF fresh
<1>3. PICK id \in 1 .. MaxTimerId :
        Allocated(id) /\ Inserted(id, clock' + Clamped(delay, active.nesting), fresh)
  BY DEF Schedule, fresh
<1>4. id \notin DOMAIN timers /\ id # active.id
  BY <1>3 DEF Allocated, FirstAfter
<1>5. clock' \in Nat /\ clock' + Clamped(delay, active.nesting) \in Nat
  BY <1>1, TimerAssumption DEF Schedule, Ticks, Clamped
<1>6. /\ DOMAIN timers' = DOMAIN timers \cup {id}
      /\ \A i \in DOMAIN timers : timers'[i] = timers[i]
      /\ timers'[id] \in Task /\ timers'[id].birth = births + 1
      /\ nextSequence' \in Nat
      /\ {timers'[i].birth : i \in DOMAIN timers'}
           = {timers[i].birth : i \in DOMAIN timers} \cup {births + 1}
  BY <1>2, <1>3, <1>4, <1>5, InsertedJoins
<1>7. births' = births + 1 /\ active' = active /\ owed' = owed \cup {births + 1}
  BY DEF Schedule
<1>8. TimerTyped'
  BY <1>1, <1>5, <1>6, <1>7 DEF TimerInv, TimerTyped
<1>9. OneOfEachBirth'
  BY <1>1, <1>4, <1>6, <1>7 DEF TimerInv, TimerTyped, Task, RunningTask, OneOfEachBirth
<1>10. OwedIsQueued'
  BY <1>6, <1>7 DEF TimerInv, OwedIsQueued
<1>11. QED BY <1>8, <1>9, <1>10 DEF TimerInv

\* A entry that leaves the queue leaves all the others in it.
LEMMA RemovedLeaves ==
  ASSUME TimerInv, NEW id, timers' = [i \in DOMAIN timers \ {id} |-> timers[i]]
  PROVE  /\ DOMAIN timers' = DOMAIN timers \ {id}
         /\ \A i \in DOMAIN timers' : timers'[i] = timers[i]
         /\ {timers'[i].birth : i \in DOMAIN timers'}
              = {timers[i].birth : i \in DOMAIN timers}
                  \ {timers[i].birth : i \in DOMAIN timers \cap {id}}
  BY DEF TimerInv, OneOfEachBirth

\* clearTimeout takes away the debt with the task, or cancels the one that runs.
LEMMA ClearingForgets == ASSUME TimerInv, NEW id \in 1 .. MaxTimerId, Clear(id) PROVE TimerInv'
<1>1. /\ DOMAIN timers' = DOMAIN timers \ {id}
      /\ \A i \in DOMAIN timers' : timers'[i] = timers[i]
      /\ {timers'[i].birth : i \in DOMAIN timers'}
           = {timers[i].birth : i \in DOMAIN timers}
               \ {timers[i].birth : i \in DOMAIN timers \cap {id}}
  BY RemovedLeaves DEF Clear
<1>2. UNCHANGED <<nextSequence, clock, births>>
  BY DEF Clear
<1>3. CASE active = Idle
  BY <1>3, <1>1, <1>2 DEF Clear, Idle, TimerInv, TimerTyped, OneOfEachBirth, OwedIsQueued
<1>4. CASE active \in RunningTask
  <2>1. /\ active' \in RunningTask /\ active'.birth = active.birth /\ active'.id = active.id
        /\ active'.task = active.task
        /\ active.id = id => active'.cancelled
        /\ active.id # id => active' = active
    BY <1>4 DEF Clear, RunningTask
  <2>2. active # Idle /\ active' # Idle
    BY <1>4, <2>1, RunningIsNotIdle
  <2>3. TimerTyped' /\ OneOfEachBirth'
    BY <1>1, <1>2, <2>1, <2>2 DEF TimerInv, TimerTyped, OneOfEachBirth
  <2>4. active.birth \notin {timers[i].birth : i \in DOMAIN timers}
    BY <2>2 DEF TimerInv, OneOfEachBirth
  <2>5. OwedIsQueued'
    <3>1. CASE active.id = id
      BY <3>1, <1>1, <2>1, <2>4 DEF Clear, TimerInv, OwedIsQueued
    <3>2. CASE active.id # id
      <4>1. owed' = owed \ {timers[i].birth : i \in DOMAIN timers \cap {id}}
        BY <3>2 DEF Clear
      <4>2. QED BY <1>1, <2>1, <2>4, <3>2, <4>1 DEF TimerInv, OwedIsQueued
    <3>3. QED BY <3>1, <3>2
  <2>6. QED BY <2>3, <2>5 DEF TimerInv
<1>5. QED BY <1>3, <1>4 DEF TimerInv, TimerTyped

\* The task that is due leaves the queue, and what it owes is being paid.
LEMMA BeginningTakes == ASSUME TimerInv, Begin PROVE TimerInv'
<1>1. PICK id \in DOMAIN timers :
        /\ timers' = [i \in DOMAIN timers \ {id} |-> timers[i]]
        /\ active' = [id |-> id, nesting |-> timers[id].nesting, cancelled |-> FALSE,
                      birth |-> timers[id].birth, task |-> timers[id]]
        /\ owed' = IF timers[id].repeats THEN owed ELSE owed \ {timers[id].birth}
  BY DEF Begin
<1>2. /\ DOMAIN timers' = DOMAIN timers \ {id}
      /\ \A i \in DOMAIN timers' : timers'[i] = timers[i]
      /\ {timers'[i].birth : i \in DOMAIN timers'}
           = {timers[i].birth : i \in DOMAIN timers}
               \ {timers[i].birth : i \in DOMAIN timers \cap {id}}
  BY <1>1, RemovedLeaves
<1>3. id \in 1 .. MaxTimerId /\ timers[id] \in Task
  BY DEF TimerInv, TimerTyped
<1>4. active' \in RunningTask
  BY <1>1, <1>3 DEF RunningTask, Task
<1>5. /\ active' # Idle /\ active'.id = id /\ active'.birth = timers[id].birth
      /\ active'.task = timers[id] /\ active'.cancelled = FALSE
  BY <1>1, <1>4, RunningIsNotIdle
<1>6. UNCHANGED <<nextSequence, clock, births>> /\ active = Idle
  BY DEF Begin
<1>7. TimerTyped'
  BY <1>2, <1>4, <1>6 DEF TimerInv, TimerTyped
<1>8. OneOfEachBirth'
  BY <1>2, <1>5, <1>6 DEF TimerInv, OneOfEachBirth
<1>9. owed = {timers[i].birth : i \in DOMAIN timers}
  BY <1>6 DEF TimerInv, OwedIsQueued
<1>10. {timers[i].birth : i \in DOMAIN timers \cap {id}} = {timers[id].birth}
  OBVIOUS
<1>11. timers[id].birth \in {timers[i].birth : i \in DOMAIN timers}
  OBVIOUS
<1>12. OwedIsQueued'
  BY <1>1, <1>2, <1>5, <1>9, <1>10, <1>11 DEF OwedIsQueued
<1>13. QED BY <1>7, <1>8, <1>12 DEF TimerInv

\* An interval that ends is queued again under its own identifier.
LEMMA FinishingArms == ASSUME TimerInv, Finish PROVE TimerInv'
<1>1. active \in RunningTask /\ active # Idle /\ active' = Idle
  BY DEF Finish, TimerInv, TimerTyped
<1>2. clock' \in Nat /\ births' = births /\ owed' = owed
  BY DEF Finish, Ticks, TimerInv, TimerTyped
<1>3. CASE active.task.repeats /\ ~active.cancelled
  <2>1. Inserted(active.id, clock' + Clamped(active.task.interval, active.nesting), active.task)
    BY <1>3 DEF Finish
  <2>2. /\ active.id \in 1 .. MaxTimerId /\ active.id \notin DOMAIN timers /\ active.task \in Task
        /\ active.task.interval \in Nat /\ active.task.birth = active.birth
        /\ active.birth \in Nat
    BY <1>1 DEF RunningTask, Task, TimerInv, OneOfEachBirth
  <2>3. clock' + Clamped(active.task.interval, active.nesting) \in Nat
    BY <1>2, <2>2, TimerAssumption DEF Clamped
  <2>4. /\ DOMAIN timers' = DOMAIN timers \cup {active.id}
        /\ \A i \in DOMAIN timers : timers'[i] = timers[i]
        /\ timers'[active.id] \in Task /\ timers'[active.id].birth = active.birth
        /\ nextSequence' \in Nat
        /\ {timers'[i].birth : i \in DOMAIN timers'}
             = {timers[i].birth : i \in DOMAIN timers} \cup {active.birth}
    BY <2>1, <2>2, <2>3, InsertedJoins
  <2>5. TimerTyped'
    BY <1>1, <1>2, <2>2, <2>4 DEF TimerInv, TimerTyped
  <2>6. OneOfEachBirth'
    BY <1>1, <1>2, <2>4 DEF TimerInv, OneOfEachBirth
  <2>7. OwedIsQueued'
    BY <1>1, <1>2, <1>3, <2>4 DEF TimerInv, OwedIsQueued
  <2>8. QED BY <2>5, <2>6, <2>7 DEF TimerInv
<1>4. CASE ~(active.task.repeats /\ ~active.cancelled)
  BY <1>4, <1>1, <1>2 DEF Finish, TimerInv, TimerTyped, OneOfEachBirth, OwedIsQueued
<1>5. QED BY <1>3, <1>4

\* Every step keeps the invariant.
LEMMA TimerKept == TimerInv /\ [TimerNext]_timerVars => TimerInv'
<1> SUFFICES ASSUME TimerInv, [TimerNext]_timerVars PROVE TimerInv'
  OBVIOUS
<1>1. CASE TurnBegins
  BY <1>1 DEF TurnBegins, Ticks, TimerInv, TimerTyped, OneOfEachBirth, OwedIsQueued
<1>2. CASE TurnEnds
  BY <1>2 DEF TurnEnds, TimerInv, TimerTyped, OneOfEachBirth, OwedIsQueued
<1>3. CASE UNCHANGED timerVars
  BY <1>3 DEF timerVars, TimerInv, TimerTyped, OneOfEachBirth, OwedIsQueued
<1>4. QED BY <1>1, <1>2, <1>3, ArmingOwes, ClearingForgets, BeginningTakes, FinishingArms
      DEF TimerNext

\* For every number of identifiers: the invariant holds throughout.
THEOREM TimerInvHolds == TimerSpec => []TimerInv
  BY TimerInitially, TimerKept, PTL DEF TimerSpec

\* OwedIsQueued: the tasks of the queue, with an interval that runs, are what the page is
\* owed and nothing else, however its identifiers are used again, armedNow and cleared.
THEOREM OwedHolds == TimerSpec => []OwedIsQueued
  BY TimerInvHolds, PTL DEF TimerInv

-----------------------------------------------------------------------------
(* EventStream: what was received is heard in order                        *)

\* The records a transport leaves for the page.
Record == [kind : {"open", "error", "fatal"}] \cup [kind : {"message"}, event : Nat]

\* Types, of what the proof needs.
StreamTyped ==
  /\ task \in {"connecting", "reading", "sleeping", "ended"}
  /\ upcoming \in Nat /\ lastId \in Nat
  /\ queue \in Seq(Record) /\ frame \in Seq(Record) /\ heard \in Seq(Nat)
  /\ readyState \in {0, 1, 2}

\* A stream the page has is not told to stop and not closed.
LiveIsWanted == live => ~aborted /\ readyState # 2

\* The events one after the other, in a sequence of records and between two.
InOrder(s) ==
  \A i, j \in DOMAIN s : i < j /\ s[i].kind = "message" /\ s[j].kind = "message"
                           => s[i].event < s[j].event

\* Nothing beyond event n is in the queue, in the frame's batch, or heard.
Reached(n) ==
  \A i \in DOMAIN queue : queue[i].kind = "message" => queue[i].event <= n
ReachedByFrame(n) ==
  \A i \in DOMAIN frame : frame[i].kind = "message" => frame[i].event <= n
ReachedByPage(n) == \A i \in DOMAIN heard : heard[i] <= n

\* Nothing queued, in the frame or heard is what the server sends next.
ServerIsAhead ==
  /\ Reached(lastId) /\ ReachedByFrame(lastId) /\ ReachedByPage(lastId)
  /\ task = "reading" =>
       /\ "id" \in sent => lastId = upcoming
       /\ \A i \in DOMAIN queue : queue[i].kind = "message" => queue[i].event < upcoming
       /\ \A i \in DOMAIN frame : frame[i].kind = "message" => frame[i].event < upcoming
       /\ \A i \in DOMAIN heard : heard[i] < upcoming

\* The page has heard what comes before the batch, and the batch comes before the queue.
EventsInOrder ==
  /\ InOrder(queue) /\ InOrder(frame)
  /\ \A i, j \in DOMAIN heard : i < j => heard[i] < heard[j]
  /\ \A i \in DOMAIN frame, j \in DOMAIN queue :
       frame[i].kind = "message" /\ queue[j].kind = "message" => frame[i].event < queue[j].event
  /\ \A i \in DOMAIN heard, j \in DOMAIN frame :
       frame[j].kind = "message" => heard[i] < frame[j].event
  /\ \A i \in DOMAIN heard, j \in DOMAIN queue :
       queue[j].kind = "message" => heard[i] < queue[j].event

\* The readyState the transport has come to, and the one a record announces.
TransportState == CASE task = "reading" -> 1 [] task = "ended" -> 2 [] OTHER -> 0
Says(kind) == CASE kind = "open" -> 1 [] kind = "fatal" -> 2 [] OTHER -> 0

\* The last record of a sequence that is not an event says how the transport is.
Only(s) == \A i \in DOMAIN s : s[i].kind = "message"
LastSays(s, state) ==
  \A i \in DOMAIN s :
    s[i].kind # "message" /\ (\A j \in DOMAIN s : j > i => s[j].kind = "message")
      => Says(s[i].kind) = state

\* The page is told the state of its transport, by the last record that tells one.
StateArrives ==
  live => /\ LastSays(queue, TransportState)
          /\ Only(queue) => LastSays(frame, TransportState)
          /\ Only(queue) /\ Only(frame) => readyState = TransportState

\* The inductive invariant of EventStream.
StreamInv == StreamTyped /\ LiveIsWanted /\ ServerIsAhead /\ EventsInOrder /\ StateArrives /\ ~late

\* A new stream satisfies the invariant.
LEMMA StreamInitially == StreamInit => StreamInv
  BY DEF StreamInit, StreamInv, StreamTyped, LiveIsWanted, ServerIsAhead, Reached,
     ReachedByFrame, ReachedByPage, EventsInOrder, InOrder, StateArrives, LastSays, Only,
     TransportState

\* The events in a sequence of records are numbers.
LEMMA EventsAreNumbered ==
  ASSUME NEW s \in Seq(Record)
  PROVE  \A i \in DOMAIN s : s[i].kind = "message" => s[i].event \in Nat
<1>1. \A i \in DOMAIN s : s[i] \in Record
  OBVIOUS
<1>2. \A r \in Record : r.kind = "message" => r.event \in Nat
  BY DEF Record
<1>3. QED BY <1>1, <1>2

\* The rest of a sequence ends as the whole of it does.
LEMMA RestSaysTheSame ==
  ASSUME NEW s \in Seq(Record), s # <<>>, NEW state, LastSays(s, state)
  PROVE  LastSays(Tail(s), state)
<1>1. SUFFICES ASSUME NEW i \in DOMAIN Tail(s), Tail(s)[i].kind # "message",
                      \A j \in DOMAIN Tail(s) : j > i => Tail(s)[j].kind = "message"
               PROVE  Says(Tail(s)[i].kind) = state
  BY DEF LastSays
<1>2. i \in Nat /\ i + 1 \in DOMAIN s /\ Tail(s)[i] = s[i + 1]
  OBVIOUS
<1>3. ASSUME NEW j \in DOMAIN s, j > i + 1 PROVE s[j].kind = "message"
  <2>1. j - 1 \in DOMAIN Tail(s) /\ Tail(s)[j - 1] = s[j] /\ j - 1 > i
    BY <1>2, <1>3
  <2>2. QED BY <1>1, <2>1
<1>4. QED BY <1>1, <1>2, <1>3 DEF LastSays

\* A sequence in order stays so when its first record is taken.
LEMMA RestInOrder ==
  ASSUME NEW s \in Seq(Record), s # <<>>, InOrder(s)
  PROVE  InOrder(Tail(s))
<1>1. SUFFICES ASSUME NEW i \in DOMAIN Tail(s), NEW j \in DOMAIN Tail(s), i < j,
                      Tail(s)[i].kind = "message", Tail(s)[j].kind = "message"
               PROVE  Tail(s)[i].event < Tail(s)[j].event
  BY DEF InOrder
<1>2. /\ i + 1 \in DOMAIN s /\ j + 1 \in DOMAIN s /\ i + 1 < j + 1
      /\ Tail(s)[i] = s[i + 1] /\ Tail(s)[j] = s[j + 1]
  BY <1>1
<1>3. QED BY <1>1, <1>2 DEF InOrder

\* What a record behind the others changes.
LEMMA PushAppends ==
  ASSUME NEW s \in Seq(Record), NEW record \in Record
  PROVE  /\ Append(s, record) \in Seq(Record)
         /\ DOMAIN Append(s, record) = DOMAIN s \cup {Len(s) + 1}
         /\ \A i \in DOMAIN s : i \in Nat /\ i < Len(s) + 1 /\ Append(s, record)[i] = s[i]
         /\ Append(s, record)[Len(s) + 1] = record
         /\ Len(s) + 1 \in Nat
<1>1. DOMAIN s = 1 .. Len(s) /\ Len(s) \in Nat
  OBVIOUS
<1>2. DOMAIN Append(s, record) = 1 .. Len(s) + 1
  OBVIOUS
<1>3. QED BY <1>1, <1>2

\* The transport tells a change of its state.
LEMMA StatusPushed ==
  ASSUME StreamInv, NEW kind \in {"open", "error", "fatal"}, Push([kind |-> kind]),
         task' \in {"connecting", "reading", "sleeping", "ended"},
         Says(kind) = TransportState',
         UNCHANGED <<aborted, lastId, streamPageVars>>,
         task' = "reading" => upcoming' = lastId + 1 /\ sent' = {},
         upcoming' \in Nat
  PROVE  StreamInv'
<1> DEFINE record == [kind |-> kind]
<1>1. record \in Record /\ record.kind # "message" /\ record.kind = kind
  BY DEF Record
<1>2. queue \in Seq(Record) /\ queue' = Append(queue, record)
  BY DEF Push, StreamInv, StreamTyped
<1> HIDE DEF record
<1>3. /\ queue' \in Seq(Record) /\ DOMAIN queue' = DOMAIN queue \cup {Len(queue) + 1}
      /\ \A i \in DOMAIN queue : i \in Nat /\ i < Len(queue) + 1 /\ queue'[i] = queue[i]
      /\ queue'[Len(queue) + 1] = record /\ Len(queue) + 1 \in Nat
  BY <1>1, <1>2, PushAppends
<1>4. StreamTyped' /\ LiveIsWanted'
  BY <1>3 DEF StreamInv, StreamTyped, LiveIsWanted, streamPageVars
<1>5. ServerIsAhead'
  BY <1>1, <1>3, EventsAreNumbered DEF StreamInv, ServerIsAhead, Reached, streamPageVars,
     StreamTyped, ReachedByFrame, ReachedByPage
<1>6. EventsInOrder'
  BY <1>1, <1>3 DEF StreamInv, EventsInOrder, InOrder, streamPageVars
<1>7. StateArrives'
  BY <1>1, <1>3 DEF Only, LastSays, StateArrives
<1>8. late' = late
  BY DEF streamPageVars
<1>9. QED BY <1>4, <1>5, <1>6, <1>7, <1>8 DEF StreamInv

\* A blank line ends an event, which joins the queue.
LEMMA EventPushed == ASSUME StreamInv, Blank PROVE StreamInv'
<1> DEFINE record == [kind |-> "message", event |-> upcoming]
<1>1. record \in Record /\ record.kind = "message" /\ record.event = upcoming
  BY DEF Record, StreamInv, StreamTyped
<1>2. queue \in Seq(Record) /\ queue' = Append(queue, record)
  BY DEF Blank, Push, StreamInv, StreamTyped
<1>0. /\ task = "reading" /\ sent = {"id", "data"} /\ upcoming' = upcoming + 1 /\ sent' = {}
      /\ UNCHANGED <<task, aborted, lastId, live, readyState, frame, heard, late>>
      /\ lastId = upcoming /\ upcoming \in Nat
  BY DEF Blank, streamPageVars, StreamInv, ServerIsAhead, StreamTyped
<1> HIDE DEF record
<1>3. /\ queue' \in Seq(Record) /\ DOMAIN queue' = DOMAIN queue \cup {Len(queue) + 1}
      /\ \A i \in DOMAIN queue : i \in Nat /\ i < Len(queue) + 1 /\ queue'[i] = queue[i]
      /\ queue'[Len(queue) + 1] = record /\ Len(queue) + 1 \in Nat
  BY <1>1, <1>2, PushAppends
<1>4. StreamTyped' /\ LiveIsWanted'
  BY <1>0, <1>3 DEF StreamInv, StreamTyped, LiveIsWanted
<1>10. /\ \A i \in DOMAIN queue : queue[i].kind = "message" => queue[i].event \in Nat
       /\ \A i \in DOMAIN frame : frame[i].kind = "message" => frame[i].event \in Nat
       /\ \A i \in DOMAIN heard : heard[i] \in Nat
  BY <1>2, EventsAreNumbered DEF StreamInv, StreamTyped
<1>5. ServerIsAhead'
  BY <1>0, <1>1, <1>3, <1>10
     DEF StreamInv, ServerIsAhead, Reached, ReachedByFrame, ReachedByPage
<1>6. EventsInOrder'
  BY <1>0, <1>1, <1>3, <1>10 DEF StreamInv, ServerIsAhead, EventsInOrder, InOrder
<1>7. StateArrives'
  BY <1>0, <1>1, <1>3 DEF TransportState, Only, LastSays, StreamInv, StateArrives
<1>9. QED BY <1>0, <1>4, <1>5, <1>6, <1>7 DEF StreamInv

\* The frame takes the queue as its batch.
LEMMA FrameTakes == ASSUME StreamInv, PollStream PROVE StreamInv'
<1>0. /\ frame = <<>> /\ frame' = queue /\ queue' = <<>> /\ live
      /\ UNCHANGED <<task, aborted, upcoming, sent, lastId, live, readyState, heard, late>>
  BY DEF PollStream, transportVars
<1>1. DOMAIN queue' = {} /\ DOMAIN frame = {}
  BY <1>0
<1>2. TransportState' = TransportState
  BY <1>0 DEF TransportState
<1>3. StreamTyped' /\ LiveIsWanted' /\ ServerIsAhead' /\ EventsInOrder'
  BY <1>0, <1>1 DEF StreamInv, StreamTyped, LiveIsWanted, ServerIsAhead, Reached,
     ReachedByFrame, ReachedByPage, EventsInOrder, InOrder
<1>4. StateArrives'
  BY <1>0, <1>1, <1>2 DEF StreamInv, StateArrives, Only, LastSays
<1>5. QED BY <1>0, <1>3, <1>4 DEF StreamInv

\* The page hears the first record of the batch.
LEMMA PageHears == ASSUME StreamInv, HearRecord PROVE StreamInv'
<1> DEFINE record == Head(frame)
<1>1. /\ frame \in Seq(Record) /\ frame # <<>> /\ frame' = Tail(frame)
      /\ UNCHANGED <<task, aborted, upcoming, sent, lastId, queue>>
  BY DEF StreamInv, StreamTyped, HearRecord, transportVars, hostVars
<1>2. /\ frame' \in Seq(Record) /\ record \in Record /\ 1 \in DOMAIN frame /\ record = frame[1]
      /\ \A i \in DOMAIN frame' : i \in Nat /\ i >= 1 /\ i + 1 \in DOMAIN frame
                                  /\ frame'[i] = frame[i + 1]
      /\ \A i \in DOMAIN frame : i # 1 => i - 1 \in DOMAIN frame' /\ frame'[i - 1] = frame[i]
      /\ \A i \in DOMAIN frame : i \in Nat /\ i >= 1
  BY <1>1
<1>3. TransportState' = TransportState
  BY <1>1 DEF TransportState
<1> HIDE DEF record
<1>4. CASE ~live
  <2>1. UNCHANGED <<live, readyState, heard, late>>
    BY <1>4 DEF HearRecord
  <2>2. StreamTyped' /\ LiveIsWanted' /\ StateArrives'
    BY <1>1, <1>2, <1>4, <2>1 DEF StreamInv, StreamTyped, LiveIsWanted, StateArrives
  <2>3. ServerIsAhead'
    BY <1>1, <1>2, <2>1 DEF StreamInv, ServerIsAhead, Reached, ReachedByFrame, ReachedByPage
  <2>4. EventsInOrder'
    BY <1>1, <1>2, <2>1 DEF StreamInv, EventsInOrder, InOrder
  <2>5. QED BY <2>1, <2>2, <2>3, <2>4 DEF StreamInv
<1>5. CASE live
  <2>1. HeardOf(record) /\ late' = FALSE
    BY <1>5 DEF HearRecord, record, StreamInv, LiveIsWanted
  <2>2. CASE record.kind = "message"
    <3>1. heard' = Append(heard, record.event) /\ UNCHANGED <<live, readyState>>
      BY <2>1, <2>2 DEF HeardOf
    <3>2. record.event \in Nat /\ heard \in Seq(Nat)
      BY <1>2, <2>2 DEF Record, StreamInv, StreamTyped
    <3>3. /\ heard' \in Seq(Nat) /\ DOMAIN heard' = DOMAIN heard \cup {Len(heard) + 1}
          /\ \A i \in DOMAIN heard : i \in Nat /\ i < Len(heard) + 1 /\ heard'[i] = heard[i]
          /\ heard'[Len(heard) + 1] = record.event /\ Len(heard) + 1 \in Nat
      BY <3>2, <3>1
    <3>4. StreamTyped' /\ LiveIsWanted'
      BY <1>1, <1>2, <3>1, <3>3 DEF StreamInv, StreamTyped, LiveIsWanted
    <3>5. ServerIsAhead'
      BY <1>1, <1>2, <2>2, <3>3
         DEF StreamInv, ServerIsAhead, Reached, ReachedByFrame, ReachedByPage
    <3>6. EventsInOrder'
      <4>1. /\ InOrder(queue) /\ InOrder(frame)
            /\ \A i \in DOMAIN frame, j \in DOMAIN queue :
                 frame[i].kind = "message" /\ queue[j].kind = "message"
                   => frame[i].event < queue[j].event
            /\ \A i \in DOMAIN heard : heard[i] < record.event
            /\ \A i, j \in DOMAIN heard : i < j => heard[i] < heard[j]
        BY <1>2, <2>2 DEF StreamInv, EventsInOrder
      <4>2. InOrder(frame')
        BY <1>1, <4>1, RestInOrder
      <4>3. \A i, j \in DOMAIN heard' : i < j => heard'[i] < heard'[j]
        BY <3>3, <4>1
      <4>4. \A j \in DOMAIN frame' : frame'[j].kind = "message" => record.event < frame'[j].event
        BY <1>2, <2>2, <4>1 DEF InOrder
      <4>5. QED BY <1>1, <1>2, <2>2, <3>3, <4>1, <4>2, <4>3, <4>4 DEF StreamInv, EventsInOrder
    <3>7. LastSays(frame, TransportState) => LastSays(frame', TransportState)
      BY <1>1, RestSaysTheSame
    <3>8. Only(frame') => Only(frame)
      BY <1>2, <2>2 DEF Only
    <3>9. StateArrives'
      BY <1>1, <1>3, <3>1, <3>7, <3>8 DEF StreamInv, StateArrives, Only, LastSays
    <3>10. QED BY <2>1, <3>4, <3>5, <3>6, <3>9 DEF StreamInv
  <2>3. CASE record.kind # "message"
    <3>1. /\ heard' = heard /\ readyState' = Says(record.kind)
          /\ live' = (record.kind # "fatal")
          /\ record.kind \in {"open", "error", "fatal"}
      BY <1>2, <1>5, <2>1, <2>3 DEF HeardOf, Says, Record
    <3>2. Says(record.kind) \in {0, 1, 2} /\ (Says(record.kind) = 2 => record.kind = "fatal")
      BY <3>1 DEF Says
    <3>3. StreamTyped' /\ LiveIsWanted'
      BY <1>1, <1>2, <1>5, <3>1, <3>2 DEF StreamInv, StreamTyped, LiveIsWanted
    <3>4. ServerIsAhead'
      BY <1>1, <1>2, <3>1 DEF StreamInv, ServerIsAhead, Reached, ReachedByFrame, ReachedByPage
    <3>5. EventsInOrder'
      BY <1>1, <1>2, <3>1 DEF StreamInv, EventsInOrder, InOrder
    <3>6. LastSays(frame, TransportState) => LastSays(frame', TransportState)
      BY <1>1, RestSaysTheSame
    <3>7. Only(frame') /\ LastSays(frame, TransportState) => Says(record.kind) = TransportState
      BY <1>2, <2>3 DEF Only, LastSays
    <3>8. StateArrives'
      BY <1>1, <1>3, <1>5, <3>1, <3>6, <3>7 DEF StreamInv, StateArrives, Only, LastSays
    <3>9. QED BY <2>1, <3>3, <3>4, <3>5, <3>8 DEF StreamInv
  <2>4. QED BY <2>2, <2>3
<1>6. QED BY <1>4, <1>5

\* close() and dispose() end the stream, and nothing is heard any more.
LEMMA StreamEnds ==
  ASSUME StreamInv, CloseStream \/ DisposeStream PROVE StreamInv'
<1>1. /\ live' = FALSE /\ queue' \in {queue, <<>>} /\ readyState' \in {readyState, 2}
      /\ UNCHANGED <<task, upcoming, sent, lastId, frame, heard, late>>
  BY DEF CloseStream, DisposeStream
<1>2. DOMAIN queue' \subseteq DOMAIN queue /\ \A i \in DOMAIN queue' : queue'[i] = queue[i]
  BY <1>1
<1>3. StreamTyped'
  <2>1. <<>> \in Seq(Record)
    OBVIOUS
  <2>2. queue' \in Seq(Record) /\ readyState' \in {0, 1, 2}
    BY <1>1, <2>1 DEF StreamInv, StreamTyped
  <2>3. QED BY <1>1, <2>2 DEF StreamInv, StreamTyped
<1>7. LiveIsWanted' /\ StateArrives'
  BY <1>1 DEF LiveIsWanted, StateArrives
<1>4. ServerIsAhead'
  BY <1>1, <1>2 DEF StreamInv, ServerIsAhead, Reached, ReachedByFrame, ReachedByPage
<1>5. EventsInOrder'
  BY <1>1, <1>2 DEF StreamInv, EventsInOrder, InOrder
<1>6. QED BY <1>1, <1>3, <1>4, <1>5, <1>7 DEF StreamInv

\* A line of the feed is read.
LEMMA LineRead == ASSUME StreamInv, NEW field \in {"id", "data"}, Line(field) PROVE StreamInv'
<1>1. /\ task = "reading" /\ sent' = sent \cup {field}
      /\ lastId' = IF field = "id" THEN upcoming ELSE lastId
      /\ UNCHANGED <<task, aborted, upcoming, queue, live, readyState, frame, heard, late>>
  BY DEF Line, hostVars, streamPageVars
<1>2. TransportState' = TransportState
  BY <1>1 DEF TransportState
<1>3. StreamTyped' /\ LiveIsWanted' /\ EventsInOrder' /\ StateArrives'
  BY <1>1, <1>2 DEF StreamInv, StreamTyped, LiveIsWanted, EventsInOrder, StateArrives,
     InOrder, Only, LastSays
<1>4. /\ \A i \in DOMAIN queue : queue[i].kind = "message" => queue[i].event \in Nat
      /\ \A i \in DOMAIN frame : frame[i].kind = "message" => frame[i].event \in Nat
      /\ \A i \in DOMAIN heard : heard[i] \in Nat
      /\ upcoming \in Nat /\ lastId \in Nat
  BY EventsAreNumbered DEF StreamInv, StreamTyped
<1>5. ServerIsAhead'
  BY <1>1, <1>4 DEF StreamInv, ServerIsAhead, Reached, ReachedByFrame, ReachedByPage
<1>6. QED BY <1>1, <1>3, <1>5 DEF StreamInv

\* Every step keeps the invariant.
LEMMA StreamKept == StreamInv /\ [StreamNext]_streamVars => StreamInv'
<1> SUFFICES ASSUME StreamInv, [StreamNext]_streamVars PROVE StreamInv'
  OBVIOUS
<1>1. CASE Refused \/ BodyEnds
  BY <1>1, StatusPushed DEF Refused, BodyEnds, Attempt, Says, TransportState, StreamInv,
     StreamTyped, Forgotten
<1>2. CASE NotAStream
  BY <1>2, StatusPushed DEF NotAStream, Attempt, Says, TransportState, StreamInv, StreamTyped
<1>3. CASE Connected
  BY <1>3, StatusPushed DEF Connected, Attempt, Says, TransportState, StreamInv, StreamTyped
<1>0. CASE TaskStops
  BY <1>0 DEF TaskStops, StreamInv, StreamTyped, LiveIsWanted, ServerIsAhead, EventsInOrder,
     StateArrives, Reached, ReachedByFrame, ReachedByPage, InOrder, hostVars, streamPageVars
<1>4. CASE RetryIsDue
  <2>1. TransportState' = TransportState
    BY <1>4 DEF RetryIsDue, TransportState
  <2>2. QED BY <1>4, <2>1 DEF RetryIsDue, StreamInv, StreamTyped, LiveIsWanted, ServerIsAhead,
     EventsInOrder, StateArrives, Reached, ReachedByFrame, ReachedByPage, InOrder, Only,
     LastSays, hostVars, streamPageVars
<1>5. CASE UNCHANGED streamVars
  BY <1>5 DEF streamVars, StreamInv, StreamTyped, LiveIsWanted, ServerIsAhead,
     EventsInOrder, StateArrives, Reached, ReachedByFrame, ReachedByPage, InOrder, Only,
     LastSays, TransportState, transportVars, hostVars, streamPageVars
<1>6. QED BY <1>0, <1>1, <1>2, <1>3, <1>4, <1>5, EventPushed, FrameTakes, PageHears, StreamEnds,
             LineRead DEF StreamNext

\* For every number of events and reconnections: the invariant holds throughout.
THEOREM StreamInvHolds == StreamSpec => []StreamInv
  BY StreamInitially, StreamKept, PTL DEF StreamSpec

\* StreamAgrees: through any number of reconnections the page hears no event twice, none
\* out of order and none after close(), and in the end reads the state of the transport.
THEOREM StreamHolds == StreamSpec => []StreamAgrees
<1>1. StreamInv => StreamAgrees
  BY DEF StreamInv, StreamAgrees, EventsInOrder, StateArrives, Only, TransportState
<1>2. QED BY <1>1, StreamInvHolds, PTL

-----------------------------------------------------------------------------
(* DesktopRequests: every question is answered                             *)

\* Where a thread may be, what it may be asked, and how it may answer.
Active == {"begin", "drain", "try", "push", "drop"}
WorkerKinds == {"none", "one", "many", "button", "dialog", "url", "path", "reveal", "shell"}
DesktopAnswers == {"none", "cancel", "button", "null", "path", "paths", "ok", "NotFound",
                   "NotSupported", "Operation"}
Thread == [at : Active \cup {"none", "done"}, kind : WorkerKinds, answer : DesktopAnswers]
Completed == [id : Tasks, value : DesktopAnswers]

\* Types, of what the proof needs.
DesktopTyped ==
  /\ worker \in [Tasks -> Thread]
  /\ completed \in [Queues -> Seq(Completed)]
  /\ underWay \in [Queues -> Nat]
  /\ promised \subseteq Tasks

\* The count of a surface is the number of its threads that are not counted out.
ThreadsOf(s) == {t \in Tasks : worker[t].at \in Active /\ SurfaceOf(t) = s}

\* The count kept for a surface is the number of its threads that have not counted
\* themselves out.
ThreadsAreCounted ==
  \A s \in Queues : IsFiniteSet(ThreadsOf(s)) /\ underWay[s] = Cardinality(ThreadsOf(s))

\* A promise that is pending has a thread before its answer, or its answer queued.
AnswerWaits(t, line) == \E k \in DOMAIN line : line[k].id = t

\* A promise has a thread that has still to answer it, or its answer in the queue.
PromisesAreKept ==
  \A t \in promised :
    \/ worker[t].at \in {"begin", "drain", "try", "push"}
    \/ worker[t].at \in {"drop", "done"} /\ AnswerWaits(t, completed[SurfaceOf(t)])

\* What the loop has found so far stays so while it asks on.
AskedSoFar ==
  /\ loop \in {"dialogs told", "shell open", "shell told", "rest"} => underWay["dialog"] = 0
  /\ loop \in {"shell open", "shell told", "rest"} => completed["dialog"] = <<>>
  /\ loop \in {"shell told", "rest"} => underWay["shell"] = 0
  /\ loop = "rest" => completed["shell"] = <<>>

\* Who has a helper that has run.
HelperRecord == [state : {"none", "running", "exited", "reaped"},
                 by : {"thread", "reaper", "reaper tries", "nobody"},
                 owes : Nat, pipe : Nat, read : Nat, code : Nat]

\* What the owner of a helper may be doing while the helper is as it is.
HelperState(h, at) ==
  /\ h.state = "reaped" /\ h.by = "thread" => h.pipe = 0
  /\ h.state # "reaped" /\ h.by = "thread" => at \in {"drain", "try"}
  /\ h.state = "reaped" \/ h.by \in {"reaper", "reaper tries"} => at \in {"push", "drop", "done"}
  /\ h.by = "nobody" /\ h.state # "none" => at \in {"push", "drop", "done"}
  /\ h.owes > 0 => h.by # "nobody" /\ h.state # "reaped"

\* Every helper is waited for, read out or given up by the thread that has it.
HelpersInHand ==
  /\ helper \in [Tasks -> HelperRecord]
  /\ \A t \in Tasks : HelperState(helper[t], worker[t].at)

\* The inductive invariant of DesktopRequests.
DesktopInv == DesktopTyped /\ ThreadsAreCounted /\ PromisesAreKept /\ AskedSoFar /\ HelpersInHand

\* Before anything is asked, the invariant holds.
LEMMA DesktopInitially == DesktopInit => DesktopInv
<1> SUFFICES ASSUME DesktopInit PROVE DesktopInv
  OBVIOUS
<1>1. DesktopTyped
  BY DEF DesktopInit, DesktopTyped, Thread, NoWorker, WorkerKinds, DesktopAnswers
<1>2. \A s \in Queues : ThreadsOf(s) = {}
  BY DEF DesktopInit, ThreadsOf, NoWorker, Active
<1>3. ThreadsAreCounted
  BY <1>2, FS_EmptySet DEF ThreadsAreCounted, DesktopInit
<1>4. PromisesAreKept /\ AskedSoFar
  BY DEF DesktopInit, PromisesAreKept, AskedSoFar
<1>5. HelpersInHand
  <2>1. NoHelper \in HelperRecord /\ NoHelper.state = "none" /\ NoHelper.by = "nobody"
    BY DEF NoHelper, HelperRecord
  <2>2. ~(NoHelper.owes > 0)
    BY DEF NoHelper
  <2>3. QED BY <2>1, <2>2 DEF DesktopInit, HelpersInHand, HelperState
<1>6. QED BY <1>1, <1>3, <1>4, <1>5 DEF DesktopInv

\* A thread that goes on, still counted and for the same surface, changes neither the
\* counts nor what the loop has found.
LEMMA ThreadGoesOn ==
  ASSUME DesktopInv, NEW t \in Tasks, NEW w \in Thread, UNCHANGED threadVars,
         worker[t].at \in {"begin", "drain", "try"}, w.at \in {"drain", "try", "push"},
         worker' = [worker EXCEPT ![t] = w], SurfaceOf(t)' = SurfaceOf(t)
  PROVE  DesktopTyped' /\ ThreadsAreCounted' /\ PromisesAreKept' /\ AskedSoFar'
<1>1. /\ worker' \in [Tasks -> Thread] /\ worker'[t] = w
      /\ \A u \in Tasks \ {t} : worker'[u] = worker[u]
  BY DEF DesktopInv, DesktopTyped
<1>2. \A u \in Tasks : SurfaceOf(u)' = SurfaceOf(u)
                       /\ (worker'[u].at \in Active <=> worker[u].at \in Active)
  BY <1>1 DEF SurfaceOf, Active
<1>3. \A s \in Queues : ThreadsOf(s)' = ThreadsOf(s)
  BY <1>2 DEF ThreadsOf
<1>4. DesktopTyped' /\ ThreadsAreCounted' /\ AskedSoFar'
  BY <1>1, <1>3 DEF DesktopInv, DesktopTyped, ThreadsAreCounted, AskedSoFar, threadVars
<1>5. PromisesAreKept'
  BY <1>1, <1>2 DEF DesktopInv, DesktopTyped, PromisesAreKept, threadVars
<1>6. QED BY <1>4, <1>5

\* A thread answers, whatever becomes of its helper.
LEMMA ThreadAnswers ==
  ASSUME DesktopInv, NEW t \in Tasks, NEW a \in DesktopAnswers, UNCHANGED threadVars,
         worker[t].at \in {"begin", "drain", "try"}, AnswersWith(t, a),
         NEW h, helper' = [helper EXCEPT ![t] = h],
         h \in HelperRecord,
         HelperState(h, "push")
  PROVE  DesktopInv'
<1> DEFINE w == [at |-> "push", kind |-> SurfaceOf(t), answer |-> a]
<1>1. w \in Thread /\ w.at = "push" /\ w.kind = SurfaceOf(t) /\ SurfaceOf(t) \in Queues
  BY DEF Thread, SurfaceOf, WorkerKinds, Active, Queues
<1>2. worker' = [worker EXCEPT ![t] = w]
  BY DEF AnswersWith
<1> HIDE DEF w
<1>3. /\ worker'[t] = w /\ \A u \in Tasks \ {t} : worker'[u] = worker[u]
  BY <1>2 DEF DesktopInv, DesktopTyped
<1>4. SurfaceOf(t)' = SurfaceOf(t)
  BY <1>1, <1>3 DEF SurfaceOf, Queues
<1>5. DesktopTyped' /\ ThreadsAreCounted' /\ PromisesAreKept' /\ AskedSoFar'
  BY <1>1, <1>2, <1>4, ThreadGoesOn
<1>6. HelpersInHand'
  BY <1>1, <1>3 DEF DesktopInv, HelpersInHand
<1>7. QED BY <1>5, <1>6 DEF DesktopInv

\* A step of one thread leaves the other helpers alone.
LEMMA HelperKept ==
  ASSUME HelpersInHand, NEW t \in Tasks
  PROVE  /\ helper = [helper EXCEPT ![t] = helper[t]]
         /\ helper[t] \in HelperRecord
         /\ HelperState(helper[t], worker[t].at)
         /\ worker[t].at = "begin" => HelperState(helper[t], "push")
  BY DEF HelpersInHand, HelperState

\* A surface with a thread is not counted empty.
LEMMA NotNought ==
  ASSUME DesktopInv, NEW t \in Tasks, worker[t].at \in Active
  PROVE  underWay[SurfaceOf(t)] # 0
<1>1. SurfaceOf(t) \in Queues /\ t \in ThreadsOf(SurfaceOf(t))
  BY DEF SurfaceOf, Queues, ThreadsOf
<1>2. QED BY <1>1, FS_EmptySet DEF DesktopInv, ThreadsAreCounted

\* A request comes with a thread of its own, counted in, and only while the scripts run.
LEMMA ThreadStarts ==
  ASSUME DesktopInv, NEW t \in FreshTasks,
         NEW kind \in {"one", "many", "button", "url", "path", "reveal"}, NEW s \in Queues,
         s = IF kind \in {"one", "many", "button"} THEN "dialog" ELSE "shell",
         CountedIn(t, kind, s), Promised(t)
  PROVE  DesktopInv'
<1> DEFINE w == [NoWorker EXCEPT !.at = "begin", !.kind = kind]
<1>1. /\ t \in Tasks /\ worker[t] = NoWorker /\ loop = "script"
      /\ underWay' = [underWay EXCEPT ![s] = @ + 1] /\ worker' = [worker EXCEPT ![t] = w]
      /\ UNCHANGED <<loop, completed, helper>> /\ promised' = promised \cup {t}
  BY DEF CountedIn, Promised, FreshTasks
<1>2. w \in Thread /\ w.at = "begin" /\ w.kind = kind /\ worker[t].at = "none"
  <2>1. w \in Thread /\ w.at = "begin" /\ w.kind = kind
    BY DEF NoWorker, Thread, Active, WorkerKinds, DesktopAnswers
  <2>2. worker[t].at = "none"
    BY <1>1 DEF NoWorker
  <2>3. QED BY <2>1, <2>2
<1> HIDE DEF w
<1>3. /\ worker'[t] = w /\ \A u \in Tasks \ {t} : worker'[u] = worker[u]
  BY <1>1 DEF DesktopInv, DesktopTyped
<1>4. SurfaceOf(t)' = s /\ \A u \in Tasks \ {t} : SurfaceOf(u)' = SurfaceOf(u)
  BY <1>2, <1>3 DEF SurfaceOf
<1>5. DesktopTyped'
  BY <1>1, <1>2 DEF DesktopInv, DesktopTyped
<1>6. ThreadsAreCounted'
  <2>1. /\ ThreadsOf(s)' = ThreadsOf(s) \cup {t} /\ t \notin ThreadsOf(s)
        /\ \A o \in Queues \ {s} : ThreadsOf(o)' = ThreadsOf(o)
    BY <1>1, <1>2, <1>3, <1>4 DEF ThreadsOf, Active
  <2>2. IsFiniteSet(ThreadsOf(s)) /\ underWay[s] = Cardinality(ThreadsOf(s))
    BY DEF DesktopInv, ThreadsAreCounted
  <2>3. IsFiniteSet(ThreadsOf(s)') /\ Cardinality(ThreadsOf(s)') = Cardinality(ThreadsOf(s)) + 1
    BY <2>1, <2>2, FS_AddElement
  <2>4. \A o \in Queues : underWay'[o] = IF o = s THEN underWay[s] + 1 ELSE underWay[o]
    BY <1>1 DEF DesktopInv, DesktopTyped
  <2>5. QED BY <2>1, <2>2, <2>3, <2>4 DEF DesktopInv, ThreadsAreCounted
<1>7. PromisesAreKept'
  BY <1>1, <1>2, <1>3, <1>4 DEF DesktopInv, DesktopTyped, PromisesAreKept
<1>8. AskedSoFar'
  BY <1>1 DEF AskedSoFar
<1>9. HelpersInHand'
  BY <1>1, <1>2, <1>3 DEF DesktopInv, HelpersInHand, HelperState
<1>10. QED BY <1>5, <1>6, <1>7, <1>8, <1>9 DEF DesktopInv

\* A thread queues its answer, or counts itself out after it.
LEMMA AnswerQueued ==
  ASSUME DesktopInv, NEW t \in Tasks, NEW s \in Queues, s = SurfaceOf(t), QueuesAnswer(t)
  PROVE  DesktopInv'
<1> DEFINE w == [at |-> IF worker[t].at = "push" THEN "drop" ELSE "done",
                 kind |-> worker[t].kind, answer |-> "none"]
           c == [id |-> t, value |-> worker[t].answer]
<1>1. /\ worker[t].at \in {"push", "drop"} /\ worker[t] \in Thread /\ s \in Queues
      /\ UNCHANGED <<desktop, loop, realmNo, promised, helper>>
  BY DEF QueuesAnswer, DesktopInv, DesktopTyped, SurfaceOf, Queues
<1>2. worker' = [worker EXCEPT ![t] = w]
  BY DEF QueuesAnswer
<1>3. /\ w \in Thread /\ w.kind = worker[t].kind
      /\ w.at = (IF worker[t].at = "push" THEN "drop" ELSE "done")
  BY <1>1 DEF Thread, DesktopAnswers, Active
<1>4. c \in Completed /\ c.id = t
  BY <1>1 DEF Completed, Thread
<1>5. CASE worker[t].at = "push"
  <2>1. completed' = [completed EXCEPT ![s] = Append(@, c)] /\ UNCHANGED underWay
    BY <1>5 DEF QueuesAnswer
  <2> HIDE DEF w, c
  <2>2. /\ worker'[t] = w /\ \A u \in Tasks \ {t} : worker'[u] = worker[u]
        /\ \A u \in Tasks : SurfaceOf(u)' = SurfaceOf(u)
    BY <1>2, <1>3 DEF DesktopInv, DesktopTyped, SurfaceOf
  <2>3. /\ completed'[s] \in Seq(Completed) /\ AnswerWaits(t, completed'[s])
        /\ \A u \in Tasks : AnswerWaits(u, completed[s]) => AnswerWaits(u, completed'[s])
        /\ \A o \in Queues \ {s} : completed'[o] = completed[o]
    <3>1. completed[s] \in Seq(Completed) /\ completed'[s] = Append(completed[s], c)
      BY <1>1, <2>1 DEF DesktopInv, DesktopTyped
    <3>2. /\ Append(completed[s], c) \in Seq(Completed)
          /\ DOMAIN Append(completed[s], c) = DOMAIN completed[s] \cup {Len(completed[s]) + 1}
          /\ \A k \in DOMAIN completed[s] : Append(completed[s], c)[k] = completed[s][k]
          /\ Append(completed[s], c)[Len(completed[s]) + 1] = c
      BY <1>4, <3>1
    <3>3. QED BY <1>1, <1>4, <2>1, <3>1, <3>2 DEF AnswerWaits, DesktopInv, DesktopTyped
  <2>4. DesktopTyped'
    BY <1>1, <1>2, <1>3, <2>1, <2>3 DEF DesktopInv, DesktopTyped
  <2>5. \A o \in Queues : ThreadsOf(o)' = ThreadsOf(o)
    BY <1>3, <1>5, <2>2 DEF ThreadsOf, Active
  <2>6. ThreadsAreCounted'
    BY <2>1, <2>5 DEF DesktopInv, ThreadsAreCounted
  <2>7. PromisesAreKept'
    <3>1. ASSUME NEW u \in promised, NEW o \in Queues, AnswerWaits(u, completed[o])
          PROVE  AnswerWaits(u, completed'[o])
      BY <2>3, <3>1 DEF DesktopInv, DesktopTyped
    <3>2. \A u \in Tasks : SurfaceOf(u) \in Queues
      BY DEF SurfaceOf, Queues
    <3>3. ASSUME NEW u \in promised'
          PROVE  \/ worker'[u].at \in {"begin", "drain", "try", "push"}
                 \/ worker'[u].at \in {"drop", "done"} /\ AnswerWaits(u, completed'[SurfaceOf(u)'])
      BY <1>1, <1>3, <1>5, <2>2, <2>3, <3>1, <3>2
         DEF DesktopInv, DesktopTyped, PromisesAreKept
    <3>4. QED BY <3>3 DEF PromisesAreKept, AnswerWaits
  <2>8. underWay[s] # 0
    BY <1>1, <1>5, NotNought DEF DesktopInv, Active
  <2>9. AskedSoFar'
    BY <1>1, <2>1, <2>3, <2>8 DEF AskedSoFar, DesktopInv, Queues
  <2>10. HelpersInHand'
    BY <1>1, <1>3, <1>5, <2>2 DEF DesktopInv, HelpersInHand, HelperState
  <2>11. QED BY <2>4, <2>6, <2>7, <2>9, <2>10 DEF DesktopInv
<1>6. CASE worker[t].at = "drop"
  <2>1. underWay' = [underWay EXCEPT ![s] = @ - 1] /\ UNCHANGED completed
    BY <1>6 DEF QueuesAnswer
  <2> HIDE DEF w, c
  <2>2. /\ worker'[t] = w /\ \A u \in Tasks \ {t} : worker'[u] = worker[u]
        /\ \A u \in Tasks : SurfaceOf(u)' = SurfaceOf(u)
    BY <1>2, <1>3 DEF DesktopInv, DesktopTyped, SurfaceOf
  <2>3. /\ ThreadsOf(s)' = ThreadsOf(s) \ {t} /\ t \in ThreadsOf(s)
        /\ \A o \in Queues \ {s} : ThreadsOf(o)' = ThreadsOf(o)
    BY <1>3, <1>6, <2>2 DEF ThreadsOf, Active
  <2>4. IsFiniteSet(ThreadsOf(s)) /\ underWay[s] = Cardinality(ThreadsOf(s))
    BY <1>1 DEF DesktopInv, ThreadsAreCounted
  <2>5. IsFiniteSet(ThreadsOf(s)') /\ Cardinality(ThreadsOf(s)') = Cardinality(ThreadsOf(s)) - 1
    BY <2>3, <2>4, FS_RemoveElement
  <2>6. underWay[s] \in Nat /\ underWay[s] # 0
    BY <2>3, <2>4, FS_EmptySet, FS_CardinalityType
  <2>7. /\ underWay'[s] = underWay[s] - 1 /\ underWay'[s] \in Nat
        /\ \A o \in Queues \ {s} : underWay'[o] = underWay[o]
    BY <1>1, <2>1, <2>6 DEF DesktopInv, DesktopTyped
  <2>8. DesktopTyped'
    BY <1>1, <1>2, <1>3, <2>1, <2>7 DEF DesktopInv, DesktopTyped
  <2>9. ThreadsAreCounted'
    BY <2>4, <2>5, <2>7, <2>3 DEF DesktopInv, ThreadsAreCounted
  <2>10. PromisesAreKept'
    BY <1>1, <1>3, <1>6, <2>1, <2>2 DEF DesktopInv, DesktopTyped, PromisesAreKept
  <2>11. AskedSoFar'
    BY <1>1, <2>1, <2>6, <2>7 DEF AskedSoFar, DesktopInv, Queues
  <2>12. HelpersInHand'
    BY <1>1, <1>3, <1>6, <2>2 DEF DesktopInv, HelpersInHand, HelperState
  <2>13. QED BY <2>8, <2>9, <2>10, <2>11, <2>12 DEF DesktopInv
<1>7. QED BY <1>1, <1>5, <1>6

\* A step of the helper, or of the reaper that has it.
LEMMA HelperStep ==
  ASSUME DesktopInv, NEW t \in Tasks, UNCHANGED <<threadVars, worker>>,
         NEW h, helper' = [helper EXCEPT ![t] = h],
         h \in HelperRecord,
         HelperState(h, worker[t].at)
  PROVE  DesktopInv'
<1>1. HelpersInHand'
  BY DEF DesktopInv, HelpersInHand
<1>2. \A s \in Queues : ThreadsOf(s)' = ThreadsOf(s)
  BY DEF ThreadsOf, SurfaceOf
<1>3. ThreadsAreCounted' /\ AskedSoFar' /\ DesktopTyped'
  BY <1>2 DEF DesktopInv, DesktopTyped, ThreadsAreCounted, AskedSoFar, threadVars
<1>4. PromisesAreKept'
  BY DEF DesktopInv, PromisesAreKept, AnswerWaits, SurfaceOf, threadVars
<1>5. QED BY <1>1, <1>3, <1>4 DEF DesktopInv

\* The thread goes on and its helper stays with it.
LEMMA ThreadDrains ==
  ASSUME DesktopInv, NEW t \in Tasks, NEW w \in Thread, UNCHANGED threadVars,
         worker[t].at \in {"begin", "drain", "try"}, w.at \in {"drain", "try"},
         worker' = [worker EXCEPT ![t] = w], SurfaceOf(t)' = SurfaceOf(t),
         NEW h, helper' = [helper EXCEPT ![t] = h],
         h \in HelperRecord,
         HelperState(h, w.at)
  PROVE  DesktopInv'
<1>1. DesktopTyped' /\ ThreadsAreCounted' /\ PromisesAreKept' /\ AskedSoFar'
  BY ThreadGoesOn
<1>2. HelpersInHand'
  BY DEF DesktopInv, DesktopTyped, HelpersInHand
<1>3. QED BY <1>1, <1>2 DEF DesktopInv

\* What DrainStderr and WaitedFor leave of a helper.
LEMMA HelperDrained ==
  ASSUME NEW h \in HelperRecord
  PROVE  /\ DrainStderr(h) \in HelperRecord
         /\ DrainStderr(h).pipe = 0 /\ DrainStderr(h).state = h.state
         /\ DrainStderr(h).by = h.by /\ DrainStderr(h).owes = h.owes
<1>0. h.read \in Nat /\ h.pipe \in Nat
  BY DEF HelperRecord
<1>1. h.read + h.pipe \in Nat
  BY <1>0
<1>2. DrainStderr(h) \in HelperRecord
  BY <1>1 DEF HelperRecord, DrainStderr
<1>3. /\ DrainStderr(h).pipe = 0 /\ DrainStderr(h).state = h.state
      /\ DrainStderr(h).by = h.by /\ DrainStderr(h).owes = h.owes
  BY DEF HelperRecord, DrainStderr
<1>4. QED BY <1>2, <1>3

\* A helper that has been waited for.
LEMMA HelperWaitedFor ==
  ASSUME NEW h \in HelperRecord
  PROVE  /\ WaitedFor(h) \in HelperRecord
         /\ WaitedFor(h).pipe = h.pipe /\ WaitedFor(h).state = "reaped"
         /\ WaitedFor(h).by = h.by /\ WaitedFor(h).owes = 0
  BY DEF HelperRecord, WaitedFor, NoHelper

\* A helper that nobody waits for.
LEMMA HelperForgotten ==
  ASSUME NEW state \in {"none", "running", "exited", "reaped"}
  PROVE  /\ [NoHelper EXCEPT !.state = state] \in HelperRecord
         /\ [NoHelper EXCEPT !.state = state].pipe = 0
         /\ [NoHelper EXCEPT !.state = state].state = state
         /\ [NoHelper EXCEPT !.state = state].by = "nobody"
         /\ [NoHelper EXCEPT !.state = state].owes = 0
  BY DEF HelperRecord, NoHelper

\* A step of the loop leaves the requests as they are.
LEMMA SameRequests ==
  ASSUME DesktopInv, UNCHANGED <<underWay, completed, promised, worker, helper>>
  PROVE  DesktopTyped' /\ ThreadsAreCounted' /\ PromisesAreKept' /\ HelpersInHand'
<1>1. DesktopTyped' /\ HelpersInHand'
  BY DEF DesktopInv, DesktopTyped, HelpersInHand
<1>2. \A s \in Queues : ThreadsOf(s)' = ThreadsOf(s)
  BY DEF ThreadsOf, SurfaceOf
<1>3. ThreadsAreCounted'
  BY <1>2 DEF DesktopInv, ThreadsAreCounted
<1>4. PromisesAreKept'
  BY DEF DesktopInv, PromisesAreKept, AnswerWaits, SurfaceOf
<1>5. QED BY <1>1, <1>3, <1>4

\* Every step keeps the invariant.
LEMMA DesktopKept == DesktopInv /\ [DesktopNext]_desktopVars => DesktopInv'
<1> SUFFICES ASSUME DesktopInv, [DesktopNext]_desktopVars PROVE DesktopInv'
  OBVIOUS
<1>0. /\ \A t \in Tasks : helper[t] \in HelperRecord /\ HelperState(helper[t], worker[t].at)
      /\ \A t \in Tasks : worker[t] \in Thread
      /\ \A t \in Tasks : helper = [helper EXCEPT ![t] = helper[t]]
  BY DEF DesktopInv, DesktopTyped, HelpersInHand
<1>1. ASSUME NEW t \in FreshTasks, NEW k \in {"openFile", "openFiles", "message"},
             NEW o \in Options, NEW displayed \in BOOLEAN, NEW os \in Systems,
             ShowDialog(t, k, o, displayed, os)
      PROVE  DesktopInv'
  BY <1>1, ThreadStarts DEF DialogKinds, ShowDialog, Queues
<1>2. ASSUME NEW t \in FreshTasks, NEW x \in Targets, NEW os \in Systems, HandOver(t, x, os)
      PROVE  DesktopInv'
  BY <1>2, ThreadStarts DEF Targets, HandOver, Queues
<1>3. ASSUME NEW t \in Tasks, NEW a \in DesktopAnswers, worker[t].at = "begin",
             AnswersWith(t, a), UNCHANGED <<threadVars, helper>>
      PROVE  DesktopInv'
  BY <1>0, <1>3, ThreadAnswers DEF HelperState
<1>4. ASSUME NEW t \in Tasks, NEW n \in 0..2, DialogCloses(t, n) PROVE DesktopInv'
  BY <1>3, <1>4 DEF Pressed, ToldAs, DesktopAnswers, DialogCloses
<1>5. ASSUME NEW t \in Tasks, NEW a \in {"NotFound", "Operation"}, Missing(t, a)
      PROVE  DesktopInv'
  BY <1>3, <1>5 DEF Missing, DesktopAnswers
<1>6. ASSUME NEW t \in Tasks, FileManagerShows(t) PROVE DesktopInv'
  BY <1>3, <1>6 DEF FileManagerShows, DesktopAnswers
<1>7. ASSUME NEW t \in Tasks, NEW code \in {2, 5, 31, 42}, NEW resolved \in BOOLEAN,
             NEW revealed \in BOOLEAN, WindowsAnswers(t, code, resolved, revealed)
      PROVE  DesktopInv'
  BY <1>3, <1>7 DEF ShowItem, ShellExecute, DesktopAnswers, WindowsAnswers
<1>8. ASSUME NEW t \in Tasks, NEW a \in {"NotSupported", "Operation"}, HelperRefused(t, a)
      PROVE  DesktopInv'
  BY <1>3, <1>8 DEF HelperRefused, DesktopAnswers
<1>9. ASSUME NEW t \in Tasks, NEW n \in 0..MaxSaid, HelperRuns(t, n) PROVE DesktopInv'
  <2> DEFINE w == [NoWorker EXCEPT !.at = "drain", !.kind = "shell"]
             h == [NoHelper EXCEPT !.state = "running", !.by = "thread", !.owes = n]
  <2>1. /\ worker[t].at = "begin" /\ SurfaceOf(t) = "shell" /\ UNCHANGED threadVars
        /\ worker' = [worker EXCEPT ![t] = w] /\ helper' = [helper EXCEPT ![t] = h]
    BY <1>9 DEF HelperRuns
  <2>2. w \in Thread /\ w.at = "drain" /\ w.kind = "shell"
    BY DEF NoWorker, Thread, Active, WorkerKinds, DesktopAnswers
  <2>3. n \in Nat
    BY DesktopAssumption DEF DesktopAssumption
  <2>4. h \in HelperRecord
    BY <2>3 DEF HelperRecord, NoHelper
  <2>5. h.state = "running" /\ h.by = "thread"
    BY DEF NoHelper
  <2> HIDE DEF w, h
  <2>6. HelperState(h, w.at)
    BY <2>2, <2>5 DEF HelperState
  <2>7. worker'[t] = w
    BY <2>1 DEF DesktopInv, DesktopTyped
  <2>8. SurfaceOf(t)' = SurfaceOf(t)
    BY <2>1, <2>2, <2>7 DEF SurfaceOf
  <2>9. QED BY <2>1, <2>2, <2>4, <2>6, <2>8, ThreadDrains
<1>10. ASSUME NEW t \in Tasks, NEW at \in {"drain", "try"}, worker[t].at \in {"drain", "try"},
              worker' = [worker EXCEPT ![t].at = at], UNCHANGED threadVars,
              NEW h \in HelperRecord, HelperState(h, at), helper' = [helper EXCEPT ![t] = h]
       PROVE  DesktopInv'
  <2> DEFINE w == [worker[t] EXCEPT !.at = at]
  <2>1. worker' = [worker EXCEPT ![t] = w]
    BY <1>10
  <2>2. w \in Thread /\ w.at = at /\ w.kind = worker[t].kind
    BY <1>0 DEF Thread, Active
  <2> HIDE DEF w
  <2>3. worker'[t] = w
    BY <2>1 DEF DesktopInv, DesktopTyped
  <2>4. SurfaceOf(t)' = SurfaceOf(t)
    BY <2>2, <2>3 DEF SurfaceOf
  <2>5. QED BY <1>10, <2>1, <2>2, <2>4, ThreadDrains
<1>11. ASSUME NEW t \in Tasks, DrainHelper(t) PROVE DesktopInv'
  BY <1>11, <1>0, HelperDrained, <1>10 DEF DrainHelper, HelperState
<1>12. ASSUME NEW t \in Tasks, Reaped(t) PROVE DesktopInv'
  <2> DEFINE h == WaitedFor(DrainStderr(helper[t]))
  <2>1. /\ worker[t].at = "try" /\ helper' = [helper EXCEPT ![t] = h] /\ UNCHANGED threadVars
        /\ AnswersWith(t, Meaning(DrainStderr(helper[t])))
    BY <1>12 DEF Reaped
  <2>2. h \in HelperRecord /\ h.pipe = 0 /\ h.owes = 0 /\ h.state = "reaped"
    BY <1>0, HelperDrained, HelperWaitedFor
  <2>3. Meaning(DrainStderr(helper[t])) \in DesktopAnswers
    BY DEF Meaning, XdgOpenOutcome, OpenOutcome, DesktopAnswers
  <2> HIDE DEF h
  <2>4. HelperState(h, "push")
    BY <2>2 DEF HelperState
  <2>5. QED BY <2>1, <2>2, <2>3, <2>4, ThreadAnswers
<1>13. ASSUME NEW t \in Tasks, NEW outlived \in BOOLEAN, NEW reaper \in BOOLEAN,
              RunsOn(t, outlived, reaper)
       PROVE  DesktopInv'
  <2>1. worker[t].at = "try" /\ helper[t].state = "running" /\ UNCHANGED threadVars
    BY <1>13 DEF RunsOn
  <2>2. CASE outlived
    <3> DEFINE h == IF reaper THEN [helper[t] EXCEPT !.by = "reaper"]
                    ELSE [NoHelper EXCEPT !.state = "running"]
    <3>1. AnswersWith(t, "ok") /\ helper' = [helper EXCEPT ![t] = h]
      BY <1>13, <2>2 DEF RunsOn
    <3>2. /\ h \in HelperRecord /\ h.state = "running"
          /\ h.by = "reaper" \/ (h.by = "nobody" /\ h.owes = 0)
      BY <1>0, <2>1, HelperForgotten DEF HelperRecord
    <3> HIDE DEF h
    <3>3. HelperState(h, "push") /\ "ok" \in DesktopAnswers
      BY <3>2 DEF HelperState, DesktopAnswers
    <3>4. QED BY <2>1, <3>1, <3>2, <3>3, ThreadAnswers
  <2>3. CASE ~outlived
    BY <1>0, <1>13, <2>3, <2>1, <1>10 DEF RunsOn, HelperState
  <2>4. QED BY <2>2, <2>3
<1>14. ASSUME NEW t \in Tasks, HelperLost(t) PROVE DesktopInv'
  <2> DEFINE h == [NoHelper EXCEPT !.state = helper[t].state]
  <2>1. /\ worker[t].at = "try" /\ helper' = [helper EXCEPT ![t] = h] /\ UNCHANGED threadVars
        /\ AnswersWith(t, "Operation")
    BY <1>14 DEF HelperLost
  <2>2. helper[t].state \in {"none", "running", "exited", "reaped"}
    BY <1>0 DEF HelperRecord
  <2>3. h \in HelperRecord /\ h.owes = 0 /\ h.by = "nobody"
    BY <2>2, HelperForgotten
  <2> HIDE DEF h
  <2>4. HelperState(h, "push") /\ "Operation" \in DesktopAnswers
    BY <2>3 DEF HelperState, DesktopAnswers
  <2>5. QED BY <2>1, <2>3, <2>4, ThreadAnswers
<1>15. ASSUME NEW t \in Tasks, ReaperDrains(t) PROVE DesktopInv'
  <2>1. PICK d \in HelperRecord : /\ d = DrainStderr(helper[t]) /\ d.state = helper[t].state
                                 /\ d.owes = helper[t].owes
    BY <1>0, HelperDrained
  <2> DEFINE h == [d EXCEPT !.by = "reaper tries"]
  <2>2. /\ helper[t].by = "reaper" /\ helper[t].state # "reaped"
        /\ helper' = [helper EXCEPT ![t] = h] /\ UNCHANGED <<threadVars, worker>>
    BY <1>15, <2>1 DEF ReaperDrains
  <2>3. h \in HelperRecord /\ h.by = "reaper tries" /\ h.state # "reaped"
    BY <2>1, <2>2 DEF HelperRecord
  <2> HIDE DEF h
  <2>4. HelperState(h, worker[t].at)
    BY <1>0, <2>2, <2>3 DEF HelperState
  <2>5. QED BY <2>2, <2>3, <2>4, HelperStep
<1>24. ASSUME NEW t \in Tasks, NEW lost \in BOOLEAN, ReaperTries(t, lost) PROVE DesktopInv'
  <2> DEFINE h == IF lost THEN [NoHelper EXCEPT !.state = helper[t].state]
                  ELSE IF helper[t].state = "exited" THEN WaitedFor(helper[t])
                  ELSE [helper[t] EXCEPT !.by = "reaper"]
  <2>1. /\ helper[t].by = "reaper tries" /\ helper[t].state # "reaped"
        /\ helper' = [helper EXCEPT ![t] = h] /\ UNCHANGED <<threadVars, worker>>
    BY <1>24 DEF ReaperTries
  <2>2. worker[t].at \in {"push", "drop", "done"}
    BY <1>0, <2>1 DEF HelperState
  <2>3. /\ h \in HelperRecord /\ h.by # "thread"
        /\ h.owes = 0 \/ (h.by = "reaper" /\ h.state # "reaped")
    <3>1. CASE lost
      BY <1>0, <3>1, HelperForgotten DEF HelperRecord
    <3>2. CASE ~lost /\ helper[t].state = "exited"
      BY <1>0, <2>1, <3>2, HelperWaitedFor
    <3>3. CASE ~lost /\ helper[t].state # "exited"
      BY <1>0, <2>1, <3>3 DEF HelperRecord
    <3>4. QED BY <3>1, <3>2, <3>3
  <2> HIDE DEF h
  <2>4. HelperState(h, worker[t].at)
    <3>1. h.owes > 0 => h.by = "reaper" /\ h.state # "reaped"
      BY <2>3
    <3>2. QED BY <2>2, <2>3, <3>1 DEF HelperState
  <2>5. QED BY <2>1, <2>3, <2>4, HelperStep
<1>16. ASSUME NEW t \in Tasks, HelperSays(t) PROVE DesktopInv'
  <2> DEFINE h == [helper[t] EXCEPT !.owes = @ - 1, !.pipe = @ + 1]
  <2>1. /\ helper[t].state = "running" /\ helper[t].owes > 0
        /\ helper' = [helper EXCEPT ![t].owes = @ - 1, ![t].pipe = @ + 1]
        /\ UNCHANGED <<threadVars, worker>>
    BY <1>16 DEF HelperSays
  <2>2. helper' = [helper EXCEPT ![t] = h]
    BY <1>0, <2>1
  <2>8. helper[t].owes \in Nat /\ helper[t].pipe \in Nat /\ helper[t].owes > 0
    BY <1>0, <2>1 DEF HelperRecord
  <2>3. helper[t].owes - 1 \in Nat /\ helper[t].pipe + 1 \in Nat
    BY <2>8
  <2>4. h \in HelperRecord
    BY <1>0, <2>3 DEF HelperRecord
  <2>5. h.state = "running" /\ h.by = helper[t].by
    BY <1>0, <2>1 DEF HelperRecord
  <2> HIDE DEF h
  <2>6. HelperState(h, worker[t].at)
    BY <1>0, <2>1, <2>5 DEF HelperState
  <2>7. QED BY <2>1, <2>2, <2>4, <2>6, HelperStep
<1>17. ASSUME NEW t \in Tasks, NEW code \in {0, 1, 2, 3}, HelperExits(t, code) PROVE DesktopInv'
  <2> DEFINE h == [helper[t] EXCEPT !.state = "exited", !.code = code]
  <2>1. /\ helper[t].state = "running"
        /\ helper' = [helper EXCEPT ![t].state = "exited", ![t].code = code]
        /\ UNCHANGED <<threadVars, worker>>
    BY <1>17 DEF HelperExits
  <2>2. helper' = [helper EXCEPT ![t] = h]
    BY <1>0, <2>1
  <2>3. h \in HelperRecord
    <3>1. code \in Nat
      OBVIOUS
    <3>2. QED BY <1>0, <3>1 DEF HelperRecord
  <2>4. h.state = "exited" /\ h.by = helper[t].by /\ h.owes = helper[t].owes
    BY <1>0 DEF HelperRecord
  <2> HIDE DEF h
  <2>5. HelperState(h, worker[t].at)
    BY <1>0, <2>1, <2>4 DEF HelperState
  <2>6. QED BY <2>1, <2>2, <2>3, <2>5, HelperStep
<1>18. ASSUME NEW t \in Tasks, QueuesAnswer(t) PROVE DesktopInv'
  BY <1>18, AnswerQueued DEF SurfaceOf, Queues
<1>19. CASE SettleRequests
  <2>1. /\ loop = "script" /\ promised' = promised \ Taken
        /\ completed' = [s \in Queues |-> IF Mine(s) # {} THEN <<>> ELSE completed[s]]
        /\ UNCHANGED <<desktop, loop, realmNo, underWay, worker, helper>>
    BY <1>19 DEF SettleRequests
  <2>2. DesktopTyped'
    BY <2>1 DEF DesktopInv, DesktopTyped
  <2>3. ThreadsAreCounted'
    BY <2>1 DEF DesktopInv, ThreadsAreCounted, ThreadsOf, SurfaceOf
  <2>4. ASSUME NEW t \in promised' PROVE worker[t].at \in {"begin", "drain", "try", "push"}
    <3>1. t \in promised /\ t \in Tasks /\ SurfaceOf(t) \in Queues /\ t \in Mine(SurfaceOf(t))
      BY <2>1 DEF DesktopInv, DesktopTyped, SurfaceOf, Queues, Mine
    <3>2. ~AnswerWaits(t, completed[SurfaceOf(t)])
      BY <2>1, <2>4, <3>1 DEF Taken, AnswerWaits, ToSet
    <3>3. QED BY <3>1, <3>2 DEF DesktopInv, PromisesAreKept
  <2>5. PromisesAreKept'
    BY <2>1, <2>4 DEF PromisesAreKept
  <2>6. AskedSoFar' /\ HelpersInHand'
    BY <2>1 DEF AskedSoFar, DesktopInv, HelpersInHand
  <2>7. QED BY <2>2, <2>3, <2>5, <2>6 DEF DesktopInv
<1>20. CASE ReplacePage
  BY <1>20 DEF ReplacePage, DesktopInv, DesktopTyped, ThreadsAreCounted, ThreadsOf, SurfaceOf,
     PromisesAreKept, AskedSoFar, HelpersInHand
<1>21. CASE AskPending \/ WakeUp
  <2>1. UNCHANGED <<desktop, realmNo, underWay, completed, promised, worker, helper>>
    BY <1>21 DEF AskPending, WakeUp
  <2>2. DesktopTyped' /\ ThreadsAreCounted' /\ PromisesAreKept' /\ HelpersInHand'
    BY <2>1, SameRequests
  <2>3. underWay["dialog"] \in Nat /\ underWay["shell"] \in Nat
    BY DEF DesktopInv, DesktopTyped, Queues
  <2>4. AskedSoFar'
    <3>1. loop' = "script" \/ loop' = "dialogs open" => AskedSoFar'
      BY <2>1 DEF AskedSoFar
    <3>2. CASE loop = "dialogs open" /\ loop' = "dialogs told" /\ ~(underWay["dialog"] > 0)
      <4>1. ~(underWay["dialog"] > 0)
        BY <3>2, Zenon
      <4>2. underWay["dialog"] = 0
        BY <2>3, <4>1
      <4>3. QED BY <2>1, <3>2, <4>2 DEF AskedSoFar
    <3>3. CASE loop = "dialogs told" /\ loop' = "shell open" /\ completed["dialog"] = <<>>
      BY <2>1, <3>3 DEF DesktopInv, AskedSoFar
    <3>4. CASE loop = "shell open" /\ loop' = "shell told" /\ ~(underWay["shell"] > 0)
      <4>1. ~(underWay["shell"] > 0)
        BY <3>4, Zenon
      <4>2. underWay["shell"] = 0
        BY <2>3, <4>1
      <4>3. QED BY <2>1, <3>4, <4>2 DEF DesktopInv, AskedSoFar
    <3>5. CASE loop = "shell told" /\ loop' = "rest" /\ completed["shell"] = <<>>
      BY <2>1, <3>5 DEF DesktopInv, AskedSoFar
    <3>6. QED BY <1>21, <3>1, <3>2, <3>3, <3>4, <3>5, Zenon DEF AskPending, AsksOn, WakeUp
  <2>5. QED BY <2>2, <2>4 DEF DesktopInv
<1>22. CASE UNCHANGED desktopVars
  BY <1>22, SameRequests DEF desktopVars, DesktopInv, AskedSoFar
<1>23. QED BY <1>1, <1>2, <1>4, <1>5, <1>6, <1>7, <1>8, <1>9, <1>11, <1>12, <1>13, <1>14,
              <1>15, <1>16, <1>17, <1>18, <1>19, <1>20, <1>21, <1>22, <1>24 DEF DesktopNext

\* For every set of requests: the invariant holds throughout.
THEOREM DesktopInvHolds == DesktopSpec => []DesktopInv
<1>1. QED BY DesktopInitially, DesktopKept, PTL DEF DesktopSpec

\* A loop at rest owes no answer.
LEMMA RestIsPaidUp == DesktopInv => RestOwesNothing
<1> SUFFICES ASSUME DesktopInv, loop = "rest"
             PROVE  /\ promised = {}
                    /\ \A t \in Tasks : worker[t].at \in {"none", "done"}
                    /\ \A s \in Queues : completed[s] = <<>>
  BY DEF RestOwesNothing
<1>1. \A s \in Queues : underWay[s] = 0 /\ completed[s] = <<>>
  BY DEF DesktopInv, AskedSoFar, Queues
<1>2. ASSUME NEW t \in Tasks PROVE worker[t].at \in {"none", "done"} /\ SurfaceOf(t) \in Queues
  BY <1>1, NotNought DEF SurfaceOf, Queues, DesktopInv, DesktopTyped, Thread
<1>3. promised = {}
  BY <1>1, <1>2 DEF DesktopInv, DesktopTyped, PromisesAreKept, AnswerWaits
<1>4. QED BY <1>1, <1>2, <1>3

\* DesktopIsAnswered: the loop does not rest before every dialog and hand-off has its
\* answer, and a helper that ended has been read to its end and has somebody to wait for it.
THEOREM DesktopAnswersHold == DesktopSpec => []DesktopIsAnswered
<1>1. DesktopInv => HelpersAreHeard
  BY DEF DesktopInv, HelpersInHand, HelperState, HelperRecord, HelpersAreHeard, ReadOn
<1>2. DesktopInv => DesktopIsAnswered
  BY <1>1, RestIsPaidUp DEF DesktopIsAnswered
<1>3. QED BY <1>2, DesktopInvHolds, PTL

-----------------------------------------------------------------------------
(* ApplicationReload: an application is that of its files                  *)

Shown == Sheets \cup {"page"}

\* Types of the stages a change goes through.
WatchTyped ==
  /\ unreported \subseteq Files /\ notified \in Seq(Files) /\ batches \in Seq(Seq(Files))
  /\ doing \in [batch : Seq(Files), left : Seq(Files), swapped : Nat]

\* Types of the files, of the document and of its scripts.
DocumentTyped ==
  /\ source \in {"directory", "server"}
  /\ onDisk \in [Files -> Nat] /\ newest \in Nat
  /\ view \in [doc : Nat, shown : [Shown -> Nat]]
  /\ inRealm \in [doc : Nat, ran : [ModuleUrls -> Nat]]
  /\ fetched \in [ModuleUrls -> Nat] /\ loaded \in [ModuleUrls -> Nat]
  /\ importing \subseteq ModuleUrls

\* What some batches hold.
Batched(q) == UNION {ToSet(q[i]) : i \in DOMAIN q}

\* The files whose change waits for its batch to begin.
Waiting == unreported \cup ToSet(notified) \cup Batched(batches)

\* A change that waits, or is worked off, asks for a document.
DocumentDue == ~(Waiting \cup ToSet(doing.batch) \subseteq Sheets)

\* A sheet of the batch that no sheet worked off so far has brought up to date.
Unrefreshed(f) ==
  /\ f \in ToSet(doing.batch)
  /\ \A g \in ToSet(doing.batch) \ ToSet(doing.left) : f \notin Refreshed(g)

\* Unless a document is due, or could not be loaded, the one in the window is that of
\* the scripts, which are the files'; and each file it shows is up to date, waits for
\* its turn, or has been given up.
ShownSoFar ==
  source = "directory" /\ open = "yes" /\ ~Absent("page") /\ ~Throws /\ ~DocumentDue =>
    /\ view.doc = inRealm.doc
    /\ \A u \in ModuleUrls : inRealm.ran[u] \in {0, onDisk[FileOf(u)]}
    /\ \A f \in Shown : \/ view.shown[f] = onDisk[f] \/ f \in overlooked
                        \/ f \in Waiting \/ Unrefreshed(f)

\* What is collected has a timer, and links are only swapped by a batch of sheets.
BatchesAreDriven ==
  /\ notified # <<>> => armed
  /\ doing.swapped > 0 => IsSheets(doing.batch)

\* A served application is not watched, and a directory's modules are not registered.
VariantsApart ==
  /\ source = "server" => unreported = {} /\ notified = <<>> /\ ~armed
                          /\ batches = <<>> /\ doing = NoBatch
  /\ source = "directory" => importing = {}

\* The inductive invariant of ApplicationReload.
ReloadInv ==
  WatchTyped /\ DocumentTyped /\ BatchesAreDriven /\ VariantsApart /\ ShownSoFar
  /\ ResolvedIsDelivered

\* What a sequence holds after an element is put behind it.
LEMMA AppendHolds ==
  ASSUME NEW S, NEW s \in Seq(S), NEW e
  PROVE  ToSet(Append(s, e)) = ToSet(s) \cup {e}
<1>1. /\ DOMAIN s = 1 .. Len(s) /\ DOMAIN Append(s, e) = 1 .. Len(s) + 1 /\ Len(s) \in Nat
      /\ \A i \in 1 .. Len(s) : Append(s, e)[i] = s[i]
      /\ Append(s, e)[Len(s) + 1] = e
  OBVIOUS
<1>2. 1 .. Len(s) + 1 = 1 .. Len(s) \cup {Len(s) + 1}
  BY <1>1
<1> QED
  BY <1>1, <1>2 DEF ToSet

\* A sequence holds its head and what its tail holds.
LEMMA TailHolds ==
  ASSUME NEW S, NEW s \in Seq(S), s # <<>>
  PROVE  ToSet(s) = {Head(s)} \cup ToSet(Tail(s)) /\ Tail(s) \in Seq(S) /\ Head(s) \in S
<1>1. /\ DOMAIN s = 1 .. Len(s) /\ DOMAIN Tail(s) = 1 .. Len(s) - 1 /\ Len(s) \in Nat \ {0}
      /\ \A i \in 1 .. Len(s) - 1 : Tail(s)[i] = s[i + 1]
      /\ Head(s) = s[1] /\ Tail(s) \in Seq(S) /\ Head(s) \in S
  OBVIOUS
<1>2. ASSUME NEW x \in ToSet(s) PROVE x = Head(s) \/ x \in ToSet(Tail(s))
  <2>1. PICK i \in 1 .. Len(s) : s[i] = x
    BY <1>1 DEF ToSet
  <2>2. CASE i # 1
    <3>1. i - 1 \in 1 .. Len(s) - 1 /\ Tail(s)[i - 1] = x
      BY <1>1, <2>1, <2>2
    <3> QED
      BY <1>1, <3>1 DEF ToSet
  <2> QED
    BY <1>1, <2>1, <2>2
<1>3. ASSUME NEW x \in ToSet(Tail(s)) PROVE x \in ToSet(s)
  <2>1. PICK i \in 1 .. Len(s) - 1 : s[i + 1] = x
    BY <1>1 DEF ToSet
  <2>2. i + 1 \in 1 .. Len(s)
    BY <1>1
  <2> QED
    BY <1>1, <2>1, <2>2 DEF ToSet
<1>4. Head(s) \in ToSet(s)
  BY <1>1 DEF ToSet
<1> QED
  BY <1>1, <1>2, <1>3, <1>4

\* What some batches hold is what each of them holds.
LEMMA BatchedOver ==
  ASSUME NEW q
  PROVE  Batched(q) = UNION {ToSet(b) : b \in ToSet(q)}
<1>1. ASSUME NEW x \in Batched(q) PROVE x \in UNION {ToSet(b) : b \in ToSet(q)}
  <2>1. PICK i \in DOMAIN q : x \in ToSet(q[i])
    BY <1>1 DEF Batched
  <2>2. q[i] \in ToSet(q)
    BY DEF ToSet
  <2> QED
    BY <2>1, <2>2
<1>2. ASSUME NEW x \in UNION {ToSet(b) : b \in ToSet(q)} PROVE x \in Batched(q)
  <2>1. PICK b \in ToSet(q) : x \in ToSet(b)
    BY <1>2
  <2>2. PICK i \in DOMAIN q : q[i] = b
    BY DEF ToSet
  <2> QED
    BY <2>1, <2>2 DEF Batched
<1> QED
  BY <1>1, <1>2

\* A batch put behind the others adds what it holds.
LEMMA AppendBatches ==
  ASSUME NEW S, NEW q \in Seq(Seq(S)), NEW b \in Seq(S)
  PROVE  Batched(Append(q, b)) = Batched(q) \cup ToSet(b)
<1>1. ToSet(Append(q, b)) = ToSet(q) \cup {b}
  BY AppendHolds
<1> QED
  BY <1>1, BatchedOver

\* The first batch and the others hold what all of them hold.
LEMMA TailBatches ==
  ASSUME NEW S, NEW q \in Seq(Seq(S)), q # <<>>
  PROVE  Batched(q) = ToSet(Head(q)) \cup Batched(Tail(q))
<1>1. ToSet(q) = {Head(q)} \cup ToSet(Tail(q))
  BY TailHolds
<1>2. \A r : Batched(r) = UNION {ToSet(b) : b \in ToSet(r)}
  BY DEF Batched, ToSet
<1> QED
  BY <1>1, <1>2
\* At the start nothing has changed and no document is there.
LEMMA ReloadInvInit == ReloadInit => ReloadInv
<1> SUFFICES ASSUME ReloadInit PROVE ReloadInv
  OBVIOUS
<1> USE DEF ReloadInit
<1>1. WatchTyped
  BY DEF WatchTyped, NoBatch
<1>2. DocumentTyped
  BY DEF DocumentTyped, NoModules, Files, Shown
<1>3. BatchesAreDriven /\ VariantsApart /\ ShownSoFar
  BY DEF BatchesAreDriven, VariantsApart, ShownSoFar, NoBatch
<1>4. ResolvedIsDelivered
  BY DEF ResolvedIsDelivered, NoModules
<1> QED
  BY <1>1, <1>2, <1>3, <1>4 DEF ReloadInv

\* A document that has just been loaded.
UpToDate ==
  /\ view.doc = inRealm.doc
  /\ \A u \in ModuleUrls : inRealm.ran[u] \in {0, onDisk[FileOf(u)]}
  /\ \A f \in Shown : view.shown[f] = onDisk[f]

\* What a read says is a version.
LEMMA ReadTyped == ASSUME DocumentTyped, NEW f \in Files PROVE Read(f) \in Nat
BY DEF DocumentTyped, Read

\* A document that can be loaded is fresh, and its modules are delivered.
LEMMA LoadKeeps ==
  ASSUME DocumentTyped, VariantsApart, ResolvedIsDelivered, LoadDocument,
         UNCHANGED <<source, onDisk, newest, broken, serving>>
  PROVE  /\ DocumentTyped' /\ ResolvedIsDelivered'
         /\ source = "directory" => importing' = {}
         /\ source = "directory" /\ ~Absent("page")' /\ ~Throws' => UpToDate'
<1> USE DEF DocumentTyped
<1>1. CASE Absent("page")
  BY <1>1 DEF Absent, Read, LoadDocument, moduleVars, VariantsApart, ResolvedIsDelivered
<1>2. CASE ~Absent("page")
  <2> DEFINE doc == inRealm.doc + 1
  <2>1. /\ RunScripts(doc)
        /\ IF Throws THEN UNCHANGED <<view, overlooked>>
           ELSE /\ view' = [doc |-> doc, shown |-> [f \in DOMAIN view.shown |-> Read(f)]]
                /\ overlooked' = {}
    BY <1>2 DEF LoadDocument
  <2>2. doc \in Nat
    OBVIOUS
  <2>3. Read("main") \in Nat /\ \A f \in Shown : Read(f) \in Nat
    BY ReadTyped DEF Files, Shown
  <2> DEFINE fresh == [NoModules EXCEPT ![MainUrl] = Read("main")]
  <2>4. /\ fresh \in [ModuleUrls -> Nat]
        /\ \A u \in ModuleUrls : fresh[u] = 0 \/ (u = MainUrl /\ fresh[u] = Read("main"))
    BY <2>3 DEF NoModules
  <2>5. /\ inRealm' = [doc |-> doc, ran |-> fresh]
        /\ fetched' = NoModules /\ importing' = {}
        /\ loaded' = IF source = "server" THEN fresh ELSE NoModules
    BY <2>1 DEF RunScripts
  <2>6. NoModules \in [ModuleUrls -> Nat]
    BY DEF NoModules
  <2> HIDE DEF doc, fresh
  <2>7. view' \in [doc : Nat, shown : [Shown -> Nat]]
    BY <2>1, <2>2, <2>3
  <2>8. DocumentTyped'
    BY <2>2, <2>4, <2>5, <2>6, <2>7
  <2>9. ResolvedIsDelivered'
    BY <2>1, <2>5 DEF ResolvedIsDelivered
  <2>10. ASSUME source = "directory", ~Throws PROVE UpToDate'
    <3>1. \A f \in Shown : Read(f) = onDisk[f]
      BY <2>10 DEF Read
    <3>2. view' = [doc |-> doc, shown |-> [f \in Shown |-> Read(f)]]
      BY <2>1, <2>10
    <3>3. \A f \in Shown : view'.shown[f] = onDisk'[f]
      BY <3>1, <3>2
    <3>4. FileOf(MainUrl) = "main"
      BY DEF FileOf, MainUrl, Last
    <3>5. \A u \in ModuleUrls : inRealm'.ran[u] \in {0, onDisk'[FileOf(u)]}
      BY <2>4, <2>5, <2>10, <3>4 DEF Read
    <3> QED
      BY <2>5, <3>2, <3>3, <3>5 DEF UpToDate
  <2>11. Throws' = Throws
    BY DEF Throws
  <2> QED
    BY <2>5, <2>8, <2>9, <2>10, <2>11
<1> QED
  BY <1>1, <1>2
\* A change of a file waits to be reported, and leaves what else is shown as it was.
LEMMA ChangeKeeps ==
  ASSUME ReloadInv, NEW f \in Files, NEW version \in Nat, Change(f, version),
         newest' \in Nat, f # "main" => broken' = broken,
         UNCHANGED <<source, serving, notified, armed, batches, doing, open, view, inRealm,
                     moduleVars, overlooked>>
  PROVE  ReloadInv'
<1> USE DEF ReloadInv
<1>1. WatchTyped'
  BY DEF WatchTyped, Change
<1>2. DocumentTyped'
  BY DEF DocumentTyped, Change, moduleVars
<1>3. BatchesAreDriven' /\ VariantsApart'
  BY DEF BatchesAreDriven, VariantsApart, Change, moduleVars
<1>4. ResolvedIsDelivered'
  BY DEF ResolvedIsDelivered, moduleVars
<1>5. ShownSoFar'
  <2> SUFFICES ASSUME source = "directory", open = "yes", ~Absent("page")', ~Throws', ~DocumentDue'
               PROVE  /\ view.doc = inRealm.doc
                      /\ \A u \in ModuleUrls : inRealm.ran[u] \in {0, onDisk'[FileOf(u)]}
                      /\ \A g \in Shown : \/ view.shown[g] = onDisk'[g] \/ g \in overlooked
                                           \/ g \in Waiting' \/ Unrefreshed(g)'
    BY DEF ShownSoFar
  <2>1. Waiting' = Waiting \cup {f}
    BY DEF Waiting, Change
  <2>2. f \in Sheets /\ ~DocumentDue
    BY <2>1 DEF DocumentDue
  <2>3. f # "main" /\ f # "page"
    BY <2>2 DEF Sheets
  <2>4. \A g \in Files : g # f => onDisk'[g] = onDisk[g]
    BY DEF Change, DocumentTyped
  <2>5. ~Absent("page") /\ ~Throws
    BY <2>3, <2>4 DEF Absent, Read, Throws, Files
  <2>6. \A u \in ModuleUrls : onDisk'[FileOf(u)] = onDisk[FileOf(u)]
    BY <2>2, <2>4, UrlAssumption
  <2>7. \A g \in Shown : onDisk'[g] = onDisk[g] \/ g \in Waiting'
    BY <2>1, <2>4 DEF Shown, Files
  <2>8. \A g : Unrefreshed(g)' = Unrefreshed(g)
    BY DEF Unrefreshed
  <2> QED
    BY <2>1, <2>2, <2>5, <2>6, <2>7, <2>8 DEF ShownSoFar
<1> QED
  BY <1>1, <1>2, <1>3, <1>4, <1>5

\* Files are written and deleted.
LEMMA WriteKeeps ==
  ASSUME ReloadInv, NEW f \in Files, WriteFile(f) \/ DeleteFile(f)
  PROVE  ReloadInv'
<1>1. newest' \in Nat
  BY DEF ReloadInv, DocumentTyped, WriteFile, DeleteFile
<1>2. f # "main" => broken' = broken
  BY DEF WriteFile, DeleteFile
<1>3. CASE WriteFile(f)
  BY <1>3, <1>1, <1>2, ChangeKeeps DEF WriteFile
<1>4. CASE DeleteFile(f)
  BY <1>4, <1>1, <1>2, ChangeKeeps DEF DeleteFile
<1> QED
  BY <1>3, <1>4

\* A step that only moves changes between their stages keeps what is shown.
LEMMA MovedKeeps ==
  ASSUME ReloadInv, WatchTyped', BatchesAreDriven', VariantsApart',
         UNCHANGED <<source, writtenVars, serving, open, view, inRealm, moduleVars, overlooked>>,
         open = "yes" =>
           /\ Waiting' \cup ToSet(doing'.batch) = Waiting \cup ToSet(doing.batch)
           /\ \A f : f \in Waiting \/ Unrefreshed(f) => f \in Waiting' \/ Unrefreshed(f)'
  PROVE  ReloadInv'
<1> USE DEF ReloadInv
<1>1. DocumentTyped'
  BY DEF DocumentTyped, writtenVars, moduleVars
<1>2. ResolvedIsDelivered'
  BY DEF ResolvedIsDelivered, moduleVars
<1>3. ShownSoFar'
  BY DEF Absent, Read, Throws, writtenVars, DocumentDue, ShownSoFar, moduleVars
<1> QED
  BY <1>1, <1>2, <1>3

\* The watcher reports a change.
LEMMA NotifyKeeps ==
  ASSUME ReloadInv, NEW f \in Files, Notify(f)
  PROVE  ReloadInv'
<1> USE DEF ReloadInv, Notify
<1>1. WatchTyped'
  <2>1. notified' = notified \/ notified' = Append(notified, f)
    OBVIOUS
  <2>2. notified \in Seq(Files)
    BY DEF WatchTyped
  <2> HIDE DEF Notify
  <2>3. Append(notified, f) \in Seq(Files)
    BY <2>2
  <2> QED
    BY <2>1, <2>2, <2>3 DEF WatchTyped, Notify
<1>2. f \in unreported /\ source = "directory"
  BY DEF VariantsApart, DocumentTyped
<1>3. BatchesAreDriven' /\ VariantsApart'
  BY <1>2 DEF BatchesAreDriven, VariantsApart, moduleVars
<1>4. ASSUME open = "yes" PROVE Waiting' = Waiting
  <2>1. CASE \E i \in DOMAIN notified : notified[i] = f
    BY <2>1, <1>4 DEF ToSet, Waiting
  <2>2. CASE ~\E i \in DOMAIN notified : notified[i] = f
    <3>1. ToSet(notified') = ToSet(notified) \cup {f}
      BY <1>4, <2>2, AppendHolds DEF WatchTyped
    <3> QED
      BY <1>2, <3>1 DEF Waiting
  <2> QED
    BY <2>1, <2>2
<1>5. \A g : Unrefreshed(g)' = Unrefreshed(g)
  BY DEF Unrefreshed
<1>6. UNCHANGED <<source, writtenVars, serving, open, view, inRealm, moduleVars, overlooked>>
      /\ doing' = doing
  OBVIOUS
<1> HIDE DEF Notify
<1> QED
  BY <1>1, <1>3, <1>4, <1>5, <1>6, MovedKeeps

\* What was collected becomes a batch.
LEMMA FlushKeeps ==
  ASSUME ReloadInv, Flush
  PROVE  ReloadInv'
<1> USE DEF ReloadInv, Flush
<1>1. WatchTyped'
  BY DEF WatchTyped
<1>2. source = "directory"
  BY DEF VariantsApart, DocumentTyped
<1>3. BatchesAreDriven' /\ VariantsApart'
  BY <1>2 DEF BatchesAreDriven, VariantsApart, moduleVars
<1>4. Waiting' = Waiting
  BY AppendBatches DEF WatchTyped, Flush, ToSet, Waiting
<1>5. \A g : Unrefreshed(g)' = Unrefreshed(g)
  BY DEF Unrefreshed
<1>6. UNCHANGED <<source, writtenVars, serving, open, view, inRealm, moduleVars, overlooked>>
      /\ doing' = doing
  OBVIOUS
<1> HIDE DEF Flush
<1> QED
  BY <1>1, <1>3, <1>4, <1>5, <1>6, MovedKeeps

\* A batch is begun when none is being worked off.
LEMMA BeginKeeps ==
  ASSUME ReloadInv, BeginBatch
  PROVE  ReloadInv'
<1> USE DEF ReloadInv, BeginBatch
<1>0. /\ Batched(batches) = ToSet(Head(batches)) \cup Batched(Tail(batches))
      /\ Tail(batches) \in Seq(Seq(Files)) /\ Head(batches) \in Seq(Files)
  BY TailBatches, TailHolds DEF WatchTyped
<1>1. WatchTyped'
  BY <1>0 DEF WatchTyped
<1>2. source = "directory"
  BY DEF VariantsApart, DocumentTyped
<1>3. BatchesAreDriven' /\ VariantsApart'
  BY <1>2 DEF BatchesAreDriven, VariantsApart, moduleVars
<1>4. doing'.batch = Head(batches) /\ doing'.left = Head(batches)
  OBVIOUS
<1>5. ToSet(doing.batch) = {}
  BY DEF NoBatch, ToSet
<1>6. Waiting' \cup ToSet(doing'.batch) = Waiting \cup ToSet(doing.batch)
  BY <1>0, <1>4, <1>5 DEF Waiting
<1>7. \A f : f \in Waiting \/ Unrefreshed(f) => f \in Waiting' \/ Unrefreshed(f)'
  BY <1>4, <1>5, <1>6 DEF Unrefreshed
<1>8. UNCHANGED <<source, writtenVars, serving, open, view, inRealm, moduleVars, overlooked>>
  OBVIOUS
<1> HIDE DEF BeginBatch
<1> QED
  BY <1>1, <1>3, <1>6, <1>7, <1>8, MovedKeeps
\* The links of a batch of sheets are swapped, or its rest is given up.
LEMMA ReloadCSSKeeps ==
  ASSUME ReloadInv, ReloadCSS
  PROVE  ReloadInv'
<1> USE DEF ReloadInv
<1> DEFINE file == Head(doing.left)
<1> DEFINE fails == open # "yes" \/ onDisk[file] = 0
<1>1. /\ doing.left # <<>> /\ IsSheets(doing.batch)
      /\ UNCHANGED <<source, writtenVars, serving, unreported, notified, armed, batches, open,
                     inRealm, moduleVars>>
      /\ fails => /\ doing' = NoBatch /\ view' = view
                  /\ overlooked' = overlooked \cup ToSet(doing.left)
                                       \cup {f \in ToSet(doing.batch) : Refreshed(f) = {}}
      /\ ~fails => /\ doing' = [doing EXCEPT !.left = Tail(@),
                                    !.swapped = IF Refreshed(file) = {} THEN @ ELSE @ + 1]
                   /\ view' = [view EXCEPT !.shown =
                             [f \in DOMAIN @ |-> IF f \in Refreshed(file) THEN onDisk[f] ELSE @[f]]]
                   /\ overlooked' = overlooked \ Refreshed(file)
  BY DEF ReloadCSS
<1>2. /\ doing.batch \in Seq(Files) /\ doing.left \in Seq(Files) /\ doing.swapped \in Nat
      /\ Tail(doing.left) \in Seq(Files) /\ file \in Files
      /\ ToSet(doing.left) = {file} \cup ToSet(Tail(doing.left))
  BY <1>1, TailHolds DEF WatchTyped
<1> HIDE DEF file
<1>3. ~fails => doing' = [batch |-> doing.batch, left |-> Tail(doing.left),
                          swapped |-> IF Refreshed(file) = {} THEN doing.swapped ELSE doing.swapped + 1]
  BY <1>1, <1>2 DEF WatchTyped
<1>4. ~fails => view' = [doc |-> view.doc,
                         shown |-> [f \in Shown |-> IF f \in Refreshed(file) THEN onDisk[f]
                                                    ELSE view.shown[f]]]
  BY <1>1 DEF DocumentTyped
<1> HIDE DEF fails
<1>5. WatchTyped'
  <2>1. doing' \in [batch : Seq(Files), left : Seq(Files), swapped : Nat]
    <3>1. CASE fails
      <4>1. doing' = NoBatch
        BY <1>1, <3>1
      <4>2. <<>> \in Seq(Files)
        OBVIOUS
      <4> QED
        BY <4>1, <4>2 DEF NoBatch
    <3>2. CASE ~fails
      <4> DEFINE swapped == IF Refreshed(file) = {} THEN doing.swapped ELSE doing.swapped + 1
      <4>1. swapped \in Nat
        BY <1>2
      <4>2. doing' = [batch |-> doing.batch, left |-> Tail(doing.left), swapped |-> swapped]
        BY <1>3, <3>2
      <4> HIDE DEF swapped
      <4> QED
        BY <1>2, <4>1, <4>2
    <3> QED
      BY <3>1, <3>2
  <2> QED
    BY <1>1, <2>1 DEF WatchTyped
<1>6. DocumentTyped'
  <2>1. \A f \in Shown : onDisk[f] \in Nat /\ view.shown[f] \in Nat
    BY DEF DocumentTyped, Shown, Files
  <2> DEFINE onScreen == [f \in Shown |-> IF f \in Refreshed(file) THEN onDisk[f] ELSE view.shown[f]]
  <2>2. onScreen \in [Shown -> Nat]
    BY <2>1
  <2>3. ~fails => view' = [doc |-> view.doc, shown |-> onScreen]
    BY <1>4
  <2>4. view \in [doc : Nat, shown : [Shown -> Nat]]
    BY DEF DocumentTyped
  <2> HIDE DEF onScreen
  <2>5. view' \in [doc : Nat, shown : [Shown -> Nat]]
    BY <1>1, <2>4, <2>2, <2>3
  <2> QED
    BY <1>1, <2>5 DEF DocumentTyped, writtenVars, moduleVars
<1>7. BatchesAreDriven'
  BY <1>1, <1>3 DEF BatchesAreDriven, NoBatch, IsSheets
<1>8. source = "directory"
  BY <1>1 DEF VariantsApart, DocumentTyped, NoBatch
<1>9. VariantsApart' /\ ResolvedIsDelivered'
  BY <1>1, <1>8 DEF VariantsApart, ResolvedIsDelivered, moduleVars
<1>10. ShownSoFar'
  <2> SUFFICES ASSUME open = "yes", ~Absent("page")', ~Throws', ~DocumentDue'
               PROVE  /\ view'.doc = inRealm.doc
                      /\ \A u \in ModuleUrls : inRealm.ran[u] \in {0, onDisk[FileOf(u)]}
                      /\ \A f \in Shown : \/ view'.shown[f] = onDisk[f] \/ f \in overlooked'
                                           \/ f \in Waiting' \/ Unrefreshed(f)'
    BY <1>1 DEF ShownSoFar, writtenVars
  <2>1. Waiting' = Waiting
    BY <1>1 DEF Waiting
  <2>2. ~DocumentDue
    BY <1>1, <2>1 DEF DocumentDue, IsSheets
  <2>3. ~Absent("page") /\ ~Throws
    BY <1>1 DEF Absent, Read, Throws, writtenVars
  <2>4. /\ view.doc = inRealm.doc
        /\ \A u \in ModuleUrls : inRealm.ran[u] \in {0, onDisk[FileOf(u)]}
        /\ \A f \in Shown : \/ view.shown[f] = onDisk[f] \/ f \in overlooked
                             \/ f \in Waiting \/ Unrefreshed(f)
    BY <1>8, <2>2, <2>3 DEF ShownSoFar
  <2>5. CASE fails
    <3>1. \A f : Unrefreshed(f) => f \in overlooked'
      <4> SUFFICES ASSUME NEW f, Unrefreshed(f), f \notin ToSet(doing.left)
                   PROVE  Refreshed(f) = {}
        BY <1>1, <2>5 DEF Unrefreshed
      <4>1. f \notin Refreshed(f) /\ f \in Sheets
        BY <1>1 DEF Unrefreshed, IsSheets
      <4> QED
        BY <4>1 DEF Refreshed, Sheets
    <3> QED
      BY <1>1, <2>1, <2>4, <2>5, <3>1
  <2>6. CASE ~fails
    <3>1. \A f : Unrefreshed(f) => Unrefreshed(f)' \/ f \in Refreshed(file)
      <4>1. doing'.batch = doing.batch /\ doing'.left = Tail(doing.left)
        BY <1>3, <2>6
      <4>2. ToSet(doing'.left) = ToSet(Tail(doing.left))
        BY <4>1
      <4> SUFFICES ASSUME NEW f, Unrefreshed(f), f \notin Refreshed(file)
                   PROVE  Unrefreshed(f)'
        OBVIOUS
      <4>3. f \in ToSet(doing'.batch)
        BY <4>1 DEF Unrefreshed
      <4>4. ASSUME NEW g \in ToSet(doing'.batch) \ ToSet(doing'.left) PROVE f \notin Refreshed(g)
        BY <4>1, <4>2, <4>4, <1>2 DEF Unrefreshed
      <4> QED
        BY <4>3, <4>4 DEF Unrefreshed
    <3>2. \A f \in Shown : view'.shown[f] = IF f \in Refreshed(file) THEN onDisk[f]
                                            ELSE view.shown[f]
      BY <1>4, <2>6
    <3>3. view'.doc = view.doc
      BY <1>4, <2>6
    <3> QED
      BY <1>1, <2>1, <2>4, <2>6, <3>1, <3>2, <3>3
  <2> QED
    BY <2>5, <2>6
<1> QED
  BY <1>5, <1>6, <1>7, <1>9, <1>10

\* A batch is over: what its sheets did not bring up to date is given up, and any other
\* batch loads a document.
LEMMA EndBatchKeeps ==
  ASSUME ReloadInv, EndBatch
  PROVE  ReloadInv'
<1> USE DEF ReloadInv
<1>1. /\ doing # NoBatch /\ (doing.left = <<>> \/ ~IsSheets(doing.batch)) /\ doing' = NoBatch
      /\ UNCHANGED <<source, writtenVars, serving, unreported, notified, armed, batches, open>>
  BY DEF EndBatch
<1>2. source = "directory"
  BY <1>1 DEF VariantsApart, DocumentTyped
<1>3. WatchTyped' /\ BatchesAreDriven'
  BY <1>1 DEF WatchTyped, BatchesAreDriven, NoBatch
<1>4. Waiting' = Waiting
  BY <1>1 DEF Waiting
<1>5. CASE doing.swapped > 0
  <2>1. /\ UNCHANGED <<view, inRealm, moduleVars>>
        /\ overlooked' = overlooked \cup
                  {f \in ToSet(doing.batch) : \A g \in ToSet(doing.batch) : f \notin Refreshed(g)}
    BY <1>5 DEF EndBatch
  <2>2. IsSheets(doing.batch) /\ doing.left = <<>>
    BY <1>1, <1>5 DEF BatchesAreDriven
  <2>3. ToSet(doing.left) = {}
    BY <2>2 DEF ToSet
  <2>4. \A f : Unrefreshed(f) => f \in overlooked'
    BY <2>1, <2>3 DEF Unrefreshed
  <2>5. DocumentTyped' /\ VariantsApart' /\ ResolvedIsDelivered'
    BY <1>1, <1>2, <2>1 DEF DocumentTyped, VariantsApart, ResolvedIsDelivered, moduleVars, writtenVars
  <2>6. ShownSoFar'
    BY <1>4, <2>2, <1>1, <2>1, <2>4 DEF DocumentDue, IsSheets, Absent, Read, Throws, writtenVars,
       ShownSoFar
  <2> QED
    BY <1>3, <2>5, <2>6
<1>6. CASE ~(doing.swapped > 0)
  <2>1. Reload
    BY <1>6 DEF EndBatch
  <2>2. CASE open = "yes"
    BY <2>1, <2>2, <1>1, <1>2, LoadKeeps, <1>3 DEF Reload, writtenVars, VariantsApart,
       ShownSoFar, UpToDate
  <2>3. CASE open # "yes"
    BY <2>1, <2>3, <1>1, <1>2, <1>3 DEF Reload, DocumentTyped, VariantsApart,
       ResolvedIsDelivered, ShownSoFar, moduleVars, writtenVars
  <2> QED
    BY <2>2, <2>3
<1> QED
  BY <1>5, <1>6
\* A session opens with a fresh document, and ends with its window.
LEMMA SessionKeeps ==
  ASSUME ReloadInv, OpenDirectory \/ EndSession
  PROVE  ReloadInv'
<1> USE DEF ReloadInv
<1>1. CASE OpenDirectory
  BY <1>1, LoadKeeps DEF OpenDirectory, writtenVars, WatchTyped, BatchesAreDriven, VariantsApart,
     watchVars, ShownSoFar, UpToDate
<1>2. CASE EndSession
  <2>1. WatchTyped' /\ DocumentTyped'
    BY <1>2 DEF EndSession, WatchTyped, DocumentTyped, writtenVars, moduleVars
  <2>2. BatchesAreDriven' /\ VariantsApart'
    BY <1>2 DEF EndSession, BatchesAreDriven, VariantsApart, moduleVars
  <2>3. ResolvedIsDelivered' /\ ShownSoFar'
    BY <1>2 DEF EndSession, ResolvedIsDelivered, ShownSoFar, moduleVars
  <2> QED
    BY <2>1, <2>2, <2>3
<1> QED
  BY <1>1, <1>2

\* A server goes and comes back.
LEMMA ServerKeeps == ASSUME ReloadInv, ServerTurns PROVE ReloadInv'
<1> USE DEF ReloadInv
<1>1. source = "server" /\ UNCHANGED <<source, writtenVars, watchVars, open, view, inRealm,
                                     moduleVars, overlooked>>
  BY DEF ServerTurns
<1>2. WatchTyped' /\ DocumentTyped'
  BY <1>1 DEF WatchTyped, DocumentTyped, writtenVars, watchVars, moduleVars
<1>3. BatchesAreDriven' /\ VariantsApart' /\ ResolvedIsDelivered' /\ ShownSoFar'
  BY <1>1 DEF BatchesAreDriven, VariantsApart, ResolvedIsDelivered, ShownSoFar, watchVars, moduleVars
<1> QED
  BY <1>2, <1>3

\* A script imports a module of a directory.
LEMMA ImportLocalKeeps ==
  ASSUME ReloadInv, NEW s \in Specifiers, ImportLocal(s)
  PROVE  ReloadInv'
<1> USE DEF ReloadInv
<1> DEFINE url == ResolveUrl(MainUrl, s)
<1>1. /\ source = "directory" /\ open = "yes" /\ Inside(url)
      /\ inRealm' = [inRealm EXCEPT !.ran[url] = onDisk[FileOf(url)]]
      /\ UNCHANGED <<source, writtenVars, serving, watchVars, open, view, moduleVars, overlooked>>
  BY DEF ImportLocal
<1>2. url \in ModuleUrls
  BY <1>1 DEF ModuleUrls
<1> HIDE DEF url
<1>3. inRealm' = [doc |-> inRealm.doc, ran |-> [inRealm.ran EXCEPT ![url] = onDisk[FileOf(url)]]]
  BY <1>1 DEF DocumentTyped
<1>4. inRealm.ran \in [ModuleUrls -> Nat] /\ inRealm.doc \in Nat /\ onDisk[FileOf(url)] \in Nat
  BY <1>2, UrlAssumption DEF DocumentTyped
<1>5. inRealm' \in [doc : Nat, ran : [ModuleUrls -> Nat]]
  BY <1>3, <1>4
<1>6. WatchTyped' /\ DocumentTyped'
  BY <1>1, <1>5 DEF WatchTyped, DocumentTyped, writtenVars, watchVars, moduleVars
<1>7. BatchesAreDriven' /\ VariantsApart' /\ ResolvedIsDelivered'
  BY <1>1 DEF BatchesAreDriven, VariantsApart, ResolvedIsDelivered, watchVars, moduleVars
<1>8. ShownSoFar'
  <2>1. \A u \in ModuleUrls : inRealm'.ran[u] = inRealm.ran[u] \/ inRealm'.ran[u] = onDisk[FileOf(u)]
    BY <1>3, <1>4
  <2>2. inRealm'.doc = inRealm.doc
    BY <1>3
  <2>3. /\ Absent("page")' = Absent("page") /\ Throws' = Throws
        /\ DocumentDue' = DocumentDue /\ Waiting' = Waiting
        /\ \A f : Unrefreshed(f)' = Unrefreshed(f)
    BY <1>1 DEF Absent, Read, Throws, DocumentDue, Waiting, Unrefreshed, writtenVars, watchVars
  <2> QED
    BY <1>1, <2>1, <2>2, <2>3 DEF ShownSoFar, writtenVars
<1> QED
  BY <1>6, <1>7, <1>8

\* A served module is confirmed by reading it, once, and its text is kept for the load.
LEMMA ResolveKeeps ==
  ASSUME ReloadInv, NEW s \in Specifiers, ResolveImport(s)
  PROVE  ReloadInv'
<1> USE DEF ReloadInv
<1> DEFINE url == ResolveUrl(MainUrl, s)
<1>1. /\ source = "server" /\ Inside(url) /\ url \notin importing
      /\ IF loaded[url] # 0 \/ fetched[url] # 0 THEN UNCHANGED fetched
         ELSE Read(FileOf(url)) # 0 /\ fetched' = [fetched EXCEPT ![url] = Read(FileOf(url))]
      /\ importing' = importing \cup {url}
      /\ UNCHANGED <<source, writtenVars, serving, watchVars, open, view, inRealm, loaded, overlooked>>
  BY DEF ResolveImport
<1>2. url \in ModuleUrls
  BY <1>1 DEF ModuleUrls
<1> HIDE DEF url
<1>3. Read(FileOf(url)) \in Nat
  BY <1>2, UrlAssumption, ReadTyped
<1>4. WatchTyped' /\ DocumentTyped'
  BY <1>1, <1>2, <1>3 DEF WatchTyped, DocumentTyped, writtenVars, watchVars
<1>5. BatchesAreDriven' /\ VariantsApart'
  BY <1>1 DEF BatchesAreDriven, VariantsApart, watchVars
<1>6. ResolvedIsDelivered'
  BY <1>1, <1>2 DEF ResolvedIsDelivered, DocumentTyped
<1>7. ShownSoFar'
  BY <1>1 DEF ShownSoFar
<1> QED
  BY <1>4, <1>5, <1>6, <1>7

\* The engine asks for a module that was resolved.
LEMMA LoadImportKeeps ==
  ASSUME ReloadInv, NEW url \in importing, LoadImport(url)
  PROVE  ReloadInv'
<1> USE DEF ReloadInv
<1>1. source = "server" /\ url \in ModuleUrls
  BY DEF VariantsApart, DocumentTyped
<1>2. /\ importing' = importing \ {url}
      /\ loaded' = [loaded EXCEPT ![url] = IF @ # 0 THEN @ ELSE ClaimedText(url)]
      /\ fetched' = [fetched EXCEPT ![url] = IF loaded[url] # 0 THEN @ ELSE 0]
      /\ inRealm' = [inRealm EXCEPT !.ran[url] = loaded'[url]]
      /\ overlooked' = IF loaded'[url] = 0 THEN overlooked \cup {FileOf(url)} ELSE overlooked
      /\ UNCHANGED <<source, writtenVars, serving, watchVars, open, view>>
  BY DEF LoadImport
<1>3. ClaimedText(url) \in Nat /\ (fetched[url] # 0 => ClaimedText(url) # 0)
  BY <1>1, UrlAssumption, ReadTyped DEF ClaimedText, DocumentTyped
<1>4. loaded' \in [ModuleUrls -> Nat] /\ fetched' \in [ModuleUrls -> Nat]
  BY <1>1, <1>2, <1>3 DEF DocumentTyped
<1>5. loaded'[url] # 0 /\ (loaded[url] # 0 => loaded'[url] = loaded[url])
  BY <1>1, <1>2, <1>3 DEF DocumentTyped, ResolvedIsDelivered
<1>6. \A u \in ModuleUrls : u # url => loaded'[u] = loaded[u] /\ fetched'[u] = fetched[u]
  BY <1>2 DEF DocumentTyped
<1>7. inRealm' = [doc |-> inRealm.doc, ran |-> [inRealm.ran EXCEPT ![url] = loaded'[url]]]
  BY <1>2 DEF DocumentTyped
<1>8. inRealm.ran \in [ModuleUrls -> Nat] /\ inRealm.doc \in Nat /\ loaded'[url] \in Nat
  BY <1>1, <1>4 DEF DocumentTyped
<1>9. /\ inRealm' \in [doc : Nat, ran : [ModuleUrls -> Nat]]
      /\ inRealm'.ran[url] = loaded'[url]
      /\ \A u \in ModuleUrls : u # url => inRealm'.ran[u] = inRealm.ran[u]
  BY <1>1, <1>7, <1>8
<1>10. WatchTyped' /\ DocumentTyped'
  BY <1>2, <1>4, <1>9 DEF WatchTyped, DocumentTyped, writtenVars, watchVars
<1>11. BatchesAreDriven' /\ VariantsApart'
  BY <1>1, <1>2 DEF BatchesAreDriven, VariantsApart, watchVars
<1>12. ResolvedIsDelivered'
  BY <1>1, <1>2, <1>5, <1>6, <1>9 DEF ResolvedIsDelivered, DocumentTyped
<1>13. ShownSoFar'
  BY <1>1, <1>2 DEF ShownSoFar
<1> QED
  BY <1>10, <1>11, <1>12, <1>13

\* Every step keeps the invariant.
LEMMA ReloadInvNext == ReloadInv /\ [ReloadNext]_reloadVars => ReloadInv'
<1> SUFFICES ASSUME ReloadInv, [ReloadNext]_reloadVars PROVE ReloadInv'
  OBVIOUS
<1>1. CASE UNCHANGED reloadVars
  BY <1>1 DEF reloadVars, writtenVars, watchVars, moduleVars, ReloadInv, WatchTyped, DocumentTyped,
              BatchesAreDriven, VariantsApart, ShownSoFar, ResolvedIsDelivered, Absent, Read, Throws,
              DocumentDue, Waiting, Unrefreshed, IsSheets
<1>2. CASE ReloadNext
  BY <1>2, WriteKeeps, NotifyKeeps, FlushKeeps, BeginKeeps, ReloadCSSKeeps, EndBatchKeeps,
     SessionKeeps, ServerKeeps, ImportLocalKeeps, ResolveKeeps, LoadImportKeeps DEF ReloadNext
<1> QED
  BY <1>1, <1>2

\* When nothing waits and nothing is worked off, every change has been shown.
LEMMA ReloadInvSuffices == ReloadInv => RunsItsFiles
<1> SUFFICES ASSUME ReloadInv, source = "directory", open = "yes", AllReloaded, ~Absent("page"), ~Throws
             PROVE  /\ \A f \in DOMAIN view.shown : view.shown[f] = onDisk[f] \/ f \in overlooked
                    /\ view.doc = inRealm.doc
                    /\ \A u \in ModuleUrls : inRealm.ran[u] \in {0, onDisk[FileOf(u)]}
  BY DEF ReloadInv, RunsItsFiles, ShowsTheDisk
<1>1. unreported = {} /\ notified = <<>> /\ batches = <<>> /\ doing.batch = <<>>
  BY DEF ReloadInv, AllReloaded, BatchesAreDriven, NoBatch
<1>2. Waiting = {} /\ ToSet(doing.batch) = {}
  BY <1>1 DEF Waiting, Batched, ToSet
<1>3. ~DocumentDue /\ \A f : ~Unrefreshed(f)
  BY <1>2 DEF DocumentDue, Unrefreshed
<1>4. DOMAIN view.shown = Shown
  BY DEF ReloadInv, DocumentTyped
<1> QED
  BY <1>2, <1>3, <1>4 DEF ReloadInv, ShownSoFar

\* The invariant of ApplicationReload holds throughout.
THEOREM ReloadInvHolds == ReloadSpec => []ReloadInv
BY ReloadInvInit, ReloadInvNext, PTL DEF ReloadSpec

\* However changes, batches, failing reloads and the end of the window interleave, an
\* application at rest is that of its files, and a served module that was resolved is
\* delivered, for any number of versions.
THEOREM FilesHold == ReloadSpec => []RunsItsFiles
BY ReloadInvHolds, ReloadInvSuffices, PTL

-----------------------------------------------------------------------------
(* AudioPlayback: a voice the page takes to be playing has been started     *)

\* The sources that were started, and the loads that were asked for.
StartedVoices == {v \in VoiceId : voice[v] # "free"}
AskedLoads == {l \in LoadId : loads[l].at # "free"}

\* The loads nobody was told of, and those among them that wait for the poll.
OwedLoads == {l \in LoadId : loads[l].at \in {"working", "queued"}}
EndedLoads == {l \in LoadId : loads[l].at = "queued"}

\* Types.
AudioTyped ==
  /\ voice \in [VoiceId -> {"free", "sounding", "looping", "stopping", "silent", "reported"}]
  /\ loads \in [LoadId -> [of : Sounds, at : {"free", "working", "queued", "settled"}]]
  /\ decoded \in Seq(LoadId \X BOOLEAN) /\ micro \in Seq(LoadId \X BOOLEAN)
  /\ awaiting \in [LoadId -> Nat]
  /\ src \in Sounds
  /\ media \in [buffer : Sounds \cup {"none"}, source : VoiceId \cup {0}, paused : BOOLEAN,
                over : BOOLEAN, loop : BOOLEAN, loading : LoadId \cup {0}, since : Nat]

\* Sources and loads are numbered as they are made.
NumberedInTurn ==
  /\ \E n \in 0 .. MaxVoices : StartedVoices = 1 .. n
  /\ \E n \in 0 .. MaxLoads : AskedLoads = 1 .. n

\* The host counts the sources nobody was told the end of, and the page keeps them.
VoicesAreCounted == playingCount = Cardinality(Unreported) /\ liveSources = Unreported

\* The host counts the loads nobody was told of, and each that ended waits once for the poll.
LoadsAreCounted ==
  /\ owing = Cardinality(OwedLoads)
  /\ Len(decoded) = Cardinality(EndedLoads)
  /\ \A l \in EndedLoads : \E i \in DOMAIN decoded : decoded[i][1] = l

\* The element plays a source that was started and asks for a load that was.
ElementIsReal ==
  /\ media.paused <=> media.source \notin Unreported
  /\ media.source # 0 => media.source \in StartedVoices
  /\ media.loading # 0 => media.loading \in AskedLoads

\* A play waits for a load that is still owed or whose promise still goes on.
PlaysGoOn ==
  \A l \in LoadId : awaiting[l] > 0 =>
    l \in OwedLoads \/ \E i \in DOMAIN micro : micro[i][1] = l

\* The inductive invariant of AudioPlayback.
AudioInv ==
  /\ AudioTyped /\ NumberedInTurn /\ VoicesAreCounted /\ LoadsAreCounted
  /\ ElementIsReal /\ PlaysGoOn

\* Any sources, or loads, are finitely many.
LEMMA SoundsAreFinite ==
  /\ MaxVoices \in Nat /\ MaxLoads \in Nat
  /\ \A S \in SUBSET VoiceId : IsFiniteSet(S) /\ Cardinality(S) \in Nat
  /\ \A S \in SUBSET LoadId : IsFiniteSet(S) /\ Cardinality(S) \in Nat
<1>1. MaxVoices \in Nat /\ MaxLoads \in Nat
  BY AudioAssumption
<1>2. IsFiniteSet(VoiceId) /\ IsFiniteSet(LoadId)
  BY <1>1, FS_Interval DEF VoiceId, LoadId
<1>3. QED BY <1>1, <1>2, FS_Subset, FS_CardinalityType

\* The number of the next source is one that nobody has, and follows on.
LEMMA NextIsFree ==
  ASSUME AudioInv
  PROVE  /\ NextVoice \in VoiceId =>
              /\ NextVoice \notin StartedVoices /\ voice[NextVoice] = "free"
              /\ \E n \in 0 .. MaxVoices : StartedVoices \cup {NextVoice} = 1 .. n
         /\ LoadCount \in Nat
         /\ LoadCount + 1 \in LoadId =>
              /\ LoadCount + 1 \notin AskedLoads /\ loads[LoadCount + 1].at = "free"
              /\ \E n \in 0 .. MaxLoads : AskedLoads \cup {LoadCount + 1} = 1 .. n
<1>1. PICK n \in 0 .. MaxVoices : StartedVoices = 1 .. n
  BY DEF AudioInv, NumberedInTurn
<1>2. PICK m \in 0 .. MaxLoads : AskedLoads = 1 .. m
  BY DEF AudioInv, NumberedInTurn
<1>3. n \in Nat /\ m \in Nat /\ n <= MaxVoices /\ m <= MaxLoads
  BY SoundsAreFinite
<1>4. Cardinality(1 .. n) = n /\ Cardinality(1 .. m) = m
  BY <1>3, FS_Interval
<1>5. NextVoice = n + 1 /\ LoadCount = m
  BY <1>1, <1>2, <1>4 DEF NextVoice, LoadCount, StartedVoices, AskedLoads
<1>6. ASSUME NextVoice \in VoiceId
      PROVE  /\ NextVoice \notin StartedVoices /\ voice[NextVoice] = "free"
             /\ \E k \in 0 .. MaxVoices : StartedVoices \cup {NextVoice} = 1 .. k
  BY <1>1, <1>3, <1>5, <1>6, SoundsAreFinite DEF VoiceId, StartedVoices
<1>7. ASSUME LoadCount + 1 \in LoadId
      PROVE  /\ LoadCount + 1 \notin AskedLoads /\ loads[LoadCount + 1].at = "free"
             /\ \E k \in 0 .. MaxLoads : AskedLoads \cup {LoadCount + 1} = 1 .. k
  BY <1>2, <1>3, <1>5, <1>7, SoundsAreFinite DEF LoadId, AskedLoads
<1>8. QED BY <1>3, <1>5, <1>6, <1>7

\* A new context of sounds satisfies the invariant.
LEMMA AudioInitially == AudioInit => AudioInv
<1> SUFFICES ASSUME AudioInit PROVE AudioInv
  OBVIOUS
<1>1. AudioTyped
  BY DEF AudioInit, AudioTyped, FreshMedia, Sounds
<1>2. /\ StartedVoices = {} /\ AskedLoads = {} /\ OwedLoads = {} /\ EndedLoads = {}
      /\ Unreported = {}
  BY DEF AudioInit, StartedVoices, AskedLoads, OwedLoads, EndedLoads, Unreported
<1>3. 1 .. 0 = {} /\ 0 \in 0 .. MaxVoices /\ 0 \in 0 .. MaxLoads
  BY SoundsAreFinite
<1>4. NumberedInTurn
  BY <1>2, <1>3 DEF NumberedInTurn
<1>5. VoicesAreCounted /\ LoadsAreCounted
  BY <1>2, FS_EmptySet DEF AudioInit, VoicesAreCounted, LoadsAreCounted
<1>6. ElementIsReal /\ PlaysGoOn
  BY <1>2 DEF AudioInit, ElementIsReal, PlaysGoOn, FreshMedia
<1>7. QED BY <1>1, <1>4, <1>5, <1>6 DEF AudioInv

\* A source that starts is counted and kept, and is no other.
LEMMA VoiceStarts ==
  ASSUME AudioInv, NEW looped \in BOOLEAN, StartVoice(NextVoice, looped)
  PROVE  /\ voice' \in [VoiceId -> {"free", "sounding", "looping", "stopping", "silent",
                                    "reported"}]
         /\ NextVoice \in VoiceId \ StartedVoices
         /\ StartedVoices' = StartedVoices \cup {NextVoice}
         /\ Unreported' = Unreported \cup {NextVoice}
         /\ \E n \in 0 .. MaxVoices : StartedVoices' = 1 .. n
         /\ VoicesAreCounted'
<1> DEFINE v == NextVoice
<1>1. v \in VoiceId /\ v \notin StartedVoices /\ voice[v] = "free"
  BY NextIsFree DEF StartVoice
<1>2. \E n \in 0 .. MaxVoices : StartedVoices \cup {v} = 1 .. n
  BY <1>1, NextIsFree
<1>3. /\ voice' = [voice EXCEPT ![v] = IF looped THEN "looping" ELSE "sounding"]
      /\ liveSources' = liveSources \cup {v} /\ playingCount' = playingCount + 1
  BY DEF StartVoice
<1> HIDE DEF v
<1>4. voice \in [VoiceId -> {"free", "sounding", "looping", "stopping", "silent", "reported"}]
  BY DEF AudioInv, AudioTyped
<1>5. voice' \in [VoiceId -> {"free", "sounding", "looping", "stopping", "silent", "reported"}]
  BY <1>1, <1>3, <1>4
<1>6. StartedVoices' = StartedVoices \cup {v} /\ Unreported' = Unreported \cup {v}
  BY <1>1, <1>3, <1>4 DEF StartedVoices, Unreported
<1>7. v \notin Unreported /\ IsFiniteSet(Unreported)
  BY <1>1, SoundsAreFinite DEF Unreported
<1>8. VoicesAreCounted'
  BY <1>7, FS_AddElement, <1>3, <1>6 DEF AudioInv, VoicesAreCounted
<1>9. QED BY <1>1, <1>2, <1>5, <1>6, <1>8 DEF v

\* What changes only how a started source is heard, before its end is told, keeps the counts.
LEMMA VoiceChanges ==
  ASSUME AudioInv, NEW v \in VoiceId, NEW hears \in {"sounding", "looping", "stopping", "silent"},
         voice[v] \in {"sounding", "looping", "stopping"},
         voice' = [voice EXCEPT ![v] = hears]
  PROVE  /\ voice' \in [VoiceId -> {"free", "sounding", "looping", "stopping", "silent",
                                    "reported"}]
         /\ StartedVoices' = StartedVoices /\ Unreported' = Unreported
  BY DEF AudioInv, AudioTyped, StartedVoices, Unreported

\* A step that leaves the loads alone leaves what depends on them.
LEMMA LoadsRest ==
  ASSUME UNCHANGED loads
  PROVE  /\ AskedLoads' = AskedLoads /\ OwedLoads' = OwedLoads /\ EndedLoads' = EndedLoads
         /\ LoadCount' = LoadCount
  BY DEF AskedLoads, OwedLoads, EndedLoads, LoadCount

\* A step that leaves the sources alone leaves what depends on them.
LEMMA VoicesRest ==
  ASSUME UNCHANGED voice
  PROVE  StartedVoices' = StartedVoices /\ Unreported' = Unreported
  BY DEF StartedVoices, Unreported

\* playOneShot keeps the invariant.
LEMMA OneShotAudio == ASSUME AudioInv, PlayOneShot PROVE AudioInv'
<1>1. UNCHANGED <<loads, decoded, owing, micro, awaiting, src, media>> /\ StartVoice(NextVoice, FALSE)
  BY DEF PlayOneShot
<1>2. /\ voice' \in [VoiceId -> {"free", "sounding", "looping", "stopping", "silent", "reported"}]
      /\ NextVoice \in VoiceId \ StartedVoices
      /\ StartedVoices' = StartedVoices \cup {NextVoice}
      /\ Unreported' = Unreported \cup {NextVoice}
      /\ \E n \in 0 .. MaxVoices : StartedVoices' = 1 .. n
      /\ VoicesAreCounted'
  BY <1>1, VoiceStarts
<1>3. /\ AskedLoads' = AskedLoads /\ OwedLoads' = OwedLoads /\ EndedLoads' = EndedLoads
  BY <1>1, LoadsRest
<1>4. AudioTyped'
  BY <1>1, <1>2 DEF AudioInv, AudioTyped
<1>5. NumberedInTurn'
  BY <1>2, <1>3 DEF AudioInv, NumberedInTurn
<1>6. LoadsAreCounted' /\ PlaysGoOn'
  BY <1>1, <1>3 DEF AudioInv, LoadsAreCounted, PlaysGoOn
<1>7. ElementIsReal'
  BY <1>2, <1>1, <1>3 DEF AudioInv, ElementIsReal, VoiceId
<1>8. QED BY <1>2, <1>4, <1>5, <1>6, <1>7 DEF AudioInv

\* An end on the render thread keeps the invariant.
LEMMA EndAudio == ASSUME AudioInv, NEW v \in VoiceId, VoiceEnds(v) PROVE AudioInv'
<1>1. /\ UNCHANGED <<loads, decoded, playingCount, owing, liveSources, micro, awaiting, src, media>>
      /\ voice[v] \in {"sounding", "stopping"} /\ voice' = [voice EXCEPT ![v] = "silent"]
  BY DEF VoiceEnds
<1>2. /\ voice' \in [VoiceId -> {"free", "sounding", "looping", "stopping", "silent", "reported"}]
      /\ StartedVoices' = StartedVoices /\ Unreported' = Unreported
  BY <1>1, VoiceChanges
<1>3. /\ AskedLoads' = AskedLoads /\ OwedLoads' = OwedLoads /\ EndedLoads' = EndedLoads
  BY <1>1, LoadsRest
<1>4. AudioTyped'
  BY <1>1, <1>2 DEF AudioInv, AudioTyped
<1>5. NumberedInTurn' /\ VoicesAreCounted' /\ LoadsAreCounted' /\ PlaysGoOn' /\ ElementIsReal'
  BY <1>1, <1>2, <1>3 DEF AudioInv, NumberedInTurn, VoicesAreCounted, LoadsAreCounted, PlaysGoOn,
                          ElementIsReal
<1>6. QED BY <1>4, <1>5 DEF AudioInv

\* A silenced source is still one whose end is to be told.
LEMMA SilencedAudio ==
  ASSUME AudioInv, voice' = Silenced
  PROVE  /\ voice' \in [VoiceId -> {"free", "sounding", "looping", "stopping", "silent",
                                    "reported"}]
         /\ StartedVoices' = StartedVoices /\ Unreported' = Unreported
<1>1. CASE media.source # 0 /\ voice[media.source] \in {"sounding", "looping"}
  BY <1>1, VoiceChanges DEF AudioInv, AudioTyped, Silenced
<1>2. CASE ~(media.source # 0 /\ voice[media.source] \in {"sounding", "looping"})
  BY <1>2, VoicesRest DEF Silenced, AudioInv, AudioTyped
<1>3. QED BY <1>1, <1>2

\* The sources of which none changed its standing.
LEMMA VoicesKeep ==
  ASSUME AudioInv, UNCHANGED <<playingCount, liveSources>>,
         StartedVoices' = StartedVoices, Unreported' = Unreported
  PROVE  VoicesAreCounted' /\ \E n \in 0 .. MaxVoices : StartedVoices' = 1 .. n
  BY DEF AudioInv, VoicesAreCounted, NumberedInTurn


\* A play asks for a load that is owed, or takes the one its element asked for, and
\* waits for its promise.
LEMMA PlayWaits ==
  ASSUME AudioInv, NEW l \in LoadId, NEW refused \in BOOLEAN, NEW element,
         element \in {media, Quieted}, UNCHANGED <<decoded, src>>,
         AskFor(l, refused, element), AwaitLoad(l, refused)
  PROVE  /\ media' \in [buffer : Sounds \cup {"none"}, source : VoiceId \cup {0}, paused : BOOLEAN,
                        over : BOOLEAN, loop : BOOLEAN, loading : LoadId \cup {0}, since : Nat]
         /\ media'.source = element.source /\ media'.paused = element.paused
         /\ loads' \in [LoadId -> [of : Sounds, at : {"free", "working", "queued", "settled"}]]
         /\ awaiting' \in [LoadId -> Nat] /\ micro' \in Seq(LoadId \X BOOLEAN)
         /\ media'.loading # 0 => media'.loading \in AskedLoads'
         /\ \E n \in 0 .. MaxLoads : AskedLoads' = 1 .. n
         /\ LoadsAreCounted' /\ PlaysGoOn'
<1> DEFINE MediaTyped(m) ==
             m \in [buffer : Sounds \cup {"none"}, source : VoiceId \cup {0}, paused : BOOLEAN,
                    over : BOOLEAN, loop : BOOLEAN, loading : LoadId \cup {0}, since : Nat]
           shared == media.loading # 0 /\ loads[media.loading].of = src
           at == IF refused THEN "settled" ELSE "working"
<1>1. MediaTyped(element) /\ element.loading = media.loading
  BY DEF AudioInv, AudioTyped, Quieted
<1>2. /\ loads \in [LoadId -> [of : Sounds, at : {"free", "working", "queued", "settled"}]]
      /\ awaiting \in [LoadId -> Nat] /\ micro \in Seq(LoadId \X BOOLEAN) /\ src \in Sounds
      /\ 0 \notin LoadId
  BY DEF AudioInv, AudioTyped, LoadId
<1>3. awaiting' = [awaiting EXCEPT ![l] = @ + 1]
  BY DEF AwaitLoad
<1>4. micro' = IF loads'[l].at = "settled" /\ \A i \in DOMAIN micro : micro[i][1] # l
               THEN Append(micro, <<l, ~refused>>) ELSE micro
  BY DEF AwaitLoad
<1>5. awaiting' \in [LoadId -> Nat] /\ \A k \in LoadId : k # l => awaiting'[k] = awaiting[k]
  BY <1>2, <1>3
<1>6. <<l, ~refused>> \in LoadId \X BOOLEAN
  OBVIOUS
<1>7. Append(micro, <<l, ~refused>>) \in Seq(LoadId \X BOOLEAN)
  BY <1>2, <1>6
<1>8. micro' \in Seq(LoadId \X BOOLEAN)
  BY <1>2, <1>4, <1>7
<1>9. ASSUME NEW k \in LoadId, \E i \in DOMAIN micro : micro[i][1] = k
      PROVE  \E i \in DOMAIN micro' : micro'[i][1] = k
  <2>1. CASE micro' = micro
    BY <2>1, <1>9
  <2>2. CASE micro' = Append(micro, <<l, ~refused>>)
    <3>1. PICK i \in DOMAIN micro : micro[i][1] = k
      BY <1>9
    <3>2. i \in DOMAIN micro' /\ micro'[i] = micro[i]
      BY <2>2, <3>1, <1>2, <1>6
    <3>3. QED BY <3>1, <3>2
  <2>3. QED BY <1>4, <2>1, <2>2
<1>10. loads'[l].at = "settled" => \E i \in DOMAIN micro' : micro'[i][1] = l
  <2>1. CASE loads'[l].at = "settled" /\ \A i \in DOMAIN micro : micro[i][1] # l
    BY <1>4, <2>1, <1>2, <1>6
  <2>2. CASE loads'[l].at = "settled" /\ ~\A i \in DOMAIN micro : micro[i][1] # l
    BY <2>2, <1>9
  <2>3. QED BY <2>1, <2>2
<1>11. CASE shared
  <2>1. l = media.loading /\ media' = element /\ UNCHANGED <<loads, owing>>
    BY <1>11 DEF AskFor
  <2>2. AskedLoads' = AskedLoads /\ OwedLoads' = OwedLoads /\ EndedLoads' = EndedLoads
    BY <2>1, LoadsRest
  <2>3. l \in AskedLoads
    BY <2>1, <1>2 DEF AudioInv, ElementIsReal
  <2>4. l \in OwedLoads \/ loads[l].at = "settled"
    BY <2>3, <1>2 DEF AskedLoads, OwedLoads
  <2>5. PlaysGoOn'
    BY <2>1, <2>2, <2>4, <1>10, <1>5, <1>9 DEF AudioInv, PlaysGoOn
  <2>6. LoadsAreCounted' /\ \E n \in 0 .. MaxLoads : AskedLoads' = 1 .. n
    BY <2>1, <2>2 DEF AudioInv, LoadsAreCounted, NumberedInTurn
  <2>7. QED BY <2>1, <2>2, <2>3, <2>5, <2>6, <1>1, <1>2, <1>5, <1>8
<1>12. CASE ~shared
  <2>1. /\ l = LoadCount + 1 /\ loads' = [loads EXCEPT ![l] = [of |-> src, at |-> at]]
        /\ owing' = owing + (IF refused THEN 0 ELSE 1)
        /\ media' = [element EXCEPT !.loading = l]
    BY <1>12 DEF AskFor
  <2>2. /\ l \notin AskedLoads /\ loads[l].at = "free"
        /\ \E n \in 0 .. MaxLoads : AskedLoads \cup {l} = 1 .. n
    BY <2>1, NextIsFree
  <2>3. at \in {"working", "settled"}
    OBVIOUS
  <2> DEFINE entry == [of |-> src, at |-> at]
  <2>4. /\ entry \in [of : Sounds, at : {"free", "working", "queued", "settled"}]
        /\ entry.at = at
    BY <2>3, <1>2
  <2>5. loads' = [loads EXCEPT ![l] = entry]
    BY <2>1
  <2> HIDE DEF entry
  <2>6. loads' \in [LoadId -> [of : Sounds, at : {"free", "working", "queued", "settled"}]]
    BY <2>4, <2>5, <1>2
  <2>7. loads'[l].at = at /\ \A k \in LoadId : k # l => loads'[k] = loads[k]
    BY <2>4, <2>5, <1>2
  <2>8. AskedLoads' = AskedLoads \cup {l}
    BY <2>7, <2>3 DEF AskedLoads
  <2>9. EndedLoads' = EndedLoads
    BY <2>7, <2>3, <2>2 DEF EndedLoads
  <2>10. OwedLoads' = IF refused THEN OwedLoads ELSE OwedLoads \cup {l}
    BY <2>7, <2>2 DEF OwedLoads
  <2>11. LoadsAreCounted'
    <3>1. l \notin OwedLoads /\ IsFiniteSet(OwedLoads)
      BY <2>2, SoundsAreFinite DEF OwedLoads
    <3>2. owing = Cardinality(OwedLoads)
      BY DEF AudioInv, LoadsAreCounted
    <3>3. Cardinality(OwedLoads \cup {l}) = Cardinality(OwedLoads) + 1
      BY <3>1, FS_AddElement
    <3>4. Cardinality(OwedLoads) \in Nat
      BY SoundsAreFinite DEF OwedLoads
    <3>5. owing' = Cardinality(OwedLoads')
      BY <2>1, <2>10, <3>2, <3>3, <3>4
    <3>6. QED BY <2>9, <3>5 DEF AudioInv, LoadsAreCounted
  <2>12. PlaysGoOn'
    BY <2>7, <2>10, <1>10, <1>5, <1>9 DEF AudioInv, PlaysGoOn
  <2>13. MediaTyped(media') /\ media'.source = element.source /\ media'.paused = element.paused
         /\ media'.loading = l
    BY <2>1, <1>1
  <2>14. l \in AskedLoads' /\ \E n \in 0 .. MaxLoads : AskedLoads' = 1 .. n
    BY <2>2, <2>8
  <2> HIDE DEF MediaTyped
  <2>15. MediaTyped(media') /\ media'.source = element.source /\ media'.paused = element.paused
    BY <2>13
  <2>16. media'.loading # 0 => media'.loading \in AskedLoads'
    BY <2>13, <2>14
  <2> USE DEF MediaTyped
  <2>17. QED BY <2>6, <2>11, <2>12, <2>14, <2>15, <2>16, <1>5, <1>8
<1>13. QED BY <1>11, <1>12

\* play() keeps the invariant.
LEMMA PlayAudio == ASSUME AudioInv, PlayMedia PROVE AudioInv'
<1>1. UNCHANGED <<voice, decoded, playingCount, liveSources, src>> /\ media.paused
  BY DEF PlayMedia
<1>2. PICK l \in LoadId, refused \in BOOLEAN : AskFor(l, refused, media) /\ AwaitLoad(l, refused)
  BY DEF PlayMedia
<1>3. /\ media' \in [buffer : Sounds \cup {"none"}, source : VoiceId \cup {0}, paused : BOOLEAN,
                     over : BOOLEAN, loop : BOOLEAN, loading : LoadId \cup {0}, since : Nat]
      /\ media'.source = media.source /\ media'.paused = media.paused
      /\ loads' \in [LoadId -> [of : Sounds, at : {"free", "working", "queued", "settled"}]]
      /\ awaiting' \in [LoadId -> Nat] /\ micro' \in Seq(LoadId \X BOOLEAN)
      /\ media'.loading # 0 => media'.loading \in AskedLoads'
      /\ \E n \in 0 .. MaxLoads : AskedLoads' = 1 .. n
      /\ LoadsAreCounted' /\ PlaysGoOn'
  BY <1>1, <1>2, PlayWaits
<1>4. StartedVoices' = StartedVoices /\ Unreported' = Unreported
  BY <1>1, VoicesRest
<1>5. AudioTyped'
  BY <1>1, <1>3 DEF AudioInv, AudioTyped
<1>6. VoicesAreCounted' /\ NumberedInTurn'
  BY <1>1, <1>3, <1>4 DEF AudioInv, VoicesAreCounted, NumberedInTurn
<1>7. ElementIsReal'
  BY <1>3, <1>4 DEF AudioInv, ElementIsReal
<1>8. QED BY <1>3, <1>5, <1>6, <1>7 DEF AudioInv

\* A pause and a play keep the invariant.
LEMMA SeekAudio == ASSUME AudioInv, Seek PROVE AudioInv'
<1>1. UNCHANGED <<decoded, playingCount, liveSources, src>> /\ voice' = Silenced
  BY DEF Seek
<1>2. PICK l \in LoadId, refused \in BOOLEAN : AskFor(l, refused, Quieted) /\ AwaitLoad(l, refused)
  BY DEF Seek
<1>3. /\ media' \in [buffer : Sounds \cup {"none"}, source : VoiceId \cup {0}, paused : BOOLEAN,
                     over : BOOLEAN, loop : BOOLEAN, loading : LoadId \cup {0}, since : Nat]
      /\ media'.source = Quieted.source /\ media'.paused = Quieted.paused
      /\ loads' \in [LoadId -> [of : Sounds, at : {"free", "working", "queued", "settled"}]]
      /\ awaiting' \in [LoadId -> Nat] /\ micro' \in Seq(LoadId \X BOOLEAN)
      /\ media'.loading # 0 => media'.loading \in AskedLoads'
      /\ \E n \in 0 .. MaxLoads : AskedLoads' = 1 .. n
      /\ LoadsAreCounted' /\ PlaysGoOn'
  BY <1>1, <1>2, PlayWaits
<1>4. Quieted.source = 0 /\ Quieted.paused = TRUE
  BY DEF Quieted, AudioInv, AudioTyped
<1>5. /\ voice' \in [VoiceId -> {"free", "sounding", "looping", "stopping", "silent", "reported"}]
      /\ StartedVoices' = StartedVoices /\ Unreported' = Unreported
  BY <1>1, SilencedAudio
<1>6. VoicesAreCounted' /\ \E n \in 0 .. MaxVoices : StartedVoices' = 1 .. n
  BY <1>1, <1>5, VoicesKeep
<1>7. AudioTyped'
  BY <1>1, <1>3, <1>5 DEF AudioInv, AudioTyped
<1>8. 0 \notin Unreported
  BY DEF Unreported, VoiceId
<1>9. media'.source = 0 /\ media'.paused = TRUE
  BY <1>3, <1>4
<1>10. ElementIsReal'
  BY <1>3, <1>5, <1>8, <1>9 DEF ElementIsReal
<1>11. QED BY <1>3, <1>6, <1>7, <1>10 DEF AudioInv, NumberedInTurn

\* pause() keeps the invariant.
LEMMA PauseAudio == ASSUME AudioInv, Pause PROVE AudioInv'
<1>1. /\ UNCHANGED <<loads, decoded, playingCount, owing, liveSources, micro, awaiting, src>>
      /\ voice' = Silenced /\ media' = Quieted
  BY DEF Pause
<1>2. /\ voice' \in [VoiceId -> {"free", "sounding", "looping", "stopping", "silent", "reported"}]
      /\ StartedVoices' = StartedVoices /\ Unreported' = Unreported
  BY <1>1, SilencedAudio
<1>3. VoicesAreCounted' /\ \E n \in 0 .. MaxVoices : StartedVoices' = 1 .. n
  BY <1>1, <1>2, VoicesKeep
<1>4. AskedLoads' = AskedLoads /\ OwedLoads' = OwedLoads /\ EndedLoads' = EndedLoads
  BY <1>1, LoadsRest
<1>5. /\ media'.source = 0 /\ media'.paused = TRUE /\ media'.loading = media.loading
      /\ media' \in [buffer : Sounds \cup {"none"}, source : VoiceId \cup {0}, paused : BOOLEAN,
                     over : BOOLEAN, loop : BOOLEAN, loading : LoadId \cup {0}, since : Nat]
  BY <1>1 DEF Quieted, AudioInv, AudioTyped
<1>6. AudioTyped'
  BY <1>1, <1>2, <1>5 DEF AudioInv, AudioTyped
<1>7. 0 \notin Unreported
  BY DEF Unreported, VoiceId
<1>8. ElementIsReal'
  BY <1>2, <1>4, <1>5, <1>7 DEF AudioInv, ElementIsReal
<1>9. LoadsAreCounted' /\ PlaysGoOn' /\ NumberedInTurn'
  BY <1>1, <1>3, <1>4 DEF AudioInv, LoadsAreCounted, PlaysGoOn, NumberedInTurn
<1>10. QED BY <1>3, <1>6, <1>8, <1>9 DEF AudioInv

\* Another src, with or without a new state of the element, keeps the invariant.
LEMMA SourceAudio == ASSUME AudioInv, SetSource PROVE AudioInv'
<1>1. /\ UNCHANGED <<voice, loads, decoded, playingCount, owing, liveSources, micro, awaiting>>
      /\ src' \in Sounds /\ media' \in {media, FreshMedia(LoadCount)}
  BY DEF SetSource
<1>2. StartedVoices' = StartedVoices /\ Unreported' = Unreported
  BY <1>1, VoicesRest
<1>3. AskedLoads' = AskedLoads /\ OwedLoads' = OwedLoads /\ EndedLoads' = EndedLoads
  BY <1>1, LoadsRest
<1>4. LoadCount \in Nat
  BY NextIsFree
<1>5. /\ media' \in [buffer : Sounds \cup {"none"}, source : VoiceId \cup {0}, paused : BOOLEAN,
                     over : BOOLEAN, loop : BOOLEAN, loading : LoadId \cup {0}, since : Nat]
      /\ \/ media' = media
         \/ media'.source = 0 /\ media'.paused = TRUE /\ media'.loading = 0
  <2>1. /\ FreshMedia(LoadCount).source = 0 /\ FreshMedia(LoadCount).paused = TRUE
        /\ FreshMedia(LoadCount).loading = 0
        /\ FreshMedia(LoadCount) \in
             [buffer : Sounds \cup {"none"}, source : VoiceId \cup {0}, paused : BOOLEAN,
              over : BOOLEAN, loop : BOOLEAN, loading : LoadId \cup {0}, since : Nat]
    BY <1>4 DEF FreshMedia
  <2>2. CASE media' = media
    BY <2>2 DEF AudioInv, AudioTyped
  <2>3. CASE media' = FreshMedia(LoadCount)
    BY <2>1, <2>3
  <2>4. QED BY <1>1, <2>2, <2>3
<1>6. AudioTyped'
  BY <1>1, <1>5 DEF AudioInv, AudioTyped
<1>7. 0 \notin Unreported
  BY DEF Unreported, VoiceId
<1>8. ElementIsReal'
  BY <1>2, <1>3, <1>5, <1>7 DEF AudioInv, ElementIsReal
<1>9. VoicesAreCounted' /\ LoadsAreCounted' /\ PlaysGoOn' /\ NumberedInTurn'
  BY <1>1, <1>2, <1>3 DEF AudioInv, VoicesAreCounted, LoadsAreCounted, PlaysGoOn, NumberedInTurn
<1>10. QED BY <1>6, <1>8, <1>9 DEF AudioInv

\* loop set, while it plays or not, keeps the invariant.
LEMMA LoopAudio == ASSUME AudioInv, SetLoop PROVE AudioInv'
<1>1. /\ UNCHANGED <<loads, decoded, playingCount, owing, liveSources, micro, awaiting, src>>
      /\ media' = [media EXCEPT !.loop = ~@]
  BY DEF SetLoop
<1>2. /\ media'.source = media.source /\ media'.paused = media.paused
      /\ media'.loading = media.loading
      /\ media' \in [buffer : Sounds \cup {"none"}, source : VoiceId \cup {0}, paused : BOOLEAN,
                     over : BOOLEAN, loop : BOOLEAN, loading : LoadId \cup {0}, since : Nat]
  BY <1>1 DEF AudioInv, AudioTyped
<1>3. /\ voice' \in [VoiceId -> {"free", "sounding", "looping", "stopping", "silent", "reported"}]
      /\ StartedVoices' = StartedVoices /\ Unreported' = Unreported
  <2>1. CASE media.source # 0 /\ voice[media.source] \in {"sounding", "looping"}
    <3> DEFINE hears == IF media.loop THEN "sounding" ELSE "looping"
    <3>1. media.source \in VoiceId
      BY <2>1 DEF AudioInv, AudioTyped
    <3>2. voice' = [voice EXCEPT ![media.source] = hears]
      BY <2>1 DEF SetLoop
    <3>3. hears \in {"sounding", "looping", "stopping", "silent"}
      OBVIOUS
    <3> HIDE DEF hears
    <3>4. QED BY <2>1, <3>1, <3>2, <3>3, VoiceChanges
  <2>2. CASE ~(media.source # 0 /\ voice[media.source] \in {"sounding", "looping"})
    BY <2>2, VoicesRest DEF SetLoop, AudioInv, AudioTyped
  <2>3. QED BY <2>1, <2>2
<1>4. VoicesAreCounted' /\ \E n \in 0 .. MaxVoices : StartedVoices' = 1 .. n
  BY <1>1, <1>3, VoicesKeep
<1>5. AskedLoads' = AskedLoads /\ OwedLoads' = OwedLoads /\ EndedLoads' = EndedLoads
  BY <1>1, LoadsRest
<1>6. AudioTyped'
  BY <1>1, <1>2, <1>3 DEF AudioInv, AudioTyped
<1>7. ElementIsReal' /\ LoadsAreCounted' /\ PlaysGoOn' /\ NumberedInTurn'
  BY <1>1, <1>2, <1>3, <1>4, <1>5
     DEF AudioInv, LoadsAreCounted, PlaysGoOn, NumberedInTurn, ElementIsReal
<1>8. QED BY <1>4, <1>6, <1>7 DEF AudioInv


\* A load that ends waits for the poll, once.
LEMMA LoadAudio == ASSUME AudioInv, NEW l \in LoadId, LoadEnds(l) PROVE AudioInv'
<1>1. /\ UNCHANGED <<voice, playingCount, owing, liveSources, micro, awaiting, src, media>>
      /\ loads[l].at = "working" /\ loads' = [loads EXCEPT ![l].at = "queued"]
  BY DEF LoadEnds
<1>2. PICK ok \in BOOLEAN : decoded' = Append(decoded, <<l, ok>>)
  BY DEF LoadEnds
<1>3. /\ loads \in [LoadId -> [of : Sounds, at : {"free", "working", "queued", "settled"}]]
      /\ decoded \in Seq(LoadId \X BOOLEAN)
  BY DEF AudioInv, AudioTyped
<1>4. /\ loads' \in [LoadId -> [of : Sounds, at : {"free", "working", "queued", "settled"}]]
      /\ loads'[l].at = "queued" /\ \A k \in LoadId : k # l => loads'[k] = loads[k]
  BY <1>1, <1>3
<1>5. <<l, ok>> \in LoadId \X BOOLEAN
  OBVIOUS
<1>6. /\ decoded' \in Seq(LoadId \X BOOLEAN) /\ Len(decoded') = Len(decoded) + 1
      /\ DOMAIN decoded' = 1 .. (Len(decoded) + 1) /\ DOMAIN decoded = 1 .. Len(decoded)
      /\ \A i \in DOMAIN decoded : decoded'[i] = decoded[i]
      /\ decoded'[Len(decoded) + 1] = <<l, ok>> /\ Len(decoded) \in Nat
  BY <1>2, <1>3, <1>5
<1>7. AskedLoads' = AskedLoads /\ OwedLoads' = OwedLoads
  BY <1>1, <1>4 DEF AskedLoads, OwedLoads
<1>8. EndedLoads' = EndedLoads \cup {l} /\ l \notin EndedLoads
  BY <1>1, <1>4 DEF EndedLoads
<1>9. LoadsAreCounted'
  <2>1. Cardinality(EndedLoads \cup {l}) = Cardinality(EndedLoads) + 1
    BY <1>8, SoundsAreFinite, FS_AddElement DEF EndedLoads
  <2>2. Len(decoded) = Cardinality(EndedLoads) /\ owing = Cardinality(OwedLoads)
    BY DEF AudioInv, LoadsAreCounted
  <2>3. ASSUME NEW k \in EndedLoads' PROVE \E i \in DOMAIN decoded' : decoded'[i][1] = k
    <3>1. CASE k = l
      BY <1>6, <3>1
    <3>2. CASE k # l
      <4>1. PICK i \in DOMAIN decoded : decoded[i][1] = k
        BY <3>2, <1>8, <2>3 DEF AudioInv, LoadsAreCounted
      <4>2. i \in DOMAIN decoded' /\ decoded'[i] = decoded[i]
        BY <4>1, <1>6
      <4>3. QED BY <4>1, <4>2
    <3>3. QED BY <3>1, <3>2
  <2>4. QED BY <1>1, <1>6, <1>7, <1>8, <2>1, <2>2, <2>3 DEF LoadsAreCounted
<1>10. StartedVoices' = StartedVoices /\ Unreported' = Unreported
  BY <1>1, VoicesRest
<1>11. AudioTyped'
  BY <1>1, <1>4, <1>6 DEF AudioInv, AudioTyped
<1>12. NumberedInTurn' /\ VoicesAreCounted' /\ ElementIsReal' /\ PlaysGoOn'
  BY <1>1, <1>7, <1>10
     DEF AudioInv, NumberedInTurn, VoicesAreCounted, ElementIsReal, PlaysGoOn
<1>13. QED BY <1>9, <1>11, <1>12 DEF AudioInv

\* The poll of a frame tells of every load and source that is over, once.
LEMMA SettleAudioKeeps == ASSUME AudioInv, SettleAudio PROVE AudioInv'
<1>1. /\ micro = <<>> /\ micro' = decoded /\ decoded' = <<>>
      /\ owing' = owing - Len(decoded)
      /\ loads' = [l \in LoadId |-> IF loads[l].at = "queued"
                                    THEN [loads[l] EXCEPT !.at = "settled"] ELSE loads[l]]
      /\ playingCount' = playingCount - Cardinality(JustOver)
      /\ voice' = [v \in VoiceId |-> IF v \in JustOver THEN "reported" ELSE voice[v]]
      /\ liveSources' = liveSources \ JustOver
      /\ UNCHANGED <<soundClock, awaiting, src>>
  BY DEF SettleAudio, PollHost
<1>2. media' = IF \E v \in JustOver : HearsEnd(v)
               THEN [media EXCEPT !.over = TRUE, !.paused = TRUE] ELSE media
  BY DEF SettleAudio
<1>3. /\ voice \in [VoiceId -> {"free", "sounding", "looping", "stopping", "silent", "reported"}]
      /\ loads \in [LoadId -> [of : Sounds, at : {"free", "working", "queued", "settled"}]]
      /\ decoded \in Seq(LoadId \X BOOLEAN)
      /\ media \in [buffer : Sounds \cup {"none"}, source : VoiceId \cup {0}, paused : BOOLEAN,
                    over : BOOLEAN, loop : BOOLEAN, loading : LoadId \cup {0}, since : Nat]
  BY DEF AudioInv, AudioTyped
<1>4. voice' \in [VoiceId -> {"free", "sounding", "looping", "stopping", "silent", "reported"}]
  BY <1>1, <1>3
<1>5. StartedVoices' = StartedVoices /\ Unreported' = Unreported \ JustOver
  BY <1>1, <1>3 DEF StartedVoices, Unreported, JustOver
<1>6. JustOver \subseteq Unreported
  BY DEF JustOver, Unreported
<1>7. VoicesAreCounted'
  <2>1. Cardinality(Unreported \ JustOver) =
          Cardinality(Unreported) - Cardinality(Unreported \cap JustOver)
    BY SoundsAreFinite, FS_Difference DEF Unreported
  <2>2. Unreported \cap JustOver = JustOver
    BY <1>6
  <2>3. QED BY <1>1, <1>5, <2>1, <2>2 DEF AudioInv, VoicesAreCounted
<1>8. /\ loads' \in [LoadId -> [of : Sounds, at : {"free", "working", "queued", "settled"}]]
      /\ \A l \in LoadId : loads'[l].at = IF loads[l].at = "queued" THEN "settled" ELSE loads[l].at
  BY <1>1, <1>3
<1>9. /\ AskedLoads' = AskedLoads /\ OwedLoads' = OwedLoads \ EndedLoads /\ EndedLoads' = {}
      /\ EndedLoads \subseteq OwedLoads
  BY <1>8 DEF AskedLoads, OwedLoads, EndedLoads
<1>10. LoadsAreCounted'
  <2>1. Cardinality(OwedLoads \ EndedLoads) =
          Cardinality(OwedLoads) - Cardinality(OwedLoads \cap EndedLoads)
    BY SoundsAreFinite, FS_Difference DEF OwedLoads
  <2>2. OwedLoads \cap EndedLoads = EndedLoads
    BY <1>9
  <2>3. owing' = Cardinality(OwedLoads')
    BY <1>1, <1>9, <2>1, <2>2 DEF AudioInv, LoadsAreCounted
  <2>4. Len(decoded') = Cardinality(EndedLoads')
    BY <1>1, <1>9, FS_EmptySet
  <2>5. QED BY <1>9, <2>3, <2>4 DEF LoadsAreCounted
<1>11. PlaysGoOn'
  BY <1>1, <1>9 DEF AudioInv, PlaysGoOn, LoadsAreCounted
<1>12. /\ media'.source = media.source /\ media'.loading = media.loading
       /\ media'.paused = (media.paused \/ \E v \in JustOver : HearsEnd(v))
       /\ media' \in [buffer : Sounds \cup {"none"}, source : VoiceId \cup {0}, paused : BOOLEAN,
                      over : BOOLEAN, loop : BOOLEAN, loading : LoadId \cup {0}, since : Nat]
  BY <1>2, <1>3
<1>13. AudioTyped'
  BY <1>1, <1>4, <1>8, <1>12 DEF AudioInv, AudioTyped
<1>14. ElementIsReal'
  BY <1>5, <1>6, <1>12, <1>9 DEF AudioInv, ElementIsReal, HearsEnd
<1>15. NumberedInTurn'
  BY <1>5, <1>9 DEF AudioInv, NumberedInTurn
<1>16. QED BY <1>7, <1>10, <1>11, <1>13, <1>14, <1>15 DEF AudioInv

\* What a load's promise leaves of the element, whatever became of it.
LEMMA ReceivedIsMedia ==
  ASSUME AudioInv, NEW l \in LoadId, NEW ok \in BOOLEAN
  PROVE  /\ Received(l, ok) \in
              [buffer : Sounds \cup {"none"}, source : VoiceId \cup {0}, paused : BOOLEAN,
               over : BOOLEAN, loop : BOOLEAN, loading : LoadId \cup {0}, since : Nat]
         /\ Received(l, ok).source = media.source /\ Received(l, ok).paused = media.paused
         /\ Received(l, ok).loading \in {media.loading, 0}
<1>1. /\ loads[l].of \in Sounds
      /\ media \in [buffer : Sounds \cup {"none"}, source : VoiceId \cup {0}, paused : BOOLEAN,
                    over : BOOLEAN, loop : BOOLEAN, loading : LoadId \cup {0}, since : Nat]
  BY DEF AudioInv, AudioTyped
<1>2. CASE l <= media.since
  BY <1>1, <1>2 DEF Received
<1>3. CASE ~(l <= media.since) /\ ok
  BY <1>1, <1>3 DEF Received
<1>4. CASE ~(l <= media.since) /\ ~ok
  BY <1>1, <1>4 DEF Received
<1>5. QED BY <1>2, <1>3, <1>4

\* The promise of a load goes on: a play starts a source of its own, or the last has.
LEMMA ContinueAudio == ASSUME AudioInv, Continue PROVE AudioInv'
<1> DEFINE l == micro[1][1]
           ok == micro[1][2]
<1>1. micro # <<>> /\ UNCHANGED <<soundClock, loads, decoded, owing, src>>
  BY DEF Continue
<1>2. micro \in Seq(LoadId \X BOOLEAN)
  BY DEF AudioInv, AudioTyped
<1>3. micro[1] \in LoadId \X BOOLEAN /\ Len(micro) \in Nat \ {0} /\ DOMAIN micro = 1 .. Len(micro)
  BY <1>1, <1>2
<1>4. l \in LoadId /\ ok \in BOOLEAN
  BY <1>3
<1>5. \/ /\ ok /\ awaiting[l] > 0 /\ StartVoice(NextVoice, media.loop)
         /\ media' = [Received(l, ok) EXCEPT !.source = NextVoice, !.paused = FALSE, !.over = FALSE]
         /\ awaiting' = [awaiting EXCEPT ![l] = @ - 1] /\ UNCHANGED micro
      \/ /\ media' = Received(l, ok) /\ awaiting' = [awaiting EXCEPT ![l] = 0]
         /\ micro' = Tail(micro) /\ UNCHANGED <<voice, liveSources, playingCount>>
  BY DEF Continue
<1>6. AskedLoads' = AskedLoads /\ OwedLoads' = OwedLoads /\ EndedLoads' = EndedLoads
  BY <1>1, LoadsRest
<1>7. LoadsAreCounted' /\ \E n \in 0 .. MaxLoads : AskedLoads' = 1 .. n
  BY <1>1, <1>6 DEF AudioInv, LoadsAreCounted, NumberedInTurn
<1> DEFINE r == Received(l, ok)
<1>8. /\ r \in [buffer : Sounds \cup {"none"}, source : VoiceId \cup {0}, paused : BOOLEAN,
                over : BOOLEAN, loop : BOOLEAN, loading : LoadId \cup {0}, since : Nat]
      /\ r.source = media.source /\ r.paused = media.paused /\ r.loading \in {media.loading, 0}
  <2> HIDE DEF l, ok
  <2>1. QED BY <1>4, ReceivedIsMedia
<1>9. awaiting \in [LoadId -> Nat]
  BY DEF AudioInv, AudioTyped
<1>10. micro[1][1] = l
  OBVIOUS
<1> HIDE DEF l, ok, r
<1>11. CASE /\ ok /\ awaiting[l] > 0 /\ StartVoice(NextVoice, media.loop)
            /\ media' = [r EXCEPT !.source = NextVoice, !.paused = FALSE, !.over = FALSE]
            /\ awaiting' = [awaiting EXCEPT ![l] = @ - 1] /\ UNCHANGED micro
  <2>1. media.loop \in BOOLEAN
    BY DEF AudioInv, AudioTyped
  <2>2. /\ voice' \in [VoiceId -> {"free", "sounding", "looping", "stopping", "silent",
                                   "reported"}]
        /\ NextVoice \in VoiceId \ StartedVoices
        /\ StartedVoices' = StartedVoices \cup {NextVoice}
        /\ Unreported' = Unreported \cup {NextVoice}
        /\ \E n \in 0 .. MaxVoices : StartedVoices' = 1 .. n
        /\ VoicesAreCounted'
    BY <1>11, <2>1, VoiceStarts
  <2>3. /\ media' \in [buffer : Sounds \cup {"none"}, source : VoiceId \cup {0}, paused : BOOLEAN,
                       over : BOOLEAN, loop : BOOLEAN, loading : LoadId \cup {0}, since : Nat]
        /\ media'.source = NextVoice /\ media'.paused = FALSE /\ media'.loading = r.loading
    BY <1>8, <1>11, <2>2
  <2>4. awaiting' \in [LoadId -> Nat] /\ \A k \in LoadId : awaiting'[k] <= awaiting[k]
    BY <1>4, <1>9, <1>11
  <2>5. PlaysGoOn'
    BY <1>6, <1>9, <1>11, <2>4 DEF AudioInv, PlaysGoOn
  <2>6. ElementIsReal'
    BY <1>6, <1>8, <2>2, <2>3 DEF AudioInv, ElementIsReal
  <2>7. AudioTyped'
    BY <1>1, <1>11, <2>2, <2>3, <2>4 DEF AudioInv, AudioTyped
  <2>8. QED BY <1>7, <2>2, <2>5, <2>6, <2>7 DEF AudioInv, NumberedInTurn
<1>12. CASE /\ media' = r /\ awaiting' = [awaiting EXCEPT ![l] = 0]
            /\ micro' = Tail(micro) /\ UNCHANGED <<voice, liveSources, playingCount>>
  <2>1. StartedVoices' = StartedVoices /\ Unreported' = Unreported
    BY <1>12, VoicesRest
  <2>2. awaiting' \in [LoadId -> Nat] /\ awaiting'[l] = 0
        /\ \A k \in LoadId : k # l => awaiting'[k] = awaiting[k]
    BY <1>4, <1>9, <1>12
  <2>3. /\ micro' \in Seq(LoadId \X BOOLEAN) /\ DOMAIN micro' = 1 .. (Len(micro) - 1)
        /\ \A i \in 1 .. (Len(micro) - 1) : micro'[i] = micro[i + 1]
    BY <1>2, <1>3, <1>12
  <2>4. PlaysGoOn'
    <3>1. ASSUME NEW k \in LoadId, awaiting'[k] > 0
          PROVE  k \in OwedLoads' \/ \E i \in DOMAIN micro' : micro'[i][1] = k
      <4>1. k # l
        BY <2>2, <3>1
      <4>2. CASE k \in OwedLoads
        BY <4>2, <1>6
      <4>3. CASE k \notin OwedLoads
        <5>1. PICK i \in DOMAIN micro : micro[i][1] = k
          BY <4>1, <4>3, <3>1, <2>2 DEF AudioInv, PlaysGoOn
        <5>2. i \in 1 .. Len(micro) /\ i # 1
          BY <5>1, <4>1, <1>3, <1>10
        <5>3. i - 1 \in 1 .. (Len(micro) - 1) /\ (i - 1) + 1 = i
          BY <5>2, <1>3
        <5>4. i - 1 \in DOMAIN micro' /\ micro'[i - 1] = micro[i]
          BY <5>3, <2>3
        <5>5. QED BY <5>1, <5>4
      <4>4. QED BY <4>2, <4>3
    <3>2. QED BY <3>1 DEF PlaysGoOn
  <2>5. ElementIsReal'
    BY <1>6, <1>8, <1>12, <2>1 DEF AudioInv, ElementIsReal
  <2>6. AudioTyped'
    BY <1>1, <1>8, <1>12, <2>2, <2>3 DEF AudioInv, AudioTyped
  <2>7. VoicesAreCounted' /\ NumberedInTurn'
    BY <1>7, <1>12, <2>1 DEF AudioInv, VoicesAreCounted, NumberedInTurn
  <2>8. QED BY <1>7, <2>4, <2>5, <2>6, <2>7 DEF AudioInv
<1>13. QED BY <1>5, <1>11, <1>12 DEF r

\* Every step keeps the invariant.
LEMMA AudioKept == AudioInv /\ [AudioNext]_audioVars => AudioInv'
<1> SUFFICES ASSUME AudioInv, [AudioNext]_audioVars PROVE AudioInv'
  OBVIOUS
<1>1. ASSUME UNCHANGED <<voice, loads, decoded, playingCount, owing, liveSources, micro,
                         awaiting, src, media>>
      PROVE  AudioInv'
  BY <1>1, LoadsRest, VoicesRest DEF AudioInv, AudioTyped, NumberedInTurn, VoicesAreCounted,
     LoadsAreCounted, ElementIsReal, PlaysGoOn
<1>2. CASE SetClock
  BY <1>1, <1>2 DEF SetClock
<1>3. CASE UNCHANGED audioVars
  BY <1>1, <1>3 DEF audioVars
<1>4. ASSUME NEW v \in VoiceId, VoiceEnds(v) PROVE AudioInv'
  BY <1>4, EndAudio
<1>5. ASSUME NEW l \in LoadId, LoadEnds(l) PROVE AudioInv'
  BY <1>5, LoadAudio
<1>6. QED BY <1>2, <1>3, <1>4, <1>5, OneShotAudio, PlayAudio, PauseAudio, SeekAudio, SourceAudio,
             LoopAudio, SettleAudioKeeps, ContinueAudio DEF AudioNext

\* PlayingIsReal: the host counts the sources and loads nobody was told of, each of
\* them can be found when it ends, an element plays a source of its own or is
\* paused, and every play waits for a load that will still go on.
THEOREM PlayingHolds == AudioSpec => []PlayingIsReal
<1>1. AudioSpec => []AudioInv
  BY AudioInitially, AudioKept, PTL DEF AudioSpec
<1>2. AudioInv => PlayingIsReal
  BY DEF AudioInv, VoicesAreCounted, LoadsAreCounted, ElementIsReal, PlaysGoOn, OwedLoads,
         PlayingIsReal
<1>3. QED BY <1>1, <1>2, PTL

-----------------------------------------------------------------------------
(* AndroidNotices: no activation is lost, and none heard twice              *)

\* Notifications as they are posted.
Notice == [name : NoticeNames, run : Nat, nonce : 1 .. MaxPosts]

\* Types, of what the proof needs.
NoticeTyped ==
  /\ shade \in [1 .. MaxPosts -> Notice \cup {NoNotice}]
  /\ nonces \in 0 .. MaxPosts /\ inbox \in SUBSET Notice /\ run \in Nat
  /\ stored \in [pending : Seq(Notice), consumed : Seq(Nat)]
  /\ drain \in [at : {"rest", "inbox", "deliver"}, files : SUBSET Notice, taken : Seq(Notice)]
  /\ prompt \in [ids : SUBSET Nat, lost : BOOLEAN] /\ permitAsks \in Nat

\* Outside a delivery nothing is in the poll's hands.
HandsEmpty == drain.at # "deliver" => drain.taken = <<>>

\* A tap the store has consumed is on its way, was heard, or died with the process.
ConsumedIsTaken == Range(stored.consumed) \subseteq NoncesOf(drain.taken) \cup toldTaps \cup cut

\* The inductive invariant of AndroidNotices.
NoticeInv == NoticeTyped /\ HandsEmpty /\ ConsumedIsTaken /\ NothingIsLost
\* The file that is read first is one of those listed.
LEMMA FirstIsListed ==
  ASSUME NEW F \in SUBSET Notice, drain.files = F, F # {}
  PROVE  FirstFile \in F
<1> DEFINE N == {f.nonce : f \in F}
           R == OpToRel(<, Nat)
<1>1. N \subseteq Nat /\ N # {}
  BY DEF Notice
<1>2. PICK x \in N : \A y \in N : <<y, x>> \notin R
  <2> HIDE DEF N
  <2>1. QED BY <1>1, NatLessThanWellFounded, WFMin
<1>3. PICK f \in F : f.nonce = x
  BY <1>2
<1>4. ASSUME NEW g \in F PROVE f.nonce <= g.nonce
  <2>1. g.nonce \in N /\ g.nonce \in Nat /\ x \in Nat
    BY <1>1, <1>2
  <2>2. ~(g.nonce < x)
    BY <2>1, <1>2 DEF OpToRel
  <2>3. QED BY <2>1, <2>2, <1>3
<1>5. QED BY <1>3, <1>4 DEF FirstFile

\* What is taken holds every nonce that waits and was not consumed, and no other.
LEMMA FreshIsWaiting ==
  ASSUME stored \in [pending : Seq(Notice), consumed : Seq(Nat)]
  PROVE  /\ Fresh \in Seq(Notice)
         /\ NoncesOf(stored.pending) \subseteq NoncesOf(Fresh) \cup Range(stored.consumed)
<1> DEFINE p == stored.pending
           K == {f \in Range(p) : f.nonce \notin Range(stored.consumed)}
           r == ItemsIn(p, K)
<1>1. p \in Seq(Notice)
  OBVIOUS
<1>2. r \in Seq(Notice) /\ Kept(r, p, K)
  <2> HIDE DEF p, K
  <2>1. QED BY <1>1, ItemsAreKept
<1>3. Fresh = r
  BY DEF Fresh
<1>4. ASSUME NEW k \in DOMAIN p, p[k].nonce \notin Range(stored.consumed)
      PROVE  p[k].nonce \in NoncesOf(r)
  <2>1. p[k] \in K
    BY <1>4 DEF Range
  <2> HIDE DEF p, K, r
  <2>2. PICK i \in DOMAIN r : r[i] = p[k]
    BY <2>1, <1>2, <1>4 DEF Kept
  <2>3. QED BY <2>2 DEF NoncesOf
<1>5. QED BY <1>2, <1>3, <1>4 DEF NoncesOf

\* What joins a list adds its nonce.
LEMMA NonceJoins ==
  ASSUME NEW S, NEW p \in Seq(S), NEW f \in S
  PROVE  Append(p, f) \in Seq(S) /\ NoncesOf(Append(p, f)) = NoncesOf(p) \cup {f.nonce}
<1> DEFINE q == Append(p, f)
<1>1. q \in Seq(S)
  OBVIOUS
<1>2. DOMAIN q = 1 .. (Len(p) + 1) /\ DOMAIN p = 1 .. Len(p) /\ Len(p) \in Nat
  OBVIOUS
<1>3. (\A k \in 1 .. Len(p) : q[k] = p[k]) /\ q[Len(p) + 1] = f
  OBVIOUS
<1> HIDE DEF q
<1>4. NoncesOf(q) = NoncesOf(p) \cup {f.nonce}
  <2>1. ASSUME NEW k \in DOMAIN q PROVE q[k].nonce \in NoncesOf(p) \cup {f.nonce}
    BY <1>2, <1>3 DEF NoncesOf
  <2>2. ASSUME NEW k \in DOMAIN p PROVE p[k].nonce \in NoncesOf(q)
    BY <1>2, <1>3 DEF NoncesOf
  <2>3. f.nonce \in NoncesOf(q)
    BY <1>2, <1>3 DEF NoncesOf
  <2>4. NoncesOf(q) \subseteq NoncesOf(p) \cup {f.nonce}
    BY <2>1 DEF NoncesOf
  <2>5. NoncesOf(p) \subseteq NoncesOf(q)
    BY <2>2 DEF NoncesOf
  <2>6. QED BY <2>3, <2>4, <2>5
<1>5. QED BY <1>1, <1>4 DEF q

\* The first of a list is what its rest lacks.
LEMMA NonceLeaves ==
  ASSUME NEW S, NEW p \in Seq(S), p # <<>>
  PROVE  /\ Tail(p) \in Seq(S) /\ Head(p) \in S
         /\ NoncesOf(p) = NoncesOf(Tail(p)) \cup {Head(p).nonce}
<1> DEFINE q == Tail(p)
<1>1. q \in Seq(S) /\ Head(p) = p[1] /\ p[1] \in S /\ 1 \in DOMAIN p
  OBVIOUS
<1>2. DOMAIN q = 1 .. (Len(p) - 1) /\ DOMAIN p = 1 .. Len(p) /\ Len(p) \in Nat
  OBVIOUS
<1>3. \A k \in 1 .. (Len(p) - 1) : q[k] = p[k + 1]
  OBVIOUS
<1> HIDE DEF q
<1>4. ASSUME NEW k \in DOMAIN q PROVE q[k].nonce \in NoncesOf(p)
  BY <1>2, <1>3 DEF NoncesOf
<1>5. ASSUME NEW k \in DOMAIN p PROVE p[k].nonce \in NoncesOf(q) \cup {p[1].nonce}
  <2>1. CASE k = 1
    BY <2>1
  <2>2. CASE k # 1
    <3>1. k - 1 \in DOMAIN q /\ q[k - 1] = p[k]
      BY <2>2, <1>2, <1>3
    <3>2. QED BY <3>1 DEF NoncesOf
  <2>3. QED BY <2>1, <2>2
<1>6. p[1].nonce \in NoncesOf(p)
  BY <1>1 DEF NoncesOf
<1>7. NoncesOf(q) \subseteq NoncesOf(p)
  BY <1>4 DEF NoncesOf
<1>8. NoncesOf(p) \subseteq NoncesOf(q) \cup {p[1].nonce}
  BY <1>5 DEF NoncesOf
<1>9. NoncesOf(p) = NoncesOf(q) \cup {p[1].nonce}
  BY <1>6, <1>7, <1>8
<1>10. QED BY <1>1, <1>9 DEF q

\* The latest of what was consumed before and of what is taken now are among these.
LEMMA LatestAreThese ==
  ASSUME NEW s \in Seq(Nat), NEW n \in Nat
  PROVE  Latest(s, n) \in Seq(Nat) /\ Range(Latest(s, n)) \subseteq Range(s)
<1>1. CASE Len(s) > n
  <2> DEFINE r == SubSeq(s, Len(s) - n + 1, Len(s))
  <2>1. Latest(s, n) = r
    BY <1>1 DEF Latest
  <2>2. Len(s) \in Nat /\ Len(s) - n + 1 \in 1 .. (Len(s) + 1)
    BY <1>1
  <2>3. r \in Seq(Nat)
    BY <2>2
  <2>4. DOMAIN r = 1 .. n /\ \A k \in 1 .. n : r[k] = s[Len(s) - n + k]
    BY <2>2, <1>1
  <2> HIDE DEF r
  <2>5. ASSUME NEW k \in DOMAIN r PROVE r[k] \in Range(s)
    <3>1. Len(s) - n + k \in DOMAIN s /\ r[k] = s[Len(s) - n + k]
      BY <2>2, <2>4, <1>1
    <3>2. QED BY <3>1 DEF Range
  <2>6. QED BY <2>1, <2>3, <2>5 DEF Range
<1>2. CASE ~(Len(s) > n)
  BY <1>2 DEF Latest
<1>3. QED BY <1>1, <1>2

\* What two lists hold together.
LEMMA JoinedHold ==
  ASSUME NEW p \in Seq(Nat), NEW q \in Seq(Notice)
  PROVE  /\ p \o [k \in DOMAIN q |-> q[k].nonce] \in Seq(Nat)
         /\ Range(p \o [k \in DOMAIN q |-> q[k].nonce]) \subseteq Range(p) \cup NoncesOf(q)
<1> DEFINE m == [k \in DOMAIN q |-> q[k].nonce]
           r == p \o m
<1>1. Len(q) \in Nat /\ DOMAIN q = 1 .. Len(q) /\ \A k \in DOMAIN q : q[k] \in Notice
  OBVIOUS
<1>2. \A k \in DOMAIN q : q[k].nonce \in Nat
  BY <1>1 DEF Notice
<1>3. m \in Seq(Nat) /\ DOMAIN m = DOMAIN q
  BY <1>1, <1>2
<1>4. \A k \in DOMAIN m : m[k] \in NoncesOf(q)
  BY DEF NoncesOf
<1> HIDE DEF m
<1>5. r \in Seq(Nat)
  BY <1>3
<1>6. /\ DOMAIN r = 1 .. (Len(p) + Len(m)) /\ Len(p) \in Nat /\ Len(m) \in Nat
      /\ DOMAIN p = 1 .. Len(p) /\ DOMAIN m = 1 .. Len(m)
      /\ \A k \in 1 .. (Len(p) + Len(m)) : r[k] = IF k <= Len(p) THEN p[k] ELSE m[k - Len(p)]
  BY <1>3
<1> HIDE DEF r
<1>7. ASSUME NEW k \in DOMAIN r PROVE r[k] \in Range(p) \cup NoncesOf(q)
  <2>1. CASE k <= Len(p)
    BY <2>1, <1>6 DEF Range
  <2>2. CASE ~(k <= Len(p))
    <3>1. k - Len(p) \in DOMAIN m /\ r[k] = m[k - Len(p)]
      BY <2>2, <1>6
    <3>2. QED BY <3>1, <1>4
  <2>3. QED BY <2>1, <2>2
<1>8. QED BY <1>5, <1>7 DEF r, m, Range
\* The invariant holds at first.
LEMMA NoticesStart == NoticeInit => NoticeInv
<1> SUFFICES ASSUME NoticeInit PROVE NoticeInv
  OBVIOUS
<1> USE NoticeAssumption DEF NoticeInit
<1>1. NoticeTyped
  BY DEF NoticeTyped, AtRestDrain, NoPrompt
<1>2. HandsEmpty
  BY DEF HandsEmpty, AtRestDrain
<1>3. ConsumedIsTaken
  BY DEF ConsumedIsTaken, Range
<1>4. NothingIsLost
  BY DEF NothingIsLost, NoPrompt
<1>5. QED BY <1>1, <1>2, <1>3, <1>4 DEF NoticeInv

\* What only moves inbox, store, poll and what was heard leaves the prompt alone; the
\* parts that hold between them are these.
NoticesHeld ==
  tapped \subseteq {f.nonce : f \in inbox} \cup NoncesOf(stored.pending)
                   \cup NoncesOf(drain.taken) \cup toldTaps \cup cut

\* Posting touches the shade and the count of nonces.
LEMMA PostKeepsNotices ==
  ASSUME NoticeInv, NEW n \in NoticeNames, NEW k, Post(n, k)
  PROVE  NoticeInv'
<1> USE NoticeAssumption DEF NoticeInv
<1> DEFINE what == [name |-> n, run |-> run, nonce |-> nonces']
<1>1. nonces' \in 1 .. MaxPosts /\ what \in Notice
  BY DEF Post, NoticeTyped, Notice
<1> HIDE DEF what
<1>2. shade' = [shade EXCEPT ![k] = what]
  BY DEF Post, what
<1>3. NoticeTyped'
  <2>1. shade' \in [1 .. MaxPosts -> Notice \cup {NoNotice}]
    BY <1>1, <1>2 DEF NoticeTyped
  <2>2. QED BY <1>1, <2>1 DEF NoticeTyped, Post, LeavesPermission
<1>4. HandsEmpty' /\ ConsumedIsTaken' /\ NothingIsLost'
  BY DEF Post, LeavesPermission, LeavesTaps, HandsEmpty, ConsumedIsTaken, NothingIsLost
<1>5. QED BY <1>3, <1>4

\* Closing takes what is posted away.
LEMMA CloseKeepsNotices ==
  ASSUME NoticeInv, NEW n \in NoticeNames, CloseNotice(n)
  PROVE  NoticeInv'
<1> USE DEF NoticeInv, CloseNotice
<1>1. NoticeTyped'
  BY DEF NoticeTyped, LeavesPermission
<1>2. HandsEmpty' /\ ConsumedIsTaken' /\ NothingIsLost'
  BY DEF LeavesPermission, LeavesTaps, HandsEmpty, ConsumedIsTaken, NothingIsLost
<1>3. QED BY <1>1, <1>2

\* A tap goes from the shade to the inbox.
LEMMA TapKeepsNotices ==
  ASSUME NoticeInv, NEW k \in 1 .. MaxPosts, NEW launches \in BOOLEAN, Tap(k, launches)
  PROVE  NoticeInv'
<1> USE DEF NoticeInv
<1>1. PICK f \in Notice : f = shade[k]
  BY DEF Tap, NoticeTyped
<1>2. inbox' = inbox \cup {f} /\ tapped' = tapped \cup {f.nonce}
  BY <1>1 DEF Tap
<1>3. run' \in Nat
  BY DEF Tap, StartProcess, NoticeTyped
<1>4. NoticeTyped'
  BY <1>2, <1>3 DEF NoticeTyped, Tap, LeavesPermission
<1>5. HandsEmpty' /\ ConsumedIsTaken'
  BY DEF Tap, HandsEmpty, ConsumedIsTaken
<1>6. NothingIsLost'
  BY <1>2 DEF Tap, LeavesPermission, NothingIsLost
<1>7. QED BY <1>4, <1>5, <1>6

\* A new process begins with nothing in hand.
LEMMA LaunchKeepsNotices ==
  ASSUME NoticeInv, LaunchApp
  PROVE  NoticeInv'
<1> USE DEF NoticeInv, LaunchApp
<1>1. run' \in Nat
  BY DEF StartProcess, NoticeTyped
<1>2. NoticeTyped'
  BY <1>1 DEF NoticeTyped, systemNotices, LeavesPermission
<1>3. HandsEmpty' /\ ConsumedIsTaken' /\ NothingIsLost'
  BY DEF systemNotices, LeavesPermission, LeavesTaps, HandsEmpty, ConsumedIsTaken, NothingIsLost
<1>4. QED BY <1>2, <1>3

\* A process that dies takes with it what it had in hand.
LEMMA EndKeepsNotices ==
  ASSUME NoticeInv, EndProcess
  PROVE  NoticeInv'
<1> USE DEF NoticeInv, EndProcess
<1>1. drain' = AtRestDrain /\ drain'.taken = <<>> /\ drain'.at = "rest"
  BY DEF AtRestDrain
<1>2. NoticeTyped'
  BY <1>1 DEF AtRestDrain, NoticeTyped, systemNotices, NoPrompt
<1>3. HandsEmpty'
  BY <1>1 DEF HandsEmpty
<1>4. cut' = cut \cup NoncesOf(drain.taken)
  BY DEF NoncesOf
<1>5. ConsumedIsTaken'
  BY <1>4 DEF ConsumedIsTaken, systemNotices
<1>6. NothingIsLost'
  BY <1>4 DEF NothingIsLost, systemNotices, NoPrompt
<1>7. QED BY <1>2, <1>3, <1>5, <1>6

\* A reload answers nobody and withdraws what is posted.
LEMMA ReloadKeepsNotices ==
  ASSUME NoticeInv, ReloadNotices
  PROVE  NoticeInv'
<1> USE DEF NoticeInv, ReloadNotices
<1>1. NoticeTyped'
  BY DEF NoticeTyped, NoPrompt
<1>2. HandsEmpty' /\ ConsumedIsTaken' /\ NothingIsLost'
  BY DEF LeavesTaps, HandsEmpty, ConsumedIsTaken, NothingIsLost, NoPrompt
<1>3. QED BY <1>1, <1>2

\* A poll begins with empty hands.
LEMMA BeginKeepsNotices ==
  ASSUME NoticeInv, BeginPoll
  PROVE  NoticeInv'
<1> USE DEF NoticeInv, BeginPoll
<1>1. drain'.taken = <<>> /\ drain.taken = <<>>
  BY DEF AtRestDrain, AppTurn, HandsEmpty
<1>2. NoticeTyped'
  <2>1. drain' \in [at : {"rest", "inbox", "deliver"}, files : SUBSET Notice, taken : Seq(Notice)]
    <3>1. <<>> \in Seq(Notice)
      OBVIOUS
    <3>2. QED BY <3>1 DEF AtRestDrain, NoticeTyped
  <2>2. QED BY <2>1 DEF NoticeTyped, KeepsDrain, LeavesPermission
<1>3. HandsEmpty' /\ ConsumedIsTaken' /\ NothingIsLost'
  BY <1>1 DEF KeepsDrain, LeavesPermission, HandsEmpty, ConsumedIsTaken, NothingIsLost
<1>4. QED BY <1>2, <1>3

\* A file leaves the inbox only when the store has it, or has had it.
LEMMA RecordKeepsNotices ==
  ASSUME NoticeInv, RecordFile
  PROVE  NoticeInv'
<1> USE DEF NoticeInv
<1>1. PICK f \in Notice : f = FirstFile
  BY FirstIsListed DEF RecordFile, NoticeTyped
<1>2. /\ drain.at = "inbox"
      /\ drain' = [drain EXCEPT !.files = drain.files \ {f}]
      /\ \/ /\ stored' = IF Guarded(f) THEN stored
                         ELSE [stored EXCEPT !.pending = Append(stored.pending, f)]
            /\ inbox' \in {inbox, inbox \ {f}}
         \/ stored' = stored /\ inbox' = inbox
      /\ toldTaps' = toldTaps /\ cut' = cut
  BY <1>1 DEF RecordFile, RemovedFile
<1>3. drain'.taken = <<>> /\ drain.taken = <<>> /\ drain'.at = drain.at
  BY <1>2 DEF HandsEmpty, NoticeTyped
<1>4. stored.pending \in Seq(Notice) /\ stored.consumed \in Seq(Nat)
  BY DEF NoticeTyped
<1>5. /\ Append(stored.pending, f) \in Seq(Notice)
      /\ NoncesOf(Append(stored.pending, f)) = NoncesOf(stored.pending) \cup {f.nonce}
  BY <1>4, NonceJoins
<1>6. stored' \in [pending : Seq(Notice), consumed : Seq(Nat)] /\ stored'.consumed = stored.consumed
  BY <1>2, <1>5 DEF NoticeTyped
<1>7. NoncesOf(stored.pending) \subseteq NoncesOf(stored'.pending)
  BY <1>2, <1>5 DEF NoticeTyped
<1>8. ASSUME inbox' # inbox
      PROVE  /\ inbox' = inbox \ {f}
             /\ f.nonce \in NoncesOf(stored'.pending) \cup Range(stored.consumed)
  BY <1>2, <1>8, <1>5 DEF Guarded, NoncesOf, Range, NoticeTyped
<1>9. NoticeTyped'
  BY <1>2, <1>6 DEF NoticeTyped, RecordFile, KeepsDrain, LeavesPermission
<1>10. HandsEmpty'
  BY <1>3 DEF HandsEmpty
<1>11. ConsumedIsTaken'
  BY <1>2, <1>3, <1>6 DEF ConsumedIsTaken
<1>12. tapped' = tapped /\ owedPermits' = owedPermits /\ prompt' = prompt
  BY DEF RecordFile, KeepsDrain, LeavesPermission
<1>13. NoticesHeld'
  <2>1. ASSUME NEW t \in tapped
        PROVE  t \in {g.nonce : g \in inbox'} \cup NoncesOf(stored'.pending)
                     \cup NoncesOf(drain'.taken) \cup toldTaps' \cup cut'
    <3>1. t \in {g.nonce : g \in inbox} \cup NoncesOf(stored.pending)
                \cup NoncesOf(drain.taken) \cup toldTaps \cup cut
      BY <2>1 DEF NothingIsLost
    <3>2. CASE t \in {g.nonce : g \in inbox}
      <4>1. PICK g \in inbox : t = g.nonce
        BY <3>2
      <4>2. CASE g \in inbox'
        BY <4>1, <4>2
      <4>3. CASE g \notin inbox'
        BY <4>1, <4>3, <1>8, <1>2, <1>3 DEF ConsumedIsTaken
      <4>4. QED BY <4>2, <4>3
    <3>3. CASE t \notin {g.nonce : g \in inbox}
      BY <3>1, <3>3, <1>2, <1>3, <1>7
    <3>4. QED BY <3>2, <3>3
  <2>2. QED BY <2>1, <1>12 DEF NoticesHeld
<1>14. NothingIsLost'
  BY <1>12, <1>13 DEF NothingIsLost, NoticesHeld
<1>15. QED BY <1>9, <1>10, <1>11, <1>14

\* The store hands over what it had not consumed, in the write that empties it.
LEMMA TakeKeepsNotices ==
  ASSUME NoticeInv, TakeStored
  PROVE  NoticeInv'
<1> USE DEF NoticeInv
<1>1. drain.taken = <<>> /\ NoncesOf(drain.taken) = {}
  BY DEF TakeStored, HandsEmpty, NoncesOf
<1>2. /\ inbox' = inbox /\ toldTaps' = toldTaps /\ cut' = cut /\ tapped' = tapped
      /\ owedPermits' = owedPermits /\ prompt' = prompt
      /\ shade' = shade /\ nonces' = nonces /\ run' = run /\ permitAsks' = permitAsks
  BY DEF TakeStored, KeepsDrain, LeavesPermission
<1>3. stored \in [pending : Seq(Notice), consumed : Seq(Nat)]
  BY DEF NoticeTyped
<1>4. CASE drain' = [drain EXCEPT !.at = "deliver"] /\ stored' = stored
  BY <1>1, <1>4, <1>2 DEF NoticeTyped, HandsEmpty, ConsumedIsTaken, NothingIsLost
<1>5. CASE /\ stored' = [pending |-> <<>>,
                        consumed |-> Latest(stored.consumed
                                          \o [k \in DOMAIN Fresh |-> Fresh[k].nonce],
                                          RememberedTaps)]
           /\ drain' = [drain EXCEPT !.at = "deliver", !.taken = Fresh]
  <2>1. PICK r \in Seq(Notice) :
          r = Fresh /\ NoncesOf(stored.pending) \subseteq NoncesOf(r) \cup Range(stored.consumed)
    BY <1>3, FreshIsWaiting
  <2> DEFINE joined == stored.consumed \o [k \in DOMAIN r |-> r[k].nonce]
             noted == Latest(joined, RememberedTaps)
  <2>2. joined \in Seq(Nat) /\ Range(joined) \subseteq Range(stored.consumed) \cup NoncesOf(r)
    BY <1>3, JoinedHold
  <2> HIDE DEF joined
  <2>3. noted \in Seq(Nat) /\ Range(noted) \subseteq Range(joined)
    BY <2>2, LatestAreThese, NoticeAssumption
  <2>4. stored' = [pending |-> <<>>, consumed |-> noted]
    BY <1>5, <2>1 DEF joined
  <2> HIDE DEF noted
  <2>5. /\ drain' \in [at : {"rest", "inbox", "deliver"}, files : SUBSET Notice, taken : Seq(Notice)]
        /\ drain'.taken = r /\ drain'.at = "deliver"
    BY <1>5, <2>1 DEF NoticeTyped
  <2>6. NoticeTyped'
    BY <2>3, <2>4, <2>5, <1>2 DEF NoticeTyped
  <2>7. HandsEmpty'
    BY <2>5 DEF HandsEmpty
  <2>8. ConsumedIsTaken'
    BY <2>2, <2>3, <2>4, <1>1, <2>5, <1>2 DEF ConsumedIsTaken
  <2>9. NothingIsLost'
    BY <2>1, <1>1, <2>5, <1>2 DEF ConsumedIsTaken, NothingIsLost
  <2>10. QED BY <2>6, <2>7, <2>8, <2>9
<1>6. QED BY <1>4, <1>5 DEF TakeStored

\* What is delivered has been heard.
LEMMA DeliverKeepsNotices ==
  ASSUME NoticeInv, Deliver
  PROVE  NoticeInv'
<1> USE DEF NoticeInv
<1>1. PICK t \in Seq(Notice) : t = drain.taken /\ t # <<>>
  BY DEF Deliver, NoticeTyped
<1>2. Tail(t) \in Seq(Notice) /\ NoncesOf(t) = NoncesOf(Tail(t)) \cup {Head(t).nonce}
  BY <1>1, NonceLeaves
<1>3. /\ drain' = [drain EXCEPT !.taken = Tail(t)] /\ toldTaps' = toldTaps \cup {Head(t).nonce}
      /\ drain.at = "deliver" /\ inbox' = inbox /\ stored' = stored /\ cut' = cut
      /\ tapped' = tapped /\ owedPermits' = owedPermits /\ prompt' = prompt
      /\ shade' = shade /\ nonces' = nonces /\ run' = run /\ permitAsks' = permitAsks
  BY <1>1 DEF Deliver, KeepsDrain, LeavesPermission
<1>4. /\ drain' \in [at : {"rest", "inbox", "deliver"}, files : SUBSET Notice, taken : Seq(Notice)]
      /\ drain'.taken = Tail(t) /\ drain'.at = "deliver"
  BY <1>2, <1>3 DEF NoticeTyped
<1>5. NoticeTyped' /\ HandsEmpty'
  BY <1>3, <1>4 DEF NoticeTyped, HandsEmpty
<1>6. NoncesOf(drain.taken) \cup toldTaps = NoncesOf(drain'.taken) \cup toldTaps'
  BY <1>1, <1>2, <1>3, <1>4
<1>7. ConsumedIsTaken'
  BY <1>3, <1>6 DEF ConsumedIsTaken
<1>8. NothingIsLost'
  BY <1>3, <1>6 DEF NothingIsLost
<1>9. QED BY <1>5, <1>7, <1>8

\* The end of a poll answers all who wait, or none.
LEMMA PermissionKeepsNotices ==
  ASSUME NoticeInv, PollPermission
  PROVE  NoticeInv'
<1> USE DEF NoticeInv, PollPermission, Untouched
<1>1. drain' = AtRestDrain /\ drain'.taken = <<>> /\ drain.taken = <<>>
  BY DEF AtRestDrain
<1>2. prompt' \in [ids : SUBSET Nat, lost : BOOLEAN] /\ owedPermits' = prompt'.ids
  <2>1. CASE AllAnswered
    BY <2>1 DEF AllAnswered, NoPrompt, NothingIsLost
  <2>2. CASE prompt' = [prompt EXCEPT !.lost = (prompt.ids # {})] /\ UNCHANGED owedPermits
    BY <2>2 DEF NoticeTyped, NothingIsLost
  <2>3. CASE UNCHANGED <<prompt, owedPermits>>
    BY <2>3 DEF NoticeTyped, NothingIsLost
  <2>4. QED BY <2>1, <2>2, <2>3
<1>3. NoticeTyped'
  BY <1>2 DEF AtRestDrain, NoticeTyped, systemNotices
<1>4. HandsEmpty' /\ ConsumedIsTaken'
  BY <1>1 DEF HandsEmpty, ConsumedIsTaken, systemNotices, LeavesTaps
<1>5. NothingIsLost'
  BY <1>1, <1>2 DEF NothingIsLost, systemNotices, LeavesTaps
<1>6. QED BY <1>3, <1>4, <1>5

\* A request waits at the prompt, or has its answer.
LEMMA AskKeepsNotices ==
  ASSUME NoticeInv, AskPermission \/ AnswerDialog
  PROVE  NoticeInv'
<1> USE DEF NoticeInv, Untouched
<1>1. UNCHANGED <<systemNotices, run, drain, tapped, toldTaps, cut>>
  BY DEF AskPermission, AnswerDialog, LeavesTaps
<1>0. permitAsks' \in Nat
  <2>1. permitAsks' = permitAsks \/ permitAsks' = permitAsks + 1
    BY DEF AskPermission, AnswerDialog
  <2>2. QED BY <2>1 DEF NoticeTyped
<1>2. prompt' \in [ids : SUBSET Nat, lost : BOOLEAN] /\ owedPermits' = prompt'.ids
  <2>1. CASE UNCHANGED <<prompt, owedPermits>>
    BY <2>1 DEF NoticeTyped, NothingIsLost
  <2>2. CASE AskPermission /\ ~UNCHANGED <<prompt, owedPermits>>
    <3>1. permitAsks' \in Nat
      BY <1>0
    <3>2. CASE /\ prompt' = [prompt EXCEPT !.ids = @ \cup {permitAsks'}]
               /\ owedPermits' = owedPermits \cup {permitAsks'}
      BY <3>1, <3>2 DEF NoticeTyped, NothingIsLost
    <3>3. CASE /\ prompt' = [ids |-> {permitAsks'}, lost |-> FALSE]
               /\ owedPermits' = owedPermits \cup {permitAsks'} /\ prompt.ids = {}
      BY <3>1, <3>3 DEF NothingIsLost
    <3>4. QED BY <2>2, <3>2, <3>3 DEF AskPermission
  <2>3. QED BY <2>1, <2>2 DEF AnswerDialog
<1>3. NoticeTyped'
  BY <1>0, <1>1, <1>2 DEF NoticeTyped, systemNotices
<1>4. HandsEmpty' /\ ConsumedIsTaken'
  BY <1>1 DEF HandsEmpty, ConsumedIsTaken, systemNotices
<1>5. NothingIsLost'
  BY <1>1, <1>2 DEF NothingIsLost, systemNotices
<1>6. QED BY <1>3, <1>4, <1>5

\* Every step keeps the invariant.
LEMMA NoticeStep == NoticeInv /\ [NoticeNext]_noticeVars => NoticeInv'
<1> SUFFICES ASSUME NoticeInv, [NoticeNext]_noticeVars PROVE NoticeInv'
  OBVIOUS
<1>1. CASE UNCHANGED noticeVars
  BY <1>1 DEF noticeVars, systemNotices, NoticeInv, NoticeTyped, HandsEmpty, ConsumedIsTaken,
              NothingIsLost
<1>2. ASSUME NEW n \in NoticeNames, ShowNotice(n) \/ UpdateNotice(n) PROVE NoticeInv'
  BY <1>2, PostKeepsNotices DEF ShowNotice, UpdateNotice
<1>3. ASSUME NEW n \in NoticeNames, CloseNotice(n) PROVE NoticeInv'
  BY <1>3, CloseKeepsNotices
<1>4. ASSUME NEW k \in 1 .. MaxPosts, NEW launches \in BOOLEAN, Tap(k, launches) PROVE NoticeInv'
  BY <1>4, TapKeepsNotices
<1>5. QED
  BY <1>1, <1>2, <1>3, <1>4, LaunchKeepsNotices, EndKeepsNotices, ReloadKeepsNotices,
     BeginKeepsNotices, RecordKeepsNotices, TakeKeepsNotices, DeliverKeepsNotices,
     PermissionKeepsNotices, AskKeepsNotices DEF NoticeNext

\* No tap is lost between the receiver's inbox, the store and the document, whatever write fails
\* and wherever the process dies, and every permission request that has no answer is one the
\* prompt will answer (record, take and the permission prompt).
THEOREM NoticesHold == NoticeSpec => []NothingIsLost
<1>1. NoticeInv => NothingIsLost
  BY DEF NoticeInv
<1>2. QED BY <1>1, NoticesStart, NoticeStep, PTL DEF NoticeSpec

-----------------------------------------------------------------------------
(* Notifications: what a page hears of one, it hears once                   *)

\* What is displayed, what is queued for the document, what the platform reports, and what
\* the document asks for.
Displays == [id : Nat, session : Nat, doc : Nat, gen : Nat]
Heard == [type : {"click", "activation", "closed"}, of : Displays, doc : Nat]
Reports == [about : Displays, kind : {"click", "closed"}]
Wishes == [kind : {"show", "update", "close"}, id : Nat]
Tables == UNION {[N -> Nat] : N \in SUBSET Nat}

\* The kinds of values of the variables the proof needs.
NotesTyped ==
  /\ session \in Nat /\ document \in Nat /\ nextId \in Nat
  /\ requests \in Seq(Wishes) /\ messages \in Seq(Heard) /\ signals \in Seq(Reports)
  /\ records \in Tables /\ pending \in Seq(Displays) /\ consumed \in Seq(Nat)
  /\ minted \in 0 .. MaxShown /\ screen \in SUBSET Displays /\ flying \in SUBSET Reports
  /\ latest \in Displays \cup {None} /\ told \in [1 .. MaxShown -> Nat]

\* The messages that answer a click.
Answering(list) == {i \in DOMAIN list : list[i].type \in Answers}

\* The generations on the screen, reported and still to come, waiting in the file, queued
\* by a watcher, queued for the document, heard, and remembered by the file.
OnScreen(s) == {e.gen : e \in s}
OnTheirWay(f) == {x.about.gen : x \in f}
Pendings(p) == {p[i].gen : i \in DOMAIN p}
Watched(q) == {q[i].about.gen : i \in DOMAIN q}
Said(list) == {list[i].of.gen : i \in Answering(list)}
ToldOf(count) == {g \in DOMAIN count : count[g] # 0}
Remembered(list) == {list[i] : i \in DOMAIN list}

\* Each of them is of one notification: no two of a kind have the same generation.
ScreenIsOne(s) == \A e, f \in s : e.gen = f.gen => e = f
WayIsOne(s) == \A x, y \in s : x.about.gen = y.about.gen => x = y
WaitingIsOne(p) == \A i, j \in DOMAIN p : p[i].gen = p[j].gen => i = j
WatchedIsOne(q) == \A i, j \in DOMAIN q : q[i].about.gen = q[j].about.gen => i = j
SaidIsOne(list) == \A i, j \in Answering(list) : list[i].of.gen = list[j].of.gen => i = j

\* A generation is in one place on its way to the document, and not in the memory of the
\* file before it has been taken from there: S is the screen, F what is reported, W the file,
\* G the watchers, A the queue, T what was heard, C the memory, and m how many there are.
Apart(S, F, W, G, A, T, C, m) ==
  /\ S \cap F = {} /\ S \cap W = {} /\ S \cap G = {} /\ S \cap A = {} /\ S \cap T = {}
  /\ F \cap W = {} /\ F \cap G = {} /\ F \cap A = {} /\ F \cap T = {}
  /\ W \cap G = {} /\ W \cap A = {} /\ W \cap T = {}
  /\ G \cap A = {} /\ G \cap T = {} /\ A \cap T = {}
  /\ S \cap C = {} /\ F \cap C = {} /\ W \cap C = {}
  /\ S \subseteq 1 .. m /\ F \subseteq 1 .. m /\ W \subseteq 1 .. m /\ G \subseteq 1 .. m
  /\ A \subseteq 1 .. m /\ T \subseteq 1 .. m /\ C \subseteq 1 .. m

\* The latest envelope, the one that can be offered again, is remembered if it was heard;
\* it is remembered only while nothing waits, and waits only at the end of the file.
LatestIsKnown(e, S, F, G, A, T, C, p, m) ==
  e # None =>
    /\ e.gen \in 1 .. m /\ e.gen \notin S \cup F \cup G
    /\ e.gen \in A \cup T => e.gen \in C
    /\ e.gen \in C => p = <<>>
    /\ e.gen \in Pendings(p) => p[Len(p)].gen = e.gen

\* No click is heard twice.
HeardAtMostOnce(count) == \A g \in DOMAIN count : count[g] <= 1

\* The inductive invariant.
NotifyInv ==
  /\ NotesTyped
  /\ ScreenIsOne(screen) /\ WayIsOne(flying) /\ WaitingIsOne(pending) /\ WatchedIsOne(signals)
  /\ SaidIsOne(messages)
  /\ Apart(OnScreen(screen), OnTheirWay(flying), Pendings(pending), Watched(signals),
           Said(messages), ToldOf(told), Remembered(consumed), minted)
  /\ LatestIsKnown(latest, OnScreen(screen), OnTheirWay(flying), Watched(signals),
                   Said(messages), ToldOf(told), Remembered(consumed), pending, minted)
  /\ HeardAtMostOnce(told)

\* The activations of the file are answered one after the other.
AllActivated(base, s) == FoldLeft(Answered, base, s)

\* One after the other: h tells what there is after each.
AnsweredTurns(h, D, base, s) ==
  /\ h \in [0 .. Len(s) -> D] /\ h[0] = base /\ h[Len(s)] = AllActivated(base, s)
  /\ \A k \in 1 .. Len(s) : h[k] = Answered(h[k - 1], s[k])

\* The activations of the file are answered one after the other.
LEMMA AnsweredInTurn ==
  ASSUME NEW D, NEW base \in D, NEW X, NEW s \in Seq(X),
         \A a \in D, x \in X : Answered(a, x) \in D
  PROVE  \E h : AnsweredTurns(h, D, base, s)
<1> DEFINE n == Len(s)
           G == [p \in D \X (1 .. n) |-> Answered(p[1], s[p[2]])]
           Then(f, t) == Answered(f[t \ {Max(t)}], s[Max(t)])
           c == CHOOSE f : f = [t \in SUBSET (DOMAIN s) |-> IF t = {} THEN base ELSE Then(f, t)]
<1>1. n \in Nat /\ DOMAIN s = 1 .. n /\ \A i \in 1 .. n : s[i] \in X
  OBVIOUS
<1>2. ASSUME NEW a \in D, NEW i \in 1 .. n
      PROVE  G[<<a, i>>] = Answered(a, s[i]) /\ G[<<a, i>>] \in D
  BY <1>1
<1>3. G \in [D \X (1 .. n) -> D]
  BY <1>1
<1>4. PICK it \in [SUBSET (1 .. n) -> D] : Folding(it, n, base, G)
  <2> HIDE DEF G, n
  <2>1. QED BY <1>1, <1>3, FoldExists
<1>5. ASSUME NEW t \in SUBSET (1 .. n), t # {}
      PROVE  Max(t) \in 1 .. n /\ t \ {Max(t)} \in SUBSET (1 .. n)
  BY <1>1, <1>5, LargestIsIn
<1>6. it = [t \in SUBSET (DOMAIN s) |-> IF t = {} THEN base ELSE Then(it, t)]
  <2>1. ASSUME NEW t \in SUBSET (1 .. n) PROVE it[t] = IF t = {} THEN base ELSE Then(it, t)
    <3>1. CASE t = {}
      BY <3>1, <1>4 DEF Folding
    <3>2. CASE t # {}
      <4> HIDE DEF G
      <4>1. Max(t) \in 1 .. n /\ it[t \ {Max(t)}] \in D
        BY <3>2, <1>4, <1>5
      <4>2. it[t] = G[<<it[t \ {Max(t)}], Max(t)>>]
        BY <3>2, <1>4 DEF Folding
      <4>3. QED BY <3>2, <4>1, <4>2, <1>2
    <3>3. QED BY <3>1, <3>2
  <2> HIDE DEF Then
  <2>2. QED BY <2>1, <1>1, <1>4
<1>7. c = [t \in SUBSET (DOMAIN s) |-> IF t = {} THEN base ELSE Then(c, t)]
  <2> HIDE DEF Then
  <2>1. QED BY <1>6
<1>8. AllActivated(base, s) = c[1 .. n]
  BY <1>1 DEF AllActivated, FoldLeft, MapThenFoldSet
<1>9. PICK h \in [0 .. n -> D] : h[n] = c[1 .. n] /\ Stepping(h, n, base, G)
  <2>1. FoldingIn(c, n, D, base, G)
    <3>1. c[{}] = base
      <4> HIDE DEF c, Then
      <4>1. {} \in SUBSET (DOMAIN s)
        OBVIOUS
      <4>2. QED BY <1>7, <4>1
    <3>2. ASSUME NEW t \in SUBSET (1 .. n), t # {}, c[t \ {Max(t)}] \in D
          PROVE  c[t] = G[<<c[t \ {Max(t)}], Max(t)>>]
      <4> HIDE DEF G, c
      <4>1. c[t] = Then(c, t)
        <5> HIDE DEF Then
        <5>1. QED BY <1>1, <1>7, <3>2
      <4>2. Max(t) \in 1 .. n
        BY <1>5, <3>2
      <4>3. QED BY <1>2, <3>2, <4>1, <4>2
    <3>3. QED BY <3>1, <3>2 DEF FoldingIn
  <2> HIDE DEF G, n, c
  <2>2. QED BY <2>1, <1>1, <1>3, FoldSteps
<1>10. ASSUME NEW k \in 1 .. n PROVE h[k] = Answered(h[k - 1], s[k])
  <2> HIDE DEF G, c
  <2>1. h[k] = G[<<h[k - 1], k>>] /\ k - 1 \in 0 .. n
    BY <1>1, <1>9 DEF Stepping
  <2>2. QED BY <2>1, <1>2
<1>11. h[0] = base /\ h[n] = AllActivated(base, s)
  <2>1. h[n] = AllActivated(base, s)
    BY <1>8, <1>9
  <2> HIDE DEF G, c
  <2>2. h[0] = base
    BY <1>9 DEF Stepping
  <2>3. QED BY <2>1, <2>2
<1>12. AnsweredTurns(h, D, base, s)
  <2> HIDE DEF G, c
  <2>1. QED BY <1>9, <1>10, <1>11 DEF AnsweredTurns
<1>13. QED BY <1>12

\* The signals of the watchers are handled one after the other.
AllSignalled(base, s) == FoldLeft(Signalled, base, s)

\* One after the other: h tells what there is after each.
SignalledTurns(h, D, base, s) ==
  /\ h \in [0 .. Len(s) -> D] /\ h[0] = base /\ h[Len(s)] = AllSignalled(base, s)
  /\ \A k \in 1 .. Len(s) : h[k] = Signalled(h[k - 1], s[k])

\* The signals of the watchers are handled one after the other.
LEMMA SignalledInTurn ==
  ASSUME NEW D, NEW base \in D, NEW X, NEW s \in Seq(X),
         \A a \in D, x \in X : Signalled(a, x) \in D
  PROVE  \E h : SignalledTurns(h, D, base, s)
<1> DEFINE n == Len(s)
           G == [p \in D \X (1 .. n) |-> Signalled(p[1], s[p[2]])]
           Then(f, t) == Signalled(f[t \ {Max(t)}], s[Max(t)])
           c == CHOOSE f : f = [t \in SUBSET (DOMAIN s) |-> IF t = {} THEN base ELSE Then(f, t)]
<1>1. n \in Nat /\ DOMAIN s = 1 .. n /\ \A i \in 1 .. n : s[i] \in X
  OBVIOUS
<1>2. ASSUME NEW a \in D, NEW i \in 1 .. n
      PROVE  G[<<a, i>>] = Signalled(a, s[i]) /\ G[<<a, i>>] \in D
  BY <1>1
<1>3. G \in [D \X (1 .. n) -> D]
  BY <1>1
<1>4. PICK it \in [SUBSET (1 .. n) -> D] : Folding(it, n, base, G)
  <2> HIDE DEF G, n
  <2>1. QED BY <1>1, <1>3, FoldExists
<1>5. ASSUME NEW t \in SUBSET (1 .. n), t # {}
      PROVE  Max(t) \in 1 .. n /\ t \ {Max(t)} \in SUBSET (1 .. n)
  BY <1>1, <1>5, LargestIsIn
<1>6. it = [t \in SUBSET (DOMAIN s) |-> IF t = {} THEN base ELSE Then(it, t)]
  <2>1. ASSUME NEW t \in SUBSET (1 .. n) PROVE it[t] = IF t = {} THEN base ELSE Then(it, t)
    <3>1. CASE t = {}
      BY <3>1, <1>4 DEF Folding
    <3>2. CASE t # {}
      <4> HIDE DEF G
      <4>1. Max(t) \in 1 .. n /\ it[t \ {Max(t)}] \in D
        BY <3>2, <1>4, <1>5
      <4>2. it[t] = G[<<it[t \ {Max(t)}], Max(t)>>]
        BY <3>2, <1>4 DEF Folding
      <4>3. QED BY <3>2, <4>1, <4>2, <1>2
    <3>3. QED BY <3>1, <3>2
  <2> HIDE DEF Then
  <2>2. QED BY <2>1, <1>1, <1>4
<1>7. c = [t \in SUBSET (DOMAIN s) |-> IF t = {} THEN base ELSE Then(c, t)]
  <2> HIDE DEF Then
  <2>1. QED BY <1>6
<1>8. AllSignalled(base, s) = c[1 .. n]
  BY <1>1 DEF AllSignalled, FoldLeft, MapThenFoldSet
<1>9. PICK h \in [0 .. n -> D] : h[n] = c[1 .. n] /\ Stepping(h, n, base, G)
  <2>1. FoldingIn(c, n, D, base, G)
    <3>1. c[{}] = base
      <4> HIDE DEF c, Then
      <4>1. {} \in SUBSET (DOMAIN s)
        OBVIOUS
      <4>2. QED BY <1>7, <4>1
    <3>2. ASSUME NEW t \in SUBSET (1 .. n), t # {}, c[t \ {Max(t)}] \in D
          PROVE  c[t] = G[<<c[t \ {Max(t)}], Max(t)>>]
      <4> HIDE DEF G, c
      <4>1. c[t] = Then(c, t)
        <5> HIDE DEF Then
        <5>1. QED BY <1>1, <1>7, <3>2
      <4>2. Max(t) \in 1 .. n
        BY <1>5, <3>2
      <4>3. QED BY <1>2, <3>2, <4>1, <4>2
    <3>3. QED BY <3>1, <3>2 DEF FoldingIn
  <2> HIDE DEF G, n, c
  <2>2. QED BY <2>1, <1>1, <1>3, FoldSteps
<1>10. ASSUME NEW k \in 1 .. n PROVE h[k] = Signalled(h[k - 1], s[k])
  <2> HIDE DEF G, c
  <2>1. h[k] = G[<<h[k - 1], k>>] /\ k - 1 \in 0 .. n
    BY <1>1, <1>9 DEF Stepping
  <2>2. QED BY <2>1, <1>2
<1>11. h[0] = base /\ h[n] = AllSignalled(base, s)
  <2>1. h[n] = AllSignalled(base, s)
    BY <1>8, <1>9
  <2> HIDE DEF G, c
  <2>2. h[0] = base
    BY <1>9 DEF Stepping
  <2>3. QED BY <2>1, <2>2
<1>12. SignalledTurns(h, D, base, s)
  <2> HIDE DEF G, c
  <2>1. QED BY <1>9, <1>10, <1>11 DEF SignalledTurns
<1>13. QED BY <1>12

\* What is displayed is a note, and its envelope has its generation.
LEMMA DisplayedIs ==
  ASSUME session \in Nat, document \in Nat, NEW n \in Nat, NEW g \in Nat
  PROVE  Displayed(n, g) \in Displays /\ Displayed(n, g).gen = g
BY DEF Displayed, Displays

\* An activation is heard as an answer, and says of what.
LEMMA ActivatedIs ==
  ASSUME NEW e \in Displays
  PROVE  Activated(e) \in Heard /\ Activated(e).of = e /\ Activated(e).type \in Answers
<1>1. Activated(e) = [type |-> "activation", of |-> e, doc |-> 0]
  BY DEF Activated
<1>2. Activated(e) \in Heard
  BY <1>1 DEF Heard
<1>3. Activated(e).of = e /\ Activated(e).type = "activation"
  BY <1>1
<1>4. QED BY <1>2, <1>3 DEF Answers

\* Fewer notifications on the screen are still one of each.
LEMMA ScreenLess ==
  ASSUME NEW s, NEW r, r \subseteq s, ScreenIsOne(s)
  PROVE  OnScreen(r) \subseteq OnScreen(s) /\ ScreenIsOne(r)
BY DEF OnScreen, ScreenIsOne

\* A notification that has left the screen is not on it under another name.
LEMMA ScreenLoses ==
  ASSUME NEW s, NEW e \in s, ScreenIsOne(s)
  PROVE  /\ OnScreen(s \ {e}) \subseteq OnScreen(s) \ {e.gen} /\ ScreenIsOne(s \ {e})
         /\ e.gen \in OnScreen(s)
BY DEF OnScreen, ScreenIsOne

\* A notification that is new on the screen.
LEMMA ScreenGains ==
  ASSUME NEW s, NEW e, ScreenIsOne(s), e.gen \notin OnScreen(s)
  PROVE  OnScreen(s \cup {e}) = OnScreen(s) \cup {e.gen} /\ ScreenIsOne(s \cup {e})
BY DEF OnScreen, ScreenIsOne

\* A report that arrives is no longer on its way.
LEMMA WayLoses ==
  ASSUME NEW f, NEW x \in f, WayIsOne(f)
  PROVE  /\ OnTheirWay(f \ {x}) \subseteq OnTheirWay(f) \ {x.about.gen} /\ WayIsOne(f \ {x})
         /\ x.about.gen \in OnTheirWay(f)
BY DEF OnTheirWay, WayIsOne

\* A report of a notification of which there was none.
LEMMA WayGains ==
  ASSUME NEW f, NEW x, WayIsOne(f), x.about.gen \notin OnTheirWay(f)
  PROVE  /\ OnTheirWay(f \cup {x}) = OnTheirWay(f) \cup {x.about.gen}
         /\ WayIsOne(f \cup {x})
BY DEF OnTheirWay, WayIsOne

\* An item at the end of a list: the list, its length and its items.
LEMMA AtTheEnd ==
  ASSUME NEW S, NEW s \in Seq(S), NEW e \in S
  PROVE  /\ Append(s, e) \in Seq(S) /\ Len(s) \in Nat /\ DOMAIN s = 1 .. Len(s)
         /\ DOMAIN Append(s, e) = 1 .. (Len(s) + 1) /\ Len(Append(s, e)) = Len(s) + 1
         /\ \A i \in 1 .. Len(s) : Append(s, e)[i] = s[i]
         /\ Append(s, e)[Len(s) + 1] = e
         /\ \A i \in 1 .. (Len(s) + 1) : i \in 1 .. Len(s) \/ i = Len(s) + 1
         /\ 1 .. Len(s) \subseteq 1 .. (Len(s) + 1) /\ Len(s) + 1 \in 1 .. (Len(s) + 1)
OBVIOUS

\* An envelope that is recorded waits at the end of the file.
LEMMA WaitingGains ==
  ASSUME NEW p \in Seq(Displays), NEW e \in Displays, WaitingIsOne(p), e.gen \notin Pendings(p)
  PROVE  /\ Append(p, e) \in Seq(Displays)
         /\ Pendings(Append(p, e)) = Pendings(p) \cup {e.gen} /\ WaitingIsOne(Append(p, e))
         /\ Append(p, e)[Len(Append(p, e))] = e /\ Append(p, e) # <<>>
<1>1. /\ Append(p, e) \in Seq(Displays) /\ Len(p) \in Nat /\ DOMAIN p = 1 .. Len(p)
      /\ DOMAIN Append(p, e) = 1 .. (Len(p) + 1) /\ Len(Append(p, e)) = Len(p) + 1
      /\ \A i \in 1 .. Len(p) : Append(p, e)[i] = p[i]
      /\ Append(p, e)[Len(p) + 1] = e
      /\ \A i \in 1 .. (Len(p) + 1) : i \in 1 .. Len(p) \/ i = Len(p) + 1
      /\ 1 .. Len(p) \subseteq 1 .. (Len(p) + 1) /\ Len(p) + 1 \in 1 .. (Len(p) + 1)
  BY AtTheEnd
<1> DEFINE q == Append(p, e)
           N == Len(p)
<1>2. q # <<>>
  BY <1>1
<1> HIDE DEF q, N
<1>3. /\ DOMAIN q = 1 .. (N + 1) /\ \A i \in 1 .. N : q[i] = p[i]
      /\ q[N + 1] = e /\ DOMAIN p = 1 .. N
      /\ \A i \in 1 .. (N + 1) : i \in 1 .. N \/ i = N + 1
      /\ 1 .. N \subseteq 1 .. (N + 1) /\ N + 1 \in 1 .. (N + 1)
  BY <1>1 DEF q, N
<1>4. Pendings(q) = Pendings(p) \cup {e.gen}
  BY <1>3 DEF Pendings
<1>5. WaitingIsOne(q)
  BY <1>3 DEF Pendings, WaitingIsOne
<1>6. QED BY <1>1, <1>2, <1>4, <1>5 DEF q

\* A report that a watcher queues.
LEMMA WatchedGains ==
  ASSUME NEW p \in Seq(Reports), NEW e \in Reports, WatchedIsOne(p), e.about.gen \notin Watched(p)
  PROVE  /\ Append(p, e) \in Seq(Reports)
         /\ Watched(Append(p, e)) = Watched(p) \cup {e.about.gen} /\ WatchedIsOne(Append(p, e))
<1>1. /\ Append(p, e) \in Seq(Reports) /\ Len(p) \in Nat /\ DOMAIN p = 1 .. Len(p)
      /\ DOMAIN Append(p, e) = 1 .. (Len(p) + 1) /\ Len(Append(p, e)) = Len(p) + 1
      /\ \A i \in 1 .. Len(p) : Append(p, e)[i] = p[i]
      /\ Append(p, e)[Len(p) + 1] = e
      /\ \A i \in 1 .. (Len(p) + 1) : i \in 1 .. Len(p) \/ i = Len(p) + 1
      /\ 1 .. Len(p) \subseteq 1 .. (Len(p) + 1) /\ Len(p) + 1 \in 1 .. (Len(p) + 1)
  BY AtTheEnd
<1> DEFINE q == Append(p, e)
           N == Len(p)
<1> HIDE DEF q, N
<1>3. /\ DOMAIN q = 1 .. (N + 1) /\ \A i \in 1 .. N : q[i] = p[i]
      /\ q[N + 1] = e /\ DOMAIN p = 1 .. N
      /\ \A i \in 1 .. (N + 1) : i \in 1 .. N \/ i = N + 1
      /\ 1 .. N \subseteq 1 .. (N + 1) /\ N + 1 \in 1 .. (N + 1)
  BY <1>1 DEF q, N
<1>4. Watched(q) = Watched(p) \cup {e.about.gen}
  BY <1>3 DEF Watched
<1>5. WatchedIsOne(q)
  BY <1>3 DEF Watched, WatchedIsOne
<1>6. QED BY <1>1, <1>4, <1>5 DEF q

\* A message at the end of the queue: what it adds to what the document will hear.
LEMMA SaidGains ==
  ASSUME NEW p \in Seq(Heard), NEW m \in Heard, SaidIsOne(p),
         m.type \in Answers => m.of.gen \notin Said(p)
  PROVE  /\ Append(p, m) \in Seq(Heard) /\ SaidIsOne(Append(p, m))
         /\ m.type \in Answers => Said(Append(p, m)) \subseteq Said(p) \cup {m.of.gen}
         /\ m.type \notin Answers => Said(Append(p, m)) \subseteq Said(p)
<1>1. /\ Append(p, m) \in Seq(Heard) /\ Len(p) \in Nat /\ DOMAIN p = 1 .. Len(p)
      /\ DOMAIN Append(p, m) = 1 .. (Len(p) + 1) /\ Len(Append(p, m)) = Len(p) + 1
      /\ \A i \in 1 .. Len(p) : Append(p, m)[i] = p[i]
      /\ Append(p, m)[Len(p) + 1] = m
      /\ \A i \in 1 .. (Len(p) + 1) : i \in 1 .. Len(p) \/ i = Len(p) + 1
      /\ 1 .. Len(p) \subseteq 1 .. (Len(p) + 1) /\ Len(p) + 1 \in 1 .. (Len(p) + 1)
  BY AtTheEnd
<1> DEFINE q == Append(p, m)
           N == Len(p)
<1> HIDE DEF q, N
<1>3. /\ DOMAIN q = 1 .. (N + 1) /\ \A i \in 1 .. N : q[i] = p[i]
      /\ q[N + 1] = m /\ DOMAIN p = 1 .. N
      /\ \A i \in 1 .. (N + 1) : i \in 1 .. N \/ i = N + 1
  BY <1>1 DEF q, N
<1>4. \A i \in Answering(q) :
        \/ i \in Answering(p) /\ q[i] = p[i]
        \/ i = N + 1 /\ q[i] = m /\ m.type \in Answers
  BY <1>3 DEF Answering
<1>5. SaidIsOne(q)
  BY <1>4 DEF Said, SaidIsOne
<1>6. m.type \in Answers => Said(q) \subseteq Said(p) \cup {m.of.gen}
  BY <1>4 DEF Said
<1>7. m.type \notin Answers => Said(q) \subseteq Said(p)
  BY <1>4 DEF Said
<1>8. QED BY <1>1, <1>5, <1>6, <1>7 DEF q

\* What has been taken from the file ahead of a document's scripts is said as it waited.
LEMMA SaidAtLaunch ==
  ASSUME NEW taps \in Seq(Displays), WaitingIsOne(taps)
  PROVE  /\ [i \in DOMAIN taps |-> Activated(taps[i])] \in Seq(Heard)
         /\ Said([i \in DOMAIN taps |-> Activated(taps[i])]) \subseteq Pendings(taps)
         /\ SaidIsOne([i \in DOMAIN taps |-> Activated(taps[i])])
<1> DEFINE m == [i \in DOMAIN taps |-> Activated(taps[i])]
<1>1. \A i \in DOMAIN taps : taps[i] \in Displays
  OBVIOUS
<1>2. \A i \in DOMAIN taps : Activated(taps[i]) \in Heard /\ Activated(taps[i]).of = taps[i]
  BY <1>1, ActivatedIs
<1>3. m \in Seq(Heard)
  BY <1>2
<1>4. DOMAIN m = DOMAIN taps /\ \A i \in DOMAIN m : m[i].of = taps[i]
  BY <1>2
<1> HIDE DEF m
<1>5. \A i \in Answering(m) : i \in DOMAIN taps /\ m[i].of.gen = taps[i].gen
  BY <1>4 DEF Answering
<1>6. Said(m) \subseteq Pendings(taps)
  BY <1>5 DEF Said, Pendings
<1>7. SaidIsOne(m)
  BY <1>5 DEF SaidIsOne, WaitingIsOne
<1>8. QED BY <1>3, <1>6, <1>7 DEF m

\* Of a list that is cut down to its end, the end is kept.
LEMMA TrimmedIs ==
  ASSUME NEW s \in Seq(Nat)
  PROVE  /\ Trimmed(s) \in Seq(Nat) /\ Remembered(Trimmed(s)) \subseteq Remembered(s)
         /\ s # <<>> => s[Len(s)] \in Remembered(Trimmed(s))
<1>0. ConsumedLimit \in Nat /\ ConsumedLimit > 0
  BY NotifyAssumption
<1>1. CASE ~(Len(s) > ConsumedLimit)
  BY <1>1 DEF Trimmed, Remembered
<1>2. CASE Len(s) > ConsumedLimit
  <2> DEFINE a == Len(s) - ConsumedLimit + 1
             r == SubSeq(s, a, Len(s))
  <2>1. Trimmed(s) = r
    BY <1>2 DEF Trimmed
  <2>2. a \in 1 .. Len(s) /\ Len(s) \in Nat
    BY <1>0, <1>2
  <2>3. /\ r \in Seq(Nat) /\ Len(r) = ConsumedLimit
        /\ \A i \in 1 .. ConsumedLimit : r[i] = s[a + i - 1]
    BY <1>0, <1>2, <2>2
  <2>4. DOMAIN r = 1 .. ConsumedLimit
    BY <2>3
  <2>5. \A i \in 1 .. ConsumedLimit : a + i - 1 \in DOMAIN s
    BY <1>0, <1>2, <2>2
  <2> HIDE DEF r
  <2>6. Remembered(r) \subseteq Remembered(s)
    BY <2>3, <2>4, <2>5 DEF Remembered
  <2>7. ConsumedLimit \in DOMAIN r /\ r[ConsumedLimit] = s[Len(s)]
    BY <1>0, <2>2, <2>3, <2>4
  <2>8. QED BY <2>1, <2>3, <2>6, <2>7 DEF Remembered
<1>3. QED BY <1>1, <1>2

\* Taking what waits empties the file and remembers of it at least the end.
LEMMA TakenIs ==
  ASSUME NEW taps \in Seq(Displays), consumed \in Seq(Nat), taps # <<>>, Take(taps)
  PROVE  /\ pending' = <<>> /\ consumed' \in Seq(Nat)
         /\ Remembered(consumed') \subseteq Remembered(consumed) \cup Pendings(taps)
         /\ taps[Len(taps)].gen \in Remembered(consumed')
<1> DEFINE N == Nonces(taps)
           s == consumed \o N
<1>1. Len(taps) \in Nat \ {0} /\ DOMAIN taps = 1 .. Len(taps)
  OBVIOUS
<1>2. \A i \in DOMAIN taps : taps[i].gen \in Nat
  <2>1. \A i \in DOMAIN taps : taps[i] \in Displays
    OBVIOUS
  <2>2. QED BY <2>1 DEF Displays
<1>3. /\ N \in Seq(Nat) /\ Len(N) = Len(taps) /\ DOMAIN N = DOMAIN taps
      /\ \A i \in DOMAIN taps : N[i] = taps[i].gen
  BY <1>1, <1>2 DEF Nonces
<1> HIDE DEF N
<1>4. /\ s \in Seq(Nat) /\ Len(s) = Len(consumed) + Len(N) /\ Len(consumed) \in Nat
      /\ \A i \in 1 .. Len(consumed) : s[i] = consumed[i]
      /\ \A i \in 1 .. Len(N) : s[Len(consumed) + i] = N[i]
  <2>1. /\ s \in Seq(Nat) /\ Len(s) = Len(consumed) + Len(N)
        /\ \A i \in 1 .. Len(consumed) + Len(N) :
             s[i] = IF i <= Len(consumed) THEN consumed[i] ELSE N[i - Len(consumed)]
    BY <1>3, ConcatProperties
  <2>2. Len(consumed) \in Nat /\ Len(N) \in Nat
    BY <1>3
  <2> HIDE DEF s
  <2>3. \A i \in 1 .. Len(consumed) : s[i] = consumed[i]
    BY <2>1, <2>2
  <2>4. ASSUME NEW i \in 1 .. Len(N) PROVE s[Len(consumed) + i] = N[i]
    <3>1. /\ Len(consumed) + i \in 1 .. Len(consumed) + Len(N)
          /\ ~(Len(consumed) + i <= Len(consumed)) /\ (Len(consumed) + i) - Len(consumed) = i
      BY <2>2
    <3>2. QED BY <2>1, <3>1
  <2>5. QED BY <2>1, <2>2, <2>3, <2>4
<1>5. s # <<>> /\ s[Len(s)] = taps[Len(taps)].gen
  BY <1>1, <1>3, <1>4
<1>6. Remembered(s) \subseteq Remembered(consumed) \cup Pendings(taps)
  <2>1. ASSUME NEW i \in DOMAIN s PROVE s[i] \in Remembered(consumed) \cup Pendings(taps)
    <3>1. i \in 1 .. (Len(consumed) + Len(N))
      BY <1>4
    <3>2. CASE i \in 1 .. Len(consumed)
      BY <3>2, <1>4 DEF Remembered
    <3>3. CASE i \notin 1 .. Len(consumed)
      <4>1. i - Len(consumed) \in 1 .. Len(N) /\ i = Len(consumed) + (i - Len(consumed))
        BY <3>1, <3>3, <1>3, <1>4
      <4>2. s[i] = N[i - Len(consumed)]
        BY <4>1, <1>4
      <4>3. i - Len(consumed) \in DOMAIN taps
        BY <4>1, <1>1, <1>3
      <4>4. QED BY <4>2, <4>3, <1>3 DEF Pendings
    <3>4. QED BY <3>2, <3>3
  <2>2. QED BY <2>1 DEF Remembered
<1> HIDE DEF s
<1>7. pending' = <<>> /\ consumed' = Trimmed(s)
  BY DEF Take, s, N
<1>8. /\ Trimmed(s) \in Seq(Nat) /\ Remembered(Trimmed(s)) \subseteq Remembered(s)
      /\ s[Len(s)] \in Remembered(Trimmed(s))
  BY <1>4, <1>5, TrimmedIs
<1>9. QED BY <1>5, <1>6, <1>7, <1>8

\* What poll() works on: the table of records and the queue of messages.
States == [records : Tables, out : Seq(Heard)]

\* A table of records without one of them.
LEMMA RemovedIs ==
  ASSUME NEW t \in Tables, NEW n
  PROVE  Removed(n, t) \in Tables
<1>1. PICK N \in SUBSET Nat : t \in [N -> Nat]
  BY DEF Tables
<1>2. Removed(n, t) \in [N \ {n} -> Nat] /\ N \ {n} \in SUBSET Nat
  BY <1>1 DEF Removed
<1>3. QED BY <1>2 DEF Tables

\* From s to r, one message of one of the types is queued about e.
Tells(r, s, e, types) ==
  /\ r \in States
  /\ \E m \in Heard : m.of = e /\ m.type \in types /\ r.out = Append(s.out, m)

\* A notification that ends says so, and its record goes.
LEMMA EndedIs ==
  ASSUME document \in Nat, NEW s \in States, NEW e \in Displays, NEW type \in {"click", "closed"}
  PROVE  Tells(Ended(s, e, type), s, e, {type})
<1> DEFINE m == [type |-> type, of |-> e, doc |-> document]
           r == Removed(e.id, s.records)
           o == Append(s.out, m)
<1>1. s.records \in Tables /\ s.out \in Seq(Heard)
  BY DEF States
<1>2. m \in Heard /\ m.of = e /\ m.type = type
  BY DEF Heard
<1>3. Ended(s, e, type) = [records |-> r, out |-> o]
  BY DEF Ended
<1>4. r \in Tables
  BY <1>1, RemovedIs
<1> HIDE DEF m
<1>5. o \in Seq(Heard)
  BY <1>1, <1>2
<1>6. o = Append(s.out, m)
  OBVIOUS
<1> HIDE DEF r, o
<1>7. Ended(s, e, type) \in States /\ Ended(s, e, type).out = o
  BY <1>3, <1>4, <1>5 DEF States
<1>8. QED BY <1>2, <1>6, <1>7 DEF Tells

\* An activation of the file becomes one answer, whichever document is asked.
LEMMA AnsweredIs ==
  ASSUME document \in Nat, NEW s \in States, NEW e \in Displays
  PROVE  Tells(Answered(s, e), s, e, Answers)
<1>1. CASE Current(s, e)
  BY <1>1, EndedIs DEF Answered, Answers, Tells
<1>2. CASE ~Current(s, e)
  <2> DEFINE m == Activated(e)
             o == Append(s.out, m)
  <2>1. Answered(s, e) = [records |-> s.records, out |-> o]
    BY <1>2 DEF Answered
  <2>2. s.records \in Tables /\ s.out \in Seq(Heard)
    BY DEF States
  <2>3. m \in Heard /\ m.of = e /\ m.type \in Answers
    BY ActivatedIs
  <2> HIDE DEF m
  <2>4. o \in Seq(Heard) /\ o = Append(s.out, m)
    BY <2>2, <2>3
  <2> HIDE DEF o
  <2>5. Answered(s, e) \in States /\ Answered(s, e).out = o
    BY <2>1, <2>2, <2>4 DEF States
  <2>6. QED BY <2>3, <2>4, <2>5 DEF Tells
<1>3. QED BY <1>1, <1>2

\* A signal becomes one message about what it is of, or none.
LEMMA SignalledIs ==
  ASSUME document \in Nat, NEW s \in States, NEW x \in Reports
  PROVE  \/ Signalled(s, x) = s
         \/ Tells(Signalled(s, x), s, x.about, {"click", "closed"})
<1> DEFINE e == x.about
           type == IF x.kind = "click" THEN "click" ELSE "closed"
<1>1. e \in Displays /\ type \in {"click", "closed"}
  BY DEF Reports
<1> HIDE DEF type
<1>2. Signalled(s, x) = Ended(s, e, type) \/ Signalled(s, x) = s
  BY DEF Signalled, type
<1> HIDE DEF e
<1>3. Tells(Ended(s, e, type), s, e, {type})
  BY <1>1, EndedIs
<1>4. Tells(Ended(s, e, type), s, e, {"click", "closed"})
  BY <1>1, <1>3 DEF Tells
<1>5. QED BY <1>2, <1>4 DEF e

\* All that waits in the file is answered, each activation once.
LEMMA AnsweredAll ==
  ASSUME document \in Nat, NEW b \in States, NEW taps \in Seq(Displays), WaitingIsOne(taps),
         SaidIsOne(b.out), Pendings(taps) \cap Said(b.out) = {}
  PROVE  /\ AllActivated(b, taps) \in States
         /\ SaidIsOne(AllActivated(b, taps).out)
         /\ Said(AllActivated(b, taps).out) \subseteq Said(b.out) \cup Pendings(taps)
<1> DEFINE n == Len(taps)
           final == AllActivated(b, taps)
           Upto(k) == {taps[j].gen : j \in 1 .. k}
<1>1. \A s \in States, e \in Displays : Answered(s, e) \in States
  BY AnsweredIs DEF Tells
<1>0. PICK h : AnsweredTurns(h, States, b, taps)
  BY <1>1, AnsweredInTurn
<1>2. /\ h \in [0 .. n -> States] /\ h[0] = b /\ h[n] = final
      /\ \A k \in 1 .. n : h[k] = Answered(h[k - 1], taps[k])
  BY <1>0 DEF AnsweredTurns
<1>3. n \in Nat /\ DOMAIN taps = 1 .. n /\ \A i \in 1 .. n : taps[i] \in Displays
  OBVIOUS
<1> HIDE DEF n, final
<1> DEFINE Good(k) == /\ SaidIsOne(h[k].out)
                      /\ Said(h[k].out) \subseteq Said(b.out) \cup Upto(k)
           T == {k \in 0 .. n : Good(k)}
<1>4. 0 \in T
  BY <1>2, <1>3
<1>5. ASSUME NEW k \in 1 .. n, k - 1 \in T PROVE k \in T
  <2>1. /\ h[k - 1] \in States /\ h[k] \in States /\ taps[k] \in Displays
        /\ h[k] = Answered(h[k - 1], taps[k]) /\ k \in 0 .. n /\ k - 1 \in 0 .. n
    BY <1>2, <1>3
  <2>2. Good(k - 1)
    BY <1>5
  <2>3. PICK m \in Heard : /\ m.of = taps[k] /\ m.type \in Answers
                           /\ h[k].out = Append(h[k - 1].out, m)
    <3>1. Tells(h[k], h[k - 1], taps[k], Answers)
      BY <2>1, AnsweredIs
    <3>2. QED BY <3>1 DEF Tells
  <2>4. h[k - 1].out \in Seq(Heard)
    BY <2>1 DEF States
  <2>5. m.of.gen \notin Said(h[k - 1].out)
    BY <1>3, <2>2, <2>3 DEF Pendings, WaitingIsOne
  <2>6. /\ SaidIsOne(Append(h[k - 1].out, m))
        /\ Said(Append(h[k - 1].out, m)) \subseteq Said(h[k - 1].out) \cup {m.of.gen}
    BY <2>2, <2>3, <2>4, <2>5, SaidGains
  <2>7. Upto(k - 1) \subseteq Upto(k) /\ taps[k].gen \in Upto(k)
    BY <1>3
  <2>8. Good(k)
    BY <2>2, <2>3, <2>6, <2>7
  <2>9. QED BY <2>1, <2>8
<1>6. n \in T
  <2> HIDE DEF T
  <2>1. \A k \in 0 .. n : k \in T
    BY <1>3, <1>4, <1>5, StepsStay
  <2>2. QED BY <1>3, <2>1
<1>7. SaidIsOne(final.out) /\ Said(final.out) \subseteq Said(b.out) \cup Upto(n) /\ final \in States
  BY <1>2, <1>3, <1>6
<1>8. Upto(n) \subseteq Pendings(taps)
  BY <1>3 DEF Pendings
<1>9. QED BY <1>7, <1>8 DEF final

\* All that the watchers have queued is told, each signal at most once.
LEMMA SignalledAll ==
  ASSUME document \in Nat, NEW b \in States, NEW taps \in Seq(Reports), WatchedIsOne(taps),
         SaidIsOne(b.out), Watched(taps) \cap Said(b.out) = {}
  PROVE  /\ AllSignalled(b, taps) \in States
         /\ SaidIsOne(AllSignalled(b, taps).out)
         /\ Said(AllSignalled(b, taps).out) \subseteq Said(b.out) \cup Watched(taps)
<1> DEFINE n == Len(taps)
           final == AllSignalled(b, taps)
           Upto(k) == {taps[j].about.gen : j \in 1 .. k}
<1>1. \A s \in States, e \in Reports : Signalled(s, e) \in States
  BY SignalledIs DEF Tells
<1>0. PICK h : SignalledTurns(h, States, b, taps)
  BY <1>1, SignalledInTurn
<1>2. /\ h \in [0 .. n -> States] /\ h[0] = b /\ h[n] = final
      /\ \A k \in 1 .. n : h[k] = Signalled(h[k - 1], taps[k])
  BY <1>0 DEF SignalledTurns
<1>3. n \in Nat /\ DOMAIN taps = 1 .. n /\ \A i \in 1 .. n : taps[i] \in Reports
  OBVIOUS
<1> HIDE DEF n, final
<1> DEFINE Good(k) == /\ SaidIsOne(h[k].out)
                      /\ Said(h[k].out) \subseteq Said(b.out) \cup Upto(k)
           T == {k \in 0 .. n : Good(k)}
<1>4. 0 \in T
  BY <1>2, <1>3
<1>5. ASSUME NEW k \in 1 .. n, k - 1 \in T PROVE k \in T
  <2>1. /\ h[k - 1] \in States /\ h[k] \in States /\ taps[k] \in Reports
        /\ h[k] = Signalled(h[k - 1], taps[k]) /\ k \in 0 .. n /\ k - 1 \in 0 .. n
    BY <1>2, <1>3
  <2>2. Good(k - 1)
    BY <1>5
  <2>3. Upto(k - 1) \subseteq Upto(k) /\ taps[k].about.gen \in Upto(k)
    BY <1>3
  <2>4. CASE h[k] = h[k - 1]
    BY <2>1, <2>2, <2>3, <2>4
  <2>5. ASSUME NEW m \in Heard, m.of = taps[k].about, h[k].out = Append(h[k - 1].out, m)
        PROVE  k \in T
    <3>1. h[k - 1].out \in Seq(Heard)
      BY <2>1 DEF States
    <3>2. m.of.gen \notin Said(h[k - 1].out)
      BY <1>3, <2>2, <2>5 DEF Watched, WatchedIsOne
    <3>3. /\ SaidIsOne(Append(h[k - 1].out, m))
          /\ Said(Append(h[k - 1].out, m)) \subseteq Said(h[k - 1].out) \cup {m.of.gen}
      BY <2>2, <3>1, <3>2, SaidGains
    <3>4. Good(k)
      BY <2>2, <2>3, <2>5, <3>3
    <3>5. QED BY <2>1, <3>4
  <2>6. h[k] = h[k - 1] \/ Tells(h[k], h[k - 1], taps[k].about, {"click", "closed"})
    BY <2>1, SignalledIs
  <2>7. QED BY <2>4, <2>5, <2>6 DEF Tells
<1>6. n \in T
  <2> HIDE DEF T
  <2>1. \A k \in 0 .. n : k \in T
    BY <1>3, <1>4, <1>5, StepsStay
  <2>2. QED BY <1>3, <2>1
<1>7. SaidIsOne(final.out) /\ Said(final.out) \subseteq Said(b.out) \cup Upto(n) /\ final \in States
  BY <1>2, <1>3, <1>6
<1>8. Upto(n) \subseteq Watched(taps)
  BY <1>3 DEF Watched
<1>9. QED BY <1>7, <1>8 DEF final

\* Empty lists have nothing in them.
LEMMA NothingThere ==
  /\ Said(<<>>) = {} /\ Watched(<<>>) = {} /\ Pendings(<<>>) = {}
  /\ SaidIsOne(<<>>) /\ WatchedIsOne(<<>>) /\ WaitingIsOne(<<>>)
  /\ <<>> \in Seq(Heard) /\ <<>> \in Seq(Reports) /\ <<>> \in Seq(Wishes)
  /\ <<>> \in Seq(Displays) /\ Empty \in Tables
<1>1. DOMAIN <<>> = {}
  OBVIOUS
<1>2. Said(<<>>) = {} /\ Watched(<<>>) = {} /\ Pendings(<<>>) = {}
  BY <1>1 DEF Said, Watched, Pendings, Answering
<1>3. SaidIsOne(<<>>) /\ WatchedIsOne(<<>>) /\ WaitingIsOne(<<>>)
  BY <1>1 DEF SaidIsOne, WatchedIsOne, WaitingIsOne, Answering
<1>4. <<>> \in Seq(Heard) /\ <<>> \in Seq(Reports) /\ <<>> \in Seq(Wishes) /\ <<>> \in Seq(Displays)
  OBVIOUS
<1>5. Empty \in [{} -> Nat] /\ {} \in SUBSET Nat
  BY DEF Empty
<1>6. Empty \in Tables
  BY <1>5 DEF Tables
<1>7. QED BY <1>2, <1>3, <1>4, <1>6

\* No envelope is the one that stands for none.
LEMMA NoteIsNot ==
  ASSUME NEW e \in Displays
  PROVE  e # None /\ e.gen \in Nat
<1>1. e.gen \in Nat /\ DOMAIN e = {"id", "session", "doc", "gen"}
  BY DEF Displays
<1>2. DOMAIN None = {"gen"}
  BY DEF None
<1>3. QED BY <1>1, <1>2

\* The end of what waits is one of those waiting.
LEMMA EndWaits ==
  ASSUME NEW p \in Seq(Displays), p # <<>>
  PROVE  p[Len(p)].gen \in Pendings(p) /\ p[Len(p)] \in Displays
<1>1. Len(p) \in DOMAIN p /\ p[Len(p)] \in Displays
  OBVIOUS
<1>2. QED BY <1>1 DEF Pendings

\* At the start nothing has been displayed.
LEMMA NotifyStarts == NotifyInit => NotifyInv
<1> SUFFICES ASSUME NotifyInit PROVE NotifyInv
  OBVIOUS
<1> USE NothingThere DEF NotifyInit
<1>0. MaxShown \in Nat
  BY NotifyAssumption
<1>1. OnScreen(screen) = {} /\ OnTheirWay(flying) = {}
  BY DEF OnScreen, OnTheirWay
<1>2. ToldOf(told) = {}
  BY DEF ToldOf
<1>3. Remembered(consumed) = {} /\ consumed \in Seq(Nat)
  BY DEF Remembered
<1>4. NotesTyped
  BY <1>0, <1>3 DEF NotesTyped
<1>5. ScreenIsOne(screen) /\ WayIsOne(flying)
  BY DEF ScreenIsOne, WayIsOne
<1>6. Apart({}, {}, {}, {}, {}, {}, {}, minted)
  BY DEF Apart
<1>7. HeardAtMostOnce(told)
  BY DEF HeardAtMostOnce
<1>8. LatestIsKnown(latest, OnScreen(screen), OnTheirWay(flying), Watched(signals),
                    Said(messages), ToldOf(told), Remembered(consumed), pending, minted)
  BY DEF LatestIsKnown
<1>9. QED BY <1>1, <1>2, <1>3, <1>4, <1>5, <1>6, <1>7, <1>8 DEF NotifyInv

\* A click or a dismissal takes a notification from the screen.
LEMMA RespondKeeps ==
  ASSUME NotifyInv, NEW e \in screen, NEW kind \in {"click", "closed"}, Respond(e, kind)
  PROVE  NotifyInv'
<1> DEFINE x == [about |-> e, kind |-> kind]
<1> USE DEF channelVars, fileVars
<1>0. e \in Displays
  BY DEF NotifyInv, NotesTyped
<1>1. x \in Reports /\ x.about = e
  BY <1>0 DEF Reports
<1> HIDE DEF x
<1>2. screen' = screen \ {e} /\ flying' = flying \cup {x}
  BY DEF Respond, x
<1>3. UNCHANGED <<session, document, nextId, requests, messages, signals, records, pending,
                  consumed, minted, latest, told>>
  BY DEF Respond
<1>4. /\ OnScreen(screen') \subseteq OnScreen(screen) \ {e.gen} /\ ScreenIsOne(screen')
      /\ e.gen \in OnScreen(screen)
  BY <1>2, ScreenLoses DEF NotifyInv
<1>5. OnTheirWay(flying') = OnTheirWay(flying) \cup {e.gen} /\ WayIsOne(flying')
  BY <1>4, <1>1, <1>2, WayGains DEF NotifyInv, Apart
<1>6. NotesTyped'
  BY <1>1, <1>2, <1>3 DEF NotifyInv, NotesTyped
<1>7. Apart(OnScreen(screen'), OnTheirWay(flying'), Pendings(pending), Watched(signals),
            Said(messages), ToldOf(told), Remembered(consumed), minted)
  BY <1>4, <1>5 DEF NotifyInv, Apart
<1>8. LatestIsKnown(latest, OnScreen(screen'), OnTheirWay(flying'), Watched(signals),
                    Said(messages), ToldOf(told), Remembered(consumed), pending, minted)
  BY <1>4, <1>5 DEF NotifyInv, LatestIsKnown
<1>9. QED BY <1>3, <1>4, <1>5, <1>6, <1>7, <1>8 DEF NotifyInv

\* A report that is answered by the activator or the portal is recorded, or lost.
LEMMA ClickedKeeps ==
  ASSUME NotifyInv, NEW x \in flying, NEW writable \in BOOLEAN, Clicked(x, writable)
  PROVE  NotifyInv'
<1> DEFINE e == x.about
<1> USE DEF channelVars, fileVars
<1>0. x \in Reports
  BY DEF NotifyInv, NotesTyped
<1>1. e \in Displays
  BY <1>0 DEF Reports
<1>2. flying' = flying \ {x} /\ latest' = e
  BY DEF Clicked
<1>3. UNCHANGED <<session, document, nextId, requests, messages, signals, records,
                  consumed, minted, screen, told>>
  BY DEF Clicked
<1>4. /\ OnTheirWay(flying') \subseteq OnTheirWay(flying) \ {e.gen} /\ WayIsOne(flying')
      /\ e.gen \in OnTheirWay(flying)
  BY <1>2, WayLoses DEF NotifyInv
<1>5. pending' = pending \/ pending' = Append(pending, e)
  BY DEF Clicked, Recorded
<1> HIDE DEF e
<1>6. /\ e.gen \notin OnScreen(screen) /\ e.gen \notin Pendings(pending)
      /\ e.gen \notin Watched(signals) /\ e.gen \notin Said(messages) /\ e.gen \notin ToldOf(told)
      /\ e.gen \notin Remembered(consumed) /\ e.gen \in 1 .. minted
  BY <1>4 DEF NotifyInv, Apart
<1>7. /\ Append(pending, e) \in Seq(Displays)
      /\ Pendings(Append(pending, e)) = Pendings(pending) \cup {e.gen}
      /\ WaitingIsOne(Append(pending, e))
      /\ Append(pending, e)[Len(Append(pending, e))] = e
  BY <1>1, <1>6, WaitingGains DEF NotifyInv, NotesTyped
<1>8. /\ pending' \in Seq(Displays) /\ WaitingIsOne(pending')
      /\ Pendings(pending') \subseteq Pendings(pending) \cup {e.gen}
      /\ e.gen \in Pendings(pending') => pending'[Len(pending')] = e
  BY <1>6, <1>7, <1>5 DEF NotifyInv, NotesTyped
<1>9. NotesTyped'
  BY <1>1, <1>2, <1>3, <1>8 DEF NotifyInv, NotesTyped
<1>10. Apart(OnScreen(screen), OnTheirWay(flying'), Pendings(pending'), Watched(signals),
             Said(messages), ToldOf(told), Remembered(consumed), minted)
  BY <1>4, <1>6, <1>8 DEF NotifyInv, Apart
<1>11. LatestIsKnown(e, OnScreen(screen), OnTheirWay(flying'), Watched(signals),
                     Said(messages), ToldOf(told), Remembered(consumed), pending', minted)
  BY <1>4, <1>6, <1>8 DEF LatestIsKnown
<1>12. QED BY <1>2, <1>3, <1>4, <1>8, <1>9, <1>10, <1>11 DEF NotifyInv

\* A report that reaches a watcher is queued, or lost with its process.
LEMMA SignalKeeps ==
  ASSUME NotifyInv, NEW x \in flying, Signal(x)
  PROVE  NotifyInv'
<1> DEFINE g == x.about.gen
<1> USE DEF channelVars, fileVars
<1>0. x \in Reports
  BY DEF NotifyInv, NotesTyped
<1>2. flying' = flying \ {x} /\ (signals' = signals \/ signals' = Append(signals, x))
  BY DEF Signal
<1>3. UNCHANGED <<session, document, nextId, requests, messages, records, pending,
                  consumed, minted, screen, latest, told>>
  BY DEF Signal
<1>4. /\ OnTheirWay(flying') \subseteq OnTheirWay(flying) \ {g} /\ WayIsOne(flying')
      /\ g \in OnTheirWay(flying)
  BY <1>2, WayLoses DEF NotifyInv
<1>6. g \notin Watched(signals) /\ signals \in Seq(Reports) /\ WatchedIsOne(signals)
  BY <1>4 DEF NotifyInv, NotesTyped, Apart
<1>7. /\ Append(signals, x) \in Seq(Reports)
      /\ Watched(Append(signals, x)) = Watched(signals) \cup {g}
      /\ WatchedIsOne(Append(signals, x))
  BY <1>0, <1>6, WatchedGains
<1> HIDE DEF g
<1>8. /\ signals' \in Seq(Reports) /\ WatchedIsOne(signals')
      /\ Watched(signals') \subseteq Watched(signals) \cup {g}
  BY <1>6, <1>7, <1>2
<1>9. NotesTyped'
  BY <1>2, <1>3, <1>8 DEF NotifyInv, NotesTyped
<1>10. Apart(OnScreen(screen), OnTheirWay(flying'), Pendings(pending), Watched(signals'),
             Said(messages), ToldOf(told), Remembered(consumed), minted)
  BY <1>4, <1>8 DEF NotifyInv, Apart
<1>11. LatestIsKnown(latest, OnScreen(screen), OnTheirWay(flying'), Watched(signals'),
                     Said(messages), ToldOf(told), Remembered(consumed), pending, minted)
  BY <1>4, <1>8 DEF NotifyInv, LatestIsKnown
<1>12. QED BY <1>2, <1>3, <1>4, <1>8, <1>9, <1>10, <1>11 DEF NotifyInv

\* What ends or replaces a document drops its queues and the reports to it, and may take
\* notifications from the screen.
LEMMA DropsKeep ==
  ASSUME NotifyInv, session' \in Nat, document' \in Nat, nextId' \in Nat,
         requests' = <<>>, messages' = <<>>, signals' = <<>>, records' = Empty,
         screen' \subseteq screen, UNCHANGED <<pending, consumed, minted, flying, latest, told>>
  PROVE  NotifyInv'
<1>1. OnScreen(screen') \subseteq OnScreen(screen) /\ ScreenIsOne(screen')
  BY ScreenLess DEF NotifyInv
<1>2. /\ Said(messages') = {} /\ Watched(signals') = {}
      /\ SaidIsOne(messages') /\ WatchedIsOne(signals')
  BY NothingThere
<1>3. NotesTyped'
  BY NothingThere DEF NotifyInv, NotesTyped
<1>4. Apart(OnScreen(screen'), OnTheirWay(flying), Pendings(pending), {}, {}, ToldOf(told),
            Remembered(consumed), minted)
  BY <1>1 DEF NotifyInv, Apart
<1>5. LatestIsKnown(latest, OnScreen(screen'), OnTheirWay(flying), {}, {}, ToldOf(told),
                    Remembered(consumed), pending, minted)
  BY <1>1 DEF NotifyInv, LatestIsKnown
<1>6. QED BY <1>1, <1>2, <1>3, <1>4, <1>5 DEF NotifyInv

\* The process ends, or is killed.
LEMMA EndsKeeps ==
  ASSUME NotifyInv, Ends
  PROVE  NotifyInv'
<1>1. session' \in Nat /\ document' \in Nat /\ nextId' \in Nat
  BY DEF Ends, NotifyInv, NotesTyped
<1>2. /\ requests' = <<>> /\ messages' = <<>> /\ signals' = <<>> /\ records' = Empty
      /\ screen' \subseteq screen
      /\ UNCHANGED <<pending, consumed, minted, flying, latest, told>>
  BY DEF Ends, fileVars, platformVars
<1>3. QED BY <1>1, <1>2, DropsKeep

\* A reload withdraws the document's notifications, those the platform lets it.
LEMMA ReloadKeeps ==
  ASSUME NotifyInv, NEW closes \in BOOLEAN, ReloadDocument(closes)
  PROVE  NotifyInv'
<1>1. session' \in Nat /\ document' \in Nat /\ nextId' \in Nat
  BY DEF ReloadDocument, NotifyInv, NotesTyped
<1>2. /\ requests' = <<>> /\ messages' = <<>> /\ signals' = <<>> /\ records' = Empty
      /\ UNCHANGED <<pending, consumed, minted, flying, latest, told>>
  BY DEF ReloadDocument, fileVars
<1>3. screen' \subseteq screen
  BY DEF ReloadDocument
<1>4. QED BY <1>1, <1>2, <1>3, DropsKeep

\* A request of the document is only queued.
LEMMA AskKeeps ==
  ASSUME NotifyInv, NEW kind \in {"show", "update", "close"}, NEW n \in Nat, Ask(kind, n)
  PROVE  NotifyInv'
<1> DEFINE r == [kind |-> kind, id |-> n]
<1>1. r \in Wishes
  BY DEF Wishes
<1>2. requests' = Append(requests, r)
  BY DEF Ask
<1> HIDE DEF r
<1>3. requests \in Seq(Wishes)
  BY DEF NotifyInv, NotesTyped
<1>4. requests' \in Seq(Wishes)
  BY <1>1, <1>2, <1>3
<1>5. UNCHANGED <<session, document, messages, signals, records, pending, consumed, minted,
                  screen, flying, latest, told>>
  BY DEF Ask, fileVars, platformVars
<1>6. nextId' \in Nat
  BY DEF Ask, NotifyInv, NotesTyped
<1>7. NotesTyped'
  BY <1>4, <1>5, <1>6 DEF NotifyInv, NotesTyped
<1>8. QED BY <1>5, <1>7 DEF NotifyInv

\* A frame delivers what is queued, and each click in it for the first time.
LEMMA FrameKeeps ==
  ASSUME NotifyInv, Frame
  PROVE  NotifyInv'
<1>1. messages' = <<>> /\ told' = [g \in DOMAIN told |-> told[g] + Cardinality(Hears(g))]
  BY DEF Frame
<1>2. UNCHANGED <<session, document, nextId, requests, signals, records, pending, consumed,
                  minted, screen, flying, latest>>
  BY DEF Frame, fileVars, platformVars
<1>3. told \in [1 .. MaxShown -> Nat]
  BY DEF NotifyInv, NotesTyped
<1>4. ASSUME NEW g \in 1 .. MaxShown
      PROVE  /\ g \in Said(messages) => Cardinality(Hears(g)) = 1
             /\ g \notin Said(messages) => Cardinality(Hears(g)) = 0
  <2>1. Hears(g) = {i \in Answering(messages) : messages[i].of.gen = g}
    BY DEF Hears, Answering
  <2>2. CASE g \notin Said(messages)
    BY <2>1, <2>2, FS_EmptySet DEF Said
  <2>3. CASE g \in Said(messages)
    <3>1. PICK i \in Answering(messages) : messages[i].of.gen = g
      BY <2>3 DEF Said
    <3>2. Hears(g) = {i}
      BY <2>1, <3>1 DEF NotifyInv, SaidIsOne
    <3>3. QED BY <2>3, <3>2, FS_Singleton
  <2>4. QED BY <2>2, <2>3
<1>5. ASSUME NEW g \in 1 .. MaxShown
      PROVE  /\ told'[g] \in Nat /\ told'[g] <= 1
             /\ told'[g] # 0 => g \in ToldOf(told) \cup Said(messages)
  BY <1>1, <1>3, <1>4 DEF NotifyInv, HeardAtMostOnce, ToldOf, Apart
<1>6. told' \in [1 .. MaxShown -> Nat] /\ HeardAtMostOnce(told')
  BY <1>1, <1>3, <1>5 DEF HeardAtMostOnce
<1>7. ToldOf(told') \subseteq ToldOf(told) \cup Said(messages)
  BY <1>5, <1>6 DEF ToldOf
<1>8. NotesTyped'
  BY <1>1, <1>2, <1>6, NothingThere DEF NotifyInv, NotesTyped
<1>9. Apart(OnScreen(screen), OnTheirWay(flying), Pendings(pending), Watched(signals),
            {}, ToldOf(told'), Remembered(consumed), minted)
  BY <1>7 DEF NotifyInv, Apart
<1>10. LatestIsKnown(latest, OnScreen(screen), OnTheirWay(flying), Watched(signals),
                     {}, ToldOf(told'), Remembered(consumed), pending, minted)
  BY <1>7 DEF NotifyInv, LatestIsKnown
<1>11. Said(messages') = {} /\ SaidIsOne(messages')
  BY <1>1, NothingThere
<1>12. QED BY <1>2, <1>6, <1>8, <1>9, <1>10, <1>11 DEF NotifyInv

\* A table of records in which a name has a number.
LEMMA RecordedIs ==
  ASSUME NEW t \in Tables, NEW n \in Nat, NEW g \in Nat
  PROVE  [k \in DOMAIN t \cup {n} |-> IF k = n THEN g ELSE t[k]] \in Tables
<1>1. PICK N \in SUBSET Nat : t \in [N -> Nat]
  BY DEF Tables
<1>2. /\ [k \in DOMAIN t \cup {n} |-> IF k = n THEN g ELSE t[k]] \in [N \cup {n} -> Nat]
      /\ N \cup {n} \in SUBSET Nat
  BY <1>1
<1>3. QED BY <1>2 DEF Tables

\* A new generation is displayed, perhaps in place of another.
LEMMA DisplayKeeps ==
  ASSUME NotifyInv, NEW n \in Nat, NEW gone, minted < MaxShown, minted' = minted + 1,
         screen' = (screen \ gone) \cup {Displayed(n, minted + 1)}, records' \in Tables,
         requests' \in Seq(Wishes),
         UNCHANGED <<session, document, nextId, messages, signals, pending, consumed,
                     flying, latest, told>>
  PROVE  NotifyInv'
<1> DEFINE g == minted + 1
           e == Displayed(n, g)
           less == screen \ gone
<1>0. minted \in Nat /\ MaxShown \in Nat /\ g \in 1 .. MaxShown /\ minted' = g
  BY NotifyAssumption DEF NotifyInv, NotesTyped
<1>1. e \in Displays /\ e.gen = g
  BY <1>0, DisplayedIs DEF NotifyInv, NotesTyped
<1> HIDE DEF e
<1>2. screen' = less \cup {e}
  BY DEF e
<1>3. OnScreen(less) \subseteq OnScreen(screen) /\ ScreenIsOne(less)
  BY ScreenLess DEF NotifyInv
<1>4. g \notin 1 .. minted /\ 1 .. minted \subseteq 1 .. g /\ g \in 1 .. g
  BY <1>0
<1> HIDE DEF g, less
<1>5. g \notin OnScreen(less)
  BY <1>3, <1>4 DEF NotifyInv, Apart
<1>6. OnScreen(screen') = OnScreen(less) \cup {g} /\ ScreenIsOne(screen')
  <2>1. e.gen \notin OnScreen(less)
    BY <1>1, <1>5
  <2>2. OnScreen(less \cup {e}) = OnScreen(less) \cup {e.gen} /\ ScreenIsOne(less \cup {e})
    BY <1>3, <2>1, ScreenGains
  <2>3. QED BY <1>1, <1>2, <2>2
<1>7. NotesTyped'
  BY <1>1, <1>2, <1>0 DEF NotifyInv, NotesTyped, less
<1>8. Apart(OnScreen(screen'), OnTheirWay(flying), Pendings(pending), Watched(signals),
            Said(messages), ToldOf(told), Remembered(consumed), g)
  BY <1>3, <1>4, <1>6 DEF NotifyInv, Apart
<1>9. LatestIsKnown(latest, OnScreen(screen'), OnTheirWay(flying), Watched(signals),
                    Said(messages), ToldOf(told), Remembered(consumed), pending, g)
  BY <1>3, <1>4, <1>6 DEF NotifyInv, LatestIsKnown
<1>10. QED BY <1>0, <1>6, <1>7, <1>8, <1>9 DEF NotifyInv

\* A notification may be withdrawn, and the document told that it is closed.
LEMMA WithdrawKeeps ==
  ASSUME NotifyInv, screen' \subseteq screen, records' \in Tables, requests' \in Seq(Wishes),
         messages' = messages \/ \E m \in Heard : /\ m.type \notin Answers
                                                  /\ messages' = Append(messages, m),
         UNCHANGED <<session, document, nextId, signals, pending, consumed, minted,
                     flying, latest, told>>
  PROVE  NotifyInv'
<1>1. OnScreen(screen') \subseteq OnScreen(screen) /\ ScreenIsOne(screen')
  BY ScreenLess DEF NotifyInv
<1>2. messages \in Seq(Heard) /\ SaidIsOne(messages)
  BY DEF NotifyInv, NotesTyped
<1>3. /\ messages' \in Seq(Heard) /\ SaidIsOne(messages')
      /\ Said(messages') \subseteq Said(messages)
  BY <1>2, SaidGains
<1>4. NotesTyped'
  BY <1>3 DEF NotifyInv, NotesTyped
<1>5. Apart(OnScreen(screen'), OnTheirWay(flying), Pendings(pending), Watched(signals),
            Said(messages'), ToldOf(told), Remembered(consumed), minted)
  BY <1>1, <1>3 DEF NotifyInv, Apart
<1>6. LatestIsKnown(latest, OnScreen(screen'), OnTheirWay(flying), Watched(signals),
                    Said(messages'), ToldOf(told), Remembered(consumed), pending, minted)
  BY <1>1, <1>3 DEF NotifyInv, LatestIsKnown
<1>7. QED BY <1>1, <1>3, <1>4, <1>5, <1>6 DEF NotifyInv

\* Requests are applied one at a time, each as the platform lets it.
LEMMA ApplyKeeps ==
  ASSUME NotifyInv, NEW works \in BOOLEAN, Apply(works)
  PROVE  NotifyInv'
<1> USE DEF fileVars
<1>1. UNCHANGED <<session, document, nextId, signals, pending, consumed, flying, latest, told>>
  BY DEF Apply
<1>2. CASE requests = <<>>
  BY <1>2, <1>1 DEF Apply, NotifyInv, NotesTyped
<1>3. CASE requests # <<>>
  <2> DEFINE r == Head(requests)
             n == r.id
  <2>0. requests \in Seq(Wishes) /\ records \in Tables
    BY DEF NotifyInv, NotesTyped
  <2>1. r \in Wishes /\ Tail(requests) \in Seq(Wishes)
    BY <1>3, <2>0
  <2>2. n \in Nat
    BY <2>1 DEF Wishes
  <2>3. requests' \in Seq(Wishes)
    BY <1>3, <2>1 DEF Apply
  <2>4. \/ CloseApplied(n, works) \/ ShowApplied(n) \/ UpdateApplied(n)
        \/ UNCHANGED <<messages, records, minted, screen>>
    BY <1>3 DEF Apply
  <2> HIDE DEF n
  <2>5. CASE ShowApplied(n)
    <3> DEFINE gone == Named(n)
    <3>1. /\ minted < MaxShown /\ minted' = minted + 1 /\ UNCHANGED messages
          /\ screen' = (screen \ gone) \cup {Displayed(n, minted + 1)}
          /\ records' = [k \in DOMAIN records \cup {n} |-> IF k = n THEN minted + 1 ELSE records[k]]
      BY <2>5 DEF ShowApplied
    <3>2. minted + 1 \in Nat
      BY DEF NotifyInv, NotesTyped
    <3>3. records' \in Tables
      BY <2>0, <2>2, <3>1, <3>2, RecordedIs
    <3> HIDE DEF gone
    <3>4. QED BY <1>1, <2>2, <2>3, <3>1, <3>3, DisplayKeeps
  <2>6. CASE UpdateApplied(n)
    <3> DEFINE gone == Named(n)
    <3>1. CASE n \in DOMAIN records /\ backend # "freedesktop"
      <4>1. /\ minted < MaxShown /\ minted' = minted + 1 /\ UNCHANGED messages
            /\ screen' = (screen \ gone) \cup {Displayed(n, minted + 1)}
            /\ records' = IF backend = "windows" THEN [records EXCEPT ![n] = minted + 1] ELSE records
        BY <2>6, <3>1 DEF UpdateApplied
      <4>2. minted + 1 \in Nat
        BY DEF NotifyInv, NotesTyped
      <4>3. records' \in Tables
        <5>1. PICK N \in SUBSET Nat : records \in [N -> Nat]
          BY <2>0 DEF Tables
        <5>2. records' \in [N -> Nat]
          BY <4>1, <4>2, <5>1
        <5>3. QED BY <5>2 DEF Tables
      <4> HIDE DEF gone
      <4>4. QED BY <1>1, <2>2, <2>3, <4>1, <4>3, DisplayKeeps
    <3>2. CASE ~(n \in DOMAIN records /\ backend # "freedesktop")
      BY <2>6, <3>2, <1>1, <2>0, <2>3, WithdrawKeeps DEF UpdateApplied
    <3>3. QED BY <3>1, <3>2
  <2>7. CASE CloseApplied(n, works)
    <3>1. records' = Removed(n, records) /\ UNCHANGED minted
      BY <2>7 DEF CloseApplied
    <3>2. records' \in Tables
      BY <2>0, <3>1, RemovedIs
    <3>3. CASE n \in DOMAIN records /\ works
      <4> DEFINE e == Displayed(n, records[n])
                 m == [type |-> "closed", doc |-> document, of |-> e]
      <4>1. messages' = Append(messages, m) /\ screen' \subseteq screen
        BY <2>7, <3>3 DEF CloseApplied
      <4>2. e \in Displays
        BY <2>0, <3>3, <2>2, DisplayedIs DEF Tables, NotifyInv, NotesTyped
      <4>3. document \in Nat
        BY DEF NotifyInv, NotesTyped
      <4> HIDE DEF e
      <4>4. m \in Heard /\ m.type \notin Answers
        BY <4>2, <4>3 DEF Heard, Answers
      <4> HIDE DEF m
      <4>5. QED BY <1>1, <2>3, <3>1, <3>2, <4>1, <4>4, WithdrawKeeps
    <3>4. CASE ~(n \in DOMAIN records /\ works)
      BY <2>7, <3>4, <1>1, <2>3, <3>1, <3>2, WithdrawKeeps DEF CloseApplied
    <3>5. QED BY <3>3, <3>4
  <2>8. CASE UNCHANGED <<messages, records, minted, screen>>
    BY <1>1, <2>0, <2>3, <2>8, WithdrawKeeps
  <2>9. QED BY <2>4, <2>5, <2>6, <2>7, <2>8
<1>4. QED BY <1>2, <1>3

\* poll() takes what waits in the file, if that can be written, and what was signalled.
LEMMA PollKeeps ==
  ASSUME NotifyInv, NEW writable \in BOOLEAN, Poll(writable)
  PROVE  NotifyInv'
<1> DEFINE taken == Durable /\ pending # <<>> /\ writable
           taps == IF taken THEN pending ELSE <<>>
           base == [records |-> records, out |-> messages]
           after == AllActivated(base, taps)
           final == AllSignalled(after, signals)
<1>1. UNCHANGED <<session, document, nextId, requests, minted, screen, flying, latest, told>>
  BY DEF Poll, platformVars
<1>2. /\ IF taken THEN Take(taps) ELSE UNCHANGED <<pending, consumed>>
      /\ records' = final.records /\ messages' = final.out /\ signals' = <<>>
  BY DEF Poll, fileVars, AllActivated, AllSignalled
<1>3. base \in States /\ base.out = messages
  BY DEF States, NotifyInv, NotesTyped
<1>4. pending \in Seq(Displays) /\ WaitingIsOne(pending) /\ document \in Nat
  BY DEF NotifyInv, NotesTyped
<1>5. /\ taps \in Seq(Displays) /\ WaitingIsOne(taps)
      /\ Pendings(taps) \subseteq Pendings(pending)
  BY <1>4, NothingThere
<1> HIDE DEF base, after, final, taps
<1>6. /\ after \in States /\ SaidIsOne(after.out)
      /\ Said(after.out) \subseteq Said(messages) \cup Pendings(taps)
  BY <1>3, <1>5, <1>4, AnsweredAll DEF NotifyInv, Apart, after
<1>7. /\ final \in States /\ SaidIsOne(final.out)
      /\ Said(final.out) \subseteq Said(messages) \cup Pendings(taps) \cup Watched(signals)
  BY <1>5, <1>6, <1>4, SignalledAll DEF NotifyInv, NotesTyped, Apart, final
<1>8. /\ messages' \in Seq(Heard) /\ records' \in Tables /\ SaidIsOne(messages')
      /\ Said(messages') \subseteq Said(messages) \cup Pendings(taps) \cup Watched(signals)
  BY <1>2, <1>7 DEF States
<1>9. Watched(signals') = {} /\ WatchedIsOne(signals') /\ signals' \in Seq(Reports)
  BY <1>2, NothingThere
<1>10. CASE taken
  <2>0. taps = pending /\ pending # <<>>
    BY <1>10 DEF taps
  <2>1. /\ pending' = <<>> /\ consumed' \in Seq(Nat)
        /\ Remembered(consumed') \subseteq Remembered(consumed) \cup Pendings(pending)
        /\ pending[Len(pending)].gen \in Remembered(consumed')
    BY <1>2, <1>10, <2>0, <1>4, TakenIs DEF NotifyInv, NotesTyped
  <2>2. /\ Pendings(pending') = {} /\ WaitingIsOne(pending') /\ pending' \in Seq(Displays)
    BY <2>1, NothingThere
  <2>3. NotesTyped'
    BY <1>1, <1>8, <1>9, <2>1, <2>2 DEF NotifyInv, NotesTyped
  <2>4. Apart(OnScreen(screen), OnTheirWay(flying), {}, {}, Said(messages'), ToldOf(told),
              Remembered(consumed'), minted)
    BY <1>8, <2>0, <2>1 DEF NotifyInv, Apart
  <2>5. LatestIsKnown(latest, OnScreen(screen), OnTheirWay(flying), {}, Said(messages'),
                      ToldOf(told), Remembered(consumed'), pending', minted)
    BY <2>0, <1>8, <2>1, <2>2 DEF NotifyInv, LatestIsKnown
  <2>6. QED BY <1>1, <1>8, <1>9, <2>2, <2>3, <2>4, <2>5 DEF NotifyInv
<1>11. CASE ~taken
  BY <1>2, <1>11, NothingThere, <1>1, <1>8, <1>9 DEF taps, NotifyInv, NotesTyped, Apart,
     LatestIsKnown
<1>12. QED BY <1>10, <1>11

\* A launch takes the envelope of its command line, and what waits in the file, for the
\* document's scripts to find.
LEMMA LaunchKeeps ==
  ASSUME NotifyInv, NEW b, NEW e \in Offered, NEW writable \in BOOLEAN, Launch(b, e, writable)
  PROVE  NotifyInv'
<1> DEFINE taps == IF e = None THEN pending ELSE Recorded(e)
           taken == Durable /\ taps # <<>> /\ writable
           said == [i \in DOMAIN taps |-> Activated(taps[i])]
<1>1. /\ session' = session + 1 /\ document' = document + 1 /\ nextId' = 1 /\ requests' = <<>>
      /\ records' = Empty /\ signals' = <<>> /\ UNCHANGED <<minted, screen, told>>
  BY DEF Launch
<1>2. IF taken THEN Take(taps) /\ messages' = said
      ELSE messages' = <<>> /\ UNCHANGED <<pending, consumed>>
  BY DEF Launch, fileVars
<1>3. /\ e = None => UNCHANGED <<latest, flying>>
      /\ e # None => /\ latest' = e /\ flying' \subseteq flying
                     /\ \/ e = latest
                        \/ [about |-> e, kind |-> "click"] \in flying
                     /\ flying' = flying \ {[about |-> e, kind |-> "click"]}
  BY DEF Launch
<1>4. /\ pending \in Seq(Displays) /\ WaitingIsOne(pending) /\ consumed \in Seq(Nat)
      /\ latest \in Displays \cup {None} /\ flying \in SUBSET Reports
  BY DEF NotifyInv, NotesTyped
<1>5. e # None => e \in Displays
  BY <1>3, <1>4 DEF Reports
<1>6. OnTheirWay(flying') \subseteq OnTheirWay(flying) /\ WayIsOne(flying')
  BY <1>3 DEF NotifyInv, WayIsOne, OnTheirWay
<1>7. ASSUME latest' # None
      PROVE  /\ latest'.gen \in 1 .. minted /\ latest' \in Displays
             /\ latest'.gen \notin OnScreen(screen) /\ latest'.gen \notin OnTheirWay(flying')
             /\ latest'.gen \in ToldOf(told) => latest'.gen \in Remembered(consumed)
             /\ latest'.gen \in Remembered(consumed) => pending = <<>>
             /\ latest'.gen \in Pendings(pending) => pending[Len(pending)].gen = latest'.gen
  <2>1. CASE latest' = latest
    BY <1>4, <1>6, <1>7, <2>1 DEF NotifyInv, LatestIsKnown
  <2>2. CASE latest' # latest
    <3> DEFINE x == [about |-> e, kind |-> "click"]
    <3>1. x \in flying /\ flying' = flying \ {x} /\ x.about = e /\ latest' = e /\ e # None
      BY <1>3, <1>7, <2>2
    <3> HIDE DEF x
    <3>2. /\ OnTheirWay(flying \ {x}) \subseteq OnTheirWay(flying) \ {x.about.gen}
          /\ x.about.gen \in OnTheirWay(flying)
      BY <3>1, WayLoses DEF NotifyInv
    <3>3. e.gen \in OnTheirWay(flying) /\ e.gen \notin OnTheirWay(flying')
      BY <3>1, <3>2
    <3>4. QED BY <1>5, <3>1, <3>3 DEF NotifyInv, Apart
  <2>3. QED BY <2>1, <2>2
<1>8. /\ taps \in Seq(Displays) /\ WaitingIsOne(taps)
      /\ taps # pending => /\ latest' # None /\ latest'.gen \notin Remembered(consumed)
                            /\ Pendings(taps) = Pendings(pending) \cup {latest'.gen}
                            /\ taps[Len(taps)].gen = latest'.gen
  <2>1. CASE taps = pending
    BY <1>4, <2>1
  <2>2. CASE taps # pending
    <3>1. e # None /\ taps = Append(pending, e) /\ latest' = e /\ e \in Displays
      BY <1>3, <1>5, <2>2 DEF Recorded
    <3>2. e.gen \notin Remembered(consumed) /\ e.gen \notin Pendings(pending)
      BY <2>2, <3>1 DEF Recorded, Known, ToSet, Remembered, Pendings
    <3>3. /\ Append(pending, e) \in Seq(Displays) /\ WaitingIsOne(Append(pending, e))
          /\ Pendings(Append(pending, e)) = Pendings(pending) \cup {e.gen}
          /\ Append(pending, e)[Len(Append(pending, e))] = e
      BY <1>4, <3>1, <3>2, WaitingGains
    <3> HIDE DEF taps
    <3>4. taps[Len(taps)].gen = latest'.gen
      BY <3>1, <3>3
    <3>5. QED BY <3>1, <3>2, <3>3, <3>4
  <2>3. QED BY <2>1, <2>2
<1> HIDE DEF taps
<1>9. /\ Pendings(taps) \cap OnScreen(screen) = {}
      /\ Pendings(taps) \cap OnTheirWay(flying') = {}
      /\ Pendings(taps) \cap ToldOf(told) = {} /\ Pendings(taps) \subseteq 1 .. minted
      /\ Pendings(pending) \subseteq Pendings(taps)
  BY <1>6, <1>7, <1>8 DEF NotifyInv, Apart
<1>10. ASSUME latest' # None
       PROVE  /\ latest'.gen \in Remembered(consumed) => taps = <<>>
              /\ latest'.gen \in Pendings(taps) => taps[Len(taps)].gen = latest'.gen
  BY <1>7, <1>10, <1>8
<1>11. /\ said \in Seq(Heard) /\ Said(said) \subseteq Pendings(taps) /\ SaidIsOne(said)
  BY <1>8, SaidAtLaunch
<1> HIDE DEF said
<1>12. latest' \in Displays \cup {None} /\ flying' \in SUBSET Reports
  BY <1>7, <1>3, <1>4
<1>13. /\ session' \in Nat /\ document' \in Nat /\ nextId' \in Nat
  BY <1>1 DEF NotifyInv, NotesTyped
<1>14. Watched(signals') = {} /\ WatchedIsOne(signals') /\ signals' \in Seq(Reports)
  BY <1>1, NothingThere
<1>15. CASE taken
  <2>1. taps # <<>> /\ Take(taps) /\ messages' = said
    BY <1>2, <1>15
  <2>2. /\ pending' = <<>> /\ consumed' \in Seq(Nat)
        /\ Remembered(consumed') \subseteq Remembered(consumed) \cup Pendings(taps)
        /\ taps[Len(taps)].gen \in Remembered(consumed')
    BY <1>4, <1>8, <2>1, TakenIs
  <2>3. Pendings(pending') = {} /\ WaitingIsOne(pending') /\ pending' \in Seq(Displays)
    BY <2>2, NothingThere
  <2>4. NotesTyped'
    <3>1. requests' \in Seq(Wishes) /\ records' \in Tables
      BY <1>1, NothingThere
    <3>2. QED BY <1>1, <1>11, <1>12, <1>13, <1>14, <2>1, <2>2, <2>3, <3>1
             DEF NotifyInv, NotesTyped
  <2>5. Apart(OnScreen(screen), OnTheirWay(flying'), {}, {}, Said(said), ToldOf(told),
              Remembered(consumed'), minted)
    BY <1>9, <1>11, <1>6, <2>2 DEF NotifyInv, Apart
  <2>6. LatestIsKnown(latest', OnScreen(screen), OnTheirWay(flying'), {}, Said(said),
                      ToldOf(told), Remembered(consumed'), pending', minted)
    BY <1>10, <1>11, <2>2, <1>7, <2>1, <2>3 DEF LatestIsKnown
  <2>7. QED BY <1>1, <1>6, <1>11, <1>14, <2>1, <2>3, <2>4, <2>5, <2>6 DEF NotifyInv
<1>16. CASE ~taken
  <2>1. messages' = <<>> /\ UNCHANGED <<pending, consumed>>
    BY <1>2, <1>16
  <2>2. Said(messages') = {} /\ SaidIsOne(messages') /\ messages' \in Seq(Heard)
    BY <2>1, NothingThere
  <2>3. NotesTyped'
    BY <1>1, NothingThere, <1>12, <1>13, <1>14, <2>1, <2>2 DEF NotifyInv, NotesTyped
  <2>4. Apart(OnScreen(screen), OnTheirWay(flying'), Pendings(pending), {}, {}, ToldOf(told),
              Remembered(consumed), minted)
    BY <1>6 DEF NotifyInv, Apart
  <2>5. LatestIsKnown(latest', OnScreen(screen), OnTheirWay(flying'), {}, {}, ToldOf(told),
                      Remembered(consumed), pending, minted)
    BY <1>7 DEF LatestIsKnown
  <2>6. QED BY <1>1, <1>4, <1>6, <1>14, <2>1, <2>2, <2>3, <2>4, <2>5 DEF NotifyInv
<1>17. QED BY <1>15, <1>16

\* No step lets a click be heard twice.
LEMMA NotifySteps == NotifyInv /\ [NotifyNext]_notifyVars => NotifyInv'
<1> SUFFICES ASSUME NotifyInv, [NotifyNext]_notifyVars PROVE NotifyInv'
  OBVIOUS
<1>1. CASE UNCHANGED notifyVars
  BY <1>1 DEF notifyVars, channelVars, fileVars, platformVars, NotifyInv, NotesTyped
<1>2. ASSUME NEW b \in Backends, NEW e \in Offered, NEW ok \in BOOLEAN, Launch(b, e, ok)
      PROVE  NotifyInv'
  BY <1>2, LaunchKeeps
<1>3. CASE Ends
  BY <1>3, EndsKeeps
<1>4. CASE Frame
  BY <1>4, FrameKeeps
<1>5. ASSUME NEW ok \in BOOLEAN, ReloadDocument(ok) PROVE NotifyInv'
  BY <1>5, ReloadKeeps
<1>6. ASSUME NEW ok \in BOOLEAN, Poll(ok) PROVE NotifyInv'
  BY <1>6, PollKeeps
<1>7. ASSUME NEW ok \in BOOLEAN, Apply(ok) PROVE NotifyInv'
  BY <1>7, ApplyKeeps
<1>8. ASSUME NEW kind \in {"show", "update", "close"}, NEW n \in 1 .. (MaxShown + 1),
             Ask(kind, n)
      PROVE  NotifyInv'
  BY <1>8, AskKeeps
<1>9. ASSUME NEW e \in screen, NEW kind \in {"click", "closed"}, Respond(e, kind)
      PROVE  NotifyInv'
  BY <1>9, RespondKeeps
<1>10. ASSUME NEW x \in flying, Signal(x) PROVE NotifyInv'
  BY <1>10, SignalKeeps
<1>11. ASSUME NEW x \in flying, NEW ok \in BOOLEAN, ActivateAction(x, ok) \/ Activate(x, ok)
       PROVE  NotifyInv'
  BY <1>11, ClickedKeeps DEF ActivateAction, Activate
<1>12. QED
  BY <1>1, <1>2, <1>3, <1>4, <1>5, <1>6, <1>7, <1>8, <1>9, <1>10, <1>11 DEF NotifyNext

\* A click is heard once, however often its envelope is offered: by the platform's call,
\* by a command line that is run again, by this process or the next (activation.rs).
THEOREM NotificationsHold == NotifySpec => []HeardOnce
<1>1. NotifyInv => HeardOnce
  BY DEF NotifyInv, HeardAtMostOnce, HeardOnce
<1>2. QED BY <1>1, NotifyStarts, NotifySteps, PTL DEF NotifySpec

-----------------------------------------------------------------------------
(* Gamepads: a vibration is owed its answer                                 *)

\* What is known of a vibration that runs, of one that is asked for, and of its answer.
Buzzing == [command : Nat, vibration : Nat]
Buzzes == [command : Nat, index : Nat, silent : BOOLEAN, vibration : Nat]
Results == {"complete", "preempted", "NotFoundError", "OperationError"}
Outcomes == [command : Nat, vibration : Nat, result : Results]

\* What gilrs reports, and what becomes of it.
GilrsEvents == [kind : {"connected", "disconnected", "completed"}, pad : Pads]
PadChanges == [kind : {"connected", "disconnected"}, pad : Pads]
PadFrames == [known : SUBSET Pads, effects : SUBSET Pads, changes : Seq(PadChanges), over : Seq(Pads)]

\* The kinds of values of the variables the proof needs.
PadTyped ==
  /\ plugged \in SUBSET Pads /\ reports \in Seq(GilrsEvents)
  /\ knownPads \in SUBSET Pads /\ effects \in SUBSET Pads
  /\ nextCommand \in Nat /\ wanted \in Nat
  /\ asked \in Seq(Buzzes) /\ answers \in Seq(Outcomes)
  /\ vibrating \in [DOMAIN vibrating -> Buzzing]
  /\ promises \in [DOMAIN promises -> Nat] /\ mixedUp \in BOOLEAN

\* A list, or the effects, has the request e besides those of f, each of them once.
Besides(e, f, g) ==
  /\ RequestsIn(g) = RequestsIn(f) \cup {RequestOf(e)}
  /\ OnceEach(f) /\ RequestOf(e) \notin RequestsIn(f) => OnceEach(g)
  /\ OnceEach(g) => OnceEach(f) /\ RequestOf(e) \notin RequestsIn(f)

\* Every request is asked for, answered or runs, and is only one of them.
InOnePlace(q, a, v) ==
  /\ OnceEach(q) /\ OnceEach(a) /\ OnceEach(v)
  /\ RequestsIn(q) \cap RequestsIn(a) = {}
  /\ RequestsIn(q) \cap RequestsIn(v) = {}
  /\ RequestsIn(a) \cap RequestsIn(v) = {}

Everywhere(q, a, v) == RequestsIn(q) \cup RequestsIn(a) \cup RequestsIn(v)

\* A promise p has its request in R, or thrown away.
Owed(p, R, lost) == \A c \in DOMAIN p : p[c] \in lost \/ <<c, p[c]>> \in R

\* The requests of R were asked for.
Given(R, n) == \A c \in Nat, k \in Nat : <<c, k>> \in R => k <= n

\* The inductive invariant.
PadInv ==
  /\ PadTyped /\ InOnePlace(asked, answers, vibrating)
  /\ Owed(promises, Everywhere(asked, answers, vibrating), unheard)
  /\ Given(Everywhere(asked, answers, vibrating), wanted)

\* A set of finitely many as a list has only them in it.
LEMMA ListOfSet ==
  ASSUME NEW S, IsFiniteSet(S)
  PROVE  SetToSeq(S) \in Seq(S)
<1> DEFINE n == Cardinality(S)
<1>1. n \in Nat /\ ExistsBijection(1 .. n, S)
  BY FS_CardinalityType
<1>2. \E f \in [1 .. n -> S] : IsInjective(f)
  BY <1>1 DEF ExistsBijection, Bijection, Injection
<1>3. SetToSeq(S) \in [1 .. n -> S]
  BY <1>2 DEF SetToSeq
<1>4. QED BY <1>1, <1>3

\* One more under an index that was free.
LEMMA OneBesides ==
  ASSUME NEW f, NEW g, NEW i, i \notin DOMAIN f, DOMAIN g = DOMAIN f \cup {i},
         \A j \in DOMAIN f : g[j] = f[j]
  PROVE  Besides(g[i], f, g)
<1>1. RequestsIn(g) = RequestsIn(f) \cup {RequestOf(g[i])}
  BY DEF RequestsIn
<1>2. ASSUME OnceEach(f), RequestOf(g[i]) \notin RequestsIn(f) PROVE OnceEach(g)
  BY <1>2 DEF OnceEach, RequestsIn
<1>3. ASSUME OnceEach(g) PROVE OnceEach(f) /\ RequestOf(g[i]) \notin RequestsIn(f)
  BY <1>3 DEF OnceEach, RequestsIn
<1>4. QED BY <1>1, <1>2, <1>3 DEF Besides

\* One more at the end of a list of requests.
LEMMA RequestGains ==
  ASSUME NEW S, NEW q \in Seq(S), NEW e \in S
  PROVE  Append(q, e) \in Seq(S) /\ Besides(e, q, Append(q, e))
<1> DEFINE r == Append(q, e)
           N == Len(q)
<1>1. /\ r \in Seq(S) /\ N \in Nat /\ DOMAIN q = 1 .. N
      /\ DOMAIN r = 1 .. (N + 1)
      /\ \A i \in 1 .. N : r[i] = q[i]
      /\ r[N + 1] = e
      /\ \A i \in 1 .. (N + 1) : i \in 1 .. N \/ i = N + 1
      /\ 1 .. N \subseteq 1 .. (N + 1) /\ N + 1 \in 1 .. (N + 1)
  BY AtTheEnd
<1>2. N + 1 \notin 1 .. N
  BY <1>1
<1> HIDE DEF r, N
<1>3. DOMAIN r = DOMAIN q \cup {N + 1} /\ N + 1 \notin DOMAIN q
  BY <1>1, <1>2
<1>4. Besides(r[N + 1], q, r)
  BY <1>1, <1>3, OneBesides
<1>5. QED BY <1>1, <1>4 DEF r

\* A list of requests without its first.
LEMMA RequestTaken ==
  ASSUME NEW S, NEW q \in Seq(S), q # <<>>
  PROVE  Head(q) \in S /\ Tail(q) \in Seq(S) /\ Besides(Head(q), Tail(q), q)
<1> DEFINE t == Tail(q)
           N == Len(q)
<1>1. /\ Head(q) = q[1] /\ Head(q) \in S /\ t \in Seq(S) /\ N \in Nat \ {0}
      /\ DOMAIN q = 1 .. N /\ DOMAIN t = 1 .. (N - 1)
      /\ \A i \in 1 .. (N - 1) : t[i] = q[i + 1] /\ i + 1 \in 1 .. N /\ i + 1 # 1
  OBVIOUS
<1>2. /\ 1 \in 1 .. N /\ \A i \in 1 .. N : i # 1 => i - 1 \in 1 .. (N - 1) /\ (i - 1) + 1 = i
      /\ \A i, j \in 1 .. (N - 1) : i + 1 = j + 1 => i = j
  BY <1>1
<1> HIDE DEF t, N
<1>3. \A i \in DOMAIN q : i # 1 => i - 1 \in DOMAIN t /\ t[i - 1] = q[i]
  BY <1>1, <1>2
<1>4. ASSUME NEW i \in DOMAIN t PROVE RequestOf(t[i]) \in RequestsIn(q)
  BY <1>1 DEF RequestsIn
<1>5. RequestsIn(q) = RequestsIn(t) \cup {RequestOf(q[1])}
  <2>1. ASSUME NEW i \in DOMAIN q PROVE RequestOf(q[i]) \in RequestsIn(t) \cup {RequestOf(q[1])}
    BY <1>3 DEF RequestsIn
  <2>2. RequestOf(q[1]) \in RequestsIn(q)
    BY <1>1, <1>2 DEF RequestsIn
  <2>3. QED BY <1>4, <2>1, <2>2 DEF RequestsIn
<1>6. ASSUME OnceEach(t), RequestOf(q[1]) \notin RequestsIn(t) PROVE OnceEach(q)
  <2>1. ASSUME NEW i \in DOMAIN q, NEW j \in DOMAIN q, RequestOf(q[i]) = RequestOf(q[j])
        PROVE  i = j
    <3>1. CASE i = 1 \/ j = 1
      BY <1>3, <1>6, <2>1, <3>1 DEF RequestsIn
    <3>2. CASE i # 1 /\ j # 1
      <4>1. i - 1 = j - 1
        BY <1>3, <1>6, <2>1, <3>2 DEF OnceEach
      <4>2. QED BY <1>1, <1>2, <2>1, <3>2, <4>1
    <3>3. QED BY <3>1, <3>2
  <2>2. QED BY <2>1 DEF OnceEach
<1>7. ASSUME OnceEach(q) PROVE OnceEach(t) /\ RequestOf(q[1]) \notin RequestsIn(t)
  <2>1. ASSUME NEW i \in DOMAIN t, NEW j \in DOMAIN t, RequestOf(t[i]) = RequestOf(t[j])
        PROVE  i = j
    <3>1. i + 1 = j + 1
      BY <1>1, <1>7, <2>1 DEF OnceEach
    <3>2. QED BY <1>1, <1>2, <2>1, <3>1
  <2>2. ASSUME NEW i \in DOMAIN t PROVE RequestOf(t[i]) # RequestOf(q[1])
    BY <1>1, <1>2, <1>7 DEF OnceEach
  <2>3. QED BY <2>1, <2>2 DEF OnceEach, RequestsIn
<1>8. Besides(q[1], t, q)
  BY <1>5, <1>6, <1>7 DEF Besides
<1>9. QED BY <1>1, <1>8 DEF t

\* Without one of its effects, the table has the others.
LEMMA WithoutEffect ==
  ASSUME NEW P, NEW v \in [P -> Buzzing], NEW p
  PROVE  /\ Dropped(p, v) \in [P \ {p} -> Buzzing]
         /\ p \in P => Besides(v[p], Dropped(p, v), v)
         /\ p \notin P => Dropped(p, v) = v
<1> DEFINE w == Dropped(p, v)
<1>1. w \in [P \ {p} -> Buzzing] /\ \A q \in P \ {p} : w[q] = v[q]
  BY DEF Dropped
<1> HIDE DEF w
<1>2. ASSUME p \in P PROVE Besides(v[p], w, v)
  <2>1. p \notin DOMAIN w /\ DOMAIN v = DOMAIN w \cup {p} /\ \A j \in DOMAIN w : v[j] = w[j]
    BY <1>1, <1>2
  <2>2. QED BY <2>1, OneBesides
<1>3. ASSUME p \notin P PROVE w = v
  <2>1. P \ {p} = P
    BY <1>3
  <2>2. QED BY <1>1, <2>1
<1>4. QED BY <1>1, <1>2, <1>3 DEF w

\* An effect starts where none runs, or where one has been dropped.
LEMMA WithEffect ==
  ASSUME NEW P, NEW v \in [P -> Buzzing], NEW p, NEW e \in Buzzing
  PROVE  /\ Put(p, e, v) \in [P \cup {p} -> Buzzing]
         /\ Besides(e, Dropped(p, v), Put(p, e, v))
<1> DEFINE w == Dropped(p, v)
           u == Put(p, e, v)
<1>1. w \in [P \ {p} -> Buzzing] /\ \A q \in P \ {p} : w[q] = v[q]
  BY DEF Dropped
<1>2. u \in [P \cup {p} -> Buzzing] /\ u[p] = e /\ \A q \in P \ {p} : u[q] = v[q]
  BY DEF Put
<1> HIDE DEF w, u
<1>3. p \notin DOMAIN w /\ DOMAIN u = DOMAIN w \cup {p} /\ \A j \in DOMAIN w : u[j] = w[j]
  BY <1>1, <1>2
<1>4. Besides(u[p], w, u)
  BY <1>3, OneBesides
<1>5. QED BY <1>2, <1>4 DEF w, u

\* The reports of gilrs are handled one after the other.
AllDrained(base, s) == FoldLeft(Drained, base, s)

\* One after the other: h tells what there is after each.
DrainedTurns(h, D, base, s) ==
  /\ h \in [0 .. Len(s) -> D] /\ h[0] = base /\ h[Len(s)] = AllDrained(base, s)
  /\ \A k \in 1 .. Len(s) : h[k] = Drained(h[k - 1], s[k])

\* The reports of gilrs are handled one after the other.
LEMMA DrainedInTurn ==
  ASSUME NEW D, NEW base \in D, NEW X, NEW s \in Seq(X),
         \A a \in D, x \in X : Drained(a, x) \in D
  PROVE  \E h : DrainedTurns(h, D, base, s)
<1> DEFINE n == Len(s)
           G == [p \in D \X (1 .. n) |-> Drained(p[1], s[p[2]])]
           Then(f, t) == Drained(f[t \ {Max(t)}], s[Max(t)])
           c == CHOOSE f : f = [t \in SUBSET (DOMAIN s) |-> IF t = {} THEN base ELSE Then(f, t)]
<1>1. n \in Nat /\ DOMAIN s = 1 .. n /\ \A i \in 1 .. n : s[i] \in X
  OBVIOUS
<1>2. ASSUME NEW a \in D, NEW i \in 1 .. n
      PROVE  G[<<a, i>>] = Drained(a, s[i]) /\ G[<<a, i>>] \in D
  BY <1>1
<1>3. G \in [D \X (1 .. n) -> D]
  BY <1>1
<1>4. PICK it \in [SUBSET (1 .. n) -> D] : Folding(it, n, base, G)
  <2> HIDE DEF G, n
  <2>1. QED BY <1>1, <1>3, FoldExists
<1>5. ASSUME NEW t \in SUBSET (1 .. n), t # {}
      PROVE  Max(t) \in 1 .. n /\ t \ {Max(t)} \in SUBSET (1 .. n)
  BY <1>1, <1>5, LargestIsIn
<1>6. it = [t \in SUBSET (DOMAIN s) |-> IF t = {} THEN base ELSE Then(it, t)]
  <2>1. ASSUME NEW t \in SUBSET (1 .. n) PROVE it[t] = IF t = {} THEN base ELSE Then(it, t)
    <3>1. CASE t = {}
      BY <3>1, <1>4 DEF Folding
    <3>2. CASE t # {}
      <4> HIDE DEF G
      <4>1. Max(t) \in 1 .. n /\ it[t \ {Max(t)}] \in D
        BY <3>2, <1>4, <1>5
      <4>2. it[t] = G[<<it[t \ {Max(t)}], Max(t)>>]
        BY <3>2, <1>4 DEF Folding
      <4>3. QED BY <3>2, <4>1, <4>2, <1>2
    <3>3. QED BY <3>1, <3>2
  <2> HIDE DEF Then
  <2>2. QED BY <2>1, <1>1, <1>4
<1>7. c = [t \in SUBSET (DOMAIN s) |-> IF t = {} THEN base ELSE Then(c, t)]
  <2> HIDE DEF Then
  <2>1. QED BY <1>6
<1>8. AllDrained(base, s) = c[1 .. n]
  BY <1>1 DEF AllDrained, FoldLeft, MapThenFoldSet
<1>9. PICK h \in [0 .. n -> D] : h[n] = c[1 .. n] /\ Stepping(h, n, base, G)
  <2>1. FoldingIn(c, n, D, base, G)
    <3>1. c[{}] = base
      <4> HIDE DEF c, Then
      <4>1. {} \in SUBSET (DOMAIN s)
        OBVIOUS
      <4>2. QED BY <1>7, <4>1
    <3>2. ASSUME NEW t \in SUBSET (1 .. n), t # {}, c[t \ {Max(t)}] \in D
          PROVE  c[t] = G[<<c[t \ {Max(t)}], Max(t)>>]
      <4> HIDE DEF G, c
      <4>1. c[t] = Then(c, t)
        <5> HIDE DEF Then
        <5>1. QED BY <1>1, <1>7, <3>2
      <4>2. Max(t) \in 1 .. n
        BY <1>5, <3>2
      <4>3. QED BY <1>2, <3>2, <4>1, <4>2
    <3>3. QED BY <3>1, <3>2 DEF FoldingIn
  <2> HIDE DEF G, n, c
  <2>2. QED BY <2>1, <1>1, <1>3, FoldSteps
<1>10. ASSUME NEW k \in 1 .. n PROVE h[k] = Drained(h[k - 1], s[k])
  <2> HIDE DEF G, c
  <2>1. h[k] = G[<<h[k - 1], k>>] /\ k - 1 \in 0 .. n
    BY <1>1, <1>9 DEF Stepping
  <2>2. QED BY <2>1, <1>2
<1>11. h[0] = base /\ h[n] = AllDrained(base, s)
  <2>1. h[n] = AllDrained(base, s)
    BY <1>8, <1>9
  <2> HIDE DEF G, c
  <2>2. h[0] = base
    BY <1>9 DEF Stepping
  <2>3. QED BY <2>1, <2>2
<1>12. DrainedTurns(h, D, base, s)
  <2> HIDE DEF G, c
  <2>1. QED BY <1>9, <1>10, <1>11 DEF DrainedTurns
<1>13. QED BY <1>12

\* The effects that are over are answered one after the other.
AllOver(base, s) == FoldLeft(Over, base, s)

\* One after the other: h tells what there is after each.
OverTurns(h, D, base, s) ==
  /\ h \in [0 .. Len(s) -> D] /\ h[0] = base /\ h[Len(s)] = AllOver(base, s)
  /\ \A k \in 1 .. Len(s) : h[k] = Over(h[k - 1], s[k])

\* The effects that are over are answered one after the other.
LEMMA OverInTurn ==
  ASSUME NEW D, NEW base \in D, NEW X, NEW s \in Seq(X),
         \A a \in D, x \in X : Over(a, x) \in D
  PROVE  \E h : OverTurns(h, D, base, s)
<1> DEFINE n == Len(s)
           G == [p \in D \X (1 .. n) |-> Over(p[1], s[p[2]])]
           Then(f, t) == Over(f[t \ {Max(t)}], s[Max(t)])
           c == CHOOSE f : f = [t \in SUBSET (DOMAIN s) |-> IF t = {} THEN base ELSE Then(f, t)]
<1>1. n \in Nat /\ DOMAIN s = 1 .. n /\ \A i \in 1 .. n : s[i] \in X
  OBVIOUS
<1>2. ASSUME NEW a \in D, NEW i \in 1 .. n
      PROVE  G[<<a, i>>] = Over(a, s[i]) /\ G[<<a, i>>] \in D
  BY <1>1
<1>3. G \in [D \X (1 .. n) -> D]
  BY <1>1
<1>4. PICK it \in [SUBSET (1 .. n) -> D] : Folding(it, n, base, G)
  <2> HIDE DEF G, n
  <2>1. QED BY <1>1, <1>3, FoldExists
<1>5. ASSUME NEW t \in SUBSET (1 .. n), t # {}
      PROVE  Max(t) \in 1 .. n /\ t \ {Max(t)} \in SUBSET (1 .. n)
  BY <1>1, <1>5, LargestIsIn
<1>6. it = [t \in SUBSET (DOMAIN s) |-> IF t = {} THEN base ELSE Then(it, t)]
  <2>1. ASSUME NEW t \in SUBSET (1 .. n) PROVE it[t] = IF t = {} THEN base ELSE Then(it, t)
    <3>1. CASE t = {}
      BY <3>1, <1>4 DEF Folding
    <3>2. CASE t # {}
      <4> HIDE DEF G
      <4>1. Max(t) \in 1 .. n /\ it[t \ {Max(t)}] \in D
        BY <3>2, <1>4, <1>5
      <4>2. it[t] = G[<<it[t \ {Max(t)}], Max(t)>>]
        BY <3>2, <1>4 DEF Folding
      <4>3. QED BY <3>2, <4>1, <4>2, <1>2
    <3>3. QED BY <3>1, <3>2
  <2> HIDE DEF Then
  <2>2. QED BY <2>1, <1>1, <1>4
<1>7. c = [t \in SUBSET (DOMAIN s) |-> IF t = {} THEN base ELSE Then(c, t)]
  <2> HIDE DEF Then
  <2>1. QED BY <1>6
<1>8. AllOver(base, s) = c[1 .. n]
  BY <1>1 DEF AllOver, FoldLeft, MapThenFoldSet
<1>9. PICK h \in [0 .. n -> D] : h[n] = c[1 .. n] /\ Stepping(h, n, base, G)
  <2>1. FoldingIn(c, n, D, base, G)
    <3>1. c[{}] = base
      <4> HIDE DEF c, Then
      <4>1. {} \in SUBSET (DOMAIN s)
        OBVIOUS
      <4>2. QED BY <1>7, <4>1
    <3>2. ASSUME NEW t \in SUBSET (1 .. n), t # {}, c[t \ {Max(t)}] \in D
          PROVE  c[t] = G[<<c[t \ {Max(t)}], Max(t)>>]
      <4> HIDE DEF G, c
      <4>1. c[t] = Then(c, t)
        <5> HIDE DEF Then
        <5>1. QED BY <1>1, <1>7, <3>2
      <4>2. Max(t) \in 1 .. n
        BY <1>5, <3>2
      <4>3. QED BY <1>2, <3>2, <4>1, <4>2
    <3>3. QED BY <3>1, <3>2 DEF FoldingIn
  <2> HIDE DEF G, n, c
  <2>2. QED BY <2>1, <1>1, <1>3, FoldSteps
<1>10. ASSUME NEW k \in 1 .. n PROVE h[k] = Over(h[k - 1], s[k])
  <2> HIDE DEF G, c
  <2>1. h[k] = G[<<h[k - 1], k>>] /\ k - 1 \in 0 .. n
    BY <1>1, <1>9 DEF Stepping
  <2>2. QED BY <2>1, <1>2
<1>11. h[0] = base /\ h[n] = AllOver(base, s)
  <2>1. h[n] = AllOver(base, s)
    BY <1>8, <1>9
  <2> HIDE DEF G, c
  <2>2. h[0] = base
    BY <1>9 DEF Stepping
  <2>3. QED BY <2>1, <2>2
<1>12. OverTurns(h, D, base, s)
  <2> HIDE DEF G, c
  <2>1. QED BY <1>9, <1>10, <1>11 DEF OverTurns
<1>13. QED BY <1>12

\* The changes of the controllers are answered one after the other.
AllGone(base, s) == FoldLeft(Gone, base, s)

\* One after the other: h tells what there is after each.
GoneTurns(h, D, base, s) ==
  /\ h \in [0 .. Len(s) -> D] /\ h[0] = base /\ h[Len(s)] = AllGone(base, s)
  /\ \A k \in 1 .. Len(s) : h[k] = Gone(h[k - 1], s[k])

\* The changes of the controllers are answered one after the other.
LEMMA GoneInTurn ==
  ASSUME NEW D, NEW base \in D, NEW X, NEW s \in Seq(X),
         \A a \in D, x \in X : Gone(a, x) \in D
  PROVE  \E h : GoneTurns(h, D, base, s)
<1> DEFINE n == Len(s)
           G == [p \in D \X (1 .. n) |-> Gone(p[1], s[p[2]])]
           Then(f, t) == Gone(f[t \ {Max(t)}], s[Max(t)])
           c == CHOOSE f : f = [t \in SUBSET (DOMAIN s) |-> IF t = {} THEN base ELSE Then(f, t)]
<1>1. n \in Nat /\ DOMAIN s = 1 .. n /\ \A i \in 1 .. n : s[i] \in X
  OBVIOUS
<1>2. ASSUME NEW a \in D, NEW i \in 1 .. n
      PROVE  G[<<a, i>>] = Gone(a, s[i]) /\ G[<<a, i>>] \in D
  BY <1>1
<1>3. G \in [D \X (1 .. n) -> D]
  BY <1>1
<1>4. PICK it \in [SUBSET (1 .. n) -> D] : Folding(it, n, base, G)
  <2> HIDE DEF G, n
  <2>1. QED BY <1>1, <1>3, FoldExists
<1>5. ASSUME NEW t \in SUBSET (1 .. n), t # {}
      PROVE  Max(t) \in 1 .. n /\ t \ {Max(t)} \in SUBSET (1 .. n)
  BY <1>1, <1>5, LargestIsIn
<1>6. it = [t \in SUBSET (DOMAIN s) |-> IF t = {} THEN base ELSE Then(it, t)]
  <2>1. ASSUME NEW t \in SUBSET (1 .. n) PROVE it[t] = IF t = {} THEN base ELSE Then(it, t)
    <3>1. CASE t = {}
      BY <3>1, <1>4 DEF Folding
    <3>2. CASE t # {}
      <4> HIDE DEF G
      <4>1. Max(t) \in 1 .. n /\ it[t \ {Max(t)}] \in D
        BY <3>2, <1>4, <1>5
      <4>2. it[t] = G[<<it[t \ {Max(t)}], Max(t)>>]
        BY <3>2, <1>4 DEF Folding
      <4>3. QED BY <3>2, <4>1, <4>2, <1>2
    <3>3. QED BY <3>1, <3>2
  <2> HIDE DEF Then
  <2>2. QED BY <2>1, <1>1, <1>4
<1>7. c = [t \in SUBSET (DOMAIN s) |-> IF t = {} THEN base ELSE Then(c, t)]
  <2> HIDE DEF Then
  <2>1. QED BY <1>6
<1>8. AllGone(base, s) = c[1 .. n]
  BY <1>1 DEF AllGone, FoldLeft, MapThenFoldSet
<1>9. PICK h \in [0 .. n -> D] : h[n] = c[1 .. n] /\ Stepping(h, n, base, G)
  <2>1. FoldingIn(c, n, D, base, G)
    <3>1. c[{}] = base
      <4> HIDE DEF c, Then
      <4>1. {} \in SUBSET (DOMAIN s)
        OBVIOUS
      <4>2. QED BY <1>7, <4>1
    <3>2. ASSUME NEW t \in SUBSET (1 .. n), t # {}, c[t \ {Max(t)}] \in D
          PROVE  c[t] = G[<<c[t \ {Max(t)}], Max(t)>>]
      <4> HIDE DEF G, c
      <4>1. c[t] = Then(c, t)
        <5> HIDE DEF Then
        <5>1. QED BY <1>1, <1>7, <3>2
      <4>2. Max(t) \in 1 .. n
        BY <1>5, <3>2
      <4>3. QED BY <1>2, <3>2, <4>1, <4>2
    <3>3. QED BY <3>1, <3>2 DEF FoldingIn
  <2> HIDE DEF G, n, c
  <2>2. QED BY <2>1, <1>1, <1>3, FoldSteps
<1>10. ASSUME NEW k \in 1 .. n PROVE h[k] = Gone(h[k - 1], s[k])
  <2> HIDE DEF G, c
  <2>1. h[k] = G[<<h[k - 1], k>>] /\ k - 1 \in 0 .. n
    BY <1>1, <1>9 DEF Stepping
  <2>2. QED BY <2>1, <1>2
<1>11. h[0] = base /\ h[n] = AllGone(base, s)
  <2>1. h[n] = AllGone(base, s)
    BY <1>8, <1>9
  <2> HIDE DEF G, c
  <2>2. h[0] = base
    BY <1>9 DEF Stepping
  <2>3. QED BY <2>1, <2>2
<1>12. GoneTurns(h, D, base, s)
  <2> HIDE DEF G, c
  <2>1. QED BY <1>9, <1>10, <1>11 DEF GoneTurns
<1>13. QED BY <1>12

\* The answers settle their promises one after the other.
AllSettled(base, s) == FoldLeft(Settled, base, s)

\* One after the other: h tells what there is after each.
SettledTurns(h, D, base, s) ==
  /\ h \in [0 .. Len(s) -> D] /\ h[0] = base /\ h[Len(s)] = AllSettled(base, s)
  /\ \A k \in 1 .. Len(s) : h[k] = Settled(h[k - 1], s[k])

\* The answers settle their promises one after the other.
LEMMA SettledInTurn ==
  ASSUME NEW D, NEW base \in D, NEW X, NEW s \in Seq(X),
         \A a \in D, x \in X : Settled(a, x) \in D
  PROVE  \E h : SettledTurns(h, D, base, s)
<1> DEFINE n == Len(s)
           G == [p \in D \X (1 .. n) |-> Settled(p[1], s[p[2]])]
           Then(f, t) == Settled(f[t \ {Max(t)}], s[Max(t)])
           c == CHOOSE f : f = [t \in SUBSET (DOMAIN s) |-> IF t = {} THEN base ELSE Then(f, t)]
<1>1. n \in Nat /\ DOMAIN s = 1 .. n /\ \A i \in 1 .. n : s[i] \in X
  OBVIOUS
<1>2. ASSUME NEW a \in D, NEW i \in 1 .. n
      PROVE  G[<<a, i>>] = Settled(a, s[i]) /\ G[<<a, i>>] \in D
  BY <1>1
<1>3. G \in [D \X (1 .. n) -> D]
  BY <1>1
<1>4. PICK it \in [SUBSET (1 .. n) -> D] : Folding(it, n, base, G)
  <2> HIDE DEF G, n
  <2>1. QED BY <1>1, <1>3, FoldExists
<1>5. ASSUME NEW t \in SUBSET (1 .. n), t # {}
      PROVE  Max(t) \in 1 .. n /\ t \ {Max(t)} \in SUBSET (1 .. n)
  BY <1>1, <1>5, LargestIsIn
<1>6. it = [t \in SUBSET (DOMAIN s) |-> IF t = {} THEN base ELSE Then(it, t)]
  <2>1. ASSUME NEW t \in SUBSET (1 .. n) PROVE it[t] = IF t = {} THEN base ELSE Then(it, t)
    <3>1. CASE t = {}
      BY <3>1, <1>4 DEF Folding
    <3>2. CASE t # {}
      <4> HIDE DEF G
      <4>1. Max(t) \in 1 .. n /\ it[t \ {Max(t)}] \in D
        BY <3>2, <1>4, <1>5
      <4>2. it[t] = G[<<it[t \ {Max(t)}], Max(t)>>]
        BY <3>2, <1>4 DEF Folding
      <4>3. QED BY <3>2, <4>1, <4>2, <1>2
    <3>3. QED BY <3>1, <3>2
  <2> HIDE DEF Then
  <2>2. QED BY <2>1, <1>1, <1>4
<1>7. c = [t \in SUBSET (DOMAIN s) |-> IF t = {} THEN base ELSE Then(c, t)]
  <2> HIDE DEF Then
  <2>1. QED BY <1>6
<1>8. AllSettled(base, s) = c[1 .. n]
  BY <1>1 DEF AllSettled, FoldLeft, MapThenFoldSet
<1>9. PICK h \in [0 .. n -> D] : h[n] = c[1 .. n] /\ Stepping(h, n, base, G)
  <2>1. FoldingIn(c, n, D, base, G)
    <3>1. c[{}] = base
      <4> HIDE DEF c, Then
      <4>1. {} \in SUBSET (DOMAIN s)
        OBVIOUS
      <4>2. QED BY <1>7, <4>1
    <3>2. ASSUME NEW t \in SUBSET (1 .. n), t # {}, c[t \ {Max(t)}] \in D
          PROVE  c[t] = G[<<c[t \ {Max(t)}], Max(t)>>]
      <4> HIDE DEF G, c
      <4>1. c[t] = Then(c, t)
        <5> HIDE DEF Then
        <5>1. QED BY <1>1, <1>7, <3>2
      <4>2. Max(t) \in 1 .. n
        BY <1>5, <3>2
      <4>3. QED BY <1>2, <3>2, <4>1, <4>2
    <3>3. QED BY <3>1, <3>2 DEF FoldingIn
  <2> HIDE DEF G, n, c
  <2>2. QED BY <2>1, <1>1, <1>3, FoldSteps
<1>10. ASSUME NEW k \in 1 .. n PROVE h[k] = Settled(h[k - 1], s[k])
  <2> HIDE DEF G, c
  <2>1. h[k] = G[<<h[k - 1], k>>] /\ k - 1 \in 0 .. n
    BY <1>1, <1>9 DEF Stepping
  <2>2. QED BY <2>1, <1>2
<1>11. h[0] = base /\ h[n] = AllSettled(base, s)
  <2>1. h[n] = AllSettled(base, s)
    BY <1>8, <1>9
  <2> HIDE DEF G, c
  <2>2. h[0] = base
    BY <1>9 DEF Stepping
  <2>3. QED BY <2>1, <2>2
<1>12. SettledTurns(h, D, base, s)
  <2> HIDE DEF G, c
  <2>1. QED BY <1>9, <1>10, <1>11 DEF SettledTurns
<1>13. QED BY <1>12

\* The frame of the backend after one of gilrs' reports.
LEMMA DrainedIs ==
  ASSUME NEW b \in PadFrames, NEW r \in GilrsEvents
  PROVE  Drained(b, r) \in PadFrames
<1> DEFINE p == r.pad
           in == [kind |-> "connected", pad |-> p]
           out == [kind |-> "disconnected", pad |-> p]
<1>1. p \in Pads /\ r.kind \in {"connected", "disconnected", "completed"}
  BY DEF GilrsEvents
<1>2. in \in PadChanges /\ out \in PadChanges
  BY <1>1 DEF PadChanges
<1> HIDE DEF in, out
<1>3. /\ b.known \in SUBSET Pads /\ b.effects \in SUBSET Pads /\ b.changes \in Seq(PadChanges)
      /\ b.over \in Seq(Pads)
      /\ b = [known |-> b.known, effects |-> b.effects, changes |-> b.changes, over |-> b.over]
  BY DEF PadFrames
<1>4. /\ Append(b.changes, in) \in Seq(PadChanges) /\ Append(b.changes, out) \in Seq(PadChanges)
      /\ Append(b.over, p) \in Seq(Pads)
  BY <1>1, <1>2, <1>3
<1>5. CASE r.kind = "connected"
  <2>1. CASE p \in b.known
    BY <1>5, <2>1 DEF Drained
  <2>2. CASE p \notin b.known
    <3>1. Drained(b, r) = [b EXCEPT !.known = @ \cup {p}, !.changes = Append(@, in)]
      BY <1>5, <2>2 DEF Drained, in
    <3>2. Drained(b, r) = [known |-> b.known \cup {p}, effects |-> b.effects,
                           changes |-> Append(b.changes, in), over |-> b.over]
      BY <1>3, <3>1
    <3>3. b.known \cup {p} \in SUBSET Pads
      BY <1>1, <1>3
    <3> HIDE DEF p
    <3>4. QED BY <1>3, <1>4, <3>2, <3>3 DEF PadFrames
  <2>3. QED BY <2>1, <2>2
<1>6. CASE r.kind = "disconnected"
  <2>1. Drained(b, r) = [b EXCEPT !.known = @ \ {p}, !.effects = @ \ {p},
                                  !.changes = Append(@, out)]
    BY <1>6 DEF Drained, out
  <2>2. Drained(b, r) = [known |-> b.known \ {p}, effects |-> b.effects \ {p},
                         changes |-> Append(b.changes, out), over |-> b.over]
    BY <1>3, <2>1
  <2>3. b.known \ {p} \in SUBSET Pads /\ b.effects \ {p} \in SUBSET Pads
    BY <1>3
  <2> HIDE DEF p
  <2>4. QED BY <1>3, <1>4, <2>2, <2>3 DEF PadFrames
<1>7. CASE r.kind = "completed"
  <2>1. Drained(b, r) = [b EXCEPT !.effects = @ \ {p}, !.over = Append(@, p)]
    BY <1>7 DEF Drained
  <2>2. Drained(b, r) = [known |-> b.known, effects |-> b.effects \ {p}, changes |-> b.changes,
                         over |-> Append(b.over, p)]
    BY <1>3, <2>1
  <2>3. b.effects \ {p} \in SUBSET Pads
    BY <1>3
  <2> HIDE DEF p
  <2>4. QED BY <1>3, <1>4, <2>2, <2>3 DEF PadFrames
<1>8. QED BY <1>1, <1>5, <1>6, <1>7

\* The frame of the backend lists each controller that comes, goes or is done.
LEMMA BackendFrameIs ==
  ASSUME PadTyped
  PROVE  BackendFrame \in PadFrames
<1> DEFINE base == [known |-> knownPads, effects |-> effects, changes |-> <<>>, over |-> <<>>]
           b == AllDrained(base, reports)
           new == SetToSeq(plugged \ b.known)
           more == [i \in DOMAIN new |-> [kind |-> "connected", pad |-> new[i]]]
<1>1. base \in PadFrames
  BY DEF PadFrames, PadTyped
<1>2. reports \in Seq(GilrsEvents) /\ plugged \in SUBSET Pads
  BY DEF PadTyped
<1>3. BackendFrame = Listed(b)
  BY DEF BackendFrame, AllDrained
<1> HIDE DEF base
<1>4. PICK h : DrainedTurns(h, PadFrames, base, reports)
  BY DrainedIs, <1>1, <1>2, DrainedInTurn
<1>5. b \in PadFrames
  BY <1>2, <1>4 DEF DrainedTurns
<1> HIDE DEF b
<1>6. /\ b.known \in SUBSET Pads /\ b.effects \in SUBSET Pads /\ b.changes \in Seq(PadChanges)
      /\ b.over \in Seq(Pads)
      /\ b = [known |-> b.known, effects |-> b.effects, changes |-> b.changes, over |-> b.over]
  BY <1>5 DEF PadFrames
<1>7. new \in Seq(Pads)
  BY <1>2, FS_Subset, PadAssumption, ListOfSet
<1> HIDE DEF new
<1>8. more \in Seq(PadChanges)
  <2>1. \A i \in DOMAIN new : [kind |-> "connected", pad |-> new[i]] \in PadChanges
    BY <1>7 DEF PadChanges
  <2>2. DOMAIN new = 1 .. Len(new) /\ Len(new) \in Nat
    BY <1>7
  <2>3. QED BY <2>1, <2>2
<1>9. Listed(b) = IF enumerated THEN b
                  ELSE [b EXCEPT !.known = @ \cup plugged, !.changes = @ \o more]
  BY DEF Listed, new
<1> HIDE DEF more
<1>10. CASE enumerated
  BY <1>3, <1>5, <1>9, <1>10
<1>11. CASE ~enumerated
  <2>1. Listed(b) = [known |-> b.known \cup plugged, effects |-> b.effects,
                     changes |-> b.changes \o more, over |-> b.over]
    BY <1>6, <1>9, <1>11
  <2>2. b.changes \o more \in Seq(PadChanges)
    BY <1>6, <1>8
  <2>3. b.known \cup plugged \in SUBSET Pads
    BY <1>2, <1>6
  <2>4. QED BY <1>3, <1>6, <2>1, <2>2, <2>3 DEF PadFrames
<1>12. QED BY <1>10, <1>11

\* What is told of effects and answers, of the controllers in P: of the requests in R
\* each runs or is answered, and not both.
Tellings(P, R) ==
  {c \in [vibrating : UNION {[N -> Buzzing] : N \in SUBSET P}, out : Seq(Outcomes)] :
     /\ OnceEach(c.out) /\ OnceEach(c.vibrating)
     /\ RequestsIn(c.out) \cap RequestsIn(c.vibrating) = {}
     /\ RequestsIn(c.out) \cup RequestsIn(c.vibrating) = R}

\* An effect is answered when it is dropped.
LEMMA OneAnswered ==
  ASSUME NEW P, NEW R, NEW c \in Tellings(P, R), NEW p \in DOMAIN c.vibrating,
         NEW result \in Results, NEW d,
         d = [vibrating |-> Dropped(p, c.vibrating),
              out |-> Append(c.out, Answer(c.vibrating[p], result))]
  PROVE  d \in Tellings(P, R)
<1> DEFINE v == c.vibrating
           a == Answer(v[p], result)
           w == Dropped(p, v)
           o == Append(c.out, a)
<1>1. PICK N \in SUBSET P : v \in [N -> Buzzing]
  BY DEF Tellings
<1>2. /\ c.out \in Seq(Outcomes) /\ OnceEach(c.out) /\ OnceEach(v)
      /\ RequestsIn(c.out) \cap RequestsIn(v) = {} /\ RequestsIn(c.out) \cup RequestsIn(v) = R
  BY DEF Tellings
<1>3. p \in N /\ v[p] \in Buzzing
  BY <1>1
<1>4. a \in Outcomes /\ RequestOf(a) = RequestOf(v[p])
  BY <1>3 DEF Answer, Outcomes, Buzzing, RequestOf
<1>5. d.vibrating = w /\ d.out = o /\ d = [vibrating |-> w, out |-> o]
  OBVIOUS
<1> HIDE DEF a, v
<1>6. o \in Seq(Outcomes) /\ Besides(a, c.out, o)
  BY <1>2, <1>4, RequestGains
<1>7. w \in [N \ {p} -> Buzzing] /\ Besides(v[p], w, v)
  BY <1>1, <1>3, WithoutEffect
<1> HIDE DEF w, o
<1>8. /\ OnceEach(o) /\ OnceEach(w) /\ RequestsIn(o) \cap RequestsIn(w) = {}
      /\ RequestsIn(o) \cup RequestsIn(w) = R
  BY <1>2, <1>4, <1>6, <1>7 DEF Besides
<1>9. w \in UNION {[K -> Buzzing] : K \in SUBSET P}
  BY <1>7
<1>10. QED BY <1>5, <1>6, <1>8, <1>9 DEF Tellings

\* Nothing is forgotten or answered twice when an effect is over.
LEMMA OverIs ==
  ASSUME NEW P, NEW R, NEW c \in Tellings(P, R), NEW p
  PROVE  Over(c, p) \in Tellings(P, R)
<1>1. CASE p \in DOMAIN c.vibrating
  BY <1>1, OneAnswered DEF Over, Results
<1>2. CASE p \notin DOMAIN c.vibrating
  BY <1>2 DEF Over
<1>3. QED BY <1>1, <1>2

\* The same of a controller that goes.
LEMMA GoneIs ==
  ASSUME NEW P, NEW R, NEW c \in Tellings(P, R), NEW x
  PROVE  Gone(c, x) \in Tellings(P, R)
<1> DEFINE p == x.pad
<1>1. CASE x.kind = "disconnected" /\ p \in DOMAIN c.vibrating
  <2>1. Gone(c, x) = [vibrating |-> Dropped(p, c.vibrating),
                      out |-> Append(c.out, Answer(c.vibrating[p], "preempted"))]
    BY <1>1 DEF Gone
  <2>2. "preempted" \in Results
    BY DEF Results
  <2> HIDE DEF p
  <2>3. QED BY <1>1, <2>1, <2>2, OneAnswered
<1>2. CASE ~(x.kind = "disconnected" /\ p \in DOMAIN c.vibrating)
  BY <1>2 DEF Gone
<1>3. QED BY <1>1, <1>2

\* Nor when all that are over are answered, and all that have gone.
LEMMA OverForgetsNone ==
  ASSUME NEW P, NEW R, NEW b \in Tellings(P, R), NEW X, NEW s \in Seq(X)
  PROVE  AllOver(b, s) \in Tellings(P, R)
<1>1. PICK D : D = Tellings(P, R)
  OBVIOUS
<1>2. b \in D /\ \A a \in D, x \in X : Over(a, x) \in D
  BY <1>1, OverIs
<1>3. PICK h : OverTurns(h, D, b, s)
  BY <1>2, OverInTurn
<1>4. Len(s) \in 0 .. Len(s)
  OBVIOUS
<1>5. QED BY <1>1, <1>3, <1>4 DEF OverTurns

\* The same of those that have gone.
LEMMA GoneForgetsNone ==
  ASSUME NEW P, NEW R, NEW b \in Tellings(P, R), NEW X, NEW s \in Seq(X)
  PROVE  AllGone(b, s) \in Tellings(P, R)
<1>1. PICK D : D = Tellings(P, R)
  OBVIOUS
<1>2. b \in D /\ \A a \in D, x \in X : Gone(a, x) \in D
  BY <1>1, GoneIs
<1>3. PICK h : GoneTurns(h, D, b, s)
  BY <1>2, GoneInTurn
<1>4. Len(s) \in 0 .. Len(s)
  OBVIOUS
<1>5. QED BY <1>1, <1>3, <1>4 DEF GoneTurns

\* The promises that wait, of those in p, and whether an answer was mixed up.
Waitings(p) ==
  {s \in [promises : UNION {[N -> Nat] : N \in SUBSET DOMAIN p}, mixedUp : BOOLEAN] :
     \A c \in DOMAIN s.promises : s.promises[c] = p[c]}

\* An answer settles the promise of its command, if it waits, and no other.
LEMMA SettledIs ==
  ASSUME NEW p, NEW s \in Waitings(p), NEW a \in Outcomes
  PROVE  /\ Settled(s, a) \in Waitings(p)
         /\ DOMAIN Settled(s, a).promises \subseteq DOMAIN s.promises \ {a.command}
<1>1. PICK N \in SUBSET DOMAIN p : s.promises \in [N -> Nat]
  BY DEF Waitings
<1>2. CASE a.command \in DOMAIN s.promises
  <2> DEFINE w == Dropped(a.command, s.promises)
             m == s.mixedUp \/ s.promises[a.command] # a.vibration
  <2>1. Settled(s, a) = [promises |-> w, mixedUp |-> m]
    BY <1>2 DEF Settled
  <2>2. /\ w \in [N \ {a.command} -> Nat]
        /\ DOMAIN w \subseteq DOMAIN s.promises \ {a.command}
        /\ \A c \in DOMAIN w : w[c] = s.promises[c]
    BY <1>1 DEF Dropped
  <2>3. m \in BOOLEAN
    OBVIOUS
  <2> HIDE DEF w, m
  <2>4. Settled(s, a).promises = w
    BY <2>1
  <2>5. w \in UNION {[K -> Nat] : K \in SUBSET DOMAIN p}
    BY <2>2
  <2>6. \A c \in DOMAIN w : w[c] = p[c]
    BY <2>2 DEF Waitings
  <2>7. Settled(s, a) \in Waitings(p)
    BY <2>1, <2>3, <2>5, <2>6 DEF Waitings
  <2>8. QED BY <2>2, <2>4, <2>7
<1>3. CASE a.command \notin DOMAIN s.promises
  BY <1>3 DEF Settled
<1>4. QED BY <1>2, <1>3

\* Once all answers have been given none of their promises waits.
LEMMA SettledWaitNot ==
  ASSUME NEW p, NEW b \in Waitings(p), NEW s \in Seq(Outcomes)
  PROVE  /\ AllSettled(b, s) \in Waitings(p)
         /\ DOMAIN AllSettled(b, s).promises
              \subseteq DOMAIN b.promises \ {s[j].command : j \in DOMAIN s}
<1> DEFINE n == Len(s)
           D == Waitings(p)
<1>1. PICK h : SettledTurns(h, D, b, s)
  <2>1. \A a \in D, x \in Outcomes : Settled(a, x) \in D
    BY SettledIs
  <2> HIDE DEF D
  <2>2. b \in D
    BY DEF D
  <2>3. QED BY <2>1, <2>2, SettledInTurn
<1>2. /\ h \in [0 .. n -> D] /\ h[0] = b /\ h[n] = AllSettled(b, s)
      /\ \A k \in 1 .. n : h[k] = Settled(h[k - 1], s[k])
  BY <1>1 DEF SettledTurns
<1>3. n \in Nat /\ DOMAIN s = 1 .. n /\ \A k \in 1 .. n : s[k] \in Outcomes
  OBVIOUS
<1> HIDE DEF n
<1> DEFINE Upto(k) == {s[j].command : j \in 1 .. k}
           T == {k \in 0 .. n : DOMAIN h[k].promises \subseteq DOMAIN b.promises \ Upto(k)}
<1>4. 0 \in T
  BY <1>2, <1>3
<1>5. ASSUME NEW k \in 1 .. n, k - 1 \in T PROVE k \in T
  <2>1. /\ k \in 0 .. n /\ k - 1 \in 0 .. n /\ h[k] = Settled(h[k - 1], s[k])
        /\ h[k - 1] \in D /\ s[k] \in Outcomes
    BY <1>2, <1>3
  <2>2. DOMAIN h[k].promises \subseteq DOMAIN h[k - 1].promises \ {s[k].command}
    BY <2>1, SettledIs
  <2>3. Upto(k) \subseteq Upto(k - 1) \cup {s[k].command}
    OBVIOUS
  <2>4. QED BY <1>5, <2>1, <2>2, <2>3
<1>6. n \in T
  <2> HIDE DEF T
  <2>1. \A k \in 0 .. n : k \in T
    BY <1>3, <1>4, <1>5, StepsStay
  <2>2. QED BY <1>3, <2>1
<1>7. {s[j].command : j \in DOMAIN s} = Upto(n)
  BY <1>3
<1>8. QED BY <1>2, <1>3, <1>6, <1>7

\* At the start nobody waits.
LEMMA PadStarts == PadInit => PadInv
<1> SUFFICES ASSUME PadInit PROVE PadInv
  OBVIOUS
<1> USE DEF PadInit
<1>1. /\ <<>> \in Seq(GilrsEvents) /\ <<>> \in Seq(Buzzes) /\ <<>> \in Seq(Outcomes)
      /\ DOMAIN <<>> = {}
  OBVIOUS
<1>2. DOMAIN Nobody = {} /\ Nobody \in [{} -> Buzzing] /\ Nobody \in [{} -> Nat]
  BY DEF Nobody
<1>3. PadTyped
  BY <1>1, <1>2 DEF PadTyped
<1>4. /\ RequestsIn(asked) = {} /\ RequestsIn(answers) = {} /\ RequestsIn(vibrating) = {}
      /\ OnceEach(asked) /\ OnceEach(answers) /\ OnceEach(vibrating)
  BY <1>1, <1>2 DEF RequestsIn, OnceEach
<1>5. QED BY <1>2, <1>3, <1>4 DEF PadInv, Owed, Given, InOnePlace, Everywhere

\* What the operating system reports leaves what is owed as it is.
LEMMA ReportKeeps ==
  ASSUME PadInv, NEW p \in Pads, NEW kind \in {"connected", "disconnected", "completed"},
         Report(kind, p) \/ UNCHANGED reports, plugged' \in SUBSET Pads,
         UNCHANGED <<knownPads, effects, nextCommand, wanted, asked, answers, vibrating,
                     promises, unheard, mixedUp>>
  PROVE  PadInv'
<1> DEFINE x == [kind |-> kind, pad |-> p]
<1>1. x \in GilrsEvents
  BY DEF GilrsEvents
<1>2. reports' = Append(reports, x) \/ reports' = reports
  BY DEF Report
<1> HIDE DEF x
<1>3. reports \in Seq(GilrsEvents)
  BY DEF PadInv, PadTyped
<1>4. Append(reports, x) \in Seq(GilrsEvents)
  BY <1>1, <1>3
<1>5. reports' \in Seq(GilrsEvents)
  BY <1>2, <1>3, <1>4
<1>6. PadTyped'
  BY <1>5 DEF PadInv, PadTyped
<1>7. QED BY <1>6 DEF PadInv

\* A controller is plugged in.
LEMMA PlugKeeps ==
  ASSUME PadInv, NEW p \in Pads, NEW a \in BOOLEAN, Plug(p, a)
  PROVE  PadInv'
<1>1. Report("connected", p) \/ UNCHANGED reports
  BY DEF Plug
<1>2. plugged' \in SUBSET Pads
  BY DEF Plug, PadInv, PadTyped
<1>3. UNCHANGED <<knownPads, effects, nextCommand, wanted, asked, answers, vibrating, promises,
                  unheard, mixedUp>>
  BY DEF Plug, gilrsVars, registryVars, commandVars, pageVars
<1>4. QED BY <1>1, <1>2, <1>3, ReportKeeps

\* A controller is unplugged.
LEMMA UnplugKeeps ==
  ASSUME PadInv, NEW p \in Pads, Unplug(p)
  PROVE  PadInv'
<1>1. Report("disconnected", p)
  BY DEF Unplug
<1>2. plugged' \in SUBSET Pads
  BY DEF Unplug, PadInv, PadTyped
<1>3. UNCHANGED <<knownPads, effects, nextCommand, wanted, asked, answers, vibrating, promises,
                  unheard, mixedUp>>
  BY DEF Unplug, gilrsVars, registryVars, commandVars, pageVars
<1>4. QED BY <1>1, <1>2, <1>3, ReportKeeps

\* An effect ends by itself.
LEMMA EffectKeeps ==
  ASSUME PadInv, NEW p \in Pads, EffectEnds(p)
  PROVE  PadInv'
<1>1. Report("completed", p)
  BY DEF EffectEnds
<1>2. plugged' \in SUBSET Pads
  BY DEF EffectEnds, PadInv, PadTyped
<1>3. UNCHANGED <<knownPads, effects, nextCommand, wanted, asked, answers, vibrating, promises,
                  unheard, mixedUp>>
  BY DEF EffectEnds, gilrsVars, registryVars, commandVars, pageVars
<1>4. QED BY <1>1, <1>2, <1>3, ReportKeeps

\* The page asks for a vibration, and waits for its command.
LEMMA VibrateKeeps ==
  ASSUME PadInv, NEW i \in Nat, NEW silent \in BOOLEAN, Vibrate(i, silent)
  PROVE  PadInv'
<1> DEFINE e == [command |-> nextCommand, index |-> i, silent |-> silent, vibration |-> wanted + 1]
           R == Everywhere(asked, answers, vibrating)
<1>1. /\ nextCommand \in Nat /\ wanted \in Nat /\ wanted + 1 \in Nat /\ asked \in Seq(Buzzes)
      /\ promises \in [DOMAIN promises -> Nat]
  BY DEF PadInv, PadTyped
<1>2. e \in Buzzes /\ RequestOf(e) = <<nextCommand, wanted + 1>>
  BY <1>1 DEF Buzzes, RequestOf
<1>3. asked' = Append(asked, e) /\ nextCommand' = nextCommand + 1 /\ wanted' = wanted + 1
  BY DEF Vibrate
<1> HIDE DEF e
<1>4. asked' \in Seq(Buzzes) /\ Besides(e, asked, asked')
  BY <1>1, <1>2, <1>3, RequestGains
<1>5. promises' = Put(nextCommand, wanted + 1, promises)
  BY DEF Vibrate
<1>6. /\ promises' \in [DOMAIN promises' -> Nat]
      /\ DOMAIN promises' = DOMAIN promises \cup {nextCommand}
      /\ \A c \in DOMAIN promises' : promises'[c] = IF c = nextCommand THEN wanted + 1 ELSE promises[c]
  BY <1>1, <1>5 DEF Put
<1>7. UNCHANGED <<plugged, reports, knownPads, effects, answers, vibrating, unheard, mixedUp>>
  BY DEF Vibrate, driverVars, gilrsVars, registryVars
<1>8. PadTyped'
  BY <1>1, <1>3, <1>4, <1>6, <1>7 DEF PadInv, PadTyped
<1>9. RequestOf(e) \notin R
  <2>1. ~(wanted + 1 <= wanted)
    BY <1>1
  <2>2. QED BY <1>1, <1>2, <2>1 DEF PadInv, Given
<1>10. Everywhere(asked', answers', vibrating') = R \cup {RequestOf(e)}
  BY <1>4, <1>7 DEF Everywhere, Besides
<1>11. InOnePlace(asked', answers', vibrating')
  BY <1>4, <1>7, <1>9 DEF PadInv, InOnePlace, Everywhere, Besides
<1>12. Owed(promises', Everywhere(asked', answers', vibrating'), unheard')
  <2> HIDE DEF R
  <2>1. \A c \in DOMAIN promises : promises[c] \in unheard \/ <<c, promises[c]>> \in R
    BY DEF PadInv, Owed, R
  <2>2. QED BY <1>2, <1>6, <1>7, <1>10, <2>1 DEF Owed
<1>13. Given(Everywhere(asked', answers', vibrating'), wanted')
  <2>1. ASSUME NEW c \in Nat, NEW k \in Nat, <<c, k>> \in R \cup {RequestOf(e)} PROVE k <= wanted + 1
    <3>1. CASE <<c, k>> \in R
      <4>1. k <= wanted
        BY <2>1, <3>1 DEF PadInv, Given
      <4>2. QED BY <1>1, <4>1
    <3>2. CASE <<c, k>> = RequestOf(e)
      <4>1. k = wanted + 1
        BY <1>2, <3>2
      <4>2. QED BY <1>1, <4>1
    <3>3. QED BY <2>1, <3>1, <3>2
  <2>2. QED BY <1>3, <1>10, <2>1 DEF Given
<1>14. QED BY <1>8, <1>11, <1>12, <1>13 DEF PadInv

\* A frame gives the answers, and none that it gives is waited for again.
LEMMA SettleKeeps ==
  ASSUME PadInv, SettleGamepads
  PROVE  PadInv'
<1> DEFINE base == [promises |-> promises, mixedUp |-> mixedUp]
           after == AllSettled(base, answers)
<1>1. /\ promises' = after.promises /\ mixedUp' = after.mixedUp /\ answers' = <<>>
      /\ UNCHANGED <<plugged, reports, knownPads, effects, nextCommand, wanted, asked, vibrating,
                     unheard>>
  BY DEF SettleGamepads, driverVars, gilrsVars, registryVars, AllSettled
<1>2. promises \in [DOMAIN promises -> Nat] /\ mixedUp \in BOOLEAN /\ answers \in Seq(Outcomes)
  BY DEF PadInv, PadTyped
<1>3. base \in Waitings(promises) /\ base.promises = promises
  BY <1>2 DEF Waitings
<1> HIDE DEF base
<1>4. /\ after \in Waitings(promises)
      /\ DOMAIN after.promises \subseteq DOMAIN promises \ {answers[j].command : j \in DOMAIN answers}
  BY <1>2, <1>3, SettledWaitNot
<1> HIDE DEF after
<1>5. /\ promises' \in [DOMAIN promises' -> Nat] /\ mixedUp' \in BOOLEAN
      /\ \A c \in DOMAIN promises' : promises'[c] = promises[c]
  BY <1>1, <1>4 DEF Waitings
<1>6. answers' \in Seq(Outcomes) /\ RequestsIn(answers') = {} /\ OnceEach(answers')
  <2>1. <<>> \in Seq(Outcomes) /\ DOMAIN <<>> = {}
    OBVIOUS
  <2>2. QED BY <1>1, <2>1 DEF RequestsIn, OnceEach
<1>7. PadTyped'
  BY <1>1, <1>5, <1>6 DEF PadInv, PadTyped
<1>8. \A c \in DOMAIN promises' : <<c, promises[c]>> \notin RequestsIn(answers)
  BY <1>1, <1>4 DEF RequestsIn, RequestOf
<1>9. Owed(promises', Everywhere(asked, answers', vibrating), unheard)
  BY <1>1, <1>4, <1>5, <1>8 DEF PadInv, Owed, Everywhere
<1>10. /\ InOnePlace(asked, answers', vibrating)
       /\ Given(Everywhere(asked, answers', vibrating), wanted)
  BY <1>6 DEF PadInv, InOnePlace, Given, Everywhere
<1>11. QED BY <1>1, <1>7, <1>9, <1>10 DEF PadInv

\* A document that is replaced is owed nothing; what a failing reload has thrown away is
\* lost to the one that goes on.
LEMMA ReplacedKeeps ==
  ASSUME PadInv, NEW fails \in BOOLEAN, ReloadGamepads(fails)
  PROVE  PadInv'
<1>1. /\ nextCommand' = 1 /\ asked' = <<>> /\ answers' = <<>>
      /\ UNCHANGED <<plugged, reports, knownPads, effects, vibrating, wanted, mixedUp>>
  BY DEF ReloadGamepads, driverVars, gilrsVars, registryVars
<1>2. /\ <<>> \in Seq(Buzzes) /\ <<>> \in Seq(Outcomes) /\ RequestsIn(<<>>) = {}
      /\ OnceEach(<<>>)
  <2>1. <<>> \in Seq(Buzzes) /\ <<>> \in Seq(Outcomes) /\ DOMAIN <<>> = {}
    OBVIOUS
  <2>2. QED BY <2>1 DEF RequestsIn, OnceEach
<1>3. Everywhere(asked', answers', vibrating') = RequestsIn(vibrating)
  BY <1>1, <1>2 DEF Everywhere
<1>4. /\ InOnePlace(asked', answers', vibrating')
      /\ Given(Everywhere(asked', answers', vibrating'), wanted')
  BY <1>1, <1>2, <1>3 DEF PadInv, InOnePlace, Given, Everywhere
<1>5. /\ promises' \in [DOMAIN promises' -> Nat]
      /\ Owed(promises', RequestsIn(vibrating), unheard')
  <2>1. CASE ~fails
    <3>1. promises' = Nobody
      BY <2>1 DEF ReloadGamepads
    <3>2. DOMAIN Nobody = {} /\ Nobody \in [{} -> Nat]
      BY DEF Nobody
    <3>3. QED BY <3>1, <3>2 DEF Owed
  <2>2. CASE fails
    <3>1. /\ promises' = promises
          /\ unheard' = unheard \cup {r[2] : r \in RequestsIn(asked) \cup RequestsIn(answers)}
      BY <2>2 DEF ReloadGamepads
    <3>2. ASSUME NEW c \in DOMAIN promises,
                 <<c, promises[c]>> \in RequestsIn(asked) \cup RequestsIn(answers)
          PROVE  promises[c] \in unheard'
      <4>1. <<c, promises[c]>>[2] = promises[c]
        OBVIOUS
      <4>2. QED BY <3>1, <3>2, <4>1
    <3>3. Owed(promises', RequestsIn(vibrating), unheard')
      BY <3>1, <3>2 DEF PadInv, Owed, Everywhere
    <3>4. QED BY <3>1, <3>3 DEF PadInv, PadTyped
  <2>3. QED BY <2>1, <2>2
<1>6. PadTyped'
  BY <1>1, <1>2, <1>5 DEF PadInv, PadTyped
<1>7. QED BY <1>3, <1>4, <1>5, <1>6 DEF PadInv

\* Of the requests that run or are answered, R, one becomes the other.
LEMMA ToldKeeps ==
  ASSUME PadInv, NEW P, NEW R, NEW c \in Tellings(P, R),
         R = RequestsIn(answers) \cup RequestsIn(vibrating),
         vibrating' = c.vibrating, answers' = c.out, UNCHANGED <<asked, promises, unheard, wanted>>
  PROVE  /\ vibrating' \in [DOMAIN vibrating' -> Buzzing] /\ answers' \in Seq(Outcomes)
         /\ InOnePlace(asked', answers', vibrating')
         /\ Owed(promises', Everywhere(asked', answers', vibrating'), unheard')
         /\ Given(Everywhere(asked', answers', vibrating'), wanted')
<1>1. /\ OnceEach(answers') /\ OnceEach(vibrating') /\ answers' \in Seq(Outcomes)
      /\ RequestsIn(answers') \cap RequestsIn(vibrating') = {}
      /\ RequestsIn(answers') \cup RequestsIn(vibrating') = R
  BY DEF Tellings
<1>2. vibrating' \in [DOMAIN vibrating' -> Buzzing]
  BY DEF Tellings
<1>3. Everywhere(asked', answers', vibrating') = Everywhere(asked, answers, vibrating)
  BY <1>1 DEF Everywhere
<1>4. InOnePlace(asked', answers', vibrating')
  BY <1>1 DEF PadInv, InOnePlace
<1>5. QED BY <1>1, <1>2, <1>3, <1>4 DEF PadInv

\* A poll answers what is over and what has gone, and forgets nothing.
LEMMA PollsKeep ==
  ASSUME PadInv, PollGamepads
  PROVE  PadInv'
<1> DEFINE padFrame == BackendFrame
           base == [vibrating |-> vibrating, out |-> answers]
           mid == AllOver(base, padFrame.over)
           after == AllGone(mid, padFrame.changes)
           P == DOMAIN vibrating
           R == RequestsIn(answers) \cup RequestsIn(vibrating)
<1>1. /\ knownPads' = padFrame.known /\ effects' = padFrame.effects
      /\ vibrating' = after.vibrating /\ answers' = after.out /\ reports' = <<>>
      /\ UNCHANGED <<plugged, nextCommand, asked, promises, unheard, wanted, mixedUp>>
  BY DEF PollGamepads, pageVars, AllOver, AllGone
<1>2. padFrame \in PadFrames
  BY BackendFrameIs DEF PadInv
<1> HIDE DEF padFrame
<1>3. /\ padFrame.known \in SUBSET Pads /\ padFrame.effects \in SUBSET Pads
      /\ padFrame.over \in Seq(Pads) /\ padFrame.changes \in Seq(PadChanges)
  BY <1>2 DEF PadFrames
<1>4. vibrating \in [P -> Buzzing] /\ answers \in Seq(Outcomes)
  BY DEF PadInv, PadTyped
<1>5. base \in Tellings(P, R)
  BY <1>4 DEF Tellings, PadInv, InOnePlace
<1> HIDE DEF base
<1>6. mid \in Tellings(P, R)
  <2> HIDE DEF R, P
  <2>1. QED BY <1>3, <1>5, OverForgetsNone
<1> HIDE DEF mid
<1>7. after \in Tellings(P, R)
  <2> HIDE DEF R, P
  <2>1. QED BY <1>3, <1>6, GoneForgetsNone
<1> HIDE DEF after
<1>8. /\ vibrating' \in [DOMAIN vibrating' -> Buzzing] /\ answers' \in Seq(Outcomes)
      /\ InOnePlace(asked', answers', vibrating')
      /\ Owed(promises', Everywhere(asked', answers', vibrating'), unheard')
      /\ Given(Everywhere(asked', answers', vibrating'), wanted')
  BY <1>1, <1>7, ToldKeeps
<1>9. reports' \in Seq(GilrsEvents)
  BY <1>1
<1>10. PadTyped'
  BY <1>1, <1>3, <1>8, <1>9 DEF PadInv, PadTyped
<1>11. QED BY <1>8, <1>10 DEF PadInv

\* A command that is applied runs or is answered, and so is the one it preempts.
LEMMA StartKeeps ==
  ASSUME PadInv, NEW works \in BOOLEAN, ApplyVibration(works)
  PROVE  PadInv'
<1> DEFINE r == Head(asked)
           p == IF r.index \in DOMAIN slots THEN slots[r.index] ELSE Vacant
           plays == works /\ ~r.silent /\ p \in knownPads /\ (forced \/ p \in plugged)
           e == [command |-> r.command, vibration |-> r.vibration]
           none == Answer(r, "NotFoundError")
           lateAnswer == Answer(r, IF r.silent THEN "complete" ELSE "OperationError")
           over == Answer(vibrating[p], "preempted")
           P == DOMAIN vibrating
           R == RequestsIn(answers) \cup RequestsIn(vibrating)
           w == Dropped(p, vibrating)
           mid == answers \o Running(p)
<1>1. /\ asked # <<>> /\ asked' = Tail(asked) /\ StartVibration(r, works)
      /\ UNCHANGED <<plugged, knownPads, nextCommand, wanted, promises, unheard, mixedUp>>
  BY DEF ApplyVibration, pageVars
<1>2. r \in Buzzes /\ asked' \in Seq(Buzzes) /\ Besides(r, asked', asked)
  BY <1>1, RequestTaken DEF PadInv, PadTyped
<1>3. /\ answers \in Seq(Outcomes) /\ vibrating \in [P -> Buzzing]
      /\ effects \in SUBSET Pads /\ knownPads \in SUBSET Pads /\ reports \in Seq(GilrsEvents)
  BY DEF PadInv, PadTyped
<1>4. r.command \in Nat /\ r.vibration \in Nat
  BY <1>2 DEF Buzzes
<1>5. e \in Buzzing /\ RequestOf(e) = RequestOf(r)
  BY <1>4 DEF Buzzing, RequestOf
<1>6. /\ none \in Outcomes /\ RequestOf(none) = RequestOf(r)
      /\ lateAnswer \in Outcomes /\ RequestOf(lateAnswer) = RequestOf(r)
  BY <1>4 DEF Answer, Outcomes, Results, RequestOf
<1>7. /\ RequestOf(r) \notin R /\ OnceEach(asked') /\ RequestOf(r) \notin RequestsIn(asked')
      /\ RequestsIn(asked) = RequestsIn(asked') \cup {RequestOf(r)}
      /\ RequestsIn(asked') \cap R = {}
  BY <1>2 DEF PadInv, InOnePlace, Besides
<1>8. reports' \in Seq(GilrsEvents)
  <2>1. reports' = reports \/ reports' = <<>>
    BY <1>1 DEF StartVibration
  <2>2. <<>> \in Seq(GilrsEvents)
    OBVIOUS
  <2> HIDE DEF r, p
  <2>3. QED BY <1>3, <2>1, <2>2
<1> HIDE DEF R
<1>9. OnceEach(answers) /\ OnceEach(vibrating) /\ RequestsIn(answers) \cap RequestsIn(vibrating) = {}
      /\ R = RequestsIn(answers) \cup RequestsIn(vibrating)
  BY DEF PadInv, InOnePlace, R
<1>10. ASSUME effects' \in SUBSET Pads, answers' \in Seq(Outcomes),
              vibrating' \in [DOMAIN vibrating' -> Buzzing],
              OnceEach(answers'), OnceEach(vibrating'),
              RequestsIn(answers') \cap RequestsIn(vibrating') = {},
              RequestsIn(answers') \cup RequestsIn(vibrating') = R \cup {RequestOf(r)}
       PROVE  PadInv'
  <2> HIDE DEF r
  <2>1. PadTyped'
    BY <1>1, <1>2, <1>8, <1>10 DEF PadInv, PadTyped
  <2>2. InOnePlace(asked', answers', vibrating')
    BY <1>7, <1>10 DEF InOnePlace
  <2>3. Everywhere(asked', answers', vibrating') = Everywhere(asked, answers, vibrating)
    BY <1>7, <1>9, <1>10 DEF Everywhere
  <2>4. QED BY <1>1, <2>1, <2>2, <2>3 DEF PadInv
<1>11. CASE p = Vacant
  <2>1. answers' = Append(answers, none) /\ UNCHANGED <<effects, vibrating>>
    BY <1>1, <1>11 DEF StartVibration
  <2> HIDE DEF none, r
  <2>2. answers' \in Seq(Outcomes) /\ Besides(none, answers, answers')
    BY <1>3, <1>6, <2>1, RequestGains
  <2>3. /\ OnceEach(answers') /\ RequestsIn(answers') \cap RequestsIn(vibrating) = {}
        /\ RequestsIn(answers') \cup RequestsIn(vibrating) = R \cup {RequestOf(r)}
    BY <1>6, <1>7, <1>9, <2>2 DEF Besides
  <2>4. QED BY <1>3, <1>9, <1>10, <2>1, <2>2, <2>3
<1>12. CASE p # Vacant
  <2>1. /\ effects' = IF plays THEN effects \cup {p} ELSE effects \ {p}
        /\ vibrating' = IF plays THEN Put(p, e, vibrating) ELSE w
        /\ answers' = mid \o (IF plays THEN <<>> ELSE <<lateAnswer>>)
    BY <1>1, <1>12 DEF StartVibration
  <2>2. effects' \in SUBSET Pads
    BY <1>3, <2>1
  <2> HIDE DEF p, plays, e, r, none, lateAnswer
  <2>3. /\ w \in [P \ {p} -> Buzzing] /\ mid \in Seq(Outcomes) /\ OnceEach(mid) /\ OnceEach(w)
        /\ RequestsIn(mid) \cap RequestsIn(w) = {} /\ RequestsIn(mid) \cup RequestsIn(w) = R
    <3>1. CASE p \in P
      <4>1. over \in Outcomes /\ RequestOf(over) = RequestOf(vibrating[p])
        <5>1. vibrating[p] \in Buzzing
          BY <1>3, <3>1
        <5>2. QED BY <5>1 DEF Answer, Outcomes, Results, Buzzing, RequestOf
      <4>2. Running(p) = <<over>>
        BY <3>1 DEF Running
      <4> HIDE DEF over
      <4>3. mid = Append(answers, over)
        BY <1>3, <4>1, <4>2
      <4>4. mid \in Seq(Outcomes) /\ Besides(over, answers, mid)
        BY <1>3, <4>1, <4>3, RequestGains
      <4>5. w \in [P \ {p} -> Buzzing] /\ Besides(vibrating[p], w, vibrating)
        BY <1>3, <3>1, WithoutEffect
      <4> HIDE DEF mid, w, P
      <4>6. QED BY <1>9, <4>1, <4>4, <4>5 DEF Besides
    <3>2. CASE p \notin P
      <4>1. Running(p) = <<>>
        BY <3>2 DEF Running
      <4>2. mid = answers
        BY <1>3, <4>1
      <4>3. w \in [P \ {p} -> Buzzing] /\ w = vibrating
        BY <1>3, <3>2, WithoutEffect
      <4>4. QED BY <1>3, <1>9, <4>2, <4>3
    <3>3. QED BY <3>1, <3>2
  <2>4. CASE plays
    <3>1. answers' = mid \o <<>> /\ vibrating' = Put(p, e, vibrating)
      BY <2>1, <2>4
    <3> HIDE DEF mid
    <3>2. answers' = mid
      BY <2>3, <3>1
    <3>3. vibrating' \in [P \cup {p} -> Buzzing] /\ Besides(e, w, vibrating')
      BY <1>3, <1>5, <3>1, WithEffect
    <3> HIDE DEF w
    <3>4. /\ OnceEach(vibrating') /\ RequestsIn(answers') \cap RequestsIn(vibrating') = {}
          /\ RequestsIn(answers') \cup RequestsIn(vibrating') = R \cup {RequestOf(r)}
      BY <1>5, <1>7, <2>3, <3>2, <3>3 DEF Besides
    <3>5. vibrating' \in [DOMAIN vibrating' -> Buzzing]
      BY <3>3
    <3>6. QED BY <1>10, <2>2, <2>3, <3>2, <3>4, <3>5
  <2>5. CASE ~plays
    <3>1. answers' = mid \o <<lateAnswer>> /\ vibrating' = w
      BY <2>1, <2>5
    <3> HIDE DEF mid
    <3>2. answers' = Append(mid, lateAnswer)
      BY <1>6, <2>3, <3>1
    <3>3. answers' \in Seq(Outcomes) /\ Besides(lateAnswer, mid, answers')
      BY <1>6, <2>3, <3>2, RequestGains
    <3> HIDE DEF w
    <3>4. /\ OnceEach(answers') /\ RequestsIn(answers') \cap RequestsIn(vibrating') = {}
          /\ RequestsIn(answers') \cup RequestsIn(vibrating') = R \cup {RequestOf(r)}
      BY <1>6, <1>7, <2>3, <3>1, <3>3 DEF Besides
    <3>5. vibrating' \in [DOMAIN vibrating' -> Buzzing]
      BY <2>3, <3>1
    <3>6. QED BY <1>10, <2>2, <2>3, <3>1, <3>3, <3>4, <3>5
  <2>6. QED BY <2>4, <2>5
<1>13. QED BY <1>11, <1>12

\* No step loses a command that is waited for.
LEMMA PadSteps == PadInv /\ [PadNext]_padVars => PadInv'
<1> SUFFICES ASSUME PadInv, [PadNext]_padVars PROVE PadInv'
  OBVIOUS
<1>1. CASE UNCHANGED padVars
  BY <1>1 DEF padVars, driverVars, gilrsVars, registryVars, commandVars, pageVars, PadInv,
     PadTyped
<1>2. ASSUME NEW p \in Pads, Unplug(p) PROVE PadInv'
  BY <1>2, UnplugKeeps
<1>3. ASSUME NEW p \in Pads, EffectEnds(p) PROVE PadInv'
  BY <1>3, EffectKeeps
<1>4. ASSUME NEW p \in Pads, NEW a \in BOOLEAN, Plug(p, a) PROVE PadInv'
  BY <1>4, PlugKeeps
<1>5. CASE Touch
  BY <1>5 DEF Touch, driverVars, gilrsVars, registryVars, commandVars, pageVars, PadInv, PadTyped
<1>6. CASE SettleGamepads
  BY <1>6, SettleKeeps
<1>7. ASSUME NEW fails \in BOOLEAN, ReloadGamepads(fails) PROVE PadInv'
  BY <1>7, ReplacedKeeps
<1>8. CASE PollGamepads
  BY <1>8, PollsKeep
<1>9. ASSUME NEW i \in 1 .. (Len(slots) + 1), NEW silent \in BOOLEAN, Vibrate(i, silent)
      PROVE  PadInv'
  BY <1>9, VibrateKeeps
<1>10. ASSUME NEW works \in BOOLEAN, ApplyVibration(works) PROVE PadInv'
  BY <1>10, StartKeeps
<1>11. QED
  BY <1>1, <1>2, <1>3, <1>4, <1>5, <1>6, <1>7, <1>8, <1>9, <1>10 DEF PadNext

\* Every vibration a page waits for is queued, runs or has its answer on the way, and
\* only one of them, whatever is unplugged, preempted or refused (gamepad.rs), but for
\* what a reload that fails throws away.
THEOREM VibrationsHold == PadSpec => []VibrationIsOwed
<1>1. PadInv => PromisesAreOwed
  BY DEF PadInv, Owed, Everywhere, PromisesAreOwed
<1>2. PadInv => OnlyOneAnswers
  BY DEF PadInv, InOnePlace, OnlyOneAnswers
<1>3. PadInv => VibrationIsOwed
  BY <1>1, <1>2 DEF VibrationIsOwed
<1>4. QED BY <1>3, PadStarts, PadSteps, PTL DEF PadSpec

=============================================================================
