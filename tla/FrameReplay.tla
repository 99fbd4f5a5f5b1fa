----------------------------- MODULE FrameReplay ------------------------------
(***************************************************************************)
(* The headless frame loop that replays a recorded trace of inputs.        *)
(*                                                                         *)
(* A frame is one pass over fixed stages: the inputs the trace has for it, *)
(* the answers that came from outside, one animation tick, layout and      *)
(* paint.  What the application does in one stage is due in a later stage  *)
(* of the same frame or in the next one, and nothing but the trace decides *)
(* which: two replays of a trace show the same frames.                     *)
(*                                                                         *)
(* The application answers each thing it hears in one way, the same in     *)
(* every frame.  Subresources are answered inside the call that asks for   *)
(* them.  Bun's timers and promise jobs wait for the whole replay to end,  *)
(* and work of other threads (a fetch, a device) is left out: its answers  *)
(* are heard in the frame they happen to arrive in.  Timings, digests'     *)
(* hashes and the files of recorded frames are left out.                   *)
(***************************************************************************)
EXTENDS Integers, Filters

CONSTANTS MaxReplayFrames,  \* bound: frames of a trace
          MaxReplayInputs,  \* bound: its inputs
          MaxReplayAsks     \* bound: images and callbacks the application asks for
ASSUME ReplayAssumption == {MaxReplayFrames, MaxReplayInputs, MaxReplayAsks} \subseteq Nat

VARIABLES
    trace,      \* InputTrace: the frames, and the frame of each input
    reaction,   \* how the application answers what it hears
    replaying,  \* the frame and its stage
    page,       \* the clock, the images that owe an outcome, the callbacks
    replayed,   \* history: what the application heard, and in which frame
    replayAsks, \* history: what it asked for, where
    frames      \* the frames shown: how much had been heard, and at what time

replayVars == <<trace, reaction, replaying, page, replayed, replayAsks, frames>>

ReplaySounds == {"input", "load", "tick"}
Reactions == {"nothing", "image", "frame", "both", "cancel"}
NoTrace == [frames |-> 0, events |-> <<>>]

ReplayInit ==
    /\ trace = NoTrace /\ reaction = [s \in ReplaySounds |-> "nothing"]
    /\ replaying = [at |-> "off", frame |-> 0]
    /\ page = [time |-> 0, images |-> <<>>, waiting |-> <<>>, running |-> <<>>]
    /\ replayed = <<>> /\ replayAsks = <<>> /\ frames = <<>>

\* InputTrace::validate
Valid(t) ==
    /\ t.frames > 0
    /\ \A i \in DOMAIN t.events : t.events[i] \in 1..t.frames
    /\ \A i \in 2..Len(t.events) : t.events[i - 1] <= t.events[i]

\* inputs_for_frame: where the inputs of a frame are in the trace
InputsForFrame(f) ==
    ItemsIn([i \in DOMAIN trace.events |-> i], {i \in DOMAIN trace.events : trace.events[i] = f})

\* load_document_harness_with_hooks: the scripts have run and asked for a callback.
LoadHarness ==
    /\ reaction' \in [ReplaySounds -> Reactions]
    /\ replayAsks' = <<[what |-> "frame", frame |-> 0, at |-> "tick"]>>
    /\ page' = [page EXCEPT !.waiting = <<1>>]
    /\ replaying' = [replaying EXCEPT !.at = "done"]
    /\ UNCHANGED <<replayed, frames>>

\* replay: a trace that is not valid is refused before anything is dispatched.
ReplayTrace ==
    /\ replaying.at = "off"
    /\ \E n \in 0..MaxReplayFrames, es \in BoundedSeq(0..MaxReplayFrames + 1, MaxReplayInputs) :
            trace' = [frames |-> n, events |-> es]
    /\ IF Valid(trace') THEN LoadHarness
       ELSE /\ replaying' = [replaying EXCEPT !.at = "refused"]
            /\ UNCHANGED <<reaction, page, replayed, replayAsks, frames>>
\* execute_document_animation_harness: frames without a trace
Animate ==
    /\ replaying.at = "off" /\ \E n \in 0..MaxReplayFrames : trace' = [NoTrace EXCEPT !.frames = n]
    /\ LoadHarness

(***************************************************************************)
(* What the application does when it hears something.  A stage is a fold   *)
(* of such calls over the page, with what was heard and what was asked.    *)
(***************************************************************************)
Document == [page |-> page, heard |-> replayed, asked |-> replayAsks]

AskInFrame(s, what) ==
    IF Len(s.asked) = MaxReplayAsks THEN s
    ELSE LET id == Len(s.asked) + 1
             more == [s EXCEPT !.asked =
                        Append(@, [what |-> what, frame |-> replaying.frame,
                                   at |-> replaying.at])]
         IN IF what = "image" THEN [more EXCEPT !.page.images = Append(@, id)]
            ELSE [more EXCEPT !.page.waiting = Append(@, id)]

\* cancelAnimationFrame, of every callback that has not run
CancelAnimationFrames(s) ==
    LET left == Range(s.page.waiting) \cup Range(s.page.running)
    IN [s EXCEPT !.page.waiting = <<>>, !.page.running = <<>>,
                 !.asked = [i \in DOMAIN @ |->
                    IF i \in left THEN [@[i] EXCEPT !.what = "cancelled"] ELSE @[i]]]

React(s, sound) ==
    CASE reaction[sound] = "nothing" -> s
      [] reaction[sound] = "cancel" -> CancelAnimationFrames(s)
      [] reaction[sound] = "both" -> AskInFrame(AskInFrame(s, "image"), "frame")
      [] OTHER -> AskInFrame(s, reaction[sound])

DispatchTo(s, sound, id) ==
    React([s EXCEPT !.heard = Append(@, [what |-> sound, id |-> id,
                                         frame |-> replaying.frame, time |-> s.page.time])],
          sound)
HearAll(s, sound, ids) == FoldLeft(LAMBDA d, id : DispatchTo(d, sound, id), s, ids)

Becomes(s) == page' = s.page /\ replayed' = s.heard /\ replayAsks' = s.asked

(***************************************************************************)
(* One frame: FramePipeline::run over FrameLoopTurn                        *)
(***************************************************************************)
\* A stage runs after the one before it, and not after one that failed.
Stage(at, next) ==
    /\ replaying.at = at /\ replaying' = [replaying EXCEPT !.at = next]
    /\ UNCHANGED <<trace, reaction>>

\* advance
Advance ==
    /\ replaying.at = "done" /\ replaying.frame < trace.frames
    /\ replaying' = [at |-> "input", frame |-> replaying.frame + 1]
    /\ UNCHANGED <<trace, reaction, page, replayed, replayAsks, frames>>

\* drain_input and dispatch
DrainInput ==
    /\ Stage("input", "settle")
    /\ Becomes(HearAll(Document, "input", InputsForFrame(replaying.frame)))
    /\ UNCHANGED frames

\* The tick starts: setAnimationTime, then settleImages over the elements that owe
\* an outcome now.
SettleImages ==
    /\ Stage("settle", "tick")
    /\ Becomes(HearAll([Document EXCEPT !.page.time = replaying.frame, !.page.images = <<>>],
                       "load", page.images))
    /\ UNCHANGED frames

WithoutCallback(queue, id) == ItemsIn(queue, Range(queue) \ {id})

\* (a mutant: a callback cancelled while the tick runs)
CallCancelled(s, id) == DispatchTo([s EXCEPT !.page.running = WithoutCallback(@, id)], "tick", id)

\* The callbacks asked for before the tick, less those cancelled meanwhile
Call(s, id) ==
    IF id \notin Range(s.page.running) THEN s
    ELSE DispatchTo([s EXCEPT !.page.running = WithoutCallback(@, id)], "tick", id)

RunAnimationFrames ==
    /\ Stage("tick", "layout")
    /\ Becomes(FoldLeft(Call, [Document EXCEPT !.page.running = page.waiting,
                                               !.page.waiting = <<>>], page.waiting))
    /\ UNCHANGED frames

\* digest_document: what the frame was built from
Digest == [heard |-> Len(replayed), time |-> page.time]

\* layout and paint, and the digests of the finished frame
LayoutAndPaint ==
    /\ Stage("layout", "done") /\ frames' = Append(frames, Digest)
    /\ UNCHANGED <<page, replayed, replayAsks>>

\* An error out of a stage ends the replay.
Fail ==
    /\ replaying.at \in {"input", "settle", "tick", "layout"}
    /\ replaying' = [replaying EXCEPT !.at = "failed"]
    /\ UNCHANGED <<trace, reaction, page, replayed, replayAsks, frames>>

FrameStage == Advance \/ DrainInput \/ SettleImages \/ RunAnimationFrames \/ LayoutAndPaint

ReplayNext == ReplayTrace \/ Animate \/ FrameStage \/ Fail

ReplaySpec == ReplayInit /\ [][ReplayNext]_replayVars

-----------------------------------------------------------------------------
\* The frame in which what was asked for is due: this one if its stage is still to
\* come, the next one otherwise.
DueIn(a) ==
    CASE a.what = "image" -> IF a.at = "input" THEN a.frame ELSE a.frame + 1
      [] OTHER -> IF a.at = "tick" THEN a.frame + 1 ELSE a.frame

RepliesTo(sound) == {replayed[i] : i \in {j \in DOMAIN replayed : replayed[j].what = sound}}
Once(sound) == \A h, g \in {i \in DOMAIN replayed : replayed[i].what = sound} :
                    replayed[h].id = replayed[g].id => h = g

\* Only the trace decides when something is heard (FramePipeline::run, prelude.js:110):
\* each input in its frame, and what the application asked for in the first frame whose
\* stage was still to come, with that frame's time, once, unless it was cancelled; a
\* frame that is shown has heard all that was due in it.
FramesFollowTrace ==
    /\ \A s \in ReplaySounds : Once(s)
    /\ \A h \in RepliesTo("input") : h.frame = trace.events[h.id] /\ h.time = h.frame - 1
    /\ \A h \in RepliesTo("load") \cup RepliesTo("tick") :
            h.frame = DueIn(replayAsks[h.id]) /\ h.time = h.frame
    /\ \A h \in RepliesTo("tick") : replayAsks[h.id].what # "cancelled"
    /\ replaying.at = "done" =>
        /\ Len(frames) = replaying.frame
        /\ \A i \in DOMAIN trace.events :
                trace.events[i] <= replaying.frame => \E h \in RepliesTo("input") : h.id = i
        /\ \A i \in DOMAIN replayAsks :
                replayAsks[i].what # "cancelled" /\ DueIn(replayAsks[i]) <= replaying.frame =>
                    \E h \in RepliesTo("load") \cup RepliesTo("tick") : h.id = i
=============================================================================
