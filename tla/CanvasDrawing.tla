--------------------------- MODULE CanvasDrawing ---------------------------
(* One canvas: the 2D context of bootstrap/canvas_context.js, which keeps    *)
(* the whole drawing state and writes commands into a batch, and the         *)
(* renderer of blitsen-blitz/src/canvas, which replays batches into a        *)
(* recorded scene and has no current anything.                               *)
(*                                                                           *)
(* A mark stands for whatever one drawing call leaves on the canvas: its     *)
(* shape, paint and transform travel with its command.  Clips do not: they   *)
(* are layers of the scene, a batch opens those it needs and closes them,    *)
(* and one that is recorded cannot be lifted.  `ideal` is the canvas of the  *)
(* 2D specification, which is drawn on at once.                              *)
EXTENDS Integers, Filters

CONSTANTS
    Sizes,    \* backing stores, as the least rectangle that covers them
    Default,  \* the one of a canvas without the attribute
    MaxCalls, \* drawing calls and calls of clip()
    MaxSaves  \* states saved at a time

ASSUME CanvasAssumption == /\ Sizes \subseteq Nat \ {0}
                           /\ Default \in Sizes
                           /\ {MaxCalls, MaxSaves} \subseteq Nat

VARIABLES
    context,   \* CanvasRenderingContext2D: its state, clips and saved states
    stream,    \* its CanvasStream: the commands not submitted yet
    flushes,   \* in drawnCanvases; canvasFlushScheduled
    surface,   \* CanvasState: the size, the scene, whether it is destructive
    attribute, \* the content attribute: a size, or 0 when it is absent
    ideal,     \* the state and picture of a canvas drawn on at once
    marks,     \* how many marks were asked for
    clips      \* how many clips were asked for

canvasVars == <<context, stream, flushes, surface, attribute, ideal, marks, clips>>

FreshContext == [style |-> "plain", saved |-> <<>>, clips |-> <<>>, applied |-> 0, size |-> 0]
IdealCanvas == [style |-> "plain", saved |-> <<>>, clips |-> <<>>, picture |-> <<>>]
OwedFlush == [drawn |-> TRUE, microtask |-> TRUE]

(* The commands.                                                             *)
Mark(id, style) == <<[op |-> "mark", id |-> id, style |-> style]>>
PushClip(clip) == [op |-> "clip", clip |-> clip]
PushLayer(style) == <<[op |-> "layer", style |-> style]>>
PopLayers(n) == [i \in 1..n |-> [op |-> "pop"]]
ResetAll == <<[op |-> "reset"]>>

EmptyBatch == <<>>
Extent(a) == IF a = 0 THEN Default ELSE a

CanvasInit ==
    /\ context = FreshContext /\ stream = EmptyBatch /\ ideal = IdealCanvas
    /\ flushes = [drawn |-> FALSE, microtask |-> FALSE]
    /\ attribute \in {0} \union Sizes
    /\ surface = [size |-> Extent(attribute), scene |-> <<>>,
                  destructive |-> FALSE, refused |-> FALSE]
    /\ marks = 0 /\ clips = 0

-----------------------------------------------------------------------------
(* The renderer: one pass over a batch, counting the layers it opens.        *)

IsClip(layer) == layer.op = "clip"
Clips(open) == ItemsIn(open, {layer \in Range(open): IsClip(layer)})
Blends(open) == ItemsIn(open, {layer \in Range(open): ~IsClip(layer)})
Composite(open, style) == IF Blends(open) = <<>> THEN style ELSE Last(Blends(open)).style

Record(s, mark) == [id |-> mark.id, style |-> Composite(s.open, mark.style),
                    under |-> Clips(s.open)]
Marked(s, mark) == [s EXCEPT !.scene = Append(@, Record(s, mark))]

Replay(s, c) ==
    CASE c.op = "reset" -> [s EXCEPT !.scene = <<>>, !.destructive = FALSE]
      [] c.op = "clip" -> [s EXCEPT !.open = Append(@, c)]
      [] c.op = "layer" -> [s EXCEPT !.open = Append(@, c),
                                     !.destructive = @ \/ c.style = "copy"]
      [] c.op = "pop" -> IF s.open = <<>> THEN [s EXCEPT !.refused = TRUE]
                         ELSE [s EXCEPT !.open = Front(@)]
      [] c.op = "mark" -> Marked(s, c)

Replayed(commands) ==
    FoldLeft(Replay, [scene |-> surface.scene, destructive |-> surface.destructive,
                      refused |-> surface.refused, open |-> <<>>], commands)

Submitted(commands) ==
    LET r == Replayed(commands)
    IN [surface EXCEPT !.scene = r.scene, !.destructive = r.destructive,
                       !.refused = r.refused \/ r.open # <<>>]

-----------------------------------------------------------------------------
(* The batch.                                                                *)

(* The clips that are wanted and that this batch has not opened.             *)
OpenedClips == [i \in 1..(Len(context.clips) - context.applied) |->
                  PushClip(context.clips[context.applied + i])]

BackingStore == IF context.size = 0 THEN surface.size ELSE context.size

(* A draw is a layer when it composites, and an image when it is not opaque. *)
Layered(kind) == \/ context.style = "copy"
                 \/ context.style = "faint" /\ kind = "image"

SettledContext(s) == [s EXCEPT !.size = 0, !.applied = 0]

Built == stream \o PopLayers(context.applied)
FlushStream ==
    IF stream = EmptyBatch THEN UNCHANGED <<surface, stream>>
    ELSE surface' = Submitted(Built) /\ stream' = EmptyBatch

(* The end of the task that drew.                                            *)
FlushMicrotask ==
    /\ flushes.microtask
    /\ flushes' = [flushes EXCEPT !.microtask = FALSE, !.drawn = FALSE]
    /\ IF flushes.drawn THEN FlushStream /\ context' = SettledContext(context)
       ELSE UNCHANGED <<surface, stream, context>>
    /\ UNCHANGED <<attribute, ideal, marks, clips>>

(* The frame flushes again what its callbacks drew, and paints.              *)
FrameFlush ==
    /\ flushes' = [flushes EXCEPT !.drawn = FALSE]
    /\ IF flushes.drawn THEN FlushStream /\ context' = SettledContext(context)
       ELSE UNCHANGED <<surface, stream, context>>
    /\ UNCHANGED <<attribute, ideal, marks, clips>>

(* getImageData, toDataURL and toBlob see what was drawn before them.        *)
ReadBack ==
    /\ FlushStream /\ context' = SettledContext(context)
    /\ flushes' = [flushes EXCEPT !.drawn = FALSE]
    /\ UNCHANGED <<attribute, ideal, marks, clips>>

-----------------------------------------------------------------------------
(* The calls.                                                                *)

(* The styles, the transform and the rest of the state only wait for a draw. *)
SetStyle(style) ==
    /\ style # context.style
    /\ context' = [context EXCEPT !.style = style]
    /\ ideal' = [ideal EXCEPT !.style = style]
    /\ UNCHANGED <<stream, flushes, surface, attribute, marks, clips>>

Save ==
    /\ Len(context.saved) < MaxSaves
    /\ context' = [context EXCEPT !.saved =
                     Append(@, [style |-> context.style, depth |-> Len(context.clips)])]
    /\ ideal' = [ideal EXCEPT !.saved =
                    Append(@, [style |-> ideal.style, clips |-> ideal.clips])]
    /\ UNCHANGED <<stream, flushes, surface, attribute, marks, clips>>

(* A mutant: the layers stay open, though the clips are gone.                *)
LiftedNone(to) == 0

(* The layers a restore has to close, because its state has fewer clips.     *)
Lifted(to) == IF context.applied > to.depth THEN context.applied - to.depth ELSE 0

Restore ==
    /\ context.saved # <<>>
    /\ LET to == Last(context.saved)
           lifted == Lifted(to)
       IN /\ context' = [context EXCEPT !.style = to.style, !.saved = Front(@),
                                        !.applied = @ - lifted,
                                        !.clips = SubSeq(@, 1, to.depth)]
          /\ stream' = stream \o PopLayers(lifted)
          /\ flushes' = IF lifted > 0 THEN OwedFlush ELSE flushes
    /\ ideal' = [ideal EXCEPT !.saved = Front(@), !.style = Last(ideal.saved).style,
                                !.clips = Last(ideal.saved).clips]
    /\ UNCHANGED <<surface, attribute, marks, clips>>

Clip ==
    /\ marks + clips < MaxCalls /\ clips' = clips + 1
    /\ context' = [context EXCEPT !.clips = Append(@, clips')]
    /\ ideal' = [ideal EXCEPT !.clips = Append(@, clips')]
    /\ UNCHANGED <<stream, flushes, surface, attribute, marks>>

Drawn(style, under) == [id |-> marks', style |-> style, under |-> under]

(* One draw, of a path, of text or of an image.                              *)
WriteMark(kind) ==
    IF Layered(kind)
    THEN PushLayer(context.style) \o Mark(marks', "plain") \o PopLayers(1)
    ELSE Mark(marks', context.style)

DrawMark(kind) ==
    /\ marks + clips < MaxCalls /\ marks' = marks + 1
    /\ stream' = stream \o OpenedClips \o WriteMark(kind)
    /\ context' = [context EXCEPT !.applied = Len(context.clips),
                                  !.size = IF Layered(kind) THEN BackingStore ELSE @]
    /\ flushes' = OwedFlush
    /\ ideal' = [ideal EXCEPT !.picture = Append(@, Drawn(ideal.style, ideal.clips))]
    /\ UNCHANGED <<surface, attribute, clips>>

PutImageData ==
    /\ marks + clips < MaxCalls /\ marks' = marks + 1
    /\ stream' = stream \o PopLayers(context.applied) \o Mark(marks', "put")
    /\ context' = [context EXCEPT !.applied = 0]
    /\ flushes' = OwedFlush
    /\ ideal' = [ideal EXCEPT !.picture = Append(@, Drawn("put", <<>>))]
    /\ UNCHANGED <<surface, attribute, clips>>

(* A clear that covers an unclipped canvas forgets the scene; any other one, *)
(* a rotated one (0) among them, erases with a mark.                         *)
Unclipped == context.applied = 0 /\ context.clips = <<>>
Covers(extent) == extent >= BackingStore

ClearRect(extent) ==
    /\ marks + clips < MaxCalls /\ marks' = marks + 1
    /\ IF Unclipped /\ Covers(extent)
       THEN /\ stream' = ResetAll
            /\ context' = [context EXCEPT !.size = BackingStore]
       ELSE /\ stream' = stream \o OpenedClips \o PushLayer("out") \o Mark(marks', "plain")
                              \o PopLayers(1)
            /\ context' = [context EXCEPT !.applied = Len(context.clips),
                                          !.size = IF Unclipped THEN BackingStore ELSE @]
    /\ flushes' = OwedFlush
    /\ ideal' = [ideal EXCEPT !.picture =
                    IF ideal.clips = <<>> /\ extent >= surface.size THEN <<>>
                    ELSE Append(@, Drawn("out", ideal.clips))]
    /\ UNCHANGED <<surface, attribute, clips>>

Reset ==
    /\ stream' = ResetAll
    /\ context' = [FreshContext EXCEPT !.size = context.size]
    /\ flushes' = OwedFlush
    /\ ideal' = IdealCanvas
    /\ UNCHANGED <<surface, attribute, marks, clips>>

-----------------------------------------------------------------------------
(* The element.                                                              *)

(* CanvasState::resize drops the scene of another size only.                 *)
Resized(s, size) ==
    IF s.size = size THEN s
    ELSE [s EXCEPT !.size = size, !.scene = <<>>, !.destructive = FALSE]

(* Either dimension is written: what was drawn reaches the renderer first.   *)
WriteSize(a, forgets) ==
    LET flushed == IF stream = EmptyBatch THEN surface ELSE Submitted(Built)
        lost == flushed.size # Extent(a)
    IN /\ attribute' = a
       /\ surface' = Resized(flushed, Extent(a))
       /\ stream' = EmptyBatch
       /\ context' = IF lost \/ forgets THEN FreshContext ELSE SettledContext(context)
       /\ flushes' = [flushes EXCEPT !.drawn = FALSE]
       /\ ideal' = [(IF lost \/ forgets THEN IdealCanvas ELSE ideal)
                       EXCEPT !.picture = IF lost THEN <<>> ELSE ideal.picture]
       /\ UNCHANGED <<marks, clips>>

SetSize(size) == WriteSize(size, FALSE)
RemoveSize == WriteSize(0, TRUE)

CanvasNext ==
    \/ \E style \in {"plain", "faint", "copy"}: SetStyle(style)
    \/ \E kind \in {"paint", "image"}: DrawMark(kind)
    \/ \E extent \in {0} \union Sizes: ClearRect(extent)
    \/ \E size \in Sizes: SetSize(size)
    \/ Save \/ Restore \/ Clip \/ PutImageData \/ Reset \/ RemoveSize
    \/ FlushMicrotask \/ FrameFlush \/ ReadBack

CanvasSpec == CanvasInit /\ [][CanvasNext]_canvasVars

-----------------------------------------------------------------------------
(* Whatever is drawn, clipped, saved, restored, cleared, read back and       *)
(* resized, and wherever the batches are cut between: the scene and what the *)
(* batch will add to it are the picture of a canvas drawn on at once, each   *)
(* mark under exactly the clips of its call; no batch is refused for its     *)
(* layers; and the scene is composited as a group when something in it       *)
(* erases (blitsen-blitz/src/canvas/record.rs:3-8, wire.rs:18-21).           *)
PictureAgrees ==
    LET r == Replayed(stream)
    IN /\ [i \in DOMAIN r.scene |-> [r.scene[i] EXCEPT !.under =
             [j \in DOMAIN @ |-> @[j].clip]]] = ideal.picture
       /\ ~r.refused /\ Len(r.open) = context.applied
       /\ (\E i \in DOMAIN r.scene: r.scene[i].style = "copy") => r.destructive
       /\ stream # EmptyBatch => flushes.drawn /\ flushes.microtask

=============================================================================
