----------------------------- MODULE LayoutFlush ------------------------------
(***************************************************************************)
(* When the layout of a document is brought up to date, and when a flush   *)
(* finds that there is nothing to do.                                      *)
(*                                                                         *)
(* Most changes bump the revision.  The others reach the renderer on ways  *)
(* of their own: a viewport, a scroll, a restyle hint, an animation, a     *)
(* subresource that settles and a surface that appears or dies; a flush    *)
(* that overlooks one of them leaves it unseen until something else        *)
(* happens.  Subresources are answered inside the call that requests them, *)
(* so a resolve may uncover some it does not see itself, and the flush     *)
(* resolves again, a few times at most.                                    *)
(* Node ids carry a generation and are not used again.  What the layout    *)
(* is, and which controls are settled, is left out.                        *)
(*                                                                         *)
(* External: the renderer's resolve, which sees everything told before it, *)
(* and its event handling, which queues hints.                             *)
(***************************************************************************)
EXTENDS Naturals

CONSTANTS Canvases,      \* the canvases and viewports a document may have
          MaxRequests,   \* bound: subresources requested
          ResolvePasses  \* RESOURCE_RESOLVE_PASSES
ASSUME ResolvePassesAssumption == ResolvePasses \in Nat \ {0}

VARIABLES
    dirty,               \* flushed_revision is not the revision
    structureChanged, scrolled,
    settledCount, flushedCount,
    theme, flushedTheme, \* the viewport
    hinted, animating,   \* what Blitz keeps itself
    place,               \* canvas -> "none", "loose", "in" the document, or "dropped"
    surfaces, painted,   \* canvases with a state, and those whose widget is installed
    step,                \* the flush in progress
    unseen               \* history: the changes no resolve has seen

markVars == <<dirty, structureChanged, scrolled, theme, hinted, animating>>
flushedVars == <<flushedCount, flushedTheme>>
surfaceVars == <<place, surfaces, painted>>
flushVars == <<markVars, settledCount, flushedVars, surfaceVars, step, unseen>>

Resting == [at |-> "rest"]

FlushInit ==
    /\ dirty = TRUE /\ structureChanged = TRUE /\ scrolled = FALSE
    /\ settledCount = 0 /\ flushedCount = 0
    /\ theme = 1 /\ flushedTheme = 0 /\ hinted = TRUE /\ animating = FALSE
    /\ place = [c \in Canvases |-> "none"] /\ surfaces = {} /\ painted = {}
    /\ step = Resting /\ unseen = {"mutation"}

\* is_settled
IsSettled ==
    /\ ~scrolled /\ ~animating /\ settledCount = flushedCount
    /\ theme = flushedTheme /\ ~hinted

(***************************************************************************)
(* What happens between flushes                                            *)
(***************************************************************************)
Told(what) == unseen' = unseen \cup {what}

\* A request is answered, and counted, before the call returns.
Requests(n) == settledCount + n <= MaxRequests /\ settledCount' = settledCount + n

\* Every write through the backend: a new source is requested at once.
Mutate(n) ==
    /\ step = Resting /\ dirty' = TRUE /\ Requests(n) /\ Told("mutation")
    /\ UNCHANGED <<structureChanged, scrolled, theme, hinted, animating, flushedVars,
                   surfaceVars, step>>

\* The host resizes, rescales or sets a colour scheme.
SetViewport ==
    /\ step = Resting /\ theme' = 3 - theme
    /\ unseen' = IF theme' = flushedTheme THEN unseen \ {"viewport"} ELSE unseen \cup {"viewport"}
    /\ UNCHANGED <<dirty, structureChanged, scrolled, hinted, animating, settledCount,
                   flushedVars, surfaceVars, step>>

\* Reduced motion: linked sheets are fetched again, and the revision stays.
ReloadSheets ==
    /\ step = Resting /\ Requests(1) /\ Told("resource")
    /\ UNCHANGED <<markVars, flushedVars, surfaceVars, step>>

\* Only over a fresh layout.
SetScrollOffset ==
    /\ step = Resting /\ ~dirty /\ scrolled' = TRUE /\ Told("scroll")
    /\ UNCHANGED <<dirty, structureChanged, theme, hinted, animating, settledCount,
                   flushedVars, surfaceVars, step>>

\* The default of a wheel, which has just flushed: it does not say that it scrolled.
ScrollDefault ==
    /\ step = Resting /\ ~dirty /\ ~structureChanged /\ IsSettled /\ Told("wheel")
    /\ UNCHANGED <<markVars, settledCount, flushedVars, surfaceVars, step>>

Hint ==
    /\ step = Resting /\ hinted' = TRUE /\ Told("hint")
    /\ UNCHANGED <<dirty, structureChanged, scrolled, theme, animating, settledCount,
                   flushedVars, surfaceVars, step>>

SetAnimationTime ==
    /\ step = Resting /\ animating /\ Told("animation")
    /\ UNCHANGED <<markVars, settledCount, flushedVars, surfaceVars, step>>

(***************************************************************************)
(* Canvases                                                                *)
(***************************************************************************)
Moves(c, to) ==
    /\ place' = [place EXCEPT ![c] = to] /\ structureChanged' = TRUE
    /\ dirty' = TRUE /\ Told("mutation")
    /\ UNCHANGED <<scrolled, theme, hinted, animating, settledCount, flushedVars, surfaces,
                   painted, step>>

CreateCanvas(c) ==
    /\ step = Resting /\ place[c] = "none" /\ place' = [place EXCEPT ![c] = "loose"]
    /\ UNCHANGED <<markVars, settledCount, flushedVars, surfaces, painted, step, unseen>>

InsertCanvas(c) == step = Resting /\ place[c] \in {"none", "loose"} /\ Moves(c, "in")
\* Dropped when no script holds it.
RemoveCanvas(c) == step = Resting /\ place[c] = "in"
                   /\ (Moves(c, "loose") \/ Moves(c, "dropped"))

ReleaseUnnoticed(c) ==
    /\ step = Resting /\ place[c] = "loose" /\ place' = [place EXCEPT ![c] = "dropped"]
    /\ UNCHANGED <<markVars, settledCount, flushedVars, surfaces, painted, step, unseen>>

\* release_from_js: the last wrapper of a detached canvas is finalized.
ReleaseCanvas(c) ==
    /\ step = Resting /\ place[c] = "loose" /\ place' = [place EXCEPT ![c] = "dropped"]
    /\ structureChanged' = TRUE
    /\ UNCHANGED <<dirty, scrolled, theme, hinted, animating, settledCount, flushedVars,
                   surfaces, painted, step, unseen>>

Draw(c) ==
    /\ step = Resting /\ place[c] \in {"loose", "in"} /\ surfaces' = surfaces \cup {c}
    /\ UNCHANGED <<markVars, settledCount, flushedVars, place, painted, step, unseen>>

(***************************************************************************)
(* flush_layout                                                            *)
(***************************************************************************)
InDocument == {c \in Canvases : place[c] = "in"}
Dead == {c \in Canvases : place[c] = "dropped"}

\* attach_widgets: installing one is a change for the resolve.
Attach ==
    IF structureChanged
    THEN /\ surfaces' = (surfaces \cup InDocument) \ Dead
         /\ painted' = (painted \cup InDocument) \ Dead
         /\ hinted' = (hinted \/ ~(InDocument \subseteq painted))
    ELSE UNCHANGED <<surfaces, painted, hinted>>

FlushBegins ==
    /\ step = Resting /\ Attach /\ structureChanged' = FALSE
    /\ IF ~dirty /\ IsSettled /\ hinted' = hinted
       THEN UNCHANGED <<step, scrolled>>
       ELSE /\ scrolled' = FALSE
            /\ step' = [at |-> "pass", number |-> 1, controls |-> dirty]
    /\ UNCHANGED <<dirty, theme, animating, settledCount, flushedVars, place, unseen>>

\* document.resolve: `n` resources are found and answered after it could use them.
Resolve(n, last) ==
    /\ Requests(n) /\ hinted' = FALSE /\ animating' \in BOOLEAN
    /\ unseen' = IF n = 0 THEN {} ELSE IF last THEN {"late"} ELSE {"resource"}
    /\ UNCHANGED <<structureChanged, scrolled, theme, surfaceVars>>

Flushed == /\ step' = Resting /\ dirty' = FALSE
           /\ flushedCount' = settledCount' /\ flushedTheme' = theme

Pass(n) ==
    /\ step.at = "pass" /\ Resolve(n, step.number = ResolvePasses)
    /\ IF n > 0 /\ step.number < ResolvePasses
       THEN step' = [step EXCEPT !.number = @ + 1] /\ UNCHANGED <<dirty, flushedVars>>
       ELSE IF step.controls
       THEN step' = [at |-> "controls"] /\ UNCHANGED <<dirty, flushedVars>>
       ELSE Flushed

\* settle_form_controls, and one more resolve if it wrote a control.
SettleControls(n) ==
    /\ step.at = "controls"
    /\ \/ Resolve(n, TRUE)
       \/ UNCHANGED <<structureChanged, scrolled, theme, hinted, animating, settledCount,
                      surfaceVars, unseen>>
    /\ Flushed

FlushNext ==
    \/ \E n \in {0, 1} : Mutate(n) \/ (step # Resting /\ (Pass(n) \/ SettleControls(n)))
    \/ SetViewport \/ ReloadSheets \/ SetScrollOffset \/ ScrollDefault \/ Hint
    \/ SetAnimationTime \/ FlushBegins
    \/ \E c \in Canvases : CreateCanvas(c) \/ InsertCanvas(c) \/ RemoveCanvas(c)
                           \/ ReleaseCanvas(c) \/ Draw(c)

FlushSpec == FlushInit /\ [][FlushNext]_flushVars

(***************************************************************************)
(* When a flush would do nothing, nothing waits for one: every change has  *)
(* been seen by a resolve, every canvas of the document has its widget and *)
(* none that is gone keeps a state (tree.rs:104, "nothing has happened     *)
(* since the last flush that a resolve could act on").  Two things escape  *)
(* it: what AllIsSeen says and this does not.                              *)
(***************************************************************************)
AtRest == step = Resting /\ ~dirty /\ ~structureChanged /\ IsSettled
RestIsComplete ==
    AtRest => /\ unseen \subseteq {"wheel", "late"}
              /\ InDocument \subseteq painted /\ surfaces \cap Dead = {}

(***************************************************************************)
(* The comment taken at its word.  A wheel's default scroll and a resource *)
(* that settles in the last resolve of a flush refute it: the flush counts *)
(* the settlement as one it has resolved.                                  *)
(***************************************************************************)
AllIsSeen == AtRest => unseen = {}
=============================================================================
