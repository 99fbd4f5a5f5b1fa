------------------------------- MODULE Gamepads -------------------------------
(***************************************************************************)
(* Game controllers: the slots a page sees them in and the vibrations it   *)
(* asks of them.                                                           *)
(*                                                                         *)
(* The backend is polled once per redraw, and only once the document has   *)
(* used the API.  A vibration is a command whose promise waits for the     *)
(* backend's report that the effect is over, for another vibration of the  *)
(* controller, or for its disconnection; a reload replaces the document    *)
(* and keeps the controllers, and one that fails has reset the channel of  *)
(* the document that goes on.  Axes and buttons are left out.              *)
(*                                                                         *)
(* External: the operating system's reports and the force-feedback server. *)
(***************************************************************************)
EXTENDS Naturals, Sequences, FiniteSets, SequencesExt

CONSTANTS Pads,          \* controllers
          Vacant,        \* the marker of a slot without a controller
          MaxReports,    \* bound: reports of the operating system
          MaxVibrations, \* bound: vibrations the documents ask for
          MaxReloads     \* bound: reloads
ASSUME PadAssumption ==
    IsFiniteSet(Pads) /\ {MaxReports, MaxVibrations, MaxReloads} \subseteq Nat

VARIABLES
    plugged,                                \* controllers that are plugged in
    reports,                                \* gilrs' queue of events
    playing,                                \* controllers whose effect runs in the driver
    knownPads, effects, enumerated, forced, \* GilrsBackend; forced: force feedback on
    slots,                                  \* Registry: slot -> controller, or Vacant
    preferred,                              \* Registry: the slot a controller had
    activation,                             \* Controller: the touch generation it polled for last
    vibrating,                              \* Controller::active_vibrations: controller -> command
    touched, touchGeneration, shown,        \* SNAPSHOTS: shown is what the page reads
    connections,                            \* CONNECTIONS
    nextCommand, asked, answers,            \* VIBRATIONS
    reloadsMade,                            \* history: reloads so far
    promises,                               \* command -> the vibration the document waits for
    unheard,                                \* history: its vibrations whose command or answer a
                                            \* reload has thrown away and then failed
    reported, wanted,                       \* history: reports and vibrations so far
    mixedUp                                 \* history: a promise took the answer to another vibration

driverVars == <<plugged, reports, playing, reported>>
gilrsVars == <<knownPads, effects, enumerated, forced>>
registryVars == <<slots, preferred, activation, vibrating>>
bridgeVars == <<touched, touchGeneration, shown, connections>>
commandVars == <<nextCommand, asked, answers>>
pageVars == <<reloadsMade, promises, unheard, wanted, mixedUp>>
padVars == <<driverVars, gilrsVars, registryVars, bridgeVars, commandVars, pageVars>>

Nobody == [p \in {} |-> 0]
Dropped(p, f) == [q \in DOMAIN f \ {p} |-> f[q]]
Put(p, v, f) == [q \in DOMAIN f \union {p} |-> IF q = p THEN v ELSE f[q]]

\* What a command or an answer is about: the command's id, and which vibration it asked
\* for.  RequestsIn is of a queue, or of the effects.
RequestOf(x) == <<x.command, x.vibration>>
RequestsIn(f) == {RequestOf(f[i]) : i \in DOMAIN f}

PadInit ==
    /\ plugged = {} /\ reports = <<>> /\ playing = {} /\ reported = 0
    /\ knownPads = {} /\ effects = {} /\ enumerated = FALSE /\ forced = FALSE
    /\ slots = <<>> /\ preferred = Nobody /\ activation = 0 /\ vibrating = Nobody
    /\ touched = FALSE /\ touchGeneration = 0 /\ shown = <<>> /\ connections = <<>>
    /\ nextCommand = 1 /\ asked = <<>> /\ answers = <<>>
    /\ reloadsMade = 0 /\ promises = Nobody /\ unheard = {} /\ wanted = 0 /\ mixedUp = FALSE

(***************************************************************************)
(* The operating system                                                    *)
(***************************************************************************)
Report(kind, p) ==
    /\ reported < MaxReports /\ reported' = reported + 1
    /\ reports' = Append(reports, [kind |-> kind, pad |-> p])

\* A controller that is there at the start may be listed without an event.
Plug(p, announced) ==
    /\ p \notin plugged /\ plugged' = plugged \union {p}
    /\ IF announced THEN Report("connected", p)
                    ELSE ~enumerated /\ UNCHANGED <<reports, reported>>
    /\ UNCHANGED <<playing, gilrsVars, registryVars, bridgeVars, commandVars, pageVars>>

Unplug(p) ==
    /\ p \in plugged /\ plugged' = plugged \ {p} /\ playing' = playing \ {p}
    /\ Report("disconnected", p)
    /\ UNCHANGED <<gilrsVars, registryVars, bridgeVars, commandVars, pageVars>>

EffectEnds(p) ==
    /\ p \in playing /\ playing' = playing \ {p}
    /\ Report("completed", p)
    /\ UNCHANGED <<plugged, gilrsVars, registryVars, bridgeVars, commandVars, pageVars>>

(***************************************************************************)
(* The page                                                                *)
(***************************************************************************)
\* touch(), of any use of the API.
Touched(f) ==
    /\ touched' = TRUE
    /\ touchGeneration' = IF touched THEN touchGeneration ELSE touchGeneration + 1

Touch ==
    /\ ~touched /\ Touched(TRUE)
    /\ UNCHANGED <<driverVars, gilrsVars, registryVars, shown, connections, commandVars,
                   pageVars>>

\* startGamepadVibration: the promise of a command that had its id is let go.
Vibrate(index, silent) ==
    /\ wanted < MaxVibrations /\ wanted' = wanted + 1
    /\ Touched(TRUE)
    /\ asked' = Append(asked, [command |-> nextCommand, index |-> index, silent |-> silent,
                               vibration |-> wanted + 1])
    /\ promises' = Put(nextCommand, wanted + 1, promises) /\ nextCommand' = nextCommand + 1
    /\ UNCHANGED <<driverVars, gilrsVars, registryVars, shown, connections, answers,
                   reloadsMade, unheard, mixedUp>>

Settled(state, answer) ==
    IF answer.command \in DOMAIN state.promises
    THEN [promises |-> Dropped(answer.command, state.promises),
          mixedUp |-> state.mixedUp \/ state.promises[answer.command] # answer.vibration]
    ELSE state

\* settle(), in a frame: the connection events, then the answers.
SettleGamepads ==
    /\ connections # <<>> \/ answers # <<>>
    /\ LET after == FoldLeft(Settled, [promises |-> promises, mixedUp |-> mixedUp], answers)
       IN promises' = after.promises /\ mixedUp' = after.mixedUp
    /\ connections' = <<>> /\ answers' = <<>>
    /\ UNCHANGED <<driverVars, gilrsVars, registryVars, touched, touchGeneration, shown,
                   nextCommand, asked, reloadsMade, unheard, wanted>>

\* gamepad::reset() comes before the load, which may fail: the old document then goes on,
\* its ids begin again, and its promises stay.  The Controller stays either way.
ReloadGamepads(fails) ==
    /\ reloadsMade < MaxReloads /\ reloadsMade' = reloadsMade + 1
    /\ touched' = FALSE /\ shown' = <<>> /\ connections' = <<>>
    /\ nextCommand' = 1 /\ asked' = <<>> /\ answers' = <<>>
    /\ IF ~fails THEN promises' = Nobody /\ unheard' = {}
       ELSE /\ unheard' = unheard \union {r[2] : r \in RequestsIn(asked) \union RequestsIn(answers)}
            /\ UNCHANGED promises
    /\ UNCHANGED <<driverVars, gilrsVars, registryVars, touchGeneration, wanted, mixedUp>>

(***************************************************************************)
(* GilrsBackend::poll: gilrs' events, drained                              *)
(***************************************************************************)
Drained(b, report) ==
    LET p == report.pad
    IN CASE report.kind = "connected" ->
              IF p \in b.known THEN b
              ELSE [b EXCEPT !.known = @ \union {p},
                             !.changes = Append(@, [kind |-> "connected", pad |-> p])]
         [] report.kind = "disconnected" ->
              [b EXCEPT !.known = @ \ {p}, !.effects = @ \ {p},
                        !.changes = Append(@, [kind |-> "disconnected", pad |-> p])]
         [] report.kind = "completed" ->
              [b EXCEPT !.effects = @ \ {p}, !.over = Append(@, p)]

\* The first poll lists the controllers nothing was reported of.
Listed(b) ==
    IF enumerated THEN b
    ELSE LET new == SetToSeq(plugged \ b.known)
         IN [b EXCEPT !.known = @ \union plugged,
                      !.changes = @ \o [i \in DOMAIN new |-> [kind |-> "connected",
                                                             pad |-> new[i]]]]

BackendFrame ==
    Listed(FoldLeft(Drained, [known |-> knownPads, effects |-> effects, changes |-> <<>>,
                              over |-> <<>>], reports))

(***************************************************************************)
(* Registry                                                                *)
(***************************************************************************)
Vacancies(s) == {i \in DOMAIN s : s[i] = Vacant}

\* allocate(): the slot it had if that is vacant, else the first vacancy, else a new one.
Slot(r, p) ==
    IF p \in DOMAIN r.preferred /\ r.preferred[p] \in Vacancies(r.slots) THEN r.preferred[p]
    ELSE IF Vacancies(r.slots) # {}
    THEN CHOOSE i \in Vacancies(r.slots) : \A j \in Vacancies(r.slots) : i <= j
    ELSE Len(r.slots) + 1

SlotOf(s, p) == {i \in DOMAIN s : s[i] = p}

\* apply(), for one change.
Applied(r, change) ==
    LET p == change.pad
        at == Slot(r, p)
    IN IF change.kind = "connected"
       THEN IF SlotOf(r.slots, p) # {} THEN r
            ELSE [slots |-> IF at \in DOMAIN r.slots THEN [r.slots EXCEPT ![at] = p]
                                                     ELSE Append(r.slots, p),
                  preferred |-> Put(p, at, r.preferred),
                  out |-> Append(r.out, [kind |-> "connected", index |-> at])]
       ELSE IF SlotOf(r.slots, p) = {} THEN r
       ELSE [r EXCEPT !.slots = [i \in DOMAIN @ |-> IF @[i] = p THEN Vacant ELSE @[i]],
                      !.out = @ \o SetToSeq({[kind |-> "disconnected", index |-> i] :
                                              i \in SlotOf(r.slots, p)})]

(***************************************************************************)
(* Controller                                                              *)
(***************************************************************************)
Answer(v, result) == [command |-> v.command, vibration |-> v.vibration, result |-> result]

\* The bugs looked for: an effect that is over is answered and kept; a controller goes and
\* its effect is dropped without an answer.
OverAndKept(c, p) == IF p \in DOMAIN c.vibrating
                     THEN [c EXCEPT !.out = Append(@, Answer(c.vibrating[p], "complete"))]
                     ELSE c

GoneUnanswered(c, change) ==
    IF change.kind = "disconnected"
    THEN [c EXCEPT !.vibrating = Dropped(change.pad, @)] ELSE c

\* A vibration that is over, or whose controller is gone, is answered and forgotten.
Over(c, p) == IF p \in DOMAIN c.vibrating
              THEN [vibrating |-> Dropped(p, c.vibrating),
                    out |-> Append(c.out, Answer(c.vibrating[p], "complete"))]
              ELSE c

Gone(c, change) ==
    IF change.kind = "disconnected" /\ change.pad \in DOMAIN c.vibrating
    THEN [vibrating |-> Dropped(change.pad, c.vibrating),
          out |-> Append(c.out, Answer(c.vibrating[change.pad], "preempted"))]
    ELSE c

\* Controller::poll, of a redraw.
PollGamepads ==
    /\ touched
    /\ LET frame == BackendFrame
           after == FoldLeft(Gone, FoldLeft(Over, [vibrating |-> vibrating, out |-> answers],
                                            frame.over), frame.changes)
           r == FoldLeft(Applied, [slots |-> slots, preferred |-> preferred, out |-> <<>>],
                         frame.changes)
       IN /\ knownPads' = frame.known /\ effects' = frame.effects
          /\ vibrating' = after.vibrating /\ answers' = after.out
          /\ slots' = r.slots /\ preferred' = r.preferred
          /\ IF activation # touchGeneration \/ r.out # <<>>
             THEN shown' = r.slots /\ connections' = connections \o r.out
             ELSE UNCHANGED <<shown, connections>>
    /\ enumerated' = TRUE /\ reports' = <<>> /\ activation' = touchGeneration
    /\ UNCHANGED <<plugged, playing, reported, forced, touched, touchGeneration,
                   nextCommand, asked, pageVars>>

Running(p) == IF p \in DOMAIN vibrating
              THEN <<Answer(vibrating[p], "preempted")>> ELSE <<>>

\* enable_force_feedback: the first effect replaces gilrs and the queue it had, if the
\* new one still finds the controller.
Forces(p) == ~forced /\ p \in knownPads /\ p \in plugged

\* apply_request: the effect before it is stopped, and answered, whatever becomes of
\* the new one.
StartVibration(r, works) ==
    LET p == IF r.index \in DOMAIN slots THEN slots[r.index] ELSE Vacant
        plays == works /\ ~r.silent /\ p \in knownPads /\ (forced \/ p \in plugged)
    IN IF p = Vacant
       THEN /\ answers' = Append(answers, Answer(r, "NotFoundError"))
            /\ UNCHANGED <<effects, playing, vibrating, forced, reports>>
       ELSE /\ effects' = IF plays THEN effects \union {p} ELSE effects \ {p}
            /\ playing' = IF plays /\ p \in plugged THEN playing \union {p} ELSE playing \ {p}
            /\ IF ~r.silent /\ Forces(p) THEN forced' = TRUE /\ reports' = <<>>
                                         ELSE UNCHANGED <<forced, reports>>
            /\ vibrating' = IF plays THEN Put(p, [command |-> r.command,
                                                  vibration |-> r.vibration], vibrating)
                            ELSE Dropped(p, vibrating)
            /\ answers' = answers \o Running(p) \o
                 (IF plays THEN <<>>
                  ELSE <<Answer(r, IF r.silent THEN "complete" ELSE "OperationError")>>)

ApplyVibration(works) ==
    /\ asked # <<>> /\ asked' = Tail(asked)
    /\ StartVibration(Head(asked), works)
    /\ UNCHANGED <<plugged, reported, knownPads, enumerated, slots, preferred, activation,
                   bridgeVars, nextCommand, pageVars>>

PadNext ==
    \/ \E p \in Pads : Unplug(p) \/ EffectEnds(p) \/ \E a \in BOOLEAN : Plug(p, a)
    \/ Touch \/ SettleGamepads \/ PollGamepads
    \/ \E fails \in BOOLEAN : ReloadGamepads(fails)
    \/ \E i \in 1..(Len(slots) + 1), silent \in BOOLEAN : Vibrate(i, silent)
    \/ \E works \in BOOLEAN : ApplyVibration(works)

PadSpec == PadInit /\ [][PadNext]_padVars

(***************************************************************************)
(* Properties                                                              *)
(***************************************************************************)
\* A promise the page waits for has its command in the queue, its effect on a
\* controller, or its answer on the way: preemption, disconnection and failure lose
\* none (gamepad.rs:45-57, 94-113).  What a reload has thrown away before it failed
\* (session.rs:303) is lost, and so is a promise whose id was given again after it.
PromisesAreOwed ==
    \A c \in DOMAIN promises :
        \/ promises[c] \in unheard
        \/ <<c, promises[c]>> \in RequestsIn(asked) \union RequestsIn(answers)
                                     \union RequestsIn(vibrating)

OnceEach(f) == \A i, j \in DOMAIN f : RequestOf(f[i]) = RequestOf(f[j]) => i = j

\* Its own end, the next vibration, the controller's going or a failure: only one of
\* them answers a vibration, which is queued, runs or is answered, and that once.
OnlyOneAnswers ==
    /\ OnceEach(asked) /\ OnceEach(answers) /\ OnceEach(vibrating)
    /\ RequestsIn(asked) \intersect RequestsIn(answers) = {}
    /\ RequestsIn(asked) \intersect RequestsIn(vibrating) = {}
    /\ RequestsIn(answers) \intersect RequestsIn(vibrating) = {}

VibrationIsOwed == PromisesAreOwed /\ OnlyOneAnswers

\* A promise is settled by the answer to its own command: one from before a reset "is
\* stale. It cannot settle a newer promise merely because its message was valid"
\* (command_channel.js:54).
AnswerIsOwn == ~mixedUp
=============================================================================
