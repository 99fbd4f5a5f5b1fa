------------------------------ MODULE TimerQueue ------------------------------
(***************************************************************************)
(* The timers of an engine that brings none: setTimeout, setInterval and   *)
(* their cancellation over one queue, which the frame loop runs.           *)
(*                                                                         *)
(* A callback arms and cancels timers itself, its own included, and the    *)
(* identifiers wrap around.  Time passes between any two readings of the   *)
(* clock.                                                                  *)
(***************************************************************************)
EXTENDS Naturals, FiniteSets

CONSTANTS MaxTimerId,    \* TimerId::MAX
          NestingLimit,  \* five nested timer tasks
          ShortestDelay, \* four milliseconds
          Delays,        \* what the page asks for
          MaxClock,      \* bound: readings of the clock
          MaxTimers      \* bound: timers armed

ASSUME TimerAssumption ==
    /\ MaxTimerId \in Nat \ {0} /\ Delays \subseteq Nat
    /\ {NestingLimit, ShortestDelay} \subseteq Nat

VARIABLES
    timers,    \* id -> deadline, sequence, interval (0 for a timeout), nesting, birth
    nextTimerId, nextSequence,
    active,    \* the task that runs, with its cancelled flag, or Idle
    clock,
    turnStart, \* the reading a turn began with, 0 between turns
    births,    \* history: timers armed so far
    owed       \* history: births the page is still owed a call of

timerVars == <<timers, nextTimerId, nextSequence, active, clock, turnStart, births, owed>>

Idle == [id |-> 0, nesting |-> 0, cancelled |-> FALSE]

TimerInit ==
    /\ timers = [i \in {} |-> Idle] /\ nextTimerId = 1 /\ nextSequence = 0
    /\ active = Idle /\ clock = 1 /\ turnStart = 0
    /\ births = 0 /\ owed = {}

(***************************************************************************)
(* TimerQueue                                                              *)
(***************************************************************************)
\* wrapping_add(1).max(1)
Following(id) == IF id = MaxTimerId THEN 1 ELSE id + 1

\* allocate_id(): the first identifier from nextTimerId on that is not taken.
FirstAfter(id, taken) ==
    LET steps(i) == (i + MaxTimerId - nextTimerId) % MaxTimerId
    IN id \notin taken /\ \A other \in 1..MaxTimerId \ taken : steps(id) <= steps(other)

AllocatedBesideActive(id) == FirstAfter(id, DOMAIN timers)
Allocated(id) == FirstAfter(id, DOMAIN timers \union {active.id})

Clamped(delay, nesting) ==
    IF nesting >= NestingLimit /\ delay < ShortestDelay THEN ShortestDelay ELSE delay

\* insert(): what has the identifier is replaced.
Inserted(id, deadline, task) ==
    /\ timers' = [i \in DOMAIN timers \union {id} |->
                    IF i = id THEN [task EXCEPT !.deadline = deadline, !.sequence = nextSequence]
                              ELSE timers[i]]
    /\ nextSequence' = nextSequence + 1

Ticks == clock < MaxClock /\ clock' = clock + 1

\* schedule(), of setTimeout and setInterval.
Schedule(delay, repeats) ==
    /\ births < MaxTimers /\ Ticks
    /\ births' = births + 1 /\ owed' = owed \union {births + 1}
    /\ \E id \in 1..MaxTimerId :
         /\ Allocated(id) /\ nextTimerId' = Following(id)
         /\ Inserted(id, clock' + Clamped(delay, active.nesting),
                     [deadline |-> 0, sequence |-> 0, repeats |-> repeats, interval |-> delay,
                      nesting |-> active.nesting + 1, birth |-> births + 1])
    /\ UNCHANGED <<active, turnStart>>

\* clear(): the queue forgets it, and the task that runs is not armed again.
Clear(id) ==
    /\ timers' = [i \in DOMAIN timers \ {id} |-> timers[i]]
    /\ active' = IF active.id = id THEN [active EXCEPT !.cancelled = TRUE] ELSE active
    /\ owed' = owed \ ({timers[i].birth : i \in DOMAIN timers \cap {id}}
                       \union (IF active.id = id THEN {active.birth} ELSE {}))
    /\ UNCHANGED <<nextTimerId, nextSequence, clock, turnStart, births>>

Before(s, t) == s.deadline < t.deadline
                \/ (s.deadline = t.deadline /\ s.sequence < t.sequence)

\* begin_next_expired(): the earliest of the timers due at the start of the turn.
Begin ==
    /\ turnStart # 0 /\ active = Idle
    /\ \E id \in DOMAIN timers :
         /\ timers[id].deadline <= turnStart
         /\ \A other \in DOMAIN timers \ {id} : Before(timers[id], timers[other])
         /\ timers' = [i \in DOMAIN timers \ {id} |-> timers[i]]
         /\ active' = [id |-> id, nesting |-> timers[id].nesting, cancelled |-> FALSE,
                       birth |-> timers[id].birth, task |-> timers[id]]
         /\ owed' = IF timers[id].repeats THEN owed ELSE owed \ {timers[id].birth}
    /\ UNCHANGED <<nextTimerId, nextSequence, clock, turnStart, births>>

\* finish(): an interval is armed from the time its callback returned.
Finish ==
    /\ active # Idle /\ active' = Idle /\ Ticks
    /\ IF active.task.repeats /\ ~active.cancelled
       THEN Inserted(active.id, clock' + Clamped(active.task.interval, active.nesting),
                     active.task)
       ELSE UNCHANGED <<timers, nextSequence>>
    /\ UNCHANGED <<nextTimerId, turnStart, births, owed>>

(***************************************************************************)
(* run_expired_timers                                                      *)
(***************************************************************************)
TurnBegins ==
    /\ turnStart = 0 /\ Ticks /\ turnStart' = clock'
    /\ UNCHANGED <<timers, nextTimerId, nextSequence, active, births, owed>>

TurnEnds ==
    /\ turnStart # 0 /\ active = Idle /\ turnStart' = 0
    /\ \A id \in DOMAIN timers : timers[id].deadline > turnStart
    /\ UNCHANGED <<timers, nextTimerId, nextSequence, active, clock, births, owed>>

TimerNext ==
    \/ \E delay \in Delays, repeats \in BOOLEAN : Schedule(delay, repeats)
    \/ \E id \in 1..MaxTimerId : Clear(id)
    \/ TurnBegins \/ Begin \/ Finish \/ TurnEnds

TimerSpec == TimerInit /\ [][TimerNext]_timerVars

(***************************************************************************)
(* Properties                                                              *)
(***************************************************************************)
\* The queue and the task that runs are what the page is owed, and nothing else: no
\* timer takes the place of another, though identifiers are used again and an interval
\* is armed while its callback arms others, and nothing cancelled stays
\* (timers.rs:169-179 passes over the identifier that runs).
OwedIsQueued ==
    owed = {timers[i].birth : i \in DOMAIN timers}
             \union (IF active # Idle /\ active.task.repeats /\ ~active.cancelled
                     THEN {active.birth} ELSE {})
=============================================================================
