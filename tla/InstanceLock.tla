---------------------------- MODULE InstanceLock ----------------------------
(***************************************************************************)
(* What the single-instance lock promises, without sockets: at most one    *)
(* holder at a time, an invocation that is queued once by whoever held the *)
(* lock, and a `secondary` answer only after that.                         *)
(***************************************************************************)
CONSTANT Call

VARIABLES
  holder, \* the request that holds the lock: a set of at most one call
  queued, \* invocations the application has accepted
  told    \* invocations whose process was told it is secondary

lockVars == <<holder, queued, told>>

Init == holder = {} /\ queued = {} /\ told = {}

Claim(c) ==
  /\ holder = {}
  /\ holder' = {c}
  /\ UNCHANGED <<queued, told>>

\* A release, a failed start or the end of the process.
GiveUp ==
  /\ holder' = {}
  /\ UNCHANGED <<queued, told>>

\* An invocation is accepted once.
Accept(c) ==
  /\ c \notin queued
  /\ queued' = queued \cup {c}
  /\ UNCHANGED <<holder, told>>

Tell(c) ==
  /\ c \in queued
  /\ told' = told \cup {c}
  /\ UNCHANGED <<holder, queued>>

Next == GiveUp \/ \E c \in Call : Claim(c) \/ Accept(c) \/ Tell(c)

Spec == Init /\ [][Next]_lockVars

=============================================================================
