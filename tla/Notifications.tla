---------------------------- MODULE Notifications -----------------------------
(***************************************************************************)
(* The notifications of a desktop application and the clicks that answer   *)
(* them, across reloads, exits and launches.                               *)
(*                                                                         *)
(* A notification is shown by a document under a name that starts again at *)
(* 1 with every document, and it outlives the process.  A click on it goes *)
(* through the activation file when the platform can start the application *)
(* (the portal of a packaged Linux application, Windows), and through a    *)
(* watcher thread's queue of signals otherwise (a development run).        *)
(* A generation stands for the nonce of an envelope and for the token of a *)
(* record: each is minted with what is displayed.  What answers a request  *)
(* (its completion, its "show" or "error" event) is left out: HidSession   *)
(* has the same channel.                                                   *)
(*                                                                         *)
(* External: the platform displays, replaces by name, withdraws, and       *)
(* reports a click late, to the process that runs then.                    *)
(***************************************************************************)
EXTENDS Naturals, Sequences, FiniteSets, SequencesExt

CONSTANTS Backends,       \* of "portal", "freedesktop", "windows"
          ConsumedLimit,  \* CONSUMED_LIMIT
          MaxShown,       \* bound: generations minted
          MaxDocuments,   \* bound: documents loaded, over all processes
          MaxAsks,        \* bound: requests of the documents
          MaxOffers       \* bound: envelopes offered on a command line
ASSUME NotifyAssumption ==
    /\ {ConsumedLimit, MaxShown, MaxDocuments, MaxAsks, MaxOffers} \subseteq Nat
    /\ ConsumedLimit > 0

VARIABLES
    backend,            \* the platform, chosen by the first launch
    session,            \* processes started; each has a session token
    turn,               \* "down", or what the UI thread is at: "script", "poll", "apply"
    document,           \* documents loaded so far
    nextId,             \* NEXT_NOTIFICATION_ID
    requests, messages, \* the command channel
    records,            \* name -> the generation the controller believes displayed
    signals,            \* what watcher threads have reported
    pending, consumed,  \* the activation file
    minted,             \* generations minted so far
    screen,             \* what the platform displays
    flying,             \* reports the platform still has to make
    offers, latest,     \* command lines with an envelope; the latest envelope offered
    asks,               \* history: requests made so far
    told                \* history: generation -> how often a document heard of its click

channelVars == <<nextId, requests, messages>>
fileVars == <<pending, consumed>>
platformVars == <<minted, screen, flying, offers, latest>>
notifyVars == <<backend, session, turn, document, channelVars, records, signals, fileVars,
                platformVars, asks, told>>

None == [gen |-> 0]
Empty == [n \in {} |-> 0]

NotifyInit ==
    /\ backend = "none" /\ session = 0 /\ turn = "down" /\ document = 0
    /\ nextId = 1 /\ requests = <<>> /\ messages = <<>>
    /\ records = Empty /\ signals = <<>> /\ pending = <<>> /\ consumed = <<>>
    /\ minted = 0 /\ screen = {} /\ flying = {} /\ offers = 0 /\ latest = None
    /\ asks = 0 /\ told = [g \in 1..MaxShown |-> 0]

(***************************************************************************)
(* ActivationStore: the file is read, changed and replaced as a whole      *)
(***************************************************************************)
Known(e, waiting) == e.gen \in ToSet(consumed) \/ \E i \in DOMAIN waiting : waiting[i].gen = e.gen

\* The bug looked for: an offer that waits in the file is queued again.
RecordedAgain(e) == Append(pending, e)

\* record(): what was offered before is not queued again.
Recorded(e) == IF Known(e, pending) THEN pending ELSE Append(pending, e)

Trimmed(list) == IF Len(list) > ConsumedLimit
                 THEN SubSeq(list, Len(list) - ConsumedLimit + 1, Len(list)) ELSE list
Nonces(batch) == [i \in DOMAIN batch |-> batch[i].gen]

\* take(): the write that empties the queue remembers the nonces.
Take(batch) == pending' = <<>> /\ consumed' = Trimmed(consumed \o Nonces(batch))

(***************************************************************************)
(* Processes and documents                                                 *)
(***************************************************************************)
Activated(e) == [type |-> "activation", of |-> e, doc |-> 0]
Durable == backend \in {"portal", "windows"}

\* notify::reset() and install(): the envelope of the command line and what the file
\* holds are queued ahead of the document's scripts; without an identity there is no
\* file.  A file that cannot be written loses nothing but this envelope.
Launch(b, e, writable) ==
    /\ turn = "down" /\ document < MaxDocuments
    /\ b = IF backend = "none" THEN b ELSE backend
    /\ backend' = b /\ session' = session + 1 /\ document' = document + 1 /\ turn' = "script"
    /\ IF e = None THEN UNCHANGED <<offers, latest, flying>>
       ELSE /\ Durable /\ offers < MaxOffers /\ offers' = offers + 1 /\ latest' = e
            /\ e = latest \/ [about |-> e, kind |-> "click"] \in flying
            /\ flying' = flying \ {[about |-> e, kind |-> "click"]}
    /\ LET batch == IF e = None THEN pending ELSE Recorded(e)
       IN IF Durable /\ batch # <<>> /\ writable
          THEN Take(batch) /\ messages' = [i \in DOMAIN batch |-> Activated(batch[i])]
          ELSE messages' = <<>> /\ UNCHANGED fileVars
    /\ nextId' = 1 /\ requests' = <<>> /\ records' = Empty /\ signals' = <<>>
    /\ UNCHANGED <<minted, screen, asks, told>>

\* WindowSession::drop detaches and leaves on display what is there; a crash does too.
Ends ==
    /\ turn # "down" /\ turn' = "down"
    /\ requests' = <<>> /\ messages' = <<>> /\ records' = Empty /\ signals' = <<>>
    /\ UNCHANGED <<backend, session, document, nextId, fileVars, platformVars, asks, told>>

\* What the platform replaces or withdraws under a name.
Named(n) == {e \in screen : e.id = n /\ (backend = "freedesktop" => e.session = session)}

\* clear() closes every record as close() does, then the channel is reset.
ReloadDocument(closes) ==
    /\ turn = "script" /\ document < MaxDocuments /\ document' = document + 1
    /\ screen' = IF closes THEN screen \ UNION {Named(n) : n \in DOMAIN records} ELSE screen
    /\ records' = Empty /\ signals' = <<>>
    /\ nextId' = 1 /\ requests' = <<>> /\ messages' = <<>>
    /\ UNCHANGED <<backend, session, turn, fileVars, minted, flying, offers, latest, asks, told>>

(***************************************************************************)
(* The document                                                            *)
(***************************************************************************)
Ask(kind, n) ==
    /\ turn = "script" /\ asks < MaxAsks /\ asks' = asks + 1
    /\ IF kind = "show" THEN n = nextId /\ nextId' = nextId + 1
                        ELSE n \in 1..(nextId - 1) /\ nextId' = nextId
    /\ requests' = Append(requests, [kind |-> kind, id |-> n])
    /\ UNCHANGED <<backend, session, turn, document, messages, records, signals, fileVars,
                   platformVars, told>>

Answers == {"click", "activation"}
Hears(g) ==
    {i \in DOMAIN messages : messages[i].type \in Answers /\ messages[i].of.gen = g}

\* settle(): a frame hands the document what has been queued.
Frame ==
    /\ turn = "script" /\ messages # <<>> /\ messages' = <<>>
    /\ told' = [g \in DOMAIN told |-> told[g] + Cardinality(Hears(g))]
    /\ UNCHANGED <<backend, session, turn, document, nextId, requests, records, signals,
                   fileVars, platformVars, asks>>

(***************************************************************************)
(* NotifyController, on the UI thread after the events of a pump           *)
(***************************************************************************)
Removed(n, shown) == [k \in DOMAIN shown \ {n} |-> shown[k]]
Ended(s, e, type) == [records |-> Removed(e.id, s.records),
                      out |-> Append(s.out, [type |-> type, of |-> e, doc |-> document])]

\* is_current() of the portal asks for the session; addresses_generation() for the nonce.
Current(s, e) ==
    /\ e.session = session /\ e.id \in DOMAIN s.records
    /\ (backend = "windows" => s.records[e.id] = e.gen)

Answered(s, e) == IF Current(s, e) THEN Ended(s, e, "click")
                  ELSE [records |-> s.records, out |-> Append(s.out, Activated(e))]

\* A signal whose token is not the record's is dropped.
Signalled(s, x) ==
    LET e == x.about
    IN IF e.id \in DOMAIN s.records /\ s.records[e.id] = e.gen
       THEN Ended(s, e, IF x.kind = "click" THEN "click" ELSE "closed") ELSE s

\* poll(): the activations of the file, unless it cannot be written, then the signals.
Poll(writable) ==
    /\ turn = "script" /\ turn' = "apply"
    /\ LET taken == Durable /\ pending # <<>> /\ writable
           batch == IF taken THEN pending ELSE <<>>
           after == FoldLeft(Answered, [records |-> records, out |-> messages], batch)
           final == FoldLeft(Signalled, after, signals)
       IN /\ IF taken THEN Take(batch) ELSE UNCHANGED fileVars
          /\ records' = final.records /\ messages' = final.out
    /\ signals' = <<>>
    /\ UNCHANGED <<backend, session, document, nextId, requests, platformVars, asks, told>>

Displayed(n, g) == [id |-> n, session |-> session, doc |-> document, gen |-> g]

\* show(): a fresh generation is displayed in place of what has the name.
ShowApplied(n) ==
    /\ minted < MaxShown /\ minted' = minted + 1
    /\ screen' = (screen \ Named(n)) \union {Displayed(n, minted + 1)}
    /\ records' = [k \in DOMAIN records \union {n} |->
                      IF k = n THEN minted + 1 ELSE records[k]]
    /\ UNCHANGED messages

\* update(): the portal and Windows mint envelopes, Windows renews the record's token;
\* the freedesktop handle keeps both.
UpdateApplied(n) ==
    /\ IF n \in DOMAIN records /\ backend # "freedesktop"
       THEN /\ minted < MaxShown /\ minted' = minted + 1
            /\ screen' = (screen \ Named(n)) \union {Displayed(n, minted + 1)}
            /\ records' = IF backend = "windows" THEN [records EXCEPT ![n] = minted + 1]
                                                 ELSE records
       ELSE UNCHANGED <<minted, screen, records>>
    /\ UNCHANGED messages

\* close(): the record goes even when the platform refuses, and then nothing is said.
CloseApplied(n, works) ==
    /\ records' = Removed(n, records) /\ UNCHANGED minted
    /\ IF n \in DOMAIN records /\ works
       THEN /\ messages' = Append(messages, [type |-> "closed", doc |-> document,
                                    of |-> Displayed(n, records[n])])
            /\ screen' = screen \ Named(n)
       ELSE UNCHANGED <<messages, screen>>

\* apply_notify_requests(), one request at a time.
Apply(works) ==
    /\ turn = "apply"
    /\ IF requests = <<>>
       THEN turn' = "script" /\ UNCHANGED <<requests, messages, records, minted, screen>>
       ELSE LET r == Head(requests)
            IN /\ requests' = Tail(requests) /\ turn' = turn
               /\ CASE r.kind = "close" -> CloseApplied(r.id, works)
                    [] r.kind = "show" /\ works -> ShowApplied(r.id)
                    [] r.kind = "update" /\ works -> UpdateApplied(r.id)
                    [] OTHER -> UNCHANGED <<messages, records, minted, screen>>
    /\ UNCHANGED <<backend, session, document, nextId, signals, fileVars, flying, offers, latest,
                   asks, told>>

(***************************************************************************)
(* The platform and the threads it calls on                                *)
(***************************************************************************)
Respond(e, kind) ==
    /\ e \in screen /\ screen' = screen \ {e}
    /\ flying' = flying \union {[about |-> e, kind |-> kind]}
    /\ UNCHANGED <<backend, session, turn, document, channelVars, records, signals, fileVars,
                   minted, offers, latest, asks, told>>

\* record() of a click in the file, which may refuse it.
Clicked(x, writable) ==
    /\ x \in flying /\ x.kind = "click" /\ turn # "down"
    /\ flying' = flying \ {x} /\ latest' = x.about
    /\ pending' = IF writable THEN Recorded(x.about) ELSE pending
    /\ UNCHANGED <<backend, session, turn, document, channelVars, records, signals, consumed,
                   minted, screen, offers, asks, told>>

\* The portal's call comes on a thread of its own, and takes the lock poll() takes.
ActivateAction(x, writable) == backend = "portal" /\ Clicked(x, writable)

\* COM calls the activator in the apartment of the UI thread.
Activate(x, writable) == backend = "windows" /\ turn = "script" /\ Clicked(x, writable)

\* The watcher of this process queues a signal; nobody watches for another process.
Signal(x) ==
    /\ x \in flying /\ flying' = flying \ {x}
    /\ backend = "freedesktop" \/ x.kind = "closed"
    /\ signals' = IF turn # "down" /\ x.about.session = session /\ backend # "portal"
                  THEN Append(signals, x) ELSE signals
    /\ UNCHANGED <<backend, session, turn, document, channelVars, records, fileVars, minted,
                   screen, offers, latest, asks, told>>

Offered == {latest} \union {x.about : x \in flying} \union {None}
NotifyNext ==
    \/ \E b \in Backends, e \in Offered, writable \in BOOLEAN : Launch(b, e, writable)
    \/ Ends \/ Frame
    \/ \E ok \in BOOLEAN : ReloadDocument(ok) \/ Poll(ok) \/ Apply(ok)
    \/ \E kind \in {"show", "update", "close"}, n \in 1..(MaxShown + 1) : Ask(kind, n)
    \/ \E e \in screen, kind \in {"click", "closed"} : Respond(e, kind)
    \/ \E x \in flying : Signal(x) \/ \E ok \in BOOLEAN : ActivateAction(x, ok) \/ Activate(x, ok)

NotifySpec == NotifyInit /\ [][NotifyNext]_notifyVars

(***************************************************************************)
(* Properties                                                              *)
(***************************************************************************)
\* A click reaches the document once, however often its envelope is offered: by the
\* callback, by a command line that is run again, to this process or to the next
\* (activation.rs:10, "and reach JavaScript once - not once per launch").
HeardOnce == \A g \in DOMAIN told : told[g] <= 1

\* A document hears no click of a notification that a document before it showed: a
\* reload replaces "a live session whose notifications must not keep speaking"
\* (desktop.rs:662).
ReplacedIsSilent ==
    \A i \in DOMAIN messages :
        messages[i].type \in {"click", "closed"} => messages[i].of.doc = document
=============================================================================
