--------------------------- MODULE AudioPlayback ---------------------------
(***************************************************************************)
(* Sounds: sources of one context, and an audio element built on them.     *)
(*                                                                         *)
(* A source plays once and its end is announced from the render thread; a  *)
(* file is read and decoded on the worker pool; both wait in the host for  *)
(* the frame that polls them, and the promises resolved there go on after  *)
(* it.  The element starts a new source for every play, and is played,     *)
(* paused, given another file or loaded afresh at any point.               *)
(* Volumes, panning, schedules and positions are left out.                 *)
(*                                                                         *)
(* External: the render thread, the worker pool and files.                 *)
(***************************************************************************)
EXTENDS Naturals, Sequences, FiniteSets, Functions

CONSTANTS
    MaxVoices, \* bound: sources created
    MaxLoads,  \* bound: files asked for
    MaxPlays   \* bound: plays that wait for a load

ASSUME AudioAssumption == {MaxVoices, MaxLoads, MaxPlays} \subseteq Nat

VoiceId == 1..MaxVoices
LoadId == 1..MaxLoads
Sounds == {"thud", "hum"}

VARIABLES
    soundClock,          \* the context: "none" before its first use, "closed" for good
    voice,               \* source -> "free", what is heard of it, "silent" until polled, "reported"
    loads,               \* load -> its sound, and "free", "working", "queued", "settled"
    decoded,             \* Shared.decoded: <<load, ok>>
    playingCount, owing, \* AudioHost: the counters `playingCount` and `pending`
    liveSources,         \* the wrappers an end can find
    micro,               \* promises of loads that are settled and have not gone on
    awaiting,            \* load -> plays that go on when it does
    src,                 \* the element's src attribute
    media                \* mediaElementState, for the loads after number `since`

audioVars == <<soundClock, voice, loads, decoded, playingCount, owing, liveSources, micro, awaiting, src, media>>

FreshMedia(n) == [buffer |-> "none", source |-> 0, paused |-> TRUE, over |-> FALSE,
                  loop |-> FALSE, loading |-> 0, since |-> n]

AudioInit ==
    /\ soundClock = "none"
    /\ voice = [v \in VoiceId |-> "free"]
    /\ loads = [l \in LoadId |-> [of |-> "thud", at |-> "free"]] /\ decoded = <<>>
    /\ playingCount = 0 /\ owing = 0 /\ liveSources = {}
    /\ micro = <<>> /\ awaiting = [l \in LoadId |-> 0]
    /\ src = "thud" /\ media = FreshMedia(0)

\* The first use opens the device, or a silent context where there is none.
Opened == IF soundClock = "none" THEN "running" ELSE soundClock

NextVoice == Cardinality({v \in VoiceId : voice[v] # "free"}) + 1
LoadCount == Cardinality({l \in LoadId : loads[l].at # "free"})

(***************************************************************************)
(* Sources                                                                 *)
(***************************************************************************)
\* start(): the wrapper is kept for the end, and the host counts it.
StartVoice(v, loop) ==
    /\ v \in VoiceId
    /\ voice' = [voice EXCEPT ![v] = IF loop THEN "looping" ELSE "sounding"]
    /\ liveSources' = liveSources \cup {v}
    /\ playingCount' = playingCount + 1

PlayOneShot ==
    /\ soundClock' = Opened
    /\ StartVoice(NextVoice, FALSE)
    /\ UNCHANGED <<loads, decoded, owing, micro, awaiting, src, media>>

\* The render thread: a source ends by itself or by stop().
VoiceEnds(v) ==
    /\ soundClock = "running" /\ voice[v] \in {"sounding", "stopping"}
    /\ voice' = [voice EXCEPT ![v] = "silent"]
    /\ UNCHANGED <<soundClock, loads, decoded, playingCount, owing, liveSources, micro, awaiting, src, media>>

\* resume, suspend and close: every context is the one context.
SetClock ==
    /\ soundClock \in {"running", "suspended"}
    /\ soundClock' \in {"running", "suspended", "closed"} \ {soundClock}
    /\ UNCHANGED <<voice, loads, decoded, playingCount, owing, liveSources, micro, awaiting, src, media>>

(***************************************************************************)
(* The element                                                             *)
(***************************************************************************)
\* loadMedia: the plays of one address share its load; another address takes
\* its place, and one that cannot be asked for is refused at once.
AskFor(l, refused, element) ==
    IF media.loading # 0 /\ loads[media.loading].of = src
    THEN l = media.loading /\ ~refused /\ media' = element /\ UNCHANGED <<loads, owing>>
    ELSE /\ l = LoadCount + 1
         /\ loads' = [loads EXCEPT ![l] = [of |-> src, at |-> IF refused THEN "settled" ELSE "working"]]
         /\ owing' = owing + (IF refused THEN 0 ELSE 1)
         /\ media' = [element EXCEPT !.loading = l]

\* A play that finds its load settled goes on after this script.
AwaitLoad(l, refused) ==
    /\ FoldFunction(+, 0, awaiting) < MaxPlays
    /\ awaiting' = [awaiting EXCEPT ![l] = @ + 1]
    /\ micro' = IF loads'[l].at = "settled" /\ \A i \in DOMAIN micro : micro[i][1] # l
                THEN Append(micro, <<l, ~refused>>) ELSE micro

PlayMedia ==
    /\ media.paused
    /\ \E l \in LoadId, refused \in BOOLEAN : AskFor(l, refused, media) /\ AwaitLoad(l, refused)
    /\ soundClock' = Opened
    /\ UNCHANGED <<voice, decoded, playingCount, liveSources, src>>

\* The file is read and decoded, or is not.
LoadEnds(l) ==
    /\ loads[l].at = "working"
    /\ loads' = [loads EXCEPT ![l].at = "queued"]
    /\ \E ok \in BOOLEAN : decoded' = Append(decoded, <<l, ok>>)
    /\ UNCHANGED <<soundClock, voice, playingCount, owing, liveSources, micro, awaiting, src, media>>

\* stop() ends a source that is still heard.
Silenced ==
    IF media.source # 0 /\ voice[media.source] \in {"sounding", "looping"}
    THEN [voice EXCEPT ![media.source] = "stopping"] ELSE voice

Quieted == [media EXCEPT !.paused = TRUE, !.source = 0]

Pause ==
    /\ ~media.paused
    /\ voice' = Silenced
    /\ media' = Quieted
    /\ UNCHANGED <<soundClock, loads, decoded, playingCount, owing, liveSources, micro, awaiting, src>>

\* currentTime set while it plays: a pause, and a play.
Seek ==
    /\ ~media.paused
    /\ voice' = Silenced
    /\ \E l \in LoadId, refused \in BOOLEAN : AskFor(l, refused, Quieted) /\ AwaitLoad(l, refused)
    /\ UNCHANGED <<soundClock, decoded, playingCount, liveSources, src>>

\* setAttribute leaves the state; load() and the src property drop it.
SetSource ==
    /\ src' \in Sounds
    /\ media' \in {media, FreshMedia(LoadCount)}
    /\ UNCHANGED <<soundClock, voice, loads, decoded, playingCount, owing, liveSources, micro, awaiting>>

SetLoop ==
    /\ media' = [media EXCEPT !.loop = ~@]
    /\ voice' = IF media.source # 0 /\ voice[media.source] \in {"sounding", "looping"}
                THEN [voice EXCEPT ![media.source] = IF media.loop THEN "sounding" ELSE "looping"]
                ELSE voice
    /\ UNCHANGED <<soundClock, loads, decoded, playingCount, owing, liveSources, micro, awaiting, src>>

(***************************************************************************)
(* The frame                                                               *)
(***************************************************************************)
\* A mutant takes the end of any source for that of the element's.
HearsAnyEnd(v) == ~media.paused

\* The listener of a source the element has started.
HearsEnd(v) == media.source = v /\ ~media.paused

JustOver == {v \in VoiceId : voice[v] = "silent"}

\* AudioHost::poll: finished loads and sources are told of and forgotten.
PollHost ==
    /\ owing' = owing - Len(decoded) /\ decoded' = <<>>
    /\ loads' = [l \in LoadId |->
                    IF loads[l].at = "queued" THEN [loads[l] EXCEPT !.at = "settled"] ELSE loads[l]]
    /\ playingCount' = playingCount - Cardinality(JustOver)
    /\ voice' = [v \in VoiceId |-> IF v \in JustOver THEN "reported" ELSE voice[v]]

\* settleAudio: loads are settled, then ends are heard.
SettleAudio ==
    /\ micro = <<>>
    /\ liveSources # {} \/ owing > 0
    /\ PollHost
    /\ micro' = decoded
    /\ liveSources' = liveSources \ JustOver
    /\ media' = IF \E v \in JustOver : HearsEnd(v)
                THEN [media EXCEPT !.over = TRUE, !.paused = TRUE] ELSE media
    /\ UNCHANGED <<soundClock, awaiting, src>>

\* What a load's promise does to the state it was asked by.
Received(l, ok) ==
    IF l <= media.since THEN media
    ELSE IF ok THEN [media EXCEPT !.buffer = loads[l].of] ELSE [media EXCEPT !.loading = 0]

\* After the frame, the promises go on: each play that waited starts a source
\* for the state there is now.
Continue ==
    /\ micro # <<>>
    /\ LET l == micro[1][1]
           ok == micro[1][2]
       IN IF ok /\ awaiting[l] > 0
          THEN /\ StartVoice(NextVoice, media.loop)
               /\ media' = [Received(l, ok) EXCEPT !.source = NextVoice, !.paused = FALSE, !.over = FALSE]
               /\ awaiting' = [awaiting EXCEPT ![l] = @ - 1] /\ UNCHANGED micro
          ELSE /\ media' = Received(l, ok)
               /\ awaiting' = [awaiting EXCEPT ![l] = 0] /\ micro' = Tail(micro)
               /\ UNCHANGED <<voice, liveSources, playingCount>>
    /\ UNCHANGED <<soundClock, loads, decoded, owing, src>>

AudioNext ==
    \/ PlayOneShot \/ SetClock \/ PlayMedia \/ Pause \/ Seek \/ SetSource \/ SetLoop
    \/ SettleAudio \/ Continue
    \/ \E v \in VoiceId : VoiceEnds(v)
    \/ \E l \in LoadId : LoadEnds(l)

AudioSpec == AudioInit /\ [][AudioNext]_audioVars

(***************************************************************************)
(* Properties                                                              *)
(***************************************************************************)
Unreported == {v \in VoiceId : voice[v] \notin {"free", "reported"}}

\* What keeps the window turning agrees with what is going on: the host counts
\* the sources and the loads that are not yet told of, every started source can
\* be found when it ends, an element that says it is playing has a source of
\* its own whose end it will hear, one that is paused has none, and every play
\* waits for a load that will still go on (audio.rs:227, audio.js:361).
PlayingIsReal ==
    /\ playingCount = Cardinality(Unreported) /\ liveSources = Unreported
    /\ owing = Cardinality({l \in LoadId : loads[l].at \in {"working", "queued"}})
    /\ media.paused <=> media.source \notin Unreported
    /\ \A l \in LoadId : awaiting[l] > 0 =>
           loads[l].at \in {"working", "queued"} \/ \E i \in DOMAIN micro : micro[i][1] = l
=============================================================================
