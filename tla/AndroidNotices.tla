---------------------------- MODULE AndroidNotices ----------------------------
(***************************************************************************)
(* Notifications on Android (native_window/notify/android.rs over the      *)
(* store of notify/activation.rs): what is posted outlives the process, a  *)
(* tap is written to an inbox by a receiver of the application's own,      *)
(* whether or not the process runs, and a turn moves the inbox through the *)
(* store to the document.  Any write may fail and the process may die      *)
(* between any two.  Permission is asked once for all who wait for it, and *)
(* concluded from the focus like that of DeviceAccess.                     *)
(*                                                                         *)
(* External: the notification service, the receiver, which writes a file   *)
(* whole, and the permission dialog.  Malformed files and what a           *)
(* notification shows are left out.                                        *)
(***************************************************************************)
EXTENDS Naturals, FiniteSets, Filters

CONSTANTS
    NoticeNames,   \* public ids of notifications
    MaxPosts,      \* bound: notifications posted
    MaxPermits,    \* bound: permission requests
    MaxRuns,       \* bound: processes
    RememberedTaps \* CONSUMED_LIMIT

ASSUME NoticeAssumption == {MaxPosts, MaxPermits, MaxRuns, RememberedTaps} \subseteq Nat

VARIABLES
    shade,                   \* native id -> what is posted under it, or NoNotice
    nonces,                  \* nonces used
    inbox,                   \* files the receiver wrote
    stored,                  \* the store's file: pending and consumed
    alive, run,              \* the process, and its number (notification_session)
    ourNotices, nextNative,  \* records: name -> native id, or 0; next_native_id
    drain,                   \* the poll in progress
    permission,              \* granted, the preference permissionRequested, the dialog
    prompt,                  \* permission_prompt: the commands waiting, the focus seen lost
    permitAsks, owedPermits, \* history: requests made, and those without an answer
    tapped, toldTaps, cut    \* history: taps, heard by a document, taken by one that died

systemNotices == <<shade, nonces, inbox, stored>>
noticeVars == <<systemNotices, alive, run, ourNotices, nextNative, drain, permission, prompt,
                permitAsks, owedPermits, tapped, toldTaps, cut>>

NoNotice == [name |-> "", run |-> 0, nonce |-> 0]
AtRestDrain == [at |-> "rest", files |-> {}, taken |-> <<>>]
NoPrompt == [ids |-> {}, lost |-> FALSE]
NoRecords == [n \in NoticeNames |-> 0]

NoticeInit ==
    /\ shade = [k \in 1..MaxPosts |-> NoNotice] /\ nonces = 0 /\ inbox = {}
    /\ stored = [pending |-> <<>>, consumed |-> <<>>]
    /\ alive = TRUE /\ run = 1 /\ ourNotices = NoRecords /\ nextNative = 1 /\ drain = AtRestDrain
    /\ permission = [granted |-> FALSE, requested |-> FALSE, dialog |-> FALSE, failed |-> FALSE]
    /\ prompt = NoPrompt /\ permitAsks = 0 /\ owedPermits = {}
    /\ tapped = {} /\ toldTaps = {} /\ cut = {}

AppTurn == alive /\ drain.at = "rest"
LeavesPermission == UNCHANGED <<permission, prompt, permitAsks, owedPermits>>
LeavesTaps == UNCHANGED <<tapped, toldTaps, cut>>

(***************************************************************************)
(* show, update and close                                                  *)
(***************************************************************************)
Post(n, native) ==
    /\ nonces < MaxPosts /\ nonces' = nonces + 1
    /\ shade' = [shade EXCEPT ![native] = [name |-> n, run |-> run, nonce |-> nonces']]
    /\ UNCHANGED <<inbox, stored, alive, run, drain>> /\ LeavesPermission /\ LeavesTaps

ShowNotice(n) ==
    /\ AppTurn /\ permission.granted /\ ourNotices[n] = 0 /\ Post(n, nextNative)
    /\ ourNotices' = [ourNotices EXCEPT ![n] = nextNative] /\ nextNative' = nextNative + 1

UpdateNotice(n) ==
    /\ AppTurn /\ ourNotices[n] # 0 /\ Post(n, ourNotices[n]) /\ UNCHANGED <<ourNotices, nextNative>>

CloseNotice(n) ==
    /\ AppTurn /\ ourNotices[n] # 0
    /\ ourNotices' = [ourNotices EXCEPT ![n] = 0] /\ shade' = [shade EXCEPT ![ourNotices[n]] = NoNotice]
    /\ UNCHANGED <<nonces, inbox, stored, alive, run, nextNative, drain>>
    /\ LeavesPermission /\ LeavesTaps

(***************************************************************************)
(* The service and the receiver: a tap leaves a file, and starts the       *)
(* process if none runs, unless it dismisses                               *)
(***************************************************************************)
StartProcess(up) ==
    IF up /\ ~alive
    THEN alive' = TRUE /\ run' = run + 1 /\ ourNotices' = NoRecords /\ nextNative' = 1
    ELSE UNCHANGED <<alive, run, ourNotices, nextNative>>

Tap(k, launches) ==
    /\ shade[k] # NoNotice /\ (alive \/ ~launches \/ run < MaxRuns)
    /\ shade' = [shade EXCEPT ![k] = NoNotice]
    /\ inbox' = inbox \cup {shade[k]} /\ tapped' = tapped \cup {shade[k].nonce}
    /\ StartProcess(launches)
    /\ UNCHANGED <<nonces, stored, drain, toldTaps, cut>> /\ LeavesPermission

LaunchApp ==
    /\ ~alive /\ run < MaxRuns /\ StartProcess(TRUE)
    /\ UNCHANGED <<systemNotices, drain>> /\ LeavesPermission /\ LeavesTaps

\* The process ends, or is killed anywhere.  What is posted stays.
EndProcess ==
    /\ alive /\ alive' = FALSE /\ drain' = AtRestDrain /\ prompt' = NoPrompt
    /\ owedPermits' = {} /\ cut' = cut \cup {drain.taken[k].nonce : k \in DOMAIN drain.taken}
    /\ permission' = [permission EXCEPT !.dialog = FALSE, !.failed = FALSE]
    /\ UNCHANGED <<systemNotices, run, ourNotices, nextNative, permitAsks, tapped, toldTaps>>

\* clear(): a reload withdraws what this process has posted.
ReloadNotices ==
    /\ AppTurn
    /\ shade' = [k \in 1..MaxPosts |->
                    IF \E n \in NoticeNames : ourNotices[n] = k THEN NoNotice ELSE shade[k]]
    /\ ourNotices' = NoRecords /\ prompt' = NoPrompt /\ owedPermits' = {}
    /\ UNCHANGED <<nonces, inbox, stored, alive, run, nextNative, drain, permitAsks>>
    /\ permission' = [permission EXCEPT !.failed = FALSE] /\ LeavesTaps

(***************************************************************************)
(* poll: the inbox into the store, the store to the document               *)
(***************************************************************************)
KeepsDrain == /\ UNCHANGED <<shade, nonces, alive, run, nextNative, tapped>>
              /\ LeavesPermission

BeginPoll ==
    /\ AppTurn /\ drain' = [AtRestDrain EXCEPT !.at = "inbox", !.files = inbox]
    /\ UNCHANGED <<inbox, stored, ourNotices, toldTaps, cut>> /\ KeepsDrain

\* Files in the order of their names, which is that of the nonces.
FirstFile == CHOOSE f \in drain.files : \A g \in drain.files : f.nonce <= g.nonce
Guarded(f) ==
    \/ \E k \in DOMAIN stored.pending : stored.pending[k].nonce = f.nonce
    \/ \E k \in DOMAIN stored.consumed : stored.consumed[k] = f.nonce

RemovedAnyway(f, written) == inbox' = inbox \ {f}

\* record(), then the file goes; both may fail, and the file is kept for another turn.
RemovedFile(f, written) == IF written THEN inbox' \in {inbox, inbox \ {f}} ELSE UNCHANGED inbox

RecordFile == LET f == FirstFile IN
    /\ alive /\ drain.at = "inbox" /\ drain.files # {}
    /\ drain' = [drain EXCEPT !.files = @ \ {f}]
    /\ \/ /\ stored' = IF Guarded(f) THEN stored
                       ELSE [stored EXCEPT !.pending = Append(@, f)]
          /\ RemovedFile(f, TRUE)
       \/ UNCHANGED stored /\ RemovedFile(f, FALSE)
    /\ UNCHANGED <<ourNotices, toldTaps, cut>> /\ KeepsDrain

Latest(s, n) == IF Len(s) > n THEN SubSeq(s, Len(s) - n + 1, Len(s)) ELSE s
Fresh == ItemsIn(stored.pending, {f \in Range(stored.pending) : f.nonce \notin Range(stored.consumed)})

\* take(): consumed and emptied in one write, or, if that fails, nothing.
TakeStored ==
    /\ alive /\ drain.at = "inbox" /\ drain.files = {}
    /\ \/ /\ stored' = [pending |-> <<>>,
                        consumed |-> Latest(stored.consumed
                                          \o [k \in DOMAIN Fresh |-> Fresh[k].nonce],
                                          RememberedTaps)]
          /\ drain' = [drain EXCEPT !.at = "deliver", !.taken = Fresh]
       \/ drain' = [drain EXCEPT !.at = "deliver"] /\ UNCHANGED stored
    /\ UNCHANGED <<inbox, ourNotices, toldTaps, cut>> /\ KeepsDrain

\* To the record of this process that has the name, or as an activation of its own.
Deliver == LET f == Head(drain.taken) IN
    /\ alive /\ drain.at = "deliver" /\ drain.taken # <<>>
    /\ drain' = [drain EXCEPT !.taken = Tail(@)] /\ toldTaps' = toldTaps \cup {f.nonce}
    /\ ourNotices' = IF f.run = run THEN [ourNotices EXCEPT ![f.name] = 0] ELSE ourNotices
    /\ UNCHANGED <<inbox, stored, cut>> /\ KeepsDrain

(***************************************************************************)
(* Permission                                                              *)
(***************************************************************************)
Untouched == UNCHANGED <<systemNotices, alive, run, ourNotices, nextNative>> /\ LeavesTaps

\* permission(): given, or asked for, the dialog up or not.
HasAnswer == permission.granted \/ permission.requested

\* The preference first, then the dialog, which may fail to rise.
RaiseDialog ==
    permission' \in {[permission EXCEPT !.requested = TRUE, !.dialog = up, !.failed = ~up] :
                        up \in BOOLEAN}

\* A preference that cannot be written is an answer too.
AskPermission ==
    /\ AppTurn /\ permitAsks < MaxPermits /\ permitAsks' = permitAsks + 1
    /\ IF HasAnswer
       THEN UNCHANGED <<permission, prompt, owedPermits>>
       ELSE IF prompt.ids # {}
       THEN /\ prompt' = [prompt EXCEPT !.ids = @ \cup {permitAsks'}]
            /\ owedPermits' = owedPermits \cup {permitAsks'} /\ UNCHANGED permission
       ELSE \/ UNCHANGED <<permission, prompt, owedPermits>>
            \/ /\ RaiseDialog
               /\ prompt' = [ids |-> {permitAsks'}, lost |-> FALSE]
               /\ owedPermits' = owedPermits \cup {permitAsks'}
    /\ UNCHANGED drain /\ Untouched

AnswerDialog ==
    /\ permission.dialog
    /\ permission' \in {[permission EXCEPT !.dialog = FALSE, !.granted = g] : g \in BOOLEAN}
    /\ UNCHANGED <<drain, prompt, permitAsks, owedPermits>> /\ Untouched

\* finish_permission, fail_permission
AllAnswered == prompt' = NoPrompt /\ owedPermits' = owedPermits \ prompt.ids

\* The end of a poll.
PollPermission ==
    /\ alive /\ drain.at = "deliver" /\ drain.taken = <<>> /\ drain' = AtRestDrain
    /\ permission' = [permission EXCEPT !.failed = FALSE]
    /\ IF permission.failed \/ permission.granted THEN AllAnswered
       ELSE IF permission.dialog
       THEN prompt' = [prompt EXCEPT !.lost = (prompt.ids # {})] /\ UNCHANGED owedPermits
       ELSE IF prompt.lost THEN AllAnswered
       ELSE AllAnswered \/ UNCHANGED <<prompt, owedPermits>>   \* the two seconds, or not yet
    /\ UNCHANGED permitAsks /\ Untouched

NoticeNext ==
    \/ \E n \in NoticeNames : ShowNotice(n) \/ UpdateNotice(n) \/ CloseNotice(n)
    \/ \E k \in 1..MaxPosts, launches \in BOOLEAN : Tap(k, launches)
    \/ LaunchApp \/ EndProcess \/ ReloadNotices
    \/ BeginPoll \/ RecordFile \/ TakeStored \/ Deliver \/ PollPermission
    \/ AskPermission \/ AnswerDialog

NoticeSpec == NoticeInit /\ [][NoticeNext]_noticeVars

(***************************************************************************)
(* Nothing is lost: a tap is in the inbox, in the store, on its way, or    *)
(* has been heard, unless the process died with it in its hands            *)
(* (activation.rs:441, "at-most-once"); and a request that has no answer   *)
(* is one the prompt will answer.                                          *)
(***************************************************************************)
NoncesOf(s) == {s[k].nonce : k \in DOMAIN s}
NothingIsLost ==
    /\ tapped \subseteq {f.nonce : f \in inbox} \cup NoncesOf(stored.pending)
                        \cup NoncesOf(drain.taken) \cup toldTaps \cup cut
    /\ owedPermits = prompt.ids

(***************************************************************************)
(* A request is not refused while the dialog that asks is on the screen.   *)
(* It is: the preference that says so is written before the dialog rises,  *)
(* so a second request never joins the first one's prompt (android.rs:727).*)
(***************************************************************************)
NotRefusedYet ==
    [][permitAsks' # permitAsks /\ permission.dialog => permitAsks' \in owedPermits']_noticeVars
=============================================================================
