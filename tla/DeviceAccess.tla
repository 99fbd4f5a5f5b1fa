----------------------------- MODULE DeviceAccess -----------------------------
(***************************************************************************)
(* How an open of a HID device gets its permission on Android              *)
(* (native_window/hid/android.rs and android/usb.rs, under the controller  *)
(* of native_window/hid.rs).                                               *)
(*                                                                         *)
(* Access is granted per USB device, by a dialog that tells the program    *)
(* nothing: a grant is read from the system, and a refusal is concluded    *)
(* from the focus the dialog took and gave back.  An open without an       *)
(* answer waits and is asked again in every turn.  Any call into Java may  *)
(* fail, and a device may go between any two of them.                      *)
(*                                                                         *)
(* External: the USB service, which ends the dialog and the grant of a     *)
(* device that goes, and shows a dialog it was asked for before the one    *)
(* below it ends (DialogsSettled).  What is transferred on a claimed       *)
(* interface is left out; HidSession models the sessions.                  *)
(***************************************************************************)
EXTENDS Naturals

CONSTANTS UsbDevices, InterfaceIds
Interfaces == UsbDevices \X InterfaceIds

VARIABLES
    pluggedIn, permitted, \* the system's: devices plugged in, and those permitted
    dialog,               \* device -> "none", "asked" for, or "up"
    older,                \* devices whose dialog a controller that is gone asked for
    seenUsb,              \* seen: the interfaces of the last enumeration
    prompts,              \* device -> "none", "raised", "lost" (saw_focus_loss), "late"
    access,               \* interface -> "closed", "scanned", "waiting" or "open"
    polling               \* the waiting opens this turn has not asked again yet

systemVars == <<pluggedIn, permitted, dialog, older>>
accessVars == <<systemVars, seenUsb, prompts, access, polling>>

AccessInit ==
    /\ pluggedIn = UsbDevices /\ permitted = {} /\ dialog = [u \in UsbDevices |-> "none"]
    /\ older = {} /\ seenUsb = {} /\ prompts = [u \in UsbDevices |-> "none"]
    /\ access = [i \in Interfaces |-> "closed"] /\ polling = {}

\* hasWindowFocus: a dialog takes it.
Focused == \A u \in UsbDevices : dialog[u] # "up"
DialogsSettled == \A u \in UsbDevices : dialog[u] # "asked"
Becomes(i, s) == access' = [access EXCEPT ![i] = s]
Prompt(u, p) == prompts' = [prompts EXCEPT ![u] = p]

(***************************************************************************)
(* The system                                                              *)
(***************************************************************************)
PersonAnswers(u) ==
    /\ dialog[u] = "up" /\ DialogsSettled
    /\ dialog' = [dialog EXCEPT ![u] = "none"] /\ older' = older \ {u}
    /\ permitted' \in {permitted, permitted \cup {u}}
    /\ UNCHANGED <<pluggedIn, seenUsb, prompts, access, polling>>

Shown(u) ==
    /\ dialog[u] = "asked" /\ dialog' = [dialog EXCEPT ![u] = "up"]
    /\ UNCHANGED <<pluggedIn, permitted, older, seenUsb, prompts, access, polling>>

Unplug(u) ==
    /\ u \in pluggedIn /\ pluggedIn' = pluggedIn \ {u} /\ permitted' = permitted \ {u}
    /\ (dialog[u] = "up" => DialogsSettled)
    /\ dialog' = [dialog EXCEPT ![u] = "none"] /\ older' = older \ {u}
    /\ UNCHANGED <<seenUsb, prompts, access, polling>>

Reattach(u) ==
    /\ u \notin pluggedIn /\ pluggedIn' = pluggedIn \cup {u}
    /\ UNCHANGED <<permitted, dialog, older, seenUsb, prompts, access, polling>>

\* PROMPT_GRACE is over: a dialog that is coming has come.
GraceEnds(u) ==
    /\ prompts[u] = "raised" /\ DialogsSettled /\ Prompt(u, "late")
    /\ UNCHANGED <<systemVars, seenUsb, access, polling>>

(***************************************************************************)
(* enumerate, and what it forgets                                          *)
(***************************************************************************)
EnumerateAfresh ==
    /\ seenUsb' = pluggedIn \X InterfaceIds
    /\ prompts' = [u \in UsbDevices |-> "none"]

Enumerate ==
    /\ seenUsb' = pluggedIn \X InterfaceIds
    /\ prompts' = [u \in UsbDevices |-> IF u \in pluggedIn THEN prompts[u] ELSE "none"]


\* devices(), and the hot-plug scan of a turn.
Scan == polling = {} /\ Enumerate /\ UNCHANGED <<systemVars, access, polling>>

\* open() enumerates first; the call into Java may fail.
OpenInterface(i) ==
    /\ polling = {} /\ access[i] = "closed"
    /\ \A j \in Interfaces : access[j] # "scanned"
    /\ Enumerate /\ Becomes(i, IF i[1] \in pluggedIn THEN "scanned" ELSE "closed")
    /\ UNCHANGED <<systemVars, polling>>

(***************************************************************************)
(* UsbHidBackend::open and awaiting: asked for a new open and, in every    *)
(* turn, for one that waits                                                *)
(***************************************************************************)
\* A device that is gone raises nothing, and the prompt is noted all the same.
\* A dialog of an older controller keeps the screen until it is answered.
Raise(u) ==
    /\ Prompt(u, "raised")
    /\ IF u \in pluggedIn /\ u \notin older
       THEN dialog' = [dialog EXCEPT ![u] = "asked"] ELSE UNCHANGED dialog

Awaiting(i) == LET u == i[1] IN
    IF prompts[u] = "none" THEN Raise(u) /\ Becomes(i, "waiting")
    ELSE /\ UNCHANGED dialog
         /\ IF ~Focused THEN Prompt(u, "lost") /\ Becomes(i, "waiting")
            ELSE IF prompts[u] = "raised" THEN UNCHANGED prompts /\ Becomes(i, "waiting")
            ELSE Prompt(u, "none") /\ Becomes(i, "closed")

\* Opened and claimed: the service may refuse, and the descriptor may name a
\* collection that is protected; either way the interface is given back.
Claim(i) == Becomes(i, "open") \/ Becomes(i, "closed")

Decide(i) ==
    /\ UNCHANGED <<pluggedIn, permitted, older, seenUsb>>
    /\ \/ Becomes(i, "closed") /\ UNCHANGED <<dialog, prompts>>   \* Java failed
       \/ IF i \notin seenUsb
          THEN Becomes(i, "closed") /\ UNCHANGED <<dialog, prompts>>
          ELSE IF i[1] \notin permitted THEN Awaiting(i)
          ELSE Claim(i) /\ Prompt(i[1], "none") /\ UNCHANGED dialog

FirstAnswer(i) == access[i] = "scanned" /\ Decide(i) /\ UNCHANGED polling

\* resolve_pending goes through the opens that wait, in any order.
PollPending ==
    /\ polling = {} /\ \A i \in Interfaces : access[i] # "scanned"
    /\ polling' = {i \in Interfaces : access[i] = "waiting"} /\ polling' # {}
    /\ UNCHANGED <<systemVars, seenUsb, prompts, access>>

AskAgain(i) == i \in polling /\ polling' = polling \ {i} /\ Decide(i)

(***************************************************************************)
(* The end of a session: closed, or silent and found to be gone            *)
(***************************************************************************)
ReleaseInterface(i) ==
    /\ polling = {} /\ access[i] = "open" /\ Becomes(i, "closed")
    /\ UNCHANGED <<systemVars, seenUsb, prompts, polling>>

\* A reload, or an activity made anew: a controller with a backend of its own.
RebuildAccess ==
    /\ polling = {} /\ \A i \in Interfaces : access[i] # "scanned"
    /\ seenUsb' = {} /\ prompts' = [u \in UsbDevices |-> "none"]
    /\ access' = [i \in Interfaces |-> "closed"]
    /\ older' = {u \in UsbDevices : dialog[u] # "none"}
    /\ UNCHANGED <<pluggedIn, permitted, dialog, polling>>

AccessNext ==
    \/ \E u \in UsbDevices : PersonAnswers(u) \/ Shown(u) \/ Unplug(u) \/ Reattach(u) \/ GraceEnds(u)
    \/ \E i \in Interfaces : OpenInterface(i) \/ FirstAnswer(i) \/ AskAgain(i)
                             \/ ReleaseInterface(i)
    \/ Scan \/ PollPending \/ RebuildAccess

AccessSpec == AccessInit /\ [][AccessNext]_accessVars

(***************************************************************************)
(* A dialog the controller asked for is remembered until it has been       *)
(* answered, whatever interface, device or failed call the turns in        *)
(* between were about: so no open is refused while its question is on the  *)
(* screen, and no second dialog is put over it (android.rs:230, "one       *)
(* question to the person answering it").  It does not say that two        *)
(* interfaces are refused by one answer: the first to be refused forgets   *)
(* the prompt, and the next in the same turn asks again.                   *)
(***************************************************************************)
QuestionStands ==
    \A u \in UsbDevices : dialog[u] # "none" /\ u \notin older => prompts[u] # "none"

=============================================================================
