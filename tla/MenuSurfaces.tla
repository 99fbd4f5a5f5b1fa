----------------------------- MODULE MenuSurfaces ------------------------------
(***************************************************************************)
(* The tray's menu and the application menu of a window session, from the  *)
(* click of a person to the listener of the document.                      *)
(*                                                                         *)
(* On Windows and macOS ("muda") both menus answer through one channel of  *)
(* native events, read by the turns of the event loop, and the platform    *)
(* has toggled a checkable item before its event is read.  On Linux        *)
(* ("ksni") there is only the tray, whose service toggles and queues on    *)
(* its own thread.  A menu is an identity (the fresh prefix of its ids, or *)
(* its service), one checkbox, one radio group of two and a "quit"; what   *)
(* its entries look like is left out.                                      *)
(***************************************************************************)
EXTENDS Naturals, Sequences, FiniteSets, Filters

CONSTANTS MaxMenus,     \* bound: menus built
          MaxMenuDeeds  \* bound: clicks of the person and calls of the documents

VARIABLES
    toolkit,                    \* "muda" or "ksni"
    menu,                       \* surface -> the controller's menu, and what it shows as checked
    attached,                   \* is the bar's menu on its surface
    applying,                   \* has the turn requests of the bar left to apply
    windowed,                   \* has the window been opened
    nextMenu,                   \* NEXT_MENU_ID
    native,                     \* muda's channel of menu events
    iconClicks,                 \* the channel of tray icon events
    pendingSignals,             \* the tray controller's queue
    menuRequests, menuMessages, \* surface -> the two queues of its command channel
    shownWindow,                \* is the window visible
    ended,                      \* has the session been asked to quit
    believed,                   \* surface -> what the document knows of its menu
    misled,                     \* history: surfaces whose document was not told of its menu
    menuDeeds                   \* clicks and calls so far

menuQueues == <<native, iconClicks, pendingSignals>>
menuChannels == <<menuRequests, menuMessages>>
barVars == <<attached, applying>>
menuVars == <<toolkit, menu, barVars, windowed, nextMenu, menuQueues, menuChannels, shownWindow,
              ended, believed, misled, menuDeeds>>

Surfaces == {"tray", "bar"}
Radios == {"light", "dark"}
Checkable == Radios \union {"box"}
Trees == {{"light"}, {"dark", "box"}, Radios}   \* what documents ask to have checked
NoMenu == [gen |-> 0, checked |-> {}, close |-> FALSE, quit |-> FALSE]
NoQueues == [s \in Surfaces |-> <<>>]

\* What parse_menu() accepts: one radio of the group is checked, and a window that
\* closes to the tray can be ended from there.
Parsed == {d \in [checked : Trees, close : BOOLEAN, quit : BOOLEAN] :
             /\ Cardinality(d.checked \intersect Radios) = 1
             /\ d.close => d.quit}
Installed(d, gen) == [gen |-> gen, checked |-> d.checked, close |-> d.close, quit |-> d.quit]

\* What a package may configure: a tray, initialised with the event loop, and with muda
\* the menu of the application, which waits for the first turns to put it up.
PackageTrays == {[gen |-> 1, checked |-> {"light"}, close |-> c, quit |-> TRUE] : c \in BOOLEAN}
PackageBar == [gen |-> 2, checked |-> {"dark"}, close |-> FALSE, quit |-> FALSE]

MenuInit ==
    /\ toolkit \in {"muda", "ksni"} /\ nextMenu = 3
    /\ \E tray \in PackageTrays \union {NoMenu}, bar \in {PackageBar, NoMenu} :
         /\ toolkit = "ksni" => bar = NoMenu
         /\ menu = [s \in Surfaces |-> IF s = "tray" THEN tray ELSE bar]
    /\ attached = FALSE /\ applying = FALSE /\ windowed = FALSE
    /\ native = <<>> /\ iconClicks = 0 /\ pendingSignals = <<>>
    /\ menuRequests = NoQueues /\ menuMessages = NoQueues
    /\ shownWindow = TRUE /\ ended = FALSE
    /\ believed = [s \in Surfaces |-> NoMenu] /\ misled = {} /\ menuDeeds = 0

\* The person, the document and the callbacks of the event loop come between the turns.
BetweenTurns == ~ended /\ ~applying

(***************************************************************************)
(* What a click leaves checked                                             *)
(***************************************************************************)
Toggled(checked, i) == IF i \in checked THEN checked \ {i} ELSE checked \union {i}

\* select_radio(), and the claim of a radio's event.
Selected(checked, i) == (checked \ Radios) \union {i}

\* toggle_checkbox() and select_radio() of the Linux service.
Chosen(checked, i) == CASE i \in Radios -> Selected(checked, i)
                        [] i = "box" -> Toggled(checked, i)
                        [] OTHER -> checked

MenuSignal(m, i) == [type |-> "action", gen |-> m.gen, item |-> i, on |-> i \in m.checked]

(***************************************************************************)
(* The person                                                              *)
(***************************************************************************)
Clicking == BetweenTurns /\ menuDeeds < MaxMenuDeeds /\ menuDeeds' = menuDeeds + 1

\* ksni calls the item's closure; muda toggles what is checkable and queues the id.
ClickEntry(s, i) ==
    /\ Clicking /\ menu[s] # NoMenu /\ (i = "quit" => menu[s].quit)
    /\ s = "bar" => attached
    /\ IF toolkit = "ksni"
       THEN LET m == [menu[s] EXCEPT !.checked = Chosen(@, i)] IN
            /\ menu' = [menu EXCEPT ![s] = m]
            /\ pendingSignals' = Append(pendingSignals, MenuSignal(m, i)) /\ UNCHANGED native
       ELSE /\ menu' = IF i \in Checkable
                       THEN [menu EXCEPT ![s].checked = Toggled(@, i)] ELSE menu
            /\ native' = Append(native, [gen |-> menu[s].gen, item |-> i])
            /\ UNCHANGED pendingSignals
    /\ UNCHANGED <<toolkit, barVars, windowed, nextMenu, iconClicks, menuChannels, shownWindow,
                   ended, believed, misled>>

\* openOnClick is left at its default.
ClickSignals == <<[type |-> "click"], [type |-> "show"]>>

ClickIcon ==
    /\ Clicking /\ menu["tray"] # NoMenu
    /\ IF toolkit = "ksni"
       THEN /\ pendingSignals' = pendingSignals \o ClickSignals
            /\ UNCHANGED iconClicks
       ELSE iconClicks' = iconClicks + 1 /\ UNCHANGED pendingSignals
    /\ UNCHANGED <<toolkit, menu, barVars, windowed, nextMenu, native, menuChannels, shownWindow,
                   ended, believed, misled>>

\* A session without a tray that keeps its window ends with it.
CloseWindow ==
    /\ Clicking /\ windowed /\ shownWindow
    /\ IF menu["tray"].close THEN shownWindow' = FALSE /\ UNCHANGED ended
                             ELSE ended' = TRUE /\ UNCHANGED shownWindow
    /\ UNCHANGED <<toolkit, menu, barVars, windowed, nextMenu, menuQueues, menuChannels, believed,
                   misled>>

\* The event loop opens the window some turns after the session.
OpenWindow ==
    /\ BetweenTurns /\ ~windowed /\ windowed' = TRUE
    /\ UNCHANGED <<toolkit, menu, barVars, nextMenu, menuQueues, menuChannels, shownWindow, ended,
                   believed, misled, menuDeeds>>

(***************************************************************************)
(* apply_menu_signals, several times in a turn of the event loop           *)
(***************************************************************************)
RecognisesAny(m, e) == m # NoMenu

\* The bindings know the ids of their own menu only.
Recognises(m, e) == m.gen = e.gen

Recognised(m, e) == m # NoMenu /\ Recognises(m, e)

AsClaimed(m, e) == IF Recognised(m, e) /\ e.item \in Radios
                   THEN [m EXCEPT !.checked = Selected(@, e.item)] ELSE m

\* claim_native_menu_events(): each event in turn, against what is checked by then.
EventClaimed(c, e) ==
    IF Recognised(c.menu, e)
    THEN LET now == AsClaimed(c.menu, e) IN
         [menu |-> now, out |-> Append(c.out, [MenuSignal(now, e.item) EXCEPT !.gen = e.gen])]
    ELSE c

ClaimEvents(m, events) == FoldLeft(EventClaimed, [menu |-> m, out |-> <<>>], events)

OfferedToOne == [s \in Surfaces |-> IF s = "bar" /\ menu["tray"] # NoMenu THEN <<>> ELSE native]

\* Both owners are offered the ids, in order.
OfferedIds == [s \in Surfaces |-> native]

IsWord(x) == x.type = "click" \/ (x.type = "action" /\ x.item # "quit")
WordsOf(signals) == ItemsIn(signals, {x \in Range(signals) : IsWord(x)})

ApplyMenuSignals ==
    /\ BetweenTurns
    /\ \E s \in Surfaces : menu[s] # NoMenu
    /\ \/ native # <<>> \/ pendingSignals # <<>>
       \/ iconClicks > 0 /\ menu["tray"] # NoMenu
    /\ LET claimed == [s \in Surfaces |-> ClaimEvents(menu[s], OfferedIds[s])]
           polled == [k \in 1..2 * iconClicks |-> ClickSignals[IF k % 2 = 1 THEN 1 ELSE 2]]
           tray == IF menu["tray"] = NoMenu THEN <<>>
                   ELSE pendingSignals \o claimed["tray"].out \o polled
           words == [s \in Surfaces |-> WordsOf(IF s = "tray" THEN tray ELSE claimed[s].out)]
       IN /\ menu' = [s \in Surfaces |-> claimed[s].menu]
          /\ menuMessages' = [s \in Surfaces |-> menuMessages[s] \o words[s]]
          /\ shownWindow' = (shownWindow \/ [type |-> "show"] \in ToSet(tray))
          /\ ended' = \E x \in ToSet(tray) : x.type = "action" /\ x.item = "quit"
    /\ native' = <<>> /\ iconClicks' = IF menu["tray"] = NoMenu THEN iconClicks ELSE 0
    /\ pendingSignals' = <<>>
    /\ UNCHANGED <<toolkit, barVars, windowed, nextMenu, menuRequests, believed, misled, menuDeeds>>

(***************************************************************************)
(* apply_tray_requests and apply_menu_requests, after the pump             *)
(***************************************************************************)
Done(m) == [type |-> "done", gen |-> m.gen, menu |-> m]
MenuRefused == [type |-> "refused"]

Replacement(r) == IF r.type = "remove" THEN NoMenu ELSE Installed(r.menu, nextMenu)

NextRequest(s) == Head(menuRequests[s])

\* A turn applies all that has been queued, one request a step here.
Taking(s) ==
    /\ menuRequests[s] # <<>>
    /\ NextRequest(s).type = "configure" => nextMenu <= MaxMenus
    /\ nextMenu' = nextMenu + (IF NextRequest(s).type = "configure" THEN 1 ELSE 0)
    /\ menuRequests' = [menuRequests EXCEPT ![s] = Tail(@)]
    /\ UNCHANGED <<toolkit, windowed, native, iconClicks, shownWindow, believed, menuDeeds>>

\* The menu takes the place of the last, and the document is told.
PutInPlace(s) ==
    /\ menu' = [menu EXCEPT ![s] = Replacement(NextRequest(s))]
    /\ menuMessages' = [menuMessages EXCEPT ![s] = Append(@, Done(Replacement(NextRequest(s))))]
    /\ misled' = misled \ {s}

\* The platform refuses the menu, and the last stays.
NotPutUp(s) ==
    /\ menuMessages' = [menuMessages EXCEPT ![s] = Append(@, MenuRefused)]
    /\ UNCHANGED <<menu, misled>>

\* A new tray is initialised before the last goes, which takes its queue along.
ApplyTrayRequest(works) ==
    /\ BetweenTurns
    /\ Taking("tray") /\ (NextRequest("tray").type = "remove" => works)
    /\ IF works THEN PutInPlace("tray") /\ pendingSignals' = <<>>
                ELSE NotPutUp("tray") /\ UNCHANGED pendingSignals
    /\ UNCHANGED <<barVars, ended>>

\* A menu is built while the last is still up; the last is taken down, and only then
\* is it put up, or waits for the window.  Of one that cannot be put up the document
\* hears that it was refused, with the last gone and the new one in its place.
Outcomes(r) == IF r.type = "remove" THEN {"removed"}
               ELSE {"refused", "placed", IF windowed THEN "fails" ELSE "waits"}

Untold ==
    /\ menu' = [menu EXCEPT !["bar"] = Replacement(NextRequest("bar"))]
    /\ menuMessages' = [menuMessages EXCEPT !["bar"] = Append(@, MenuRefused)]
    /\ misled' = misled \union {"bar"}

\* Every turn tries at its end to put up the menu m that is not up; an error that it
\* parks ends the session.
PutUp(m, again) ==
    /\ again = "waits" => ~windowed
    /\ again = "fails" => windowed \/ m = PackageBar
    /\ attached' = (again = "placed") /\ ended' = (again = "fails")

ApplyBarRequest(outcome, again) ==
    /\ ~ended
    /\ Taking("bar") /\ outcome \in Outcomes(NextRequest("bar"))
    /\ CASE outcome = "refused" -> NotPutUp("bar")
         [] outcome = "fails" -> Untold
         [] OTHER -> PutInPlace("bar")
    /\ applying' = (Len(menuRequests["bar"]) > 1)
    /\ LET up == outcome = "placed" \/ (outcome = "refused" /\ attached) IN
       IF applying' \/ up \/ menu'["bar"] = NoMenu THEN attached' = up /\ UNCHANGED ended
       ELSE PutUp(menu'["bar"], again)
    /\ UNCHANGED pendingSignals

\* A turn that no request of the bar is queued for.
PutUpWaiting(again) ==
    /\ BetweenTurns /\ menuRequests["bar"] = <<>> /\ menu["bar"] # NoMenu /\ ~attached
    /\ PutUp(menu["bar"], again)
    /\ UNCHANGED <<toolkit, menu, applying, windowed, nextMenu, menuQueues, menuChannels,
                   shownWindow, believed, misled, menuDeeds>>

(***************************************************************************)
(* The document                                                            *)
(***************************************************************************)
Asking(s, r) ==
    /\ BetweenTurns /\ menuDeeds < MaxMenuDeeds /\ menuDeeds' = menuDeeds + 1
    /\ s = "bar" => toolkit = "muda"
    /\ menuRequests' = [menuRequests EXCEPT ![s] = Append(@, r)]
    /\ UNCHANGED <<toolkit, menu, barVars, windowed, nextMenu, menuQueues, menuMessages, shownWindow,
                   ended, believed, misled>>

ConfigureMenu(s, d) ==
    /\ s = "bar" => ~d.close /\ ~d.quit
    /\ Asking(s, [type |-> "configure", menu |-> d])
RemoveMenu(s) == Asking(s, [type |-> "remove"])

\* What the document knows after a message: its own menu, and the items it heard of.
Learnt(b, x) == CASE x.type = "done" -> x.menu
                  [] x.type = "action" /\ x.item \in Radios ->
                       [b EXCEPT !.checked = Selected(@, x.item)]
                  [] x.type = "action" /\ x.item = "box" ->
                       [b EXCEPT !.checked = IF x.on THEN @ \union {"box"} ELSE @ \ {"box"}]
                  [] OTHER -> b
LearntAll(b, messages) == FoldLeft(Learnt, b, messages)

\* settle(): a frame delivers what has been queued, in order.
HearMenus(s) ==
    /\ BetweenTurns /\ menuMessages[s] # <<>>
    /\ menuMessages' = [menuMessages EXCEPT ![s] = <<>>]
    /\ believed' = [believed EXCEPT ![s] = IF believed[s] = NoMenu
                      /\ ~(\E x \in ToSet(menuMessages[s]) : x.type = "done") THEN @
                      ELSE LearntAll(@, menuMessages[s])]
    /\ UNCHANGED <<toolkit, menu, barVars, windowed, nextMenu, menuQueues, menuRequests, shownWindow,
                   ended, misled, menuDeeds>>

\* A reload resets both channels and leaves the menus, which the new document does not
\* know.  When it fails the old document goes on, without what was on its way to it.
ReloadMenus(fails) ==
    /\ BetweenTurns
    /\ menuRequests' = NoQueues /\ menuMessages' = NoQueues
    /\ believed' = IF fails THEN believed ELSE [s \in Surfaces |-> NoMenu]
    /\ misled' = IF fails THEN misled \union {s \in Surfaces : menuMessages[s] # <<>>} ELSE {}
    /\ UNCHANGED <<toolkit, menu, barVars, windowed, nextMenu, menuQueues, shownWindow, ended,
                   menuDeeds>>

MenuNext ==
    \/ \E s \in Surfaces, i \in Checkable : ClickEntry(s, i)
    \/ ClickEntry("tray", "quit")
    \/ ClickIcon \/ CloseWindow \/ OpenWindow \/ ApplyMenuSignals
    \/ \E b \in BOOLEAN : ApplyTrayRequest(b) \/ ReloadMenus(b)
    \/ \E again \in {"placed", "waits", "fails"} :
         \/ PutUpWaiting(again)
         \/ \E outcome \in {"refused", "placed", "fails", "waits", "removed"} :
              ApplyBarRequest(outcome, again)
    \/ \E s \in Surfaces, d \in Parsed : ConfigureMenu(s, d)
    \/ \E s \in Surfaces : RemoveMenu(s) \/ HearMenus(s)

MenuSpec == MenuInit /\ [][MenuNext]_menuVars

(***************************************************************************)
(* Properties                                                              *)
(***************************************************************************)
\* Nothing on its way from the menu of a surface to the document.
SurfaceQuiet(s) == /\ \A i \in DOMAIN native : native[i].gen # menu[s].gen
                   /\ s = "tray" => pendingSignals = <<>>
                   /\ menuMessages[s] = <<>>

\* Once the clicks have been heard, the document and the menu agree on what is checked,
\* whatever was clicked twice, replaced or refused meanwhile.  Excused is a document that
\* was not told: its menu could not be put up, or a failing reload threw its messages away.
BelievedIsChecked ==
    \A s \in Surfaces \ misled : SurfaceQuiet(s) /\ believed[s] # NoMenu /\ ~ended =>
        believed[s] = menu[s]

\* No click answers for a menu that it was not made on: behind the answer to a
\* configure, only that menu's actions are heard.
HeardFromItsMenu ==
    \A s \in Surfaces : \A i, j \in DOMAIN menuMessages[s] :
        i < j /\ menuMessages[s][i].type = "done" /\ menuMessages[s][j].type = "action"
        => menuMessages[s][j].gen >= menuMessages[s][i].gen

\* When no event is outstanding, a radio group shows one choice.
OneChoice == \A s \in Surfaces : menu[s] # NoMenu /\ SurfaceQuiet(s) =>
                Cardinality(menu[s].checked \intersect Radios) = 1

\* menu.rs and menu/native.rs: two menus that share one channel of events, and are
\* replaced under it, each tell the document what they show.
MenusAgree == BelievedIsChecked /\ HeardFromItsMenu /\ OneChoice

\* A window hidden by its close button has a tray to bring it back (not so: the document
\* may remove the tray, or replace it, while the window is hidden).
HiddenHasTray == ~shownWindow => menu["tray"].close
=============================================================================
