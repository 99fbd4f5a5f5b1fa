--------------------------- MODULE MCServices ---------------------------
(* Model checking of what the runtime does for a document and for its      *)
(* author: reloads, resources, timers, work left with the host, feeds,     *)
(* sounds, notifications, menus and gamepads.  The components share no     *)
(* state, so a behaviour exercises one of them, chosen by its first state. *)
EXTENDS LayoutFlush, ResourceLog, TimerQueue, HostWork, EventStream,
        Notifications, Gamepads, AndroidNotices, MenuSurfaces,
        ApplicationReload, AudioPlayback, FrameReplay, EventDispatch,
        DesktopRequests

VARIABLE under   \* the component this behaviour exercises

vars == <<under, flushVars, logVars, timerVars, workVars, streamVars,
          notifyVars, padVars, noticeVars, menuVars, reloadVars, audioVars,
          replayVars, eventVars, desktopVars>>

Init ==
    /\ under \in {"layout", "log", "timers", "work", "stream", "notify",
                  "pads", "notices", "menus", "reload", "audio", "frames",
                  "events", "desktop"}
    /\ FlushInit /\ LogInit /\ TimerInit /\ WorkInit /\ StreamInit
    /\ NotifyInit /\ PadInit /\ NoticeInit /\ MenuInit /\ ReloadInit
    /\ AudioInit /\ ReplayInit /\ EventInit /\ DesktopInit
    \* One beginning for the parts a behaviour does not exercise.
    /\ under = "menus" \/ (toolkit = "muda" /\ menu["tray"].close /\ menu["bar"] = NoMenu)
    /\ under = "reload" \/ (source = "directory")

\* A step of one part leaves the others as they were.
Only(part) ==
    /\ under = part /\ UNCHANGED under
    /\ IF part = "layout" THEN TRUE ELSE UNCHANGED flushVars
    /\ IF part = "log" THEN TRUE ELSE UNCHANGED logVars
    /\ IF part = "timers" THEN TRUE ELSE UNCHANGED timerVars
    /\ IF part = "work" THEN TRUE ELSE UNCHANGED workVars
    /\ IF part = "stream" THEN TRUE ELSE UNCHANGED streamVars
    /\ IF part = "notify" THEN TRUE ELSE UNCHANGED notifyVars
    /\ IF part = "pads" THEN TRUE ELSE UNCHANGED padVars
    /\ IF part = "notices" THEN TRUE ELSE UNCHANGED noticeVars
    /\ IF part = "menus" THEN TRUE ELSE UNCHANGED menuVars
    /\ IF part = "reload" THEN TRUE ELSE UNCHANGED reloadVars
    /\ IF part = "audio" THEN TRUE ELSE UNCHANGED audioVars
    /\ IF part = "frames" THEN TRUE ELSE UNCHANGED replayVars
    /\ IF part = "events" THEN TRUE ELSE UNCHANGED eventVars
    /\ IF part = "desktop" THEN TRUE ELSE UNCHANGED desktopVars

Next ==
    \/ Only("layout") /\ FlushNext
    \/ Only("log") /\ LogNext
    \/ Only("timers") /\ TimerNext
    \/ Only("work") /\ WorkNext
    \/ Only("stream") /\ StreamNext
    \/ Only("notify") /\ NotifyNext
    \/ Only("pads") /\ PadNext
    \/ Only("notices") /\ NoticeNext
    \/ Only("menus") /\ MenuNext
    \/ Only("reload") /\ ReloadNext
    \/ Only("audio") /\ AudioNext
    \/ Only("frames") /\ ReplayNext
    \/ Only("events") /\ EventNext
    \/ Only("desktop") /\ DesktopNext

Spec == Init /\ [][Next]_vars
=============================================================================
