# A verification project for Blitsen

Blitsen runs web applications in a native window: a JavaScript engine, a DOM, a layout and
paint backend and the platform behind them in one process. The modules in this directory model
its control, with TLC checking small instances and TLAPS proving theorems for every instance.
Paths below are relative to `src/`; `native_window/` and `dom_bridge/` are under
`crates/blitsen-host/src/`.

Contents: [1 The system](#1-the-system), [2 Modules](#2-modules),
[3 Runs](#3-runs-bounds-and-fairness), [4 Findings](#4-what-the-work-found),
[5 Theorems](#5-theorems), [6 Not modelled](#6-what-is-not-modelled-and-what-is-assumed),
[7 Plan](#7-plan).

## 1 The system

### How it runs

One thread, the UI thread, owns the window, the DOM and the JavaScript realm
(`docs/TECH.md` sections 3, 5 and 6). The command line's run loop
(`packages/blitsen/src/cli.mjs`) alternates between the engine's own tasks and `pumpWindow`
(`crates/blitsen-node`), which lets winit deliver its callbacks and returns. Everything slow
runs on other threads, which never touch script: they append to a queue behind a mutex, and the
UI thread drains the queue at the start of its next frame turn. `animationFrameTick`
(`dom_bridge/bootstrap/prelude.js:110`) is that turn: it settles promises, dispatches events and
then runs animation frames. `animationFramesPending` (`globals.js:45`) is the query that asks for
the next turn as long as some answer is outstanding. A reload replaces the document and its
scripts inside the same realm and process.

What is hard about the system follows from this. A callback of the platform is cut in the middle
by script, which may do anything to the state the rest of the callback reads. An answer travels
through two or three queues before its promise settles, and the thing it is about can be closed,
reopened, reloaded or dead by then. Command ids, device ids, process group ids, timer ids and
socket paths are used again. The windowing system, the kernel, devices and child processes keep
their own time, and a process may be killed between any two writes to the disk.

### Inventory

Each row names a component, the state it keeps, its operations, what makes it correct and the
module that models it. `PROJECT.json` lists the source files and says what of a component is left out.

| Component | State | Operations | Correct when | Module |
|---|---|---|---|---|
| Single-instance lock | socket path, election lock file, listener threads, queued invocations | request, hand over, serve, drain, release, recovery of a stale socket | one primary; an invocation is acknowledged after it is queued and delivered once; the UI thread is never parked | `SingleInstance`, `InstanceLock` |
| HID sessions | handles and promises, request and message queues, open table, transfers, workers and mailboxes | open, transfer, close, disconnect, permission, reload, failed reload | one worker per device; a promise hears its own answer and always some answer; reports in order; a handle knows that its device has gone | `HidSession` |
| Android HID access | prompt, pending opens, claims | enumerate, ask, grant, refuse, go away | a dialog that is up is remembered by the prompt that asked | `DeviceAccess` |
| Child processes | registry, event queue, generation, supervisor, reader and writer threads, process groups | spawn, write, closeStdin, kill, output, exit, disposal | the exit is heard last and after all output; a tree dies with its root; a document has its own children only | `ProcessSupervisor` |
| Window session | surface, renderer, redraw flag, sizes at four stages, startup flags, parked error | winit's callbacks, pump, startup reveal, resize, load, reload | mapped only when complete, always revealed; laid out for the window's size; an error stops script | `WindowTurn` |
| Pointer input | contacts, capture, pressed buttons, a coalescing queue | platform events, drain, hit test, dispatch, reload | what the page believes of a contact is its last event; capture is released | `PointerInput` |
| Pointer lock and fullscreen | pending request, current element, modes taken, what the application wants | request, grant, refuse, exit, losses of focus and surface | page, host and native module agree; each promise settles | `WindowModes` |
| Keyboard, IME and drag input | drag session, files owed | signals, file deliveries, drain | a drop carries the files of its own drag | `DragDrop` |
| Document nodes and wrappers | tree, two weak tables, wrapper counts | make, insert, remove, wrap, collect, finalize | a wrapper names its node and no other; nothing reachable is dropped | `NodeTree` |
| Form controls and text editing | value, editor, composition, history | type, compose, assign, undo, focus and blur | what is shown is what is held; undo leads back | `TextControls` |
| Event dispatch | listeners, path, tree revision | dispatch, register, remove, stop, move | each listener of the path hears each event once, in order | `EventDispatch` |
| Layout flushes and surfaces | revision, hints, subresources, canvases | mutate, resolve, flush | a flush that does nothing has missed nothing | `LayoutFlush` |
| Subresource log | requests, handlers, abort flags | fetch, answer, drop, stop | every request is settled exactly once | `ResourceLog` |
| Timers | queue, deadlines, running interval, identifiers | set, clear, run | the queue is what the page is owed | `TimerQueue` |
| Document work | fetches, links, waits, batch of a frame | start, stop, answer, settle, dispose | settled once, in its own document | `HostWork` |
| EventSource | connection, last id, queue | read, drop, reconnect, close, poll | nothing heard twice, out of order or after `close()` | `EventStream` |
| Workers and message ports | registry of ports, their owners and queues, wake flags | post, transfer, drain, close, terminate | each message is heard once, in order, by the owner of its port | `WorkerPorts` |
| Notifications | shown notices, activation file, signals | show, update, close, activate, relaunch | each click is heard once | `Notifications` |
| Android notifications | inbox, store, taps, prompt | post, tap, drain, permit | no tap is lost | `AndroidNotices` |
| Gamepads | slots, vibrations | connect, vibrate, end, reload | each vibration is answered once | `Gamepads` |
| Tray and menus | menus, channel of clicks | build, install, remove, click, poll | a click answers for the menu it was made on | `MenuSurfaces` |
| Dialogs, shell and clipboard | counts, answer queues, helpers | ask, answer, hand off, reap | the loop does not rest while an answer is owed | `DesktopRequests` |
| Application loading and reloads | batches of changes, session, module registry | change, collect, reload, import | the application shown is that of its files | `ApplicationReload` |
| Web storage | index and item files, directory lock | get, set, remove, clear, crash, rebuild | a reader finds the old value or the new one | `WebStorage` |
| Audio | voices, element, loads | play, pause, load, end | the element plays exactly when a source of it sounds | `AudioPlayback` |
| Canvas | context state, batch, recorded scene | draw, clip, save, restore, flush, resize | the picture is the one the drawing model asks for | `CanvasDrawing` |
| Headless frame loop and replay | trace, stages, images, callbacks | frame, error | two replays show the same frames | `FrameReplay` |
| Application UI tests | requests, pipes, loop of the process | request, perform, answer, time out, die | steps are performed in order, and what resolved was performed | `ApplicationTest` |
| Application bundle format | cells of a file, segments, trailer | link, sign, link again, read | the last payload linked is the one found | `BundleFormat` |
| Command line and packaging | outputs, stamp, staging, cache | build, fetch, bundle, sign, crash | a stamp vouches for what is there; a user's file is not overwritten | `StandaloneBuild` |
| Desktop appearance | last applied appearance | watch, apply | the last change is applied | not modelled |
| Style and layout backend | tree, style, boxes | mutate, resolve | conformance | not modelled |
| JavaScript engine boundary, test-only engine | none of their own | conversions, calls | conformance | not modelled |

The components meet at few points. The **command channel** (`dom_bridge/command_channel.rs` and
`.js`) numbers a request, keeps its promise under the number and settles it from a message queue;
HID, notifications, gamepads, menus and the tray use it, and child processes, dialogs and hand-offs
use the same scheme with a queue of their own. The **frame turn** drains every queue in a fixed
order. A **reload** (`native_window/session.rs:290`) drops the HID controller, disposes of child
processes, fetches, sockets and workers, resets the channel and runs the new document. The **pump**
(`session.rs:446`) surfaces the first error any callback has parked.

## 2 Modules

In each module an action is one step that other threads cannot divide: a critical section, a
system call, or a callback up to the point where it runs script. Where a thread stands in a
function is a variable (`req`, `srv`, `ui`, `wk`, `sup`, `todo`), with the function's statements as
its values. An operator that begins as *a mutant* or *a seeded bug* is a changed form of the
definition next to it; it shows that a property can fail and belongs to no specification. The map in
`PROJECT.json` gives the source lines of every definition.

Components that share no state are checked side by side. `MCProcesses`, `MCInput` and `MCServices`
extend several modules and let the first state choose the one a behaviour exercises; the others keep
their first state. `MCSingleInstance`, `MCHidSession` and `MCProcessSupervisor` give the constants of
their modules; `WindowTurn` and `Gamepads` are also run by themselves.

### SingleInstance and InstanceLock

A *call* is one execution of `request` in a process. It locks the election file
(`ElectionLock`), binds the socket (`Bind`) or finds it taken (`BindOccupied`); in the second case
it connects (`Connect`) or, when nobody listens, unlinks the path and binds again
(`ConnectStale`, `RemoveStale`). A listener is named by the call that bound it and runs a thread
of its own (`LoopTop` to `ReadReceipt`). A stream is a record of what each end has written and
whether it is still open. `Die` is a crash or an exit of a process at any step; the kernel then
closes its descriptors and frees its `flock`, and the path stays. Deadlines are the steps
`HandOverFails`, `ReceiveFails` and `AcknowledgementFails`, enabled wherever the code has a read or
write with a timeout. `CloseFirst` is the order in which a dropped listener closes its descriptor
and unlinks its name. The order belongs to the external crate that implements the socket; both are
modelled.

`InstanceLock` has a holder, the invocations that were accepted, and those that were told that they
are secondary. `ImplementsLock` maps the listeners that hold the path to the holder.

### HidSession

An *open* is one call of `hid.open()` and names its promise, its handle and its worker. The UI
thread moves through `ui`: application script, the settling of one batch of messages
(`settle`, `listener`), frame callbacks, the application of queued requests (`apply`), the polling
of worker signals (`poll`), and a reload. Workers move through drain, check and read and interleave
with the UI thread everywhere. `stop`, `mailbox` and `signals` are what the two share. `Joined`
waits for a worker as `JoinHandle::join` does. A reload drops the controller (joining every worker),
resets the channel and begins a new document; a reload that fails stops after the reset and leaves
the old document in place, as `session.rs:301` does.

### ProcessSupervisor

A *spawn* is one call of `process.spawn()` and names its promise, handle, supervisor, child and
process group. `sup[s]` follows `supervise` from launch to report, with one value per critical
section of the registry's mutex. The child's tree is a root and at most one descendant, which keeps
the pipes, lets go of them, or leaves the group with them (`Detach`). `Recycle` is the kernel giving
a group id that is free to somebody else; it is only allowed in the long wait where a helper that
escaped holds the pipe. Delivery to the document is `Frame`, which settles a batch, followed by one
`Microtask` for each event of the batch: the reaction of the spawn that installs the listeners, an
output, an exit. Children in `Piped` have a stdin queue and a writer thread; the others have no stdin.

### WindowTurn

`ui` is where the one thread stands: script between two pumps, winit's choice of the next callback,
or inside a callback at the places where it runs script. `Script` is any piece of script and may ask
for a frame, start a critical resource, force a layout, resize or close the window, or throw. A size
is followed through the four places that hold it: the window, `APPLIED_RESIZE` (`claimed`),
`pending_resize`, and the viewport with `innerWidth`. Startup is followed from the first critical
resource to the redraw that maps the window. Two kinds of platform are modelled, and which one a
window runs on is chosen at the start: a desktop gives a surface once, sizes windows for script and
closes them; a mobile platform takes surfaces away and gives them back.

### The input modules

Each has the fact it is about in its header; what follows is how state and actions meet the code.

- **`PointerInput`** (`pointer_input.rs`, `pointer_input/dispatch.rs`, `bootstrap/events.js`): the
  host maps contacts to DOM ids and queues what winit reports; a turn drains the queue, asks a hit test
  (any connected element, none, or an error) and dispatches. `turn` stands in the middle of a dispatch,
  where a listener may move capture, remove elements or call for more. A reload may come with a finger
  down.
- **`WindowModes`** (`bootstrap/window_modes.js`, `dom_bridge/window.rs`, `native_window/input.rs`):
  `elem`, `pend` and `tasks` belong to the page, `web` to the host, `want` to `blitsen/window`,
  `applied` to the window. A mode is requested in one turn and granted in a task of another; losing the
  focus or the surface takes it back at once and tells the page through the queue of keyboard input.
- **`DragDrop`** (`drag_drop.rs`, `bootstrap/transfer.js`): one session holds the stages of a drag until
  its files are known, which may be after the drop, by a read that has to be tried again.
- **`NodeTree`** (`tree.rs`, `wrappers.rs`, `bootstrap/document.js`, `node.js`): handles carry
  generations; two weak tables find a wrapper again and finalizers empty them late, in any order.
- **`TextControls`** (`forms.rs`, `text_input.rs`, `bootstrap/forms.js`, `text_editing.js`): the default,
  the pending value, the editor and the history of one control. `beforeinput` runs between the decision
  to edit and the edit.
- **`DeviceAccess`** (`hid/android.rs`, `android/usb.rs`): what the program may conclude from a dialog
  that answers only through the focus; any call into Java may fail.

### The service modules

- **`LayoutFlush`** (`backend.rs`, `surface.rs`, `viewport.rs`, `canvas/mod.rs`): `unseen` is what has changed and no
  resolve has seen; `markVars` are the marks `flush` asks for. The resolve passes chase subresources up
  to `RESOURCE_RESOLVE_PASSES`.
- **`ResourceLog`** (`resources.rs`): every lock is taken alone, so a step is what one holds; `stop()` aborts,
  walks what is in flight and completes it, against answers and drops on other threads.
- **`TimerQueue`** (`timers.rs`): a callback arms and cancels, its own interval included, while its
  task is in no queue; identifiers wrap.
- **`HostWork`** (`bootstrap/bun.js`, `fetch.js`, `web_socket.js`, `messaging.js`): the host's side of
  each piece of work, the queue, and the batch of the frame; a disposal may overtake each.
- **`EventStream`** (`event_source.rs`): the task's line interpreter with its last id and reconnections,
  the queue and the frame.
- **`WorkerPorts`** (`ports.rs`, `messaging.rs`, `worker.rs`): one registry under a mutex, two threads.
  `todo` holds the steps a thread has left of a call; the worker's park, wake and stop flags are separate.
- **`EventDispatch`** (`bootstrap/events.js`, `event_target.js`): a stack of dispatches; a listener may
  register, remove, stop, move the element or dispatch. `path` is the one a native input shares.
- **`Notifications`**, **`AndroidNotices`** (`native_window/notify/`): what is shown outlives the process;
  a click goes through a file or a queue and is remembered as consumed before or after a crash.
- **`Gamepads`** (`gamepad.rs`, `bootstrap/gamepad.js`): the effect that runs keeps the id of its command.
  A reload resets the channel and then may fail; `unheard` has the promises it left the old document.
- **`MenuSurfaces`** (`tray.rs`, `menu.rs`, `menu/native.rs`): two menus read one channel of clicks.
  The bar's menu may be there and not be `attached`: before the window, and after an install that failed,
  which the end of the turn tries again (`applying`: a turn applies all its requests and then that).
- **`DesktopRequests`** (`dialog.rs`, `shell.rs`): a thread queues its answer and then counts itself out;
  helpers have pipes of a size and are left to a reaper when they stay, which drains in one step and
  looks for the exit in the next.
- **`ApplicationReload`** (`cli.mjs`, `modules.rs`, `app.rs`): `unreported`, `notified`, `batches` and
  `doing` are the stages of a change; `view` and `inRealm` are the document shown and the one whose
  scripts live; a served application goes through `fetched` and `loaded`.
- **`AudioPlayback`** (`dom_bridge/audio.rs`, `bootstrap/audio.js`): the render thread and the pool report
  through the host; the promises a poll resolves go on after it.
- **`FrameReplay`** (`frame.rs`, `replay.rs`, `frame_loop.rs`): the stages of a frame under any trace and
  any application that answers each input in one way.

### Processes, files and formats

- **`StandaloneBuild`** (`export.mjs`, `packaging.mjs`, `runtime.mjs`): a command from its arguments to its
  artifacts, one write at a time, with a crash between any two.
- **`WebStorage`** (`storage.rs`): item files, an index, and a directory as the lock, shared by processes
  that crash, fail to write, and break a lock that is too old.
- **`CanvasDrawing`** (`bootstrap/canvas_context.js`, `blitsen-blitz/src/canvas`): `ideal` is the canvas of
  the drawing model; the code's is a context, a batch and a recorded scene.
- **`ApplicationTest`** (`test.mjs`, `application-test-loop.mjs`): the pipe each way, the pending request,
  the loop's place.
- **`BundleFormat`** (`bundle.rs`, `bundle/macho.rs`, `bundle.mjs`): two writers and two readers over files
  made of cells, a signing tool in between.

## 3 Runs, bounds and fairness

| Run | Instance | Asks |
|---|---|---|
| `single_instance_rivals` | 3 processes, 1 request each; descriptor closed first | `ExclusivePrimary`, `AcknowledgedIsQueued`, `RecoveryKeepsLiveEndpoint` |
| `single_instance_repeat` | 2 processes, one asks twice; name reclaimed first; fair | `InvocationsAreServed`, `ImplementsLock` |
| `single_instance_release_race` | as rivals | *violated:* `AlwaysExclusive` |
| `hid_safety` | 1 device, 2 opens, 1 transfer, 2 reports, 1 failing read, 1 reload, 1 failed reload | `OwnAnswer`, `WhatIsHeardIsTrue` |
| `hid_settles` | 1 device, 2 opens, 2 transfers on the first, 1 failing read; fair | `CommandsSettle` |
| `hid_lost_disconnect` | 1 open, 1 failing read | *violated:* `HandleIsBacked` |
| `processes` | 7 parts, one per behaviour | `ExitIsLast`, `TreesAreOwn` (2 children, one with a helper, 1 reload); `BuildsAreSafe` (2 commands, 1 crash, 1 file of the user's); `OldOrNew` (2 processes, 3 operations, 1 damaged file); `PictureAgrees` (2 sizes, 3 calls, 1 save); `StepsAreTrue` (3 requests); `LinkedIsFound` (2 links, 3 signatures); `PortsDeliver` (2 messages, 1 channel, 1 end) |
| `process_settles` | 1 child with a helper, 2 writes, 1 reload; fair | `ChildrenSettle` |
| `window_turn` | 2 sizes, 1 job, 1 critical resource, 1 reload; fair | `WindowIsTrue`, `ErrorStopsScript`, `WindowProgresses` |
| `input` | 6 parts, one per behaviour; fair turns of the window modes | `PointersAreTrue` (2 fingers and a mouse, 2 elements, 3 inputs, 1 call of a listener, 1 reload); `ModesAgree` (2 requests, 2 gestures, 1 loss, 1 want); `DragIsItsOwn` (2 drags, 3 moves); `WrapperIsItsNodes` (3 nodes, 3 wrappers); `EditsAgree` (texts and history of 2); `QuestionStands` (2 devices of 2 interfaces) |
| `services` | 14 parts, one per behaviour | `RestIsComplete`, `SettledOnce`, `OwedIsQueued`, `FetchSettlesOnce`, `StreamAgrees`, `HeardOnce`, `VibrationIsOwed`, `NothingIsLost`, `MenusAgree`, `RunsItsFiles`, `PlayingIsReal`, `FramesFollowTrace`, `EventsAreHeard`, `DesktopIsAnswered` |
| `stale_vibration` | 2 controllers, 2 vibrations, 1 reload | *violated:* `AnswerIsOwn` |

Each property is stated in words above its definition, and a mutant of the code's definition breaks
each property of a passing run. A property with several named parts is their conjunction: for example
`TreesAreOwn` is `OnlyOwnChildren` and `TreeDiesWithRoot`.

**Why the bounds are enough.** In the lock, three processes are an owner that dies or lets go and
two that race to succeed it; the second configuration lets one process meet its own listener and ask
again after a release. In HID, two opens of one device give every reuse of a device id, one reload
every reuse of a command id, and one failure the loss of a device at any step; `MaxId` is large
enough for every call the other bounds allow. In processes, the second child shows what the first
one's steps do to a bystander; one reload meets a launch at every step; the second write queues
behind a first that blocks. In the window, two sizes are enough for an old and a new one; sizes,
frames asked for, lost surfaces and errors are not bounded. Of the other parts: three timer
identifiers wrap with four timers; two resolve passes run out with three subresources; two realms are
a document and its successor; a tap remembered of one posted notice is forgotten with the second; a
history of two overflows with a third edit; two links of a bundle are a runtime and one linked already;
a pipe of one cell blocks a helper with two to say. The composed modules switch deadlock checking off
because every part stops when its bounds are used up, and so do the lock and process configurations,
where every actor may have finished; HID and the window leave it on.

**Fairness.** Threads that can run do. Nothing obliges an application to call, a user to act, a
device to report, a tool to read, write or end, or a phone to give a surface back.
- `SingleInstance`: weak fairness of each call, each listener and each join. Timeouts are among the
  alternatives, so a silent peer costs a deadline and no more. A process may die at any step.
- `HidSession`: weak fairness of the frame turn and of each worker. Strong fairness of `BeginFrame`,
  since script and the frame take turns and script could otherwise always come first; the pending
  work query keeps the loop turning while an answer is outstanding.
- `ProcessSupervisor`: weak fairness of the turn, supervisors, readers and failing writes. A write
  to a tree that holds the pipe and does not read may block for ever, and in the model it may.
- `WindowTurn`: the host pumps and each pump ends (`session.rs:446`). A requested redraw of a window
  with a surface, and a wake of the proxy, are delivered: strong fairness, since they wait for other
  callbacks of the same pump. Resources arrive or fail, a renderer starts. Jobs need not finish.
- `WindowModes`: a turn that a redraw began goes on (weak), and a task of the page that keeps waiting
  is run between two turns (strong, since each turn disables it for a while).

## 4 What the work found

Each of these is a run whose property TLC violates. The property is a sentence of the repository;
the trace ends where the code does something else. `PROJECT.json` quotes the lines.

1. **Two primaries after a release** (`AlwaysExclusive`). The dropped listener closes its descriptor
   and unlinks the name later. In between, a successor finds the name stale, removes it and binds
   its own, which the late unlink then removes; a third process binds a fresh one.
   `ExclusivePrimary` holds as long as nothing was released, and always when the name goes first.
2. **A disconnect that nobody hears** (`HandleIsBacked`). A disconnect in the batch that also
   answers its open is settled before the microtask that installs the handle, which then stays
   `opened` for ever. `BackedUntilFailure` shows that only a failing read or reload gets there.
3. **Another document's vibration** (`AnswerIsOwn`). A reload resets the command ids and keeps the
   effect that runs; its end then settles the new document's promise of the same id.

### Met while modelling

These are observations from reading the code closely. Where a property is named, its module states it
and TLC violates it on a small instance; the rest no run examines.

**Lock, processes and the window.**
- A process that asks for the lock it already holds connects to itself and is told `false`.
- Invocations of second instances that arrive while a reload has forgotten the handler are drained
  unheard.
- An application that wraps `spawn()` in another async function installs its listeners a microtask
  too late for output in the same batch.
- A child is reaped while its entry waits for readers an escaped helper holds up, and its group id
  may be in use again when a signal is sent (`EndedLeftAlone`, `process.rs:271`).
- A size script got at once waits in `APPLIED_RESIZE` and is applied after a newer one the platform
  reported in the same pump (`window.rs:200-203`).
- A reload that cannot disable the input method returns after the new document has run and before it
  is installed.
- A redraw after a surface has come back may be consumed before the renderer is active.

**HID.**
- A write followed by `close()` is sent, because the worker drains its mailbox before it looks at
  its stop flag, and then rejected (`hid.rs:660`).
- After a reload that fails, the transfers that were pending when the controller was dropped are
  never answered.
- On Android two interfaces of one device ask twice, although `android.rs:230` calls them one
  question.
- A failed JNI call leaves a prompt behind, so that the next open may be refused without a dialog,
  or leaks a connection between `openDevice` and the claim.
- A device that is attached again keeps a dead handle.

**Pointers, keyboard, drags and modes.**
- `setPointerCapture` is allowed while the pointer is locked; a cancellation is lost to a hit test
  that misses; a pointer-lock request that is overwritten never settles; Escape may leave a mode in
  place (`EscapeLeaves`).
- A highlight may be left behind by a drag (`NoHighlightLeft`, `drag_drop.rs:512`).
- A reload resets the polled snapshot to `focused = false` though the window stays focused; focus
  that goes A, B, A between two redraws leaves an input method without capabilities; keys queued in
  a drain that errors are dropped.

**Events.**
- `remove()`, `replaceWith()` (`node.js:98-102`) and `innerHTML =` (`element.js:173`) neither bump
  the tree revision nor notify mutation observers, which `events.js:295` relies on; `innerHTML =`
  also skips `windowModesTreeMutation`.
- `processPendingPointerCapture` runs listeners before `makePropagationHint` takes the revision; a
  key event may target an `activeElement` that was removed; a nested `focus()` in a focus listener
  makes the outer `focusin` the last one heard.

**Nodes and text.**
- A detached tree may never be dropped; entries of `form_state` are never removed; a template's `content` is lost once its wrapper is collected.
- Two radios of a group may both be checked, and a cancelled radio click restores only the first
  checked sibling.
- Composing over a selection and cancelling loses the selected text unrecorded; a commit in a
  control without an editor records an attribute change as a transaction; moving a textarea's text
  leaves its shown default stale (`forms.rs:15`).

**Layout and resources.**
- A `ScrollDefault` without `scrolled`, a settlement in the last resolve, and an import chain longer
  than the passes are counted as seen (`AllIsSeen`); a settlement is counted before its message is
  sent (`tree.rs:104-116`).
- `stop()` may leave a request it overtook uncompleted (`StopCompletes`, `resources.rs:78-82`).

**Documents' work.**
- `postMessage` across a reload reaches the next document (`DocumentsApart`, `globals.js:33`).
- A feed passes over an event whose id line came before the drop (`NothingSkipped`,
  `docs/COMPATIBILITY.md:238`).
- Sends queued behind a closing socket never leave `bufferedAmount`; an "open" event after `close()`
  sets `readyState` back to 1; an exited worker keeps the loop alive (`messaging.js`).

**Workers and ports.**
- A message that carries a port, queued at a port which is itself transferred, does not take the
  nested port along (`ports.rs:56`, `:110`).
- A worker that starts a port whose queue already holds messages parks with them (`ports.rs:219`);
  an answer that arrives after the document's loop went to rest waits for the next input.
- A drained record whose port is given away or closed earlier in the same poll is lost
  (`messaging.js:85-87`) and its payload stays in `inbound` (`clone.js:247-250`); a port posted
  between a release's collection and the close of the worker's end is never closed
  (`ports.rs:277-289`).
- A worker's `close()` raises the interrupt flag, so the callback that called it may be broken off
  with an error (`scope.js:55-57`).

**Notifications, gamepads and menus.**
- A replaced document's clicks are still heard (`ReplacedIsSilent`, `desktop.rs:662`; also on
  Android); an activation of an earlier process whose id equals the new document's own deletes the
  live `Notification` without an event (`notify.rs:171-175`); a refused native close keeps its map
  entry.
- Android: a persisted preference makes a dialog that failed "denied" for good; native ids restart
  at 1 in a new process; taps of one poll are heard in mint order; a new document is told "denied"
  while the old one's dialog is up.
- The completion of a replaced effect and replacements inside gilrs lose events. A reload that fails
  after it reset the gamepads' channel (`session.rs:303`, `340`) leaves the old document promises whose
  commands and answers are gone, and gives their ids again (`VibrationIsOwed` excuses `unheard`).
- A document may remove the tray while its window is hidden (`HiddenHasTray`); tray clicks carry no
  tray id; `has_quit` accepts a disabled entry; a double click on a checkbox reports the final state
  twice on muda.
- A menu bar whose install fails is in place of its predecessor, while the document hears that it was
  refused (`session.rs:611-616`); the turn tries again, and a second failure ends the session. A failing
  reload throws away what was on its way to the old document (`session.rs:292`). `MenusAgree` excuses
  both (`misled`) until the document is told of its menu again.

**Dialogs and the shell.**
- A reload with a dialog or hand-off open leaves its answer in the process-wide queue, so
  `pending()` stays true and the loop does not rest until it opens one itself.
- `externalUrl` accepts `http:host`, which the host refuses; what a helper says after its reaper's last
  drain is read by nobody (`shell.rs:328-333`); an application that xdg-open runs
  itself inherits a standard error nobody reads; a reaper that cannot start leaves a zombie.

**Reloads and packaging.**
- A batch with a linked sheet and one that another imports leaves the imported one stale
  (`cli.mjs:293-298`); a sheet deleted in a batch aborts the rest of it; a script that throws leaves
  the old view with new scripts; a failed reload leaves a new registry; a served entry module is
  read twice.
- Notices and sidecars: `NoticesTravel` (`runtime.mjs:234`), `OwnSidecarStays`
  (`docs/PACKAGING.md:23`, `:204`); a package collision is found only after the link; concurrent
  builds share the staging directory.
- The command line sorts paths by UTF-16 units and the core by UTF-8 bytes, so "same bytes"
  (`bundle.rs:320`) fails for some names; a newer release linked onto a linked ELF or PE runtime
  reads as the older bundle; the command line's decoder looks at no version and knows no segments.
- UI tests: a click that fails after its `pointerdown` leaves the contact pressed; a second
  `close()` is rejected; a broken pipe rejects requests whose answers lie unread.

**Storage.**
- Looking at a stale lock and breaking it are two steps, so two waiters may both break it
  (`storage.rs:4`), and the old holder of a broken lock removes its successor's; an orphan item
  comes back with a rebuilt index; a damaged key gets the next key's place.

**Audio, canvas and replay.**
- Two `play()` before the load both start a source; `load()` or a new `src` while playing orphans
  it, and a pending play then starts one without a buffer; loads out of order leave the older
  buffer, and a failed older one clears `loading` of the newer; `element.loop =` throws after a
  natural end; `AudioContext.close()` closes the shared one; a failing `net_runtime()` leaks a
  count; gain nodes are never released; a disposed document's continuation may open a new device.
- Drawing a canvas that has a pending batch samples what was submitted before
  (`canvas_context.js:14`); `setAttributeNS`, `attr.value =` and `setAttribute("WIDTH")` go past
  `HTMLCanvasElement`; `removeAttribute` resets the state and keeps the picture when the size is the
  same (`canvas_element.js:59-61`); a stream that is not balanced is recorded halfway
  (`record.rs:8`); `destination-out` is not in `erases_backdrop` (`record.rs:303`).
- Node-API drains no microtasks and Bun's timers wait for the whole replay (`frame_loop.rs:66-76`,
  `frame.rs:48-50`); replies of other threads settle in whichever tick they arrive (`replay.rs:3`);
  a handler that forces layout sees the previous frame's animation time (`prelude.js:111-114`).
- `TextDecoder` and a byte order mark; an unlocked read, take and write of a record in the macOS
  notification delegate.

## 5 Theorems

A theorem holds for every value of the constants that satisfies the assumptions of its module, which
only say that constants are of their kinds (an owner for each call, a device for each open, a natural
number for each bound) and that the value for *nothing* is not among the things. TLC evaluates each
assumption in a run.

| Theorem | Statement |
|---|---|
| `SingleInstanceProofs!TypeCorrect` | `Spec => []TypeOK` |
| `SingleInstanceProofs!PrimaryIsExclusive` | `Spec => []ExclusivePrimary` |
| `SingleInstanceProofs!SecondaryIsQueued` | `Spec => []AcknowledgedIsQueued` |
| `SingleInstanceProofs!RecoverySpares` | `Spec => RecoveryKeepsLiveEndpoint` |
| `SingleInstanceProofs!InvocationHeardOnce` | `Spec => []DeliveredOnce` |
| `SingleInstanceProofs!Implementation` | `~CloseFirst => (Spec => ImplementsLock)` |
| `HidSessionProofs!TypeCorrect` | `Spec => []TypeOK` |
| `HidSessionProofs!OneWorkerHolds` | `Spec => []OneWorker` |
| `HidSessionProofs!OwnAnswerHolds` | `Spec => []OwnAnswer` |
| `HidSessionProofs!WhatIsHeardHolds` | `Spec => []WhatIsHeardIsTrue` |
| `ProcessSupervisorProofs!TypeCorrect` | `Spec => []TypeOK` |
| `ProcessSupervisorProofs!OwnChildren` | `Spec => []OnlyOwnChildren` |
| `ProcessSupervisorProofs!HandleRegistered` | `Spec => []HandleIsRegistered` |
| `ProcessSupervisorProofs!TreeDies` | `Spec => []TreeDiesWithRoot` |
| `ProcessSupervisorProofs!TreesHold` | `Spec => []TreesAreOwn` |
| `ProcessSupervisorProofs!ExitHeard` | `Spec => []ExitIsLast` |
| `WindowTurnProofs!TypeCorrect` | `Spec => []TypeOK` |
| `WindowTurnProofs!MappedHolds` | `Spec => []MappedIsComplete` |
| `WindowTurnProofs!SizeHolds` | `Spec => []SizeFollowsWindow` |
| `WindowTurnProofs!ErrorStops` | `Spec => ErrorStopsScript` |
| `WindowTurnProofs!WindowHolds` | `Spec => []WindowIsTrue` |
| `WindowTurnProofs!FramesHold` | `ReplaySpec => []FramesFollowTrace` |
| `WindowTurnProofs!MenusHold` | `MenuSpec => []MenusAgree` |
| `ServicesProofs!RestHolds` | `FlushSpec => []RestIsComplete` |
| `ServicesProofs!FetchHolds` | `WorkSpec => []FetchSettlesOnce` |
| `ServicesProofs!SettledHolds` | `LogSpec => []SettledOnce` |
| `ServicesProofs!OwedHolds` | `TimerSpec => []OwedIsQueued` |
| `ServicesProofs!StreamHolds` | `StreamSpec => []StreamAgrees` |
| `ServicesProofs!DesktopAnswersHold` | `DesktopSpec => []DesktopIsAnswered` |
| `ServicesProofs!FilesHold` | `ReloadSpec => []RunsItsFiles` |
| `ServicesProofs!PlayingHolds` | `AudioSpec => []PlayingIsReal` |
| `ServicesProofs!NoticesHold` | `NoticeSpec => []NothingIsLost` |
| `ServicesProofs!NotificationsHold` | `NotifySpec => []HeardOnce` |
| `ServicesProofs!VibrationsHold` | `PadSpec => []VibrationIsOwed` |
| `InputProofs!QuestionHolds` | `AccessSpec => []QuestionStands` |
| `InputProofs!EditsHold` | `TextSpec => []EditsAgree` |
| `InputProofs!ModesHold` | `ModesSpec => [](ModeIsBacked /\ BaselineIsReturned /\ EntriesArePaidFor)` |
| `InputProofs!DragHolds` | `DragSpec => []DragIsItsOwn` |
| `InputProofs!DispatchHolds` | `EventSpec => []EventsAreHeard` |
| `InputProofs!WrappersHold` | `NodeSpec => []WrapperIsItsNodes` |
| `InputProofs!PointersHold` | `PointerSpec => PointersAreTrue` |
| `ProcessesProofs!BuildsHold` | `BuildSpec => BuildsAreSafe` |
| `ProcessesProofs!StepsHold` | `TestSpec => []StepsAreTrue` |
| `ProcessesProofs!StoredValuesHold` | `StorageSpec => []OldOrNew` |
| `ProcessesProofs!PictureHolds` | `CanvasSpec => []PictureAgrees` |

Each proof has the same shape. An inductive invariant is stated as a conjunction of named parts, was
first checked by TLC on the instance of a run, and is proved of the first state and of each action by a
lemma of its own; the theorem follows by PTL. What the parts add to the property they support:

**Exclusive primary and recovery.** `ExclusivePrimary` says nothing of a process that is about to bind,
so it is not inductive. `ElectionInv` adds that the steps between lock and unlock of the election file
have one performer, that a recovery about to unlink has a path nobody listens on, and that a
listener stays attached to the path until its own drop begins. A bind then finds no other attached
listener, and a removal detaches none; the second is `RecoverySpares`.

**Acknowledged is queued, heard once.** `HandOverInv` follows one stream: it belongs to one listener
from the moment it is connected, only that listener acknowledges it, and only in a state that it enters
by queueing. Queues only move to `taken`, so what was queued stays so (`HandOverMonotone`).
`DeliveryInv` adds that a call has one place between its connection and its log: it is logged at most
once, what is accepted was connected, and what waits or is served has not been queued before.

**The sockets implement the lock.** Under the mapping of `ImplementsLock` each action is a step of
`InstanceLock` or a stutter: a bind claims it, leaving the listener's loop, failing to serve and the
end of the process give it up, queueing an invocation accepts it, and a request that returns `false` is
told so; taking an invocation from a queue is a stutter. The
invariants above give the guards of those steps. Only where the name goes first is the holder free
at the moment the path is, so the theorem has `~CloseFirst` as hypothesis, which is one of the two
orders the code may have; the finding of section 4 is what the other does.

**One worker.** `WorkerInv`: a worker that runs is that of the opening which has the device, or of
the one being joined; a device is given away only while it has neither.

**Own answer.** Ids restart at one on each reload. `ChannelInv` says that everything that may still
be answered, in seven queues and tables, was numbered since the last reset (`Numbered`), and that
mailboxes of workers that have gone are empty. The reset is safe because by then every worker has
been joined. The steps share one lemma, `CarriedKeeps`: a step that numbers nothing anew keeps the
invariant when it moves requests between places.

**Own children, registered handles, dead trees.** `OwnInv`: what is pending was begun in the present
generation, and an answer only makes a handle of what is pending. `RegistryInv` places the supervisor:
between registration and removal its entry is there unless a reload has taken it, and neither an answer
in the queue nor a handle is ahead of `announce`. `TreeInv`: the root is reaped before the readers are
joined; when the entry is removed the group is emptied, if the entry is still there; an exit in either
queue carries that fact with it, and a group without a root does not fill again. Where a reload took
the entry, no handle is left to hear of the exit (`OwnInv`), which is why the facts about `report` and
the queues are conditional on the generation.

**The exit is last.** `OrderInv` follows each chunk from the tree through the reader, the queue and the
microtasks to the listeners: the concatenation of what was heard, is in a microtask, is queued and is
still to be read counts up without a gap, and an exit stands behind all of it. It needs the reader to
have been joined before the exit is queued, and the listeners to be installed by the reaction of the
spawn, which is the first microtask of its batch.

**Mapped is complete.** `RevealInv`: what held when a redraw was prepared as the startup frame
(visible, loaded, renderer active) lasts until its paint, whatever script runs in between. Only the
error and the critical resources can change, and `finish_startup_reveal` looks at those two again.

**Size and error.** `SizeInv`: unless the platform has overtaken script, the newest size is in
`claimed`, else in `pending`, else in `viewport` (`Newest`), and what was applied last is the viewport,
which is what makes it right to skip a size that equals it. At the end of a pump without an error the
first two are empty. Each callback asks for a parked error before it runs script, except the tasks
between two pumps and the reload; the clause of `SizeInv` that no error is parked there closes the gap.

**Layout.** `MarksAreKept`: each kind of change that waits to be seen has left its own mark (a
revision, a count, a theme, a hint, a flag), and a flush under way sees what is marked; only a
settlement in its last pass is left over. `SurfacesAreKept` ties widgets and states to the canvases of
the document until its structure changes.

**Fetches and requests.** `WorkInv`: a call has its outcome on one way only, with the host, in the
queue or in the batch of the frame, which settles to the end before anything else happens in it.
`LogInv`: whoever took a handler still has to settle it or has settled it once (`TakersSettle`, a
cardinality), what a stop found in flight is taken or still on that stop's way, and a URL is loading
only for a request nobody has settled.

**Timers.** `TimerInv`: no two tasks come of one call, and the identifier of the interval that runs is
given to no other although it is in no queue.

**Events of a stream.** `StreamInv`: heard, batch and queue, one behind the other, are increasing and
below what the server sends next; the last record that tells a state tells the transport's.

**Dialogs and hand-offs.** `DesktopInv`: a surface's count is the cardinality of its threads before
their decrement, a pending promise has a thread before its answer or its answer queued, and what a loop
about to rest has found so far stays so while it asks on.

**Questions.** `AccessInv`: until a dialog that was asked for is shown, the prompt waits with its grace,
or has lost the focus to another that is up. Without the clause about the other dialog the invariant is
not inductive.

**Texts.** `TextInv`: while nobody has rewritten the value, the history is a chain that ends at what the
control holds, at the baseline while a preedit is composed and at the value otherwise; the default
action that waits for its listeners says whether it is stale.

**Builds.** `BuildInv`: what a build is about to write held nothing, or its own, when it was looked at
(`LookedAt`), and a development bundle is as far as its stage says (`BundleAsFar`); a crash between two
stages leaves a stamp only behind a signature.

**UI tests.** `TestInv`: what was performed, the request of the loop and the lines of the pipe are one
increasing sequence, and an answer on its way is of a request that was performed.

**Reloads.** `ReloadInv`: unless a document is due or could not be loaded (`DocumentDue`), the
window's document is that of the scripts, and each file it shows is up to date, waits in one of the
stages of a change, is in the batch and not yet refreshed by it, or was given up (`ShownSoFar`).
That links are only swapped by a batch of sheets is what makes its end harmless. The proof uses one
closed fact that only TLC can compute, since a fold walks the segments of a specifier: the modules
of the model's document are scripts (`UrlAssumption`).

**Modes of the window.** `ModesInv` adds to the three claims themselves only the types and
`PendingIsAttached`: the element of a request that waits is in the document, since one that leaves
takes its request along. A release the page asks for lets go of the host's half in the same step
(`ReleasedKeeps`); one the host starts puts its news behind the input that waits, and only hearing
it takes the news away, together with the page's half (`HearKeyModes`).

**The store.** `StoreInv` describes the writes a process has left without recalling how they came
about (`Left`): first those of a rebuild, which only take away what cannot be read and end with the
index that names what can, then at most two of the operation itself. Each first write of such a list
leaves every key readable as before or as it is to become, and leaves such a list (`WriteKeeps`), so
the state is good wherever the process fails or dies.

**What a document hears of its devices.** `PerformedInv` is the unconditional half: an answer on its
way says of a transfer only what the device has done, and the controller itself answers only opens,
closes and transfers nobody will carry out (`CloseInv`). The other half holds until a read fails,
since the disconnect of a failed read can be lost (section 4), and needs `Truth`, stated over one
view of the queues (`Commands`, `Frames`, `Polled`) that hides whose batch the UI thread is working
through. A live or granted handle is the one the controller has its device open for, except what a
failed reload left behind, whose device nobody opens until it is closed (`HostInv`). That rests on
the order of what was asked: no open comes before a close that would shut down the worker it starts
(`Passes`), and a waiting open is not asked again (`AskedInv`). What a joined worker had signalled
is polled in the same pump as its close, so the frame that settles a later open of the device takes
those reports in one batch with the answer or an earlier one, and they are dropped before the
reaction that makes the new handle live (`InputInv`); those of its own travel in order (`OrderInv`),
and every one read after a report that is heard or on its way is on its way too (`GapInv`), so the
next one delivered is the next one read.

**Folds.** The code's loops over a list are folds in the models, and a fold is the function that its
definition chooses on the numbers up to the length. `FoldTheorems` proves, by an induction over a set
of naturals (`SetInduction`, from the well-foundedness of `<`), that there is such a function
(`FoldExists`), and with it what the proofs need: the values after each element, one step at a time
(`FoldSteps`), stay in any set that each step keeps (`StepsStay`); and `ItemsIn`, which says what
`retain` and `filter` leave, returns items of the list only, in their order, and all that qualify
(`FilterKeeps`, `ItemsAreKept`), the first ones if those are the first (`FirstAreKept`). A loop is then proved about as an action is: one step keeps a set of
states, so its end is in it.

**Audio.** `AudioInv` adds the load's way from the worker to the page: an ended load is queued once
for the poll, and a play waits for a load that is owed or whose promise still goes on. The host's count
of sources is a cardinality, so a step that starts or reports a voice changes both by the same one.

**Drags.** `DragInv` reads the batch under dispatch and the queue behind it as one line. Every move in
the line is of the drag that goes on or has the end of its drag behind it (`MovesAreFollowed`), which
survives that a newer move takes out the older ones, since an end is never taken out.

**Dispatch.** `GoodEvent` follows each dispatch under way through its turns: who has heard it, who waits
in the snapshot of the turn, and that nobody known was skipped up to there; edits of a list between two
calls change the listeners and not the snapshot. The list of a target has each of its listeners once
(`ListsAreKept`).

**Taps on Android.** `ConsumedIsTaken` ties the store's memory to what was taken; a tap in the store that
is not fresh was taken by an earlier run, which is why dropping it loses nothing.

**Notifications.** `Apart`: an activation is in one place only: on the screen, reported and on its way,
in the file, in a watcher's hands, in the queue of the page, or heard; of the first three none is in
the memory of what came before. Only the latest envelope may be offered again, by a
command line: once it is queued or heard it is remembered, and it is remembered only while the file
is empty (`LatestIsKnown`); the memory keeps at least one. Each loop (the file's activations, the watchers'
signals, a command) hands on to the page what it took and nothing else (`Tells`, one step).

**Vibrations.** `PadInv`: a promise has its command in the queue, an effect, or an answer. The loops of a
frame (reports, effects that are over, controllers that left, answers) only move a command from one
of the three to the next (`Owed`); a command superseded on its controller is answered in the same step.
A command is identified by its id and its promise, since ids begin again, and is in one of the three
places and once there (`Everywhere`), so that no two of its ends answer it.

**Wrappers.** `NodeInv`: the count the backend has for a node is the cardinality of the node's wrappers that
are not released, whether the table still finds them, script holds them or their finalizer is still to
come (`CountsAreTrue`), and a node that is counted exists. A release of a wrapper that was replaced
meanwhile takes one of two away, so the node of the other stays. Moving children is a fold of moves of
one node, each of which keeps the tree, its parents and the counts.

**The canvas.** `CanvasInv` says of the batch what its replay would leave: replaying `s` and then `t` is
replaying `t` from where `s` ends (`ReplayGoesOn`), so a call appended to the batch goes on from the state
of the calls before it, and a batch that is cut off leaves its picture on the surface. `Renders` relates
the page's idea of the clips to the layers of the replay: those open at the end of the batch are the
first `applied` ones. `SavedAgree` adds that each saved state has the first clips of the list, no more than
the state above it, which is what lets a restore close layers and nothing else.

**Frames of a replay.** `ReplayInv` ties the page to the stage it is in: what owes an outcome and what
waits for a tick, with what was heard of either kind, is all that was asked for and not cancelled, each
in one of the three (`Stands`), and everything that waits is due in the next frame whose stage is
still to come (`NextSettle`, `NextTick`). Inside a stage the same holds of the document after each call
(`Good`), with the images or callbacks of the frame that are left as a third set that the loop empties;
a callback cancelled by an earlier one leaves that set at the same moment.

**Pointers.** `PointerIInv`: the inputs of the queue, or those of the batch, since one of the two is empty
(`OneIsEmpty`), are in the order of their reports and of ids the present document may hear
(`InReportedOrder`); coalescing takes an older move out and puts the newer one last, so it keeps both.
A button the page holds went down where the last press was heard (`PressesWereHeard`), and the dispatch under way is of the first input of the batch (`TurnIsFirst`), which
puts what it tells ahead of all that waits.

**Menus.** `SurfaceAgrees` asks what the document *will* know of a menu once all that is on its way is
learnt: the messages of the channel, then the signals of the tray. That is what the menu shows, but for an
item with an event that nobody claimed yet (`AgreesWith`), where muda is ahead of what it reported. Claiming
the events is a fold: each event makes its menu's radio group and the document's one choice, and its signal
carries the box as it is now (`ClaimedSo`), so two clicks on a box are told twice and agree. A replacement
takes the signals along and answers with the menu itself. Of a document that has lost something (`misled`)
nothing is claimed until an answer carries its menu.

### What stays with TLC, and why

- **Liveness** is out of the prover's reach: `ChildrenSettle`, `CommandsSettle`, `WindowProgresses`,
  `RequestSettles` in `ModesAgree`, `RequestReturns` and `ReleaseReturns` in `InvocationsAreServed`.
- **`PortsDeliver`** is about maps that grow by name and about folds inside folds, whose results depend
  on the position of each element and on several selections at once (`FlattenSeq`, `SetToSortSeq`). The
  theory of section 5 reaches one fold at a time; nothing is proved of these compositions.
- **`LinkedIsFound`** compares a reader with a writer of the same bytes: what it says is a computation
  over data, not a fact about steps.


## 6 What is not modelled, and what is assumed

- **External code** is modelled from how this repository uses it and marked in the map: the kernel's
  sockets, locks, pipes and process groups; winit's order of callbacks; blitz-shell's handling of a
  close; the resource loader; Bun's fetch, sockets, workers and timers; the notification services,
  dialogs and controllers of the platforms; the disk; the application's own scripts, which may do
  whatever the APIs allow.
- **Not modelled**: desktop appearance (a watcher thread and a comparison), style and layout (large
  sequential transformations, covered by conformance tests), the engine boundary (conversions, one
  call at a time), the test-only engine. What is left out of a component that is modelled in part
  is named with it in `PROJECT.json`, among it: the Windows halves of the lock and of child processes,
  HID enumeration, hover and cursors, composition on the way to the window modes, selections and form
  submission, named events of a stream, audio graphs, pixels and paths, and nested workers.
- **Standard error** of a child is a second stream like standard output. The exit of the whole
  process is not modelled: nothing is observable after it.
- **Data** is abstracted: an invocation is the call that sent it, a report, chunk or event is its number,
  a size is a name, a file is its version, a text is a short sequence of letters, a drawing call is the
  mark it leaves, a binary is a sequence of cells, script is the set of its effects.
- **Components are checked apart.** Those that share a run share no state; where one relies on another
  (the reload's order, the frame turn, the command channel) the module has the part of the other it
  needs. `WindowTurn` has the turn itself.

## 7 Plan

Done: the modules of section 2, their runs, the theorems of section 5.

1. **Models**: composition of an input method through `TextControls` and the keyboard queue; HID
   enumeration with hot-plug; the permission half of desktop notifications.
2. **Composition**: the command channel as an abstract specification that `HidSession` and `Gamepads`
   implement.
