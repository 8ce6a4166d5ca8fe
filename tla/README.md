# A TLA+ verification of OBS Nyan Real 3DoF

The plugin turns 3DoF glasses (XREAL, Rokid, VITURE, RayNeo, Epson Moverio) into
a view onto a wall of monitors inside OBS. Almost all of its difficult behaviour
is concurrent: a detection thread and a device thread, a small WebSocket server
with one thread per connection, OBS's graphics and UI threads, UI Automation's
threads, detached timers, and a browser extension that is itself a set of
event handlers split at every `await`. The modules here model that behaviour;
TLC checks them on small instances and TLAPS proves the most important safety
properties for every size.

Paths below are those of the repository (`src/...`, `tools/...`).

1. [The system](#1-the-system)
2. [The modules](#2-the-modules)
3. [The runs](#3-the-runs)
4. [Fairness](#4-fairness)
5. [What is proved](#5-what-is-proved)
6. [Where the code and its documents part](#6-where-the-code-and-its-documents-part)
7. [What is not modelled](#7-what-is-not-modelled)
8. [Plan](#8-plan)

## 1. The system

### Components, their state and operations

| Component | Code | State it keeps | Operations |
|---|---|---|---|
| WebSocket server | `src/core/ws_server.cpp` | list of connections, a thread, a socket and a `send_mutex` for each, `conns_mutex`, `stopping` | `start`, `stop`, `send_text`, `close_conn`; accept loop, frame loop, teardown, reaper |
| Phone remote: sessions | `src/core/remote_control.cpp` | the token, the server's and the page's copy of it, the client list, the bind throttle | `remote_control_sync` (polled), `rotate_token`, `shutdown`, `on_open`/`on_text`/`on_close` |
| Phone remote: input | the same | `button_down`, the user's clipboard while a text is pasted | `inject_button`, `release_held_buttons`, `inject_text` and its restore thread |
| Phone remote: mirror | the same | `sent_distance`, `cfg_cache`, `edit_focused` | `broadcast_state`, `on_open`'s frames, the poll's drift check and settings push, the focus watch |
| Device link | `src/core/device_manager.cpp`, `src/core/transports/*` | `detected_model`, `connected`, `reconnect_epoch`, `stop`, the pose, the address settings | detection scans, one session function per family, `set_network`, `reset_defaults`, `recenter`, unload |
| Audio wall | `src/platform/obs/audio-wall-source.cpp` | captures, browser streams, excluded browsers, the active-children latch, the dialog's dirty flag | poll thread, `wall_tick`, WebSocket callbacks, show/hide, switching the group on and off |
| Browser extension | `tools/chrome-extension/*.js` | per tab: port and local fallback; service worker: `ws`, `wsReady`, streams, timer | `ensureAudio`, `ensureWs`, `sendMeta`, socket events, worker restart |
| Display wall | `src/platform/obs/display-wall-source.cpp` | the layout, its signature and generation, the children; the request to resize OBS's canvas | `rebuild_display_wall`, `display_wall_tick`, `sync_obs_output_size_ui` |
| Wall layout | `src/core/wall_layout.cpp`, `src/core/monitor_enum.cpp` | none | filters, focus, rows, `compute_rows_layout`, `compute_windows_layout` |
| Head tracker and pose | `src/core/head_tracker.h`, `src/core/device_manager.cpp` | calibration window, mount and its override, field of view, viewer offset | samples and poses published, recenter, recalibrate, dolly steps, model changes |
| Device commands | `src/core/transports/*`, `src/core/device_manager.h` | a request and a current value per row, MOVERIO's convergence | the dock's and the phone's requests, the sessions that take, send and verify them |
| Dock poll | `src/ui/dock.cpp`, `src/app/obs/dock_host_obs.cpp` | the latches of the monitoring device and of the projector, the tracked windows | `refresh`, the rows of dock and phone that it answers |
| Filters, cursor fence, byte formats, other settings | see section 7 | | |

### How they interact

* `ws_server` is used twice: by the phone remote and by the audio wall's ingest
  for the browser extension. Its header promises a life cycle of callbacks;
  `WsContract` states that promise, and both users rely on nothing else.
* The phone remote's callbacks run on the server's connection threads; its poll
  runs on OBS's UI thread (the dock's timer) and calls back into the server
  (`close_conn`, `send_text`, `stop`).
* The phone and the dock both write the device settings. The device thread reads
  them through atomics and `settings_mutex`.
* The audio wall's poll thread, the graphics thread's tick and the connection
  threads meet in `children_mutex` and `ws_mutex`.
* The display wall is rebuilt on the graphics thread and sizes the canvas by a
  task on the UI thread; no lock is between them.
* A row of the dock or the page leaves a request in an atomic; the session of the
  glasses takes it, or the dock's poll does (projector, monitoring).
* The dock's timer runs one poll after another on the UI thread: rows, outputs, and
  last `remote_control_sync`.

### What is hard, and what must hold

| Component | Hard behaviour | What makes it correct |
|---|---|---|
| WebSocket server | blocking sends under locks, `stop()` against the accept thread, a socket number the system gives out again, callbacks that call back | nothing is used after it was closed or freed; `stop()` is complete and returns; every `on_open` has its one `on_close` |
| Sessions | two phones at once, restarts, a busy port, a failing generator, rotations inside a throttle | one session survives; a revoked token is dead; the client list is true; silent clients leave |
| Input | drops in the middle of a drag, evictions, texts in quick succession, clipboards held by others | no button stays down; drags are not cut; what is typed is what was sent; the user's clipboard comes back |
| Mirror | frames composed on four kinds of threads and sent in any order | what a page shows wrongly is something the next poll repairs |
| Device link | unplugging and plugging between two scans, edits during an open, recenter during a session's tail | the pose says "connected" only if it is; no session reads from a replaced address; losses are noticed; unload joins |
| Audio wall | streams that start, end and time out under the poll and the tick | each source is registered with OBS exactly once; a browser is heard once; switching off returns |
| Extension | two `ensureWs` under way, sockets that close in any order, worker restarts | a tab is heard from exactly one place; no stream outlives its page |
| Display wall | monitors that change during a rebuild, captures kept from one layout to the next, a timer that races the task | layout, captures and canvas follow; no request is lost; a live output's canvas is left alone |
| Wall layout | gaps, excluded displays, displays that start between others | captures do not overlap and stay inside the wall |
| Head tracker, pose | a 32-bit clock that restarts with the stream; a model change while the last session still publishes | a bias comes from a whole window after a whole warm-up; new glasses get their own centre, mount and field of view |
| Device commands | glasses asleep, unplugged or exchanged between request, command and query; one command that changes another value | the last choice wins; what is shown is theirs; a convergence that was moved is put back |
| Dock poll | endpoints and displays that come and go, phones that write between two reads of one poll | monitoring follows the endpoint; no projector stays on the desktop; automatic means once |

## 2. The modules

Variables carry the names of the code's fields. One action is what a thread does
between two accesses to something shared: from one atomic access, lock
acquisition, blocking call or `await` to the next. A definition named
`X_Something` next to `X`, marked `mutant`, is what a plausible slip in that line
of the code would make of `X`; it is there to show that the property named for
it would notice, and is part of no specification.

**Conditions in properties.** Where the code really loses something in a rare
interleaving (section 6), the model keeps that interleaving, and a *history
variable* records that it happened: `crossed`, `mixed`, `slow`, `hindered`, `missed`, `doubt`, `held`, `refused`. The
property then says: outside those histories this holds. So each condition is a
precise statement of when the code keeps its promise; nothing is hidden by a
model that cannot do the bad thing.

### WsContract, WsServer

`WsContract` is what `ws_server.h` promises: `new -> opening -> open <-> reading
-> closing -> closed`, each between `Start` and `Stopped`. `WsServer` is
`ws_server.cpp`: the accept loop (`accept, accepted, reap, push, spawn`), each
connection thread (`request`, `answer`, `on_open`, `frames`, `pong`, `bye`,
`teardown`, `on_close`, `exited`), `stop()` step by step, and every caller of
`send_text`/`close_conn` (`list`, `conn`, `send`), which may be another thread,
the owner, or a callback. `conns_mutex` and `send_mutex` name their holder where
the code blocks while it holds them. A peer is `reading`, `stalled` (its window
is full: a send does not return) or `gone`. The bytes of the upgrade request and of
frames are the cases the code tells apart. `ImplementsContract` is the refinement:
`up <- owner # "stopped"` and `life[c] <- LifeOf(c)`.

`OwnerQuiesces` says that the owner joins its outside caller (the UI Automation
thread) before `stop()`, as switching the remote off does; `PeerStalls` lets peers
stop reading. `accept()` may fail at any time, which ends the accept thread. Simplification:
the shutdown loop of `stop()` is one step; the code goes from one connection to the next under
`conns_mutex` and does not take `send_mutex`, so that a `shutdown` may meet a socket that a
teardown closes. Socket numbers are not recycled by the model; `NoSendOnClosedSocket` states the discipline
that makes recycling harmless.

### RemoteControl

Who may be connected: the poll (`SyncOff`, `SyncNoToken`, `SyncRestart`,
`SyncEvict` and what follows), token rotation, the settings the dock, a settings
reset and a scene collection change, and the callbacks, on the life cycle of
`WsContract`. Switching off and restarting are in pieces: the client list is cleared
(`ClearConns`), and `stop()` begins afterwards (`StopOld`); in between a session may open, find nobody
to evict and live beside the old one until `stop()` ends both. `missed` is a connection that `stop()`'s
shutdown loop did not find (`WsServer_stop`): it may open while the server stops, and only its peer ends
it. Time is two facts: who has been `quiet` for longer than the idle
timeout, and whether the bind throttle has run out. Tokens are numbers; that a new
token never equals an old one is how the generator is meant.

### RemoteButtons, RemoteClipboard, RemoteInput

`RemoteButtons`: `inject_button` is a store to `button_down` and then `SendInput`;
`release_held_buttons` is load, store and `SendInput` per button; `os_down` is what
the operating system has, `finger` what the page has. `RemoteClipboard`:
`inject_text` saves the clipboard, sets it, presses Ctrl-V and spawns the thread that
puts the saved text back; the target application reads its pastes in its own time. Setting
empties the clipboard first, so a failure after that leaves it empty, without a restore; a restore may
fail likewise. The user, or any program, may copy at any time, within the 400 ms too. `hindered`
records a clipboard that was held or left empty, `mixed` a text or a copy that came while another text
was under way, `slow` a restore that came before the target had read its paste.
`RemoteInput` composes the two: a session thread handles one message at a time.

### RemoteMirror, DockOutputs, DockPoll

`RemoteMirror`: the two kinds of frames, `state` and `cfg`, from composing to arrival at each page;
`on_open`, the poll, `"dist"` messages and UI Automation's callbacks as their
senders. `doubt` marks, per aspect (distance, focus, settings), a frame that was
overtaken by a newer one or whose distance the poll does not know of. The settings
snapshot is one value.

`DockOutputs`: `refresh()` read by read, as far as it keeps the device OBS monitors on and
the projector on the glasses. `applied` is the two latches, `row` what is left of a phone's
row of three stores, `where` the place of each projector window, `tracked` the host's
`g_tracked`. The world is endpoints, the display and Qt's later knowledge of it, sources,
and a user who opens and closes projectors or names another device in OBS. `missed` records latches
that stand for something that was gone for less than a poll or was changed by someone
who does not re-arm; `occasion` that there is a reason to open automatically. OBS may refuse the
device it is given: the latch stays off and the next poll tries again.

`DockPoll` composes them: the poll's last call is the mirror's, both run on the UI
thread, and a phone's row is set by its connection thread, one thing at a time.

### DeviceLink

Both threads, the setters and the seven session functions, which have one shape and
differ in three attributes (`endpoint`, `watchdog`, `hangup`). The steps of a
session's open, loop and tail are the code's accesses to `connected`, `stop`,
`reconnect_epoch`, `detected_model` and the pose. A read may fail with the glasses plugged in. `connect_enabled` is left out:
nothing in the program can switch it off.

### AudioWall, BrowserAudio

`AudioWall`: regions under one mutex are steps. `refs` counts OBS's registrations
of each source, `latch` is `active_children`. While the server of a wall that is switched off
stops, a connection may still be admitted (`missed`). A changed port, for which `wall_update` restarts the
server, is left out; `Refresh` reads `wall->audio` and uses it in one step. `BrowserAudio`: content scripts and
the service worker, every handler split at its `await`s, and the wall reduced to the
streams it has. Port messages keep their order. Worker restarts clear the worker's
state and cut the ports, as the browser does.

### WallLayout, DisplayWall

`WallLayout` has no state: the operators that turn monitors, a style and a focus into
the wall's size, a place per monitor, and the keep-out marks of excluded displays. Filters
and rows are sets of ids and sequences of numbers; what words match is left out.
`DisplayWall` applies them: a rebuild reads signature, generation, monitors and focus one
after the other, `Ensure` keeps the children or creates them anew (`carried`: the layout
they were made for), and `Layout` is what is laid out; width and height are then stored one by one and the
size sync is asked for. `Signature` has of each monitor what `monitor_topology_signature` has: the rectangle, the
GDI name and which is primary. The UI task reads width and height one by one and races the tick, and the
rebuilds, on the size, the timer and the request; `Reset` may be refused by OBS.

### HeadPose

Calibration as a window of samples on a clock modulo `Wrap`: warm-up, count, length,
motion. Around it what is stored access by access: the detection thread's model change,
override, reset and field of view; a session's stream, the RayNeo board's mount; the user's
recenter, recalibration, automatic field of view and reset; the phone's dolly step. A session
may outlive its glasses and publish one more sample, or mount. The three coordinates of the viewer's
offset are one value: a recenter clears them in one step (`ClearOffset`) and a dolly step reads, and stores, them
in one (`DollyStep`), where the code has three accesses. The user of dock and phone is one thread. `past` records each value that
was stored after what it had been read from changed. `WallLayout` and
`HeadPose` have no floating point: an offset is a number of steps, a window is at rest or not.

### DeviceCommands

One kind of request each for display mode, brightness, automatic brightness and the Eye,
and MOVERIO's convergence, for the five command families. `request`/`current` are the atomics, `take`/`val` the session's
locals between exchange and report, `dock`, `open`, `list` and `focus` the rows. `blind` records
a command or query without an answer; `wanted` the last choice that was not lost with the
glasses.

## 3. The runs

Every run explores its whole state space. "Model values" are all that the sets of
nodes hold; symmetry is used where the elements are interchangeable and no liveness
is checked.

| Run | Instance | Shows |
|---|---|---|
| `WsServer_safety` | 2 connections, 1 outside caller, peers may stall | `StopLeavesNothing`, `NoSendOnClosedSocket`, `NoUseAfterDelete`; refines `WsContract` (`ImplementsContract`) |
| `WsServer_live` | 2 connections, callbacks that call in, peers that read, fall silent or leave | `StopReturnsUnlessMissed` |
| `WsServer_stop` | 1 connection | **violated:** `StopReturns` |
| `RemoteControl` | 2 phones, 2 tokens | `RevokedTokenIsDead`, `OneSessionSurvives`, `ClientsAreSessions`, `SilentClientLeaves` |
| `RemoteInput` | 3 sessions and 2 buttons, or 2 texts and 2 copies | `NothingStuck`, `TypedAsSent`, `ClipboardComesBack` |
| `DockPoll` | 1 session that comes and goes, 1 UI Automation thread, 2 values each; or 2 endpoints; or 2 windows and a display | `PagesInStep`, `ReadoutCatchesUp`, `MonitoringFollows`, `NoneLeftOnDesk`, `AutoOpensOnce` |
| `DeviceLink` | the One (TCP) and a HID family with a watchdog, 2 setters, 2 addresses | `PoseTellsTruth`, `AddressIsCurrent`, `LossNoticed`, `UnloadReturns` |
| `DeviceCommands` | each command family alone, two exchanged for each other | `CurrentIsTheirs`, `LastChoiceWins`, `ConvergenceFollows` (which has `ConvergencePutBack`) |
| `AudioWall` | 1 browser, 1 connection, 1 stream, exclusion on and off | `RegisteredOnce`, `SwitchOffReturns`, `ExcludedNotCaptured`, `AppsCaptured` |
| `BrowserAudio` | 1 tab, 2 ports, 2 sockets | `HeardFromOnePlace`, `TabsReachTheWall`, `StreamsEnd` |
| `DisplayWall` | 7 desks for the races; every arrangement of three touching screens in 8 styles for the layout | `NothingForgotten`, `WallTiles`, `EachInItsPlace`, `WallFollows`, `CanvasFollows` |
| `HeadPose` | 4 models of 3 families, a clock of 16 ticks | `CalibrationSettled`, `SquaredUp`, `SettingsFollow`, `GlassesCalibrate` |

The type invariant of a module is proved in its proof module, for all sizes. `DeviceCommands`,
`RemoteButtons`, `RemoteClipboard`, `RemoteMirror` and `BrowserAudio` state one that their runs, which are near the limit of
what TLC explores in minutes, leave out.

### The bounds, and why they are enough

* **Two connections** in `WsServer`: each property is about one connection and
  whoever else holds a lock it wants; the second connection, the outside caller, the
  accept thread and the owner are all of those. `CallsPerCallback` 1: a callback's second call
  begins where the first ended, and other threads' steps are between them in any case. The proofs have no bound.
* **Two phones, two tokens** in `RemoteControl`: eviction is a relation between two
  sessions, a rotation one between the old token and the new. Connections are used
  once per server run and again after a restart.
* **Three sessions** in `RemoteInput`: one that evicts, one that is evicted, and one
  that comes when all is quiet, which shows that `crossed` ends. Two texts mix, or each
  comes alone; two copies so that the user copies within a paste, a history may end, and the next begin. `Histories` keeps buttons and texts in separate histories: they share only
  the thread, and the proofs have both at once.
* **One session, two values** in `DockPoll`: a page is told nothing about other
  pages; two values are enough for "changed" and "changed back". `Moves` separates
  histories in which the distance changes from those in which the focus does, as they
  are compared independently; settings change in both. `Stirs` separates the two outputs
  from each other and from the mirror: they share the order of the poll and no variable. The
  world of the outputs starts to move once the session is open, and the mirror's last call,
  which then has nothing to send, is passed over.
* **Two endpoints** are the glasses' and another; **two windows** one that the dock opens
  and one of the user's. With none to spare, a window that already lies on the desktop is
  forgotten.
* **`MaxEpoch` 1** in `DeviceLink`: an edit while the session, or the other setter's
  edit, is at any place; `Patience` 1 is the watchdog's time. The type invariant and
  the safety theorems hold without these bounds.
* **`MaxSid` 2** in `BrowserAudio`: one tab that opens its port, loses it to a worker
  restart and opens the next; **two sockets** are what two `ensureWs` calls make.
* **Seven desks** in `DisplayWall`: a screen that comes and goes, one that changes sides, one
  exchanged for another of another size, one for a twin with the same signature, a shut lid, a screen alone
  that differs from the panel on both sides, so that a torn size is of neither. `Histories` says which desks, styles and events a
  history has: focus and failing captures without the sync; the sync with outputs, with
  edits, with both, and with a refused reset. A rebuild hands the sync a size and nothing else. For `WallTiles`
  desks stay as they are, and there are 244 of them.
* **`Wrap` 16, `Warmup` 2, window of 3 samples and 3 ticks** in `HeadPose`: streams start at 14, so that the clock wraps within a
  warm-up or a window, and steps of 3 and 8 skip the ends. `MaxOffset` 2: one step
  before and one after what crosses it. `SquaredUp` is proved without these bounds.
* **Two values** of each kind in `DeviceCommands` are a choice and its change; the distances' two
  shifts differ from each other and from the factory's. A history asks for one kind, or for
  brightness and its automatic, whose commands touch each other.

Deadlock is not checked: an idle server, an unplugged device, a closed browser may
stay so for ever.

### The mutants

For each property there is a mutant of the code's translation that violates it: for
instance `SendFree_No` (teardown does not take `send_mutex`), `OldSessions_None`
(`on_open` closes nobody), `Closing_PoseFirst` (a session's tail clears pose and flag
in the other order), `SendAllMeta_Not` (a socket that opens leaves the tabs to their next start).
They are
defined beside what they mutate.

## 4. Fairness

* `WsServer`: strong fairness for each server thread's steps, since a thread that waits for a
  mutex again and again gets it in the end; no failure of `accept()` is demanded while its listener is open. Nothing is demanded of peers: they may say
  nothing for ever; that a send ends is assumed only where `PeerStalls` is false.
* `RemoteControl`, `DockPoll`: weak fairness of the poll (the dock's timer never
  stops while the dock exists), of each connection thread and of each broadcast that
  has begun. Phones and users owe nothing.
* `DeviceLink`: each of the two threads and the unload go on; setters that have begun
  finish. Reads and opens return by their timeouts, which the code sets; MOVERIO's Sensor API has
  none (`moverio.cpp:713-714`), but its family is not in the run.
* `AudioWall`: the poll thread, the tick, and the closes of the connections that a stopping server
  shut down; not of one it missed. Applications,
  browsers and the user owe nothing.
* `BrowserAudio`: messages arrive, awaits end, timers fire, and a stream that gets no
  sound has been silent for five seconds at some time. Tabs and the server may come and
  go as they like; the properties say which of them must stay.
* `DisplayWall`: strong fairness of refresh, update, timer load and expiry, since each is
  retried at every tick and may be disabled by another in between; weak for the rest.
* `DeviceCommands`: a session's loop goes round, its rate limit ends, and the dock polls.
* `HeadPose`: the two threads go on, what a user began is finished, and a stream that is open
  keeps sending (strong, since each sample needs a read before it). The wearer and the user owe nothing.

## 5. What is proved

`X_proofs` extends `X`; `Device_proofs` extends `DeviceLink` and `DeviceCommands`. All of it
is for every value of the constants that satisfies the named assumption of the module, which
says that the sets are disjoint and the bounds numbers, and in three places a little more:
`MinSamples` is at least 2 (the code has 12), `Shift` is between -32 and 256 (the clamp of
`convergence_shift_px`), and `Desktops` of `DisplayWall` says that the monitors of a desktop do
not overlap and lie where a LONG reaches (Windows sees to both) and that the settings are
within what `display_wall_update` allows: no gap below 0, one column at least.
Every safety invariant of the passing runs is a theorem.

| Theorem | Module | Statement |
|---|---|---|
| `TypeCorrect`, `ObjectsOutliveTheirUse`, `NoSendAfterClose`, `StopIsComplete` | `WsServer_proofs` | types, `NoUseAfterDelete`, `NoSendOnClosedSocket`, `StopLeavesNothing`, for an owner that ends its outside callers (`OwnerQuiesces`) |
| `Refinement` | `WsServer_proofs` | `Spec => Contract!Spec` |
| `TypeCorrect`, `NewestSessionWins`, `ClientListIsTrue`, `RevocationHolds` | `RemoteControl_proofs` | types, `OneSessionSurvives`, `ClientsAreSessions`, `RevokedTokenIsDead` |
| `NoButtonStuck`, `TextsArePastedAsSent`, `UsersClipboardComesBack` | `RemoteInput_proofs` | `NothingStuck` (and that drags are not cut, `DragHolds`), `TypedAsSent`, `ClipboardComesBack` of the composition |
| `PollIsTheMirror` | `DockPoll_proofs` | every step of the composition is a step of `RemoteMirror`, or changes nothing of it |
| `MirrorTypeCorrect`, `PagesStayInStep` | `DockPoll_proofs` | types of the mirror, `PagesInStep` |
| `DockTypeCorrect`, `NoneIsLeftOnDesk`, `MonitoringIsFollowed`, `OpensOncePerOccasion` | `DockPoll_proofs` | types of the outputs, `NoneLeftOnDesk`, `MonitoringFollows`, `AutoOpensOnce` |
| `TypeCorrect`, `PoseIsTruthful`, `SessionsFollowTheAddress` | `Device_proofs` | types of the link, `PoseTellsTruth`, `AddressIsCurrent` |
| `CommandTypeCorrect`, `ShownIsTheirs`, `ConvergenceIsPutBack` | `Device_proofs` | types of the commands, `CurrentIsTheirs`, `ConvergencePutBack` |
| `SourcesRegisteredOnce`, `ExclusionFollowsStreams` | `AudioWall_proofs` | `RegisteredOnce`; that discovery excludes exactly the browsers that stream |
| `TypeCorrect`, `OneTaskWaits`, `RequestsSurvive`, `OutputsAreLeftAlone`, `CapturesInTheirPlaces` | `DisplayWall_proofs` | types; that one sync task waits at most; `NothingForgotten`, `OutputsKeepTheirSize`, `EachInItsPlace` |
| `WallIsTiled` | `DisplayWall_proofs` | `WallTiles`: whatever layout is shown, of any desktop, style and focus, its captures do not overlap and lie inside the wall |
| `WindowsLayoutTiles` | `DisplayWall_proofs` | captures and keep-out marks of the Windows layout do not overlap, for any monitors that do not, any gaps and any padding |
| `TypeCorrect`, `ViewSquaredUp`, `CalibrationHasItsTime` | `HeadPose_proofs` | types; `SquaredUp`, `CalibrationSettled` |

The arguments, and why an invariant is needed beyond the property:

* **WsServer.** A caller between lookup and send is safe because it holds `conns_mutex`, and
  the reaper and `stop()` change the list only while nobody does. So the invariant says who holds each mutex in
  which place, that a thread in a sending state holds its connection's `send_mutex`, and
  that teardown passes only when it is free. For the refinement the same invariant shows
  that `LifeOf` changes only as the contract allows: `ws_ready` is what tells a thread
  that ends before its upgrade (`new`) from one that had `on_open`.
* **RemoteControl.** `OneSessionSurvives` is not inductive: it needs that the sessions an
  `on_open` has read and not yet closed are those that were listed before it, so of two the later one
  has the earlier one to evict, or has shut it down. It speaks of a server that stays up: from `ClearConns` until
  the server has stopped there is no list to go by, and the invariant is back with the next, empty, server. `RevokedTokenIsDead` needs
  where the UI thread is: after a rotation the sync that runs at once either restarts the
  server with the new token or stops it, and until then `ui` is not idle.
* **RemoteInput.** Buttons: while sessions do not overlap one thread at most is active,
  `button_down` and `os_down` differ only for a `SendInput` in flight, and a lifting thread
  leaves the buttons it has passed up. The part that holds in every history (`Always`)
  is what re-establishes the rest when a session opens with every button up. Clipboard: as
  long as a text is in neither `mixed` nor `slow` its paste is the only one, and the clipboard holds it until it is
  read: no copy and no other text came between, and its own restore waits for the end of the sleep. The user's copy is
  on the clipboard, saved, or waiting to be put back: what every restore thread holds is that copy, unless the
  history is `hindered` or `mixed`; a slow target does not matter to it. That
  the steps of the composition are steps of each part is a lemma of its own; with it the
  two invariants carry over.
* **RemoteMirror** (`MirrorInv`). `PagesInStep` speaks of the moment when no frame is out, and is not
  inductive. `EditKept`: once nobody is about to compose a state frame, every frame under way and
  every page has the flag as it is, or is in doubt, or has a later state frame coming to it.
  `CfgKept`: a settings frame carries what is or was in the cache, the page has the cache's
  or one is coming, and before the first snapshot there is none anywhere.
* **DockOutputs** (`DockInv`). `LatchKept`: a latch that is not claimed by a phone is
  true of endpoint and monitors, so is what the poll has read of it so far, and what it
  found; `missed` takes in what escapes it. `WindowsKept`: whatever the poll once saw on the glasses is tracked, or
  was left where it is by a poll that still closes it. `OccasionKept`: an unlatched opening with a display has its occasion.
  Both invariants are carried over to `PollSpec` by the steps of the composition, which are steps of one part
  and stutter in the other.
* **DeviceLink.** The pose is cleared after the flag, under the lock, so a recenter that
  copied a stale `connected` is overwritten; the invariant ties pose, flag and the place of
  the worker. For the address: an epoch that equals `seen` means no edit since the session read.
* **DeviceCommands.** `CurrentIsTheirs` needs that a session and what it has taken belong to the
  glasses that are worn, and that what is on show belongs to the session's channels
  (`SessionIsTheirs`): then a command changes the answer about another kind only where
  one serial port reports a level as automatic (`AnswersKept`), and there it reads it again.
  `ConvergencePutBack` is the end of a session; before it, the convergence is what the session
  found until it moves it, and `dd` from then on, unless a write was lost (`ConvergenceIsKnown`).
* **AudioWall.** `refs` is a function of latch and life at every step: one conjunct per
  place where a source is made, dropped or handed over.
* **DisplayWall.** The queue flag and the number of tasks agree. What the task has read is the wall's size, side
  by side, and what it decided from it is still right (`Decided`), unless a rebuild has begun to store the sides
  and not yet made its request (`Writing`), which will bring a new one, or made that request within the
  task (`crossed`). `EachInItsPlace`: what a rebuild
  lays out has the order of ids of the children it has kept or made, which `same_child_set` compares.
* **WallLayout.** Both axes are alike: the offset of a monitor grows with the number of
  starts to its left, so where one monitor ends before another starts its shifted image does
  too, and a pair of rectangles that is apart on one axis stays apart on it. In rows, each
  thing in a line starts a gap after the end of the last (`LineGrows`) and all end where the line does (`LineFits`);
  a row is no wider than the content (`RowFits`) and is as high as its highest monitor, so
  a place stays in the band of its row (`PlaceInRow`), and two places differ in the band or in
  the start within it (`RowsTile`). What `FlattenSeq` puts at an index comes from a row and a
  place in it that no other index has (`FlattenSpreads`). Which monitors are laid out is shown to
  be some of those there, each once (`SelectedSome`), in rows that are not empty (`RowsFilled`). No induction theorem of the library
  can be instantiated here; `Least` says that a set of numbers with a member has
  a least one, from which `Induction` and `Recursion` follow for sets of numbers.
* **HeadPose.** A calibrated tracker was recentered (`AutoRecenters` runs in the step that
  calibrates), a recentered one has a centre, which only the glasses that published it give;
  a model change passes "override" and "reset", which drop it. A dolly step under way has
  read the offset that is there unless a recenter crossed it. The minimum that enumeration picks
  exists because ranks are natural numbers (`WFMin`). `CalibrationHasItsTime` has no arithmetic of its own modulo `Wrap`:
  the invariant (`Anchored`, `Settled`) says which sample a stored timestamp is of, so that the elapsed time the code computes is the
  one `past` records, wherever the clock wraps.

Not proved, and why: liveness and anything with `ENABLED` (out of the prover's reach: `StopReturnsUnlessMissed`,
`SilentClientLeaves`, `ReadoutCatchesUp`, `LossNoticed`, `UnloadReturns`, `LastChoiceWins`, `ConvergenceFollows`,
`SwitchOffReturns`, `ExcludedNotCaptured`, `AppsCaptured`, `HeardFromOnePlace`, `TabsReachTheWall`, `StreamsEnd`, `WallFollows`, `CanvasFollows`, `SettingsFollow`,
`GlassesCalibrate`). Of `BrowserAudio` nothing is proved: its promises are all of the kind that must come true in the end.

## 6. Where the code and its documents part

One run shows it with a counterexample:

* **`stop()` may wait for ever** (`WsServer_stop`; `src/core/ws_server.cpp:402`). The accept
  thread passes its check of `stopping`, `stop()` walks the list and shuts every socket down,
  then the accepted connection is pushed. Nobody shuts it down, and the join waits for a
  silent peer. `ws_server.h:48` promises that `stop()` "closes all connections, joins all threads".

More of the same kind, which the models contain and which a condition of a property names:

* **A restart lets two sessions live** (`cleared` in `RemoteControl`; `src/core/remote_control.cpp:814-817`):
  between `conns.clear()` and `server.stop()` an `on_open` lists nobody and evicts nobody, so it and
  the session before it both hold until `stop()` has shut them down.
* **A connection `stop()` missed** also keeps the restart of the remote and the switching off of the audio
  wall waiting (`missed` in `RemoteControl` and `AudioWall`), the consequence of the first point.
* **The user's clipboard may be lost** (`mixed` in `RemoteClipboard`; `src/core/remote_control.cpp:463`).
  A second text within 400 ms saves the first text as the "previous" clipboard, and that is
  what its restore puts back; and what the user copies within the 400 ms the restore overwrites.
  The comment at 439-440 says that "the previous clipboard text is restored".
* **The clipboard may be left empty** (`hindered`; 421-425): it is emptied before `SetClipboardData`, which may
  fail; `inject_text` then returns without putting back what it had saved (471-472), and a restore that
  fails is not repeated.
* **A target that takes longer than 400 ms** (`slow`) pastes what was put back, the user's own text.
* **A stalled peer holds the accept loop** (`WsServer` with `PeerStalls`): `send_text` keeps
  `conns_mutex` across a blocking send (515); the comment at 512-514 says "only momentarily".
* **A restart does not end the UI Automation thread** (`OwnerQuiesces = FALSE`):
  `remote_control_sync`'s restart path (861-870) reaches `delete impl_` while that thread may
  be inside `send_text`. `StopLeavesNothing` is checked with the owner quiescing, as switching off and
  unloading do.
* **A rotated token may come back**: every scene collection keeps a copy of the token, and
  loading one saved before the rotation restores it (`device_settings_obs.cpp:141`), against
  `docs/architecture.md:762-764`. In `RemoteControl` a token that was loaded counts as valid again.
* **An evicted session's lifting races the new session's press** (`crossed` in
  `RemoteButtons`): `button_down` has no owner, so a button may stay down, or a drag may be
  cut, until every button is up with nobody there.
* **A text within 400 ms of another is pasted wrongly** (`mixed`): the first text's restore
  may replace the second before its target reads it.
* **Frames overtake one another** (`doubt` in `RemoteMirror`): a `state` or `cfg` frame read
  earlier may arrive later, and nothing repairs it until the value changes again. `on_open`
  sends the distance without storing `sent_distance`, so a distance that moves and returns is
  not seen to have drifted.
* **Air and RayNeo glasses plugged in again between two scans** (`on \notin {"air", "rayneo"}` in `LossNoticed`):
  they have no watchdog; the session nudges a dead handle and the pose stays connected.
* **A page held up for five seconds is silent afterwards** (`held` in `BrowserAudio`): the wall
  drops its stream and only a `meta` makes it again, while the page stays muted.
* **Two `ensureWs` calls open two sockets** (`background.js:146`), and the older one is leaked;
  the properties of `BrowserAudio` hold in spite of it.
* **A change of monitors may go unseen** (`Unseen` in `DisplayWall`): the signature is
  taken before the enumeration, so it may match while the layout does not. And it has rectangles, GDI names
  and the primary flag only (`src/core/monitor_enum.cpp:218-231`): a monitor exchanged for another at the same
  place, or one whose name was incomplete when it was enumerated, leaves it as it was, and filters and focus
  go on working with the monitor that was there.
* **A request made within the UI task is lost** (`crossed` in `DisplayWall`): the task has read the
  wall's width (`display-wall-source.cpp:418`), a rebuild stores the new sides (262-263) and asks for a sync (294-312),
  and the task ends by erasing the request (467-471). If the task read one side before and the other after
  the rebuild, OBS's canvas has a mixed size for good.
* **A reset OBS refuses counts as done** (`refused` in `DisplayWall`): nobody looks at what
  `obs_frontend_reset_video` returns, and the size is stored as synced (463-468).
* **Children keep the desktop rectangle they were made with** (`carried` in `DisplayWall`): `same_child_set`
  (`display-wall-source.cpp:194`) compares ids, so after screens moved or changed size the map
  handed to the audio wall has old ranges, against `display-wall-source.h:17-21`. The places on the wall are right
  (`EachInItsPlace`).
* **Keep-out marks** of a display taller than its row reach outside the wall
  (`wall_layout.cpp:167-205`); and `wall_layout.h` decides by a centre inside the bounding box, the
  code by captures on both sides. `WallTiles` speaks of captures.
* **A sample read before a model change is published into the new glasses' tracker** (`past.strayed` in `HeadPose`):
  publishing asks only that some model is detected. After a VITURE pose the tracker counts as calibrated and the automatic
  recentering is spent; the comment at `device_manager.cpp:137-142` says every model gets it.
* **A half-done calibration outlives its stream** (`past.mixed`): a reconnect of the same model
  keeps warm-up and window though timestamps restart.
* **Late stores of mount and field of view** (`past.mount`, `past.fov`): the detection thread
  may clear the mount a RayNeo board has just told, a late board may set it for the next glasses, and
  a field of view chosen between check and store is overwritten.
* **A dolly step undoes a recenter** (`past.crossed`), by storing an offset it read before.
* **Rows after a lost answer** (`blind` in `DeviceCommands`): an Air's or Light's row stays unknown
  until the next session; MOVERIO's and VITURE's show what was asked.
* **A request for glasses that were unplugged** waits for whichever session takes its kind next,
  of another family too. The Eye's button asks for the opposite of the atomic, not of its label; and
  a convergence whose restoring got lost is what the next session finds.
* **An endpoint gone for less than a poll** (`missed` in `DockOutputs`) leaves its latch set and
  OBS's monitors dead; likewise a reset, a settings load or OBS's own settings change the monitoring without
  re-arming, and it stays on the old device (`dock.cpp:1332-1370`).
* **A display gone for less than a poll** keeps its latch: a projector Windows moved to the
  desktop stays there (`where = "desk"`).
* **The stored device name** may be that of the endpoint applied before a phone chose another
  (`dock.cpp:1366-1368`), until it is applied in turn. Names are left out of the model.

## 7. What is not modelled

* **Quaternions, the magnetometer, the bias' adaptation** (`head_tracker.h`): floating
  point. `HeadPose` has the decisions around them.
* **Packet decoding, HID input** (`hid_io.cpp`, the decoders of `transports/`): CRCs and report
  layouts are arithmetic on bytes; what a decoded report does is modelled.
* **Remote schema and page** (`remote_schema.cpp`, `data/remote.html`): the rows that are more than one store are
  actions (monitoring, automatic field of view, requests); the snapshot is one value.
* **Pointer, wheel and keys**: calls of `SendInput` on one thread, with a remainder of the wheel.
* **Monitor enumeration** (the Win32 side of `monitor_enum.cpp`): a desk is what it returns.
* **Virtual screen, warp, spatial filter**: rendering and signal processing.
* **Cursor fence**: a hook that reads a rectangle of four atomics.
* **Dock widgets**: what they show; volume and mute go straight to Windows.
* **Settings persistence**: one value after the other, but for those that are actions elsewhere.
* **Vendored code** (`nlohmann/json`, `qrcodegen`).

Within the modelled components: request parsing and frame lengths of the WebSocket
server, PCM formats, bearings, labels and the parsing of the exclude list of the audio wall,
the silence throttle and bearings of the extension, the audio map and activation of the
display wall's children, the names of endpoints, windows Windows moves back on replugging.
`AudioWall` counts the registrations `wall_tick` and the callbacks make; OBS's own pass over
`wall_enum_active` (1127-1141), which lists the children whatever the latch says, is left out.
`DockOutputs` takes a source that is counted to be one that is found by name. `DeviceCommands`
reads link, mode and distance, sends a convergence and asks for it in one step (`Converge`), and
has glasses that answer in time or not at all, no BT-30C (which lacks convergence and automatic
brightness), and no test for double-wide displays. `on_close` and `remote_control_sync` do
several things at once; the models of the remote divide them by aspect (sessions, held
buttons, mirror), which share no variable.

## 8. Plan

Done, in this order: `WsContract` and `WsServer` (everything else stands on them),
`RemoteControl`, `RemoteButtons`, `RemoteClipboard` and their composition `RemoteInput`,
`RemoteMirror`, `DeviceLink`, `AudioWall`, `BrowserAudio`, `DisplayWall`, `DeviceCommands`,
`WallLayout`, `HeadPose`, `DockOutputs` and their composition with the mirror, `DockPoll`.

Next:

1. `CursorFence`: the hook's start and stop, and a rectangle that changes under the hook.
2. `HeadPose` composed with `DeviceLink`, whose threads and epoch it shares.
3. Reassembly of the TCP stream as a function over short inputs.
4. An abstract "at most one source per application" that `AudioWall` and `BrowserAudio`
   together implement.
