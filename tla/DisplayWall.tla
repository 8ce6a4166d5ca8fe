---------------------------- MODULE DisplayWall ----------------------------
(***************************************************************************)
(* display-wall-source.cpp: the wall is rebuilt on the graphics thread     *)
(* whenever the monitors, the focused display or the settings change, and  *)
(* the size of OBS's canvas is made to follow the wall's by a task on the  *)
(* UI thread.  Nothing of it is behind a lock: a step is what one thread   *)
(* does between two reads or writes of what the other thread writes.  The  *)
(* wall's width and height are two such variables.                         *)
(*                                                                         *)
(* What a rebuild lays out is a triple of monitor topology, style and      *)
(* focus; WallLayout computes the layout from it.                          *)
(*                                                                         *)
(* Left out: the children's activation, rendering, and users that resize   *)
(* the canvas themselves.                                                  *)
(***************************************************************************)
EXTENDS Naturals, WallLayout

CONSTANTS Desk, Monitors, \* topologies, and the monitors of each
          Style, Styles,  \* layout settings
          Focus,          \* values of g_device.focus_display
          MaxGen,         \* bound on wall_rebuild_gen
          Histories       \* bound: what may happen in one history

Layouts == Desk \X Style \X Focus
Laid(l) == LayoutOf(Monitors[l[1]], Styles[l[2]], l[3])

\* Sizes are read and written a side at a time: any width may meet any height.
None == << 0, 0 >>
Size(l) == Laid(l).size
Sizes ==
    ({Size(l)[1] : l \in Layouts} \cup {0}) \X ({Size(l)[2] : l \in Layouts} \cup {0})
Small(s) == s[1] < 32 \/ s[2] < 32

\* monitor_topology_signature: where the monitors are, their GDI names and
\* which is the primary one, not which devices they are.
Signature(d) ==
    {<< m.x, m.y, m.w, m.h, m.gdi, m.primary >> : m \in {Monitors[d][i] : i \in DOMAIN Monitors[d]}}

ASSUME Parameters ==
    /\ 0 \in Focus /\ MaxGen \in Nat
    /\ Histories \subseteq [may : SUBSET {"focus", "fail", "edit", "sync", "output", "refuse"},
                            desks : SUBSET Desk, styles : SUBSET Style,
                            canvases : SUBSET Sizes]

\* Where Windows can put a monitor: a LONG.
Far == 2147483647
Long == (-Far - 1)..Far
OnDesk(m) == m.x \in Long /\ m.y \in Long /\ m.w \in Nat /\ m.h \in Nat

\* The limits display_wall_update keeps the settings in.
Gaps(s) == s.gap_x \in Nat /\ s.gap_y \in Nat /\ s.padding \in Nat
Laying(s) ==
    /\ Gaps(s) /\ s.columns \in Nat \ {0} /\ s.align \in {"left", "center", "right"}
    /\ s.rows \in Seq(Seq(Nat))

\* Windows lets no two monitors of a desktop overlap.
ASSUME Desktops ==
    /\ \A d \in Desk : LET ms == Monitors[d] IN
        /\ ms \in Seq({ms[i] : i \in DOMAIN ms})
        /\ \A i \in DOMAIN ms : OnDesk(ms[i])
        /\ \A i, j \in DOMAIN ms : i # j => Apart(ms[i], ms[j])
    /\ \A t \in Style : Laying(Styles[t])

VARIABLES
    history,    \* what happens in this one
    desk,       \* the monitors as Windows has them
    focus, gen, \* g_device.focus_display, wall_rebuild_gen
    can,        \* monitor captures can be created
    on, style,  \* "sync_output_size" and the layout in the source's settings
    update,     \* its update callback is due
    capturing,  \* an output of OBS is active
    canvas,     \* OBS's base and output size
    applied,    \* the wall's copy of the layout settings
    shown, size, \* the layout the wall has; width and height
    carried,    \* the layout its children were created for
    missing,    \* a child has no source
    sig, built, \* monitor_signature, built_wall_gen
    sync,       \* sync_output_size
    counting,   \* output_sync_timer_s >= 0
    queued, pending, last,   \* output_sync_queued, pending_sync_*, last_synced_*
    tasks,      \* UI tasks that wait
    gpc, seen, newly,        \* graphics thread: place, monitors it enumerated,
                             \* whether the update switched the sync on
    crossed,    \* a history: the last request was made within the UI task
    upc, width,              \* UI thread: place, the size its task read
    refused     \* a history: OBS did not do the last reset of the video

outside == << history, desk, focus, gen, can, on, style, update, capturing >>
rebuilt == << shown, size, carried, missing, sig, built, seen, newly, crossed >>
request == << counting, queued, pending, last, tasks >>
ui == << upc, width, refused >>
vars == << outside, canvas, applied, rebuilt, sync, request, gpc, ui >>

Working == {"width", "height", "stop", "later", "reset", "done"}   \* places in the task

TypeOK ==
    /\ history \in Histories /\ desk \in Desk /\ focus \in Focus
    /\ gen \in 0..MaxGen /\ (upc = "raise" => gen < MaxGen)
    /\ can \in BOOLEAN /\ on \in BOOLEAN /\ update \in BOOLEAN /\ capturing \in BOOLEAN
    /\ style \in Style /\ applied \in Style /\ canvas \in Sizes
    /\ shown \in Layouts /\ size \in Sizes /\ carried \in Layouts /\ missing \in BOOLEAN
    /\ sig \in {Signature(d) : d \in Desk} /\ built \in 0..MaxGen
    /\ sync \in BOOLEAN /\ counting \in BOOLEAN /\ queued \in BOOLEAN
    /\ pending \in Sizes /\ last \in Sizes /\ tasks \in Nat
    /\ gpc \in {"idle", "gen", "enum", "apply", "width", "height", "schedule", "again", "count"}
    /\ seen \in Desk /\ newly \in BOOLEAN /\ crossed \in BOOLEAN
    /\ upc \in Working \cup {"idle", "raise"} /\ width \in Sizes /\ refused \in BOOLEAN

\* A wall just created; its first update is due if the sync is on.
Init ==
    /\ history \in Histories
    /\ desk \in history.desks /\ gen = 0
    /\ focus \in (IF "focus" \in history.may THEN Focus ELSE {0})
    /\ can = TRUE /\ on \in {FALSE, "sync" \in history.may} /\ update = on
    /\ style \in history.styles /\ applied = style
    /\ capturing = FALSE /\ canvas \in history.canvases
    /\ shown = << desk, style, focus >> /\ size = Size(shown)
    /\ carried = shown /\ missing = FALSE
    /\ sig = Signature(desk) /\ built = 0
    /\ sync = FALSE /\ counting = FALSE /\ queued = FALSE
    /\ pending = None /\ last = None /\ tasks = 0
    /\ gpc = "idle" /\ seen = desk /\ newly = FALSE /\ crossed = FALSE
    /\ upc = "idle" /\ width = None /\ refused = FALSE

-----------------------------------------------------------------------------
(* The world, the dock and the phone                                       *)

Plug(d) ==
    /\ d \in history.desks \ {desk} /\ desk' = d
    /\ UNCHANGED << history, focus, gen, can, on, style, update, capturing >>
    /\ UNCHANGED << canvas, applied, rebuilt, sync, request, gpc, ui >>

\* manager_set_focus_display, on the UI thread: the focus is exchanged first,
\* then the generation raised.
SetFocus(n) ==
    /\ "focus" \in history.may
    /\ upc = "idle" /\ n # focus /\ gen < MaxGen
    /\ focus' = n /\ upc' = "raise"
    /\ UNCHANGED << history, desk, gen, can, on, style, update, capturing >>
    /\ UNCHANGED << canvas, applied, rebuilt, sync, request, gpc, width, refused >>
RaiseGen ==
    /\ upc = "raise" /\ upc' = "idle" /\ gen' = gen + 1
    /\ UNCHANGED << history, desk, focus, can, on, style, update, capturing >>
    /\ UNCHANGED << canvas, applied, rebuilt, sync, request, gpc, width, refused >>

CaptureWorks(b) ==
    /\ "fail" \in history.may /\ can' = b
    /\ UNCHANGED << history, desk, focus, gen, on, style, update, capturing >>
    /\ UNCHANGED << canvas, applied, rebuilt, sync, request, gpc, ui >>

\* The user edits the source; OBS runs the update callback of a video source
\* on the graphics thread, once for all edits since.
Edit(b, t) ==
    /\ "edit" \in history.may /\ upc = "idle" /\ (b => "sync" \in history.may) /\ t \in history.styles
    /\ on' = b /\ style' = t /\ update' = TRUE
    /\ UNCHANGED << history, desk, focus, gen, can, capturing >>
    /\ UNCHANGED << canvas, applied, rebuilt, sync, request, gpc, ui >>

\* Outputs start on the UI thread, and stop at any time; they matter to the
\* size sync only.
Output(b) ==
    /\ "output" \in history.may /\ (b => upc = "idle")
    /\ capturing' = b
    /\ UNCHANGED << history, desk, focus, gen, can, on, style, update >>
    /\ UNCHANGED << canvas, applied, rebuilt, sync, request, gpc, ui >>

-----------------------------------------------------------------------------
(* The graphics thread                                                     *)

\* rebuild_display_wall begins: the signature first.
Begin == gpc = "idle" /\ gpc' = "gen" /\ sig' = Signature(desk)

\* Why display_wall_tick rebuilds.
Stale_Desk == missing \/ sig # Signature(desk)           \* mutant: the focus forgotten
Stale == missing \/ sig # Signature(desk) \/ built # gen

Refresh ==
    /\ Stale /\ Begin /\ newly' = FALSE
    /\ UNCHANGED << outside, canvas, applied, shown, size, carried, missing >>
    /\ UNCHANGED << built, seen, crossed, sync, request, ui >>

\* display_wall_show rebuilds in any case.
Show ==
    /\ Begin /\ newly' = FALSE
    /\ UNCHANGED << outside, canvas, applied, shown, size, carried, missing >>
    /\ UNCHANGED << built, seen, crossed, sync, request, ui >>

\* display_wall_update
Update ==
    /\ update /\ update' = FALSE
    /\ Begin /\ applied' = style /\ sync' = on /\ newly' = (on /\ ~sync)
    /\ UNCHANGED << history, desk, focus, gen, can, on, style, capturing, canvas >>
    /\ UNCHANGED << shown, size, carried, missing, built, seen, crossed, request, ui >>

\* The generation, then the monitors.
ReadGen ==
    /\ gpc = "gen" /\ gpc' = "enum" /\ built' = gen
    /\ UNCHANGED << outside, canvas, applied, shown, size, carried, missing >>
    /\ UNCHANGED << sig, seen, newly, crossed, sync, request, ui >>
Enumerate ==
    /\ gpc = "enum" /\ gpc' = "apply" /\ seen' = desk
    /\ UNCHANGED << outside, canvas, applied, shown, size, carried, missing >>
    /\ UNCHANGED << sig, built, newly, crossed, sync, request, ui >>

\* same_child_set compares ids and capture settings: children of monitors that
\* moved, or changed size, are kept as they were created.
Order(l) == LET ms == Laid(l).monitors IN [i \in DOMAIN ms |-> ms[i].id]
SameSet_Count(l) == Len(Order(l)) = Len(Order(carried))   \* mutant: as many
SameSet(l) ==
    /\ Order(l) = Order(carried)
    /\ Styles[l[2]].capture_cursor = Styles[carried[2]].capture_cursor

\* ensure_children: what was missing or is another set is created anew.
Retried == missing
Ensure(l) ==
    IF Retried \/ ~SameSet(l)
    THEN carried' = l /\ missing' = (~can /\ Order(l) # << >>)
    ELSE UNCHANGED << carried, missing >>

\* apply_wall_layout: what the wall shows, then how wide and how high it is.
Layout == << seen, applied, focus >>
Apply ==
    /\ gpc = "apply" /\ gpc' = "width"
    /\ shown' = Layout /\ Ensure(Layout)
    /\ UNCHANGED << outside, canvas, applied, size, sig, built, seen, newly, crossed >>
    /\ UNCHANGED << sync, request, ui >>
WriteWidth ==
    /\ gpc = "width" /\ gpc' = "height" /\ size' = << Size(shown)[1], size[2] >>
    /\ UNCHANGED << outside, canvas, applied, shown, carried, missing, sig, built, seen >>
    /\ UNCHANGED << newly, crossed, sync, request, ui >>
WriteHeight ==
    /\ gpc = "height" /\ gpc' = "schedule" /\ size' = << size[1], Size(shown)[2] >>
    /\ UNCHANGED << outside, canvas, applied, shown, carried, missing, sig, built, seen >>
    /\ UNCHANGED << newly, crossed, sync, request, ui >>

\* schedule_output_size_sync, s being the size last synced.
Schedule(s) ==
    /\ IF sync /\ ~Small(size) /\ s # size /\ ~(counting /\ pending = size)
       THEN pending' = size /\ counting' = TRUE
       ELSE UNCHANGED << pending, counting >>
    /\ crossed' = (upc \in Working \ {"width"})

\* The end of a rebuild, and of an update that switched the sync on: the size
\* last synced is forgotten.
ScheduleSync ==
    /\ gpc = "schedule" /\ gpc' = IF newly THEN "again" ELSE "idle"
    /\ Schedule(last)
    /\ UNCHANGED << outside, canvas, applied, shown, size, carried, missing, sig, built, seen >>
    /\ UNCHANGED << newly, sync, queued, last, tasks, ui >>
Again ==
    /\ gpc = "again" /\ gpc' = "idle"
    /\ last' = None /\ Schedule(None) /\ newly' = FALSE
    /\ UNCHANGED << outside, canvas, applied, shown, size, carried, missing, sig, built, seen >>
    /\ UNCHANGED << sync, queued, tasks, ui >>

\* The tick takes its time off the timer: read here, written in Count or Expire,
\* whatever the UI thread writes meanwhile.
Load ==
    /\ gpc = "idle" /\ counting /\ gpc' = "count"
    /\ UNCHANGED << outside, canvas, applied, rebuilt, sync, request, ui >>
Count ==
    /\ gpc = "count" /\ gpc' = "idle" /\ counting' = TRUE
    /\ UNCHANGED << outside, canvas, applied, rebuilt, sync, queued, pending, last, tasks, ui >>

\* The time is up: sync_obs_output_size.
Free == ~queued
Expire ==
    /\ gpc = "count" /\ gpc' = "idle" /\ counting' = FALSE
    /\ IF sync /\ ~Small(size) /\ Free
       THEN queued' = TRUE /\ tasks' = tasks + 1
       ELSE UNCHANGED << queued, tasks >>
    /\ UNCHANGED << outside, canvas, applied, rebuilt, sync, pending, last, ui >>

-----------------------------------------------------------------------------
(* The UI thread: sync_obs_output_size_ui                                  *)

Start ==
    /\ upc = "idle" /\ tasks > 0
    /\ tasks' = tasks - 1 /\ queued' = FALSE /\ upc' = "width"
    /\ UNCHANGED << outside, canvas, applied, rebuilt, sync, counting, pending, last, gpc >>
    /\ UNCHANGED << width, refused >>

\* The wall's width is read, then its height, and what to do decided; a canvas
\* that has the size already needs no reset.  OBS always has a profile.
ReadWidth ==
    /\ upc = "width" /\ upc' = "height" /\ width' = << size[1], width[2] >>
    /\ UNCHANGED << outside, canvas, applied, rebuilt, sync, request, gpc, refused >>
Idle_Always == TRUE                           \* mutant: outputs are not asked
Idle == ~capturing
ReadHeight ==
    /\ upc = "height" /\ width' = << width[1], size[2] >>
    /\ upc' = IF ~on \/ Small(width') THEN "stop"
              ELSE IF ~Idle THEN "later"
              ELSE IF canvas = width' THEN "done" ELSE "reset"
    /\ refused' = (refused /\ upc' # "done")
    /\ UNCHANGED << outside, canvas, applied, rebuilt, sync, request, gpc >>

\* obs_frontend_reset_video, whose result nobody looks at.
Reset ==
    /\ upc = "reset" /\ upc' = "done"
    /\ \/ canvas' = width /\ refused' = FALSE
       \/ "refuse" \in history.may /\ refused' = TRUE /\ UNCHANGED canvas
    /\ UNCHANGED << outside, applied, rebuilt, sync, request, gpc, width >>

\* The ends of the task: called off, put off, and done.
Stop ==
    /\ upc = "stop" /\ counting' = FALSE /\ pending' = None
    /\ upc' = "idle" /\ UNCHANGED << outside, canvas, applied, rebuilt, sync, queued, last, tasks >>
    /\ UNCHANGED << gpc, width, refused >>
Retry_Never == UNCHANGED counting             \* mutant: the request is dropped
Retry == counting' = TRUE
Later ==
    /\ upc = "later" /\ Retry /\ pending' = width
    /\ upc' = "idle" /\ UNCHANGED << outside, canvas, applied, rebuilt, sync, queued, last, tasks >>
    /\ UNCHANGED << gpc, width, refused >>
Done ==
    /\ upc = "done" /\ last' = width /\ counting' = FALSE /\ pending' = None
    /\ upc' = "idle" /\ UNCHANGED << outside, canvas, applied, rebuilt, sync, queued, tasks >>
    /\ UNCHANGED << gpc, width, refused >>

-----------------------------------------------------------------------------

Outside ==
    \/ \E d \in Desk : Plug(d)
    \/ \E n \in Focus : SetFocus(n)
    \/ \E b \in BOOLEAN : CaptureWorks(b) \/ Output(b)
    \/ \E b \in BOOLEAN, t \in Style : Edit(b, t)
Rebuild ==
    \/ Refresh \/ Show \/ Update \/ ReadGen \/ Enumerate \/ Apply
    \/ WriteWidth \/ WriteHeight \/ ScheduleSync \/ Again
Timer == Load \/ Count \/ Expire
Task == RaiseGen \/ Start \/ ReadWidth \/ ReadHeight \/ Reset \/ Stop \/ Later \/ Done

Next == Outside \/ Rebuild \/ Timer \/ Task

Spec == Init /\ [][Next]_vars

\* A rebuild under way goes on: only its own actions leave these places.
Placing == {"apply", "width", "height", "schedule", "again"}
Applies == gpc \in Placing /\ gpc' \in (Placing \cup {"idle"}) \ {gpc}

\* Ticks come, the time runs out, and the UI thread gets to its tasks.
Fair ==
    /\ SF_vars(Refresh) /\ SF_vars(Update) /\ WF_vars(ReadGen) /\ WF_vars(Enumerate)
    /\ WF_gpc(Applies) /\ SF_vars(Load) /\ SF_vars(Expire) /\ WF_vars(Task)
FairSpec == Spec /\ Fair

-----------------------------------------------------------------------------
(* Properties                                                              *)

\* At most one sync task waits, and the flag says whether one does.
OneTask == tasks = IF queued THEN 1 ELSE 0

\* A size that was never synced is on its way: its timer runs, a task is queued
\* or at work, or an update or a rebuild is under way; unless the last request
\* was made while the task was at work, with its size read in whole or in part,
\* and about to overwrite it.
NothingForgotten ==
    (~crossed /\ sync /\ on /\ ~Small(size) /\ last # size) =>
        \/ counting \/ queued \/ upc \in Working
        \/ update \/ gpc \notin {"idle", "count"}

\* The canvas never changes while an output is active.
OutputsKeepTheirSize == [][canvas' # canvas => ~capturing]_vars

\* The signature is that of the monitors there are, the layout is of others:
\* they changed while it was built and were back before the next refresh, or
\* gave way to others at the same places, of the same GDI names.
Unseen == gpc \in {"idle", "count"} /\ sig = Signature(desk) /\ shown[1] # desk

\* From some time on nobody plugs, edits or changes the focus.
Rest == <>[][UNCHANGED << desk, focus, style, on >>]_vars

\* The wall comes to show the monitors there are, as the settings say and the
\* display in focus, unless the change went unseen; and a capture that could not
\* be created is created in the end.
WallFollows ==
    /\ Rest /\ <>[](~Unseen) => <>[](shown = << desk, style, focus >>)
    /\ <>[]can => <>[]~missing

\* With the sync on and no output active the canvas gets the wall's size,
\* unless the change went unseen, its request was made within the UI task, or
\* OBS did not do the reset.
CanvasFollows ==
    Rest /\ <>[](/\ on /\ ~capturing /\ ~Small(Size(<< desk, style, focus >>))
                 /\ ~Unseen /\ ~crossed /\ ~refused)
    => <>[](canvas = Size(<< desk, style, focus >>))

Tiled(wall) ==
    \A i \in DOMAIN wall.places :
        LET p == wall.places[i] IN
        /\ \A j \in DOMAIN wall.places \ {i} : Apart(p, wall.places[j])
        /\ \A b \in wall.blocked : Apart(p, b)
        /\ p.x >= 0 /\ p.x + p.w <= wall.size[1]
        /\ p.y >= 0 /\ p.y + p.h <= wall.size[2]

\* No two captures, and no capture and keep-out mark, overlap; no capture
\* sticks out of the wall.
WallTiles == Tiled(Laid(shown))

\* A place is given to the capture of the monitor it was computed for, also
\* when the children are kept from an earlier layout.
EachInItsPlace == Order(carried) = Order(shown)
=============================================================================
