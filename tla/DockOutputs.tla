----------------------------- MODULE DockOutputs -----------------------------
(***************************************************************************)
(* ui/dock.cpp: refresh(), the dock's poll, and the two outputs it keeps in *)
(* place: the device OBS monitors its audio on, and the projector on the    *)
(* glasses.  The poll latches what it has done, so that a user may undo it. *)
(* Endpoints and displays come and go, and phones set rows of the page, on  *)
(* other threads, between any two steps of a poll; what the dock's user, Qt *)
(* and OBS do runs on the poll's own thread, between polls.                 *)
(***************************************************************************)
EXTENDS Naturals

CONSTANTS Phone,          \* sessions that set a row of the page
          Endpoint,       \* audio endpoints
          GlassesAudio,   \* the one with a glasses brand in its name
          Window,         \* projector windows
          None,
          Stirs           \* bound: the halves that move in one history

ASSUME Outputs ==
    /\ GlassesAudio \in Endpoint /\ None \notin Endpoint
    /\ Stirs \subseteq SUBSET {"sound", "screen"}

Mode == {"auto", "keep", "device"}
Latch == {"auto", "device"}
Somewhere == {"none", "new", "glasses", "desk", "left"}

VARIABLES
    stirs,              \* the halves that move
    detected,           \* detected_hid_model() is known
    endpoints,          \* the endpoints Windows has
    monitoring, alive,  \* OBS: the device monitored on; do its monitors play
    monitor_out, monitor_device_id, monitor_rearm,
    applied,            \* the latches auto_monitor_applied, monitor_device_applied
    missed,             \* history: latches nothing was there to clear
    row,                \* per phone: what is left of the row it sets
    display, screen,    \* Windows has the glasses' display; Qt's list has it
    sources,            \* virtual_source_count > 0
    where,              \* where each projector is
    auto_projector, projector_request, auto_projector_opened,
    had_source,         \* last_virtual_count > 0
    tracked,            \* g_tracked
    occasion,           \* history: is there a reason to open automatically
    step, seen          \* where refresh() is, and its locals

(* missed: latches that stand for something gone and back between two polls, *)
(* or changed by someone who does not re-arm.  where: "new" windows came on  *)
(* the glasses since the last poll ended; "left" ones were there when it did *)
(* and Windows has since moved them to the desktop, with the display still   *)
(* away.  occasion: the display or a first source came since the last        *)
(* automatic opening.                                                        *)

chosen == << monitor_out, monitor_device_id >>
monitors == << endpoints, monitoring, alive >>
sound == << detected, monitors, chosen, monitor_rearm, applied, missed, row >>
glasses == << display, screen, sources >>
windows == << where, tracked >>
latches == << auto_projector_opened, had_source, occasion >>
picture == << glasses, windows, auto_projector, projector_request, latches >>
poll == << step, seen >>
dockVars == << stirs, sound, picture, poll >>

Nothing == [detected |-> FALSE, count |-> FALSE, present |-> FALSE, want |-> None, found |-> FALSE,
            mode |-> "keep"]

DockInit ==
    /\ stirs \in Stirs
    /\ detected = TRUE /\ endpoints = Endpoint /\ monitoring = None /\ alive = TRUE
    /\ monitor_out \in IF "sound" \in stirs THEN {"auto"} ELSE {"keep"}
    /\ monitor_device_id = None /\ monitor_rearm = FALSE
    /\ applied = {} /\ missed = {} /\ row = [p \in Phone |-> "none"]
    /\ display = TRUE /\ screen = TRUE /\ sources = TRUE
    /\ where = [w \in Window |-> "none"] /\ tracked = {}
    /\ auto_projector = FALSE /\ projector_request = FALSE
    /\ auto_projector_opened = FALSE /\ had_source = FALSE /\ occasion = TRUE
    /\ step = "idle" /\ seen = Nothing

-----------------------------------------------------------------------------
(* Sound: Windows' endpoints, and who chooses where OBS monitors           *)

\* Any thread may take it; the ones of the UI thread run between polls.
SoundStep == "sound" \in stirs /\ UNCHANGED << stirs, picture >>
Between == step = "idle" /\ UNCHANGED seen

\* The monitors on an endpoint that goes are dead, and OBS never retries them.
EndpointMoves(e) ==
    /\ SoundStep
    /\ \/ /\ e \in endpoints /\ endpoints' = endpoints \ {e}
          /\ alive' = (alive /\ monitoring # e)
          /\ missed' = missed \cup {l \in Latch : e = IF l = "auto" THEN GlassesAudio
                                                                   ELSE monitor_device_id}
       \/ /\ e \notin endpoints /\ endpoints' = endpoints \cup {e}
          /\ UNCHANGED << alive, missed >>
    /\ UNCHANGED << detected, monitoring, chosen, monitor_rearm, applied, row, poll >>

\* OBS's own settings name another monitoring device.
UserMonitors(e) ==
    /\ SoundStep /\ Between
    /\ monitoring' = e /\ alive' = (e \in endpoints) /\ missed' = Latch
    /\ UNCHANGED << detected, endpoints, chosen, monitor_rearm, applied, row, step >>

\* A settings load, and the dock's reset, re-arm nothing; after a reset the
\* poll runs at once.  What they do to auto_projector is in PictureFlags.
Choice == {c \in Mode \X (Endpoint \cup {None}) : c[1] = "device" => c[2] # None}
Restored ==
    /\ SoundStep /\ Between
    /\ \/ \E c \in Choice : monitor_out' = c[1] /\ monitor_device_id' = c[2] /\ UNCHANGED step
       \/ monitor_out' = "auto" /\ monitor_device_id' = None /\ step' = "begin"
    /\ missed' = Latch
    /\ UNCHANGED << detected, monitors, monitor_rearm, applied, row >>

\* A choice of the modes keeps the remembered device.
Chooses(mode, e) ==
    /\ monitor_out' = mode
    /\ monitor_device_id' = IF mode = "device" THEN e ELSE monitor_device_id

\* The dock's list: both latches are cleared, and the poll runs at once.
DockChooses(mode, e) ==
    /\ SoundStep /\ Between
    /\ Chooses(mode, e)
    /\ applied' = {} /\ missed' = {} /\ step' = "begin"
    /\ UNCHANGED << detected, monitors, monitor_rearm, row >>

\* The page's row, on p's connection thread: the device, the mode, the re-arm.
PhoneNames(p, e) ==
    /\ SoundStep /\ row[p] = "none"
    /\ monitor_device_id' = e /\ row' = [row EXCEPT ![p] = "mode"]
    /\ UNCHANGED << detected, monitors, monitor_out, monitor_rearm, applied, missed, poll >>

PhoneChooses(p, mode) ==
    /\ SoundStep /\ row[p] = IF mode = "device" THEN "mode" ELSE "none"
    /\ monitor_out' = mode /\ row' = [row EXCEPT ![p] = "rearm"]
    /\ UNCHANGED << detected, monitors, monitor_device_id, monitor_rearm, applied, missed, poll >>

PhoneRearms(p) ==
    /\ row[p] = "rearm"
    /\ monitor_rearm' = TRUE /\ row' = [row EXCEPT ![p] = "none"]
    /\ UNCHANGED << stirs, picture, detected, monitors, chosen, applied, missed, poll >>

-----------------------------------------------------------------------------
(* Picture: the glasses' display, the sources, the projector windows       *)

PictureStep == "screen" \in stirs /\ UNCHANGED << stirs, sound >>

On(places) == {w \in Window : where[w] \in places}
OnGlasses == On({"new", "glasses"})
Placed(ws, place) == [w \in Window |-> IF w \in ws THEN place ELSE where[w]]

DisplayMoves ==
    /\ PictureStep
    /\ display' = ~display /\ occasion' = (occasion \/ display')
    /\ where' = IF display' THEN Placed(On({"left"}), "desk") ELSE where
    /\ UNCHANGED << screen, sources, tracked, auto_projector, projector_request,
                    auto_projector_opened, had_source, poll >>

SourcesMove ==
    /\ PictureStep
    /\ sources' = ~sources /\ occasion' = (occasion \/ sources')
    /\ UNCHANGED << display, screen, windows, auto_projector, projector_request,
                    auto_projector_opened, had_source, poll >>

\* Qt hears of the display between two polls; the windows of one that is gone
\* are on another monitor by then.
QtLearns ==
    /\ PictureStep /\ Between /\ screen # display
    /\ screen' = display
    /\ where' = IF display THEN where
                ELSE [w \in Window |-> CASE where[w] = "glasses" -> "left"
                                         [] where[w] = "new"     -> "desk"
                                         [] OTHER                -> where[w]]
    /\ UNCHANGED << display, sources, tracked, auto_projector, projector_request, latches, step >>

\* OBS's own menu opens a projector, or its user closes one.
UserMovesWindow(w) ==
    /\ PictureStep /\ Between
    /\ \/ where[w] = "none" /\ screen /\ where' = Placed({w}, "new")
       \/ where[w] # "none" /\ where' = Placed({w}, "none")
    /\ tracked' = tracked \ {w}
    /\ UNCHANGED << glasses, auto_projector, projector_request, latches, step >>

\* open_glasses_source_projector: the windows on the glasses make way.
\* Bound: with no window to spare, one that strayed to the desktop is forgotten.
CanOpen == display /\ screen /\ sources
Fresh == IF On({"none"}) \cup OnGlasses = {} THEN Window ELSE On({"none"}) \cup OnGlasses
Opens ==
    \E w \in Fresh :
        /\ where' = [Placed(OnGlasses, "none") EXCEPT ![w] = "new"]
        /\ tracked' = (tracked \ OnGlasses) \ {w}

OpensIf(asked) ==
    IF asked /\ CanOpen
    THEN Opens /\ auto_projector_opened' = TRUE
    ELSE UNCHANGED << windows, auto_projector_opened >>

ProjectorButton ==
    /\ PictureStep /\ Between
    /\ OpensIf(TRUE)
    /\ UNCHANGED << glasses, auto_projector, projector_request, had_source, occasion, step >>

\* A phone, the dock, a load: the two flags are stores of their own.
PictureFlags ==
    /\ PictureStep
    /\ \/ projector_request' = TRUE /\ UNCHANGED auto_projector
       \/ auto_projector' = ~auto_projector /\ UNCHANGED projector_request
    /\ UNCHANGED << glasses, windows, latches, poll >>

DetectionMoves ==
    /\ detected' = ~detected
    /\ UNCHANGED << stirs, picture, monitors, chosen, monitor_rearm, applied, missed, row, poll >>

-----------------------------------------------------------------------------
(* refresh()                                                               *)

Reaches(from, to) == step = from /\ step' = to /\ UNCHANGED stirs

\* A first source re-arms the automatic opening.
Appeared == ~had_source /\ sources
Begins ==
    /\ step \in {"idle", "begin"} /\ step' = "display" /\ UNCHANGED stirs
    /\ seen' = [Nothing EXCEPT !.detected = detected, !.count = sources]
    /\ auto_projector_opened' = (auto_projector_opened /\ ~Appeared)
    /\ had_source' = sources
    /\ UNCHANGED << sound, glasses, windows, auto_projector, projector_request, occasion >>

FindsDisplay ==
    /\ Reaches("display", "request")
    /\ seen' = [seen EXCEPT !.present = display]
    /\ UNCHANGED << sound, picture >>

\* projector_request.exchange(false)
AnswersRequest ==
    /\ Reaches("request", "rearm")
    /\ projector_request' = FALSE /\ OpensIf(projector_request)
    /\ UNCHANGED << sound, glasses, auto_projector, had_source, occasion, seen >>

\* monitor_rearm.exchange(false)
Rearms ==
    /\ Reaches("rearm", "mode")
    /\ monitor_rearm' = FALSE
    /\ IF monitor_rearm THEN applied' = {} /\ missed' = {} ELSE UNCHANGED << applied, missed >>
    /\ UNCHANGED << picture, detected, monitors, chosen, row, seen >>

\* What monitoring should be on; None when the glasses are not known.
Wanted(mode, id, known) ==
    IF mode = "auto" THEN (IF known THEN GlassesAudio ELSE None) ELSE id

ReadsMode ==
    /\ Reaches("mode", IF monitor_out = "keep" THEN "output" ELSE "find")
    /\ seen' = [seen EXCEPT !.mode = monitor_out,
                            !.want = Wanted(monitor_out, monitor_device_id, seen.detected)]
    /\ UNCHANGED << sound, picture >>

FindsEndpoint ==
    /\ Reaches("find", "apply")
    /\ seen' = [seen EXCEPT !.found = seen.want \in endpoints]
    /\ UNCHANGED << sound, picture >>

\* The latch of an endpoint that is absent is cleared.
Lapses_Never == FALSE                        \* mutant: only a choice re-arms
Lapses == ~seen.found

\* apply_monitoring_device sets the device, which OBS may refuse, or resets the
\* monitors on it.
ApplyMonitoringDevice ==
    monitoring' = seen.want /\ alive' = (seen.want \in endpoints) /\ UNCHANGED endpoints

Applies ==
    /\ Reaches("apply", "output")
    /\ missed' = IF seen.found THEN missed ELSE missed \ {seen.mode}
    /\ \/ Lapses /\ applied' = applied \ {seen.mode} /\ UNCHANGED monitors
       \/ /\ seen.found /\ seen.mode \notin applied
          /\ ApplyMonitoringDevice /\ applied' = applied \cup {seen.mode}
       \/ ~Lapses /\ (seen.found => seen.mode \in applied) /\ UNCHANGED << monitors, applied >>
       \/ /\ seen.found /\ seen.mode \notin applied /\ monitoring # seen.want
          /\ UNCHANGED << monitors, applied >>
    /\ seen' = [seen EXCEPT !.want = None, !.found = FALSE, !.mode = "keep"]
    /\ UNCHANGED << picture, detected, chosen, monitor_rearm, row >>

\* The display is gone: what was tracked is closed, the opening re-armed.
ClosesOutput ==
    /\ Reaches("output", "remote") /\ ~seen.present
    /\ where' = Placed(tracked, "none") /\ tracked' = {}
    /\ auto_projector_opened' = FALSE /\ seen' = Nothing
    /\ UNCHANGED << sound, glasses, auto_projector, projector_request, had_source, occasion >>

AutoOpens == auto_projector /\ ~auto_projector_opened /\ seen.detected /\ seen.count

Tracks_Opened == auto_projector_opened'      \* mutant: only what the dock opened
Tracks == TRUE

Tracked(now) ==
    IF Tracks /\ screen THEN {w \in Window : now[w] \in {"new", "glasses"}} ELSE {}
Settled(now) == [w \in Window |-> IF now[w] = "new" THEN "glasses" ELSE now[w]]

Latches_Never == auto_projector_opened       \* mutant: the opening is not remembered
Latches == TRUE

\* It is there: opened once, if that is wanted, and tracked for its going.
TendsOutput ==
    /\ Reaches("output", "remote") /\ seen.present
    /\ IF AutoOpens /\ CanOpen
       THEN /\ \E w \in Fresh :
                   where' = Settled([Placed(OnGlasses, "none") EXCEPT ![w] = "new"])
            /\ auto_projector_opened' = Latches /\ occasion' = FALSE
       ELSE where' = Settled(where) /\ UNCHANGED << auto_projector_opened, occasion >>
    /\ tracked' = Tracked(where') /\ seen' = [Nothing EXCEPT !.present = TRUE]
    /\ UNCHANGED << sound, glasses, auto_projector, projector_request, had_source >>

PollStep ==
    \/ Begins \/ FindsDisplay \/ AnswersRequest \/ Rearms \/ ReadsMode
    \/ FindsEndpoint \/ Applies \/ ClosesOutput \/ TendsOutput

WorldStep ==
    \/ \E e \in Endpoint : EndpointMoves(e) \/ UserMonitors(e)
    \/ Restored \/ DetectionMoves \/ DisplayMoves \/ SourcesMove \/ QtLearns
    \/ \E w \in Window : UserMovesWindow(w)
    \/ \E mode \in Mode, e \in Endpoint : DockChooses(mode, e)
    \/ ProjectorButton \/ PictureFlags

PhoneStep(p) ==
    \/ \E e \in Endpoint : PhoneNames(p, e)
    \/ \E mode \in Mode : PhoneChooses(p, mode)
    \/ PhoneRearms(p)

-----------------------------------------------------------------------------

\* "re-applied the moment it enumerates again" (refresh): a poll that finds
\* the chosen endpoint leaves OBS monitoring on it, with monitors that play,
\* unless the endpoint went for less than a poll, somebody went past the
\* latches, a phone is choosing again, or OBS refused it and the next poll tries
\* again.
MonitoringFollows ==
    [][Applies /\ seen.found /\ seen.want \in endpoints /\ seen.mode \notin missed
            /\ ~monitor_rearm /\ (\A p \in Phone : row[p] = "none")
            /\ seen.mode \in applied'
        => monitoring' = seen.want /\ alive']_dockVars

\* "Close the projectors that were sitting on the glasses display"
\* (close_glasses_output): when a poll that missed the display is over, no
\* window that an earlier poll saw on the glasses covers the desktop.
NoneLeftOnDesk == step = "remote" /\ ~seen.present => On({"left"}) = {}

\* "one projector per glasses-display connection, re-armed when a virtual
\* screen source first appears": an automatic opening answers a display, or a
\* first source, that came since the one before it.
AutoOpensOnce ==
    [][TendsOutput /\ AutoOpens /\ CanOpen => occasion]_dockVars
=============================================================================
