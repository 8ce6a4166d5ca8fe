------------------------------ MODULE HeadPose ------------------------------
(***************************************************************************)
(* core/head_tracker.h and the pose state of core/device_manager.cpp: the  *)
(* calibration of the gyro, and what the detection thread, the session of  *)
(* the worker thread, the user and the phone store of mount, field of      *)
(* view, recentering and viewer offset.  state_mutex guards the tracker;   *)
(* the rest are atomics that are read and written one by one.              *)
(*                                                                         *)
(* A sample is its timestamp and whether the head was at rest: a window    *)
(* with a sample in motion exceeds the tolerances.  The offset is how many *)
(* dolly steps it holds.  The link itself is DeviceLink's; left out are    *)
(* the arithmetic of orientations, the magnetometer, and the copy of the   *)
(* tracker that is published as the pose.                                  *)
(***************************************************************************)
EXTENDS Integers

CONSTANTS Model, None,  \* registry rows, MODEL_UNKNOWN
          Family,       \* transport of each
          Mount, Fov,   \* mount_x_deg and fov_deg of each
          Rank,         \* the order devices are enumerated in
          Board,        \* the mount a RayNeo's board asks for
          Choice, Standard,   \* fields of view the user picks; the default, 50
          Wrap,         \* timestamps are modulo this: 2^32
          Warmup, MinSamples, MinWindow,
          MaxOffset,    \* bound on dolly steps
          Histories     \* bound: what may happen in one history

ASSUME Parameters ==
    /\ None \notin Model
    /\ Rank \in [Model -> Nat]
    /\ Wrap \in Nat /\ Warmup \in 1..Wrap /\ MinWindow \in 1..Wrap
    /\ MinSamples \in Nat \ {0, 1} /\ MaxOffset \in Nat
    /\ Histories \subseteq
        [may : SUBSET {"unplug", "move", "restart", "square", "dolly", "fov",
                       "defaults", "board"},
         glasses : SUBSET Model, steps : SUBSET (1..(Wrap - 1)), starts : SUBSET (0..(Wrap - 1))]

VARIABLES
    history,    \* what happens in this one
    plugged,    \* the glasses that are plugged in
    resting,    \* the head is at rest
    detected,   \* detected_model
    det,        \* the detection thread
    override,   \* mount_override_cdeg; None: the profile's mount
    auto, fov,  \* fov_auto, fov_deg
    offset,     \* viewer_offset
    tracker,    \* head_tracker and auto_recentered
    ses, stream, clock, told,   \* the session: place, whose samples, their last
                \* timestamp, whether the board has told its mount
    usr, model, \* the user's thread: place, the model it read
    walk, from, \* the phone's dolly step: place, the offset it read
    chosen,     \* the field of view the user left
    past        \* histories: what the window really saw, what was out of step

world == << history, plugged, resting >>
session == << ses, stream, clock, told >>
user == << usr, model, chosen >>
phone == << walk, from >>
vars == << world, detected, det, override, auto, fov, offset, tracker, session,
           user, phone, past >>

Lowest(S, n) == IF S < n THEN S ELSE n     \* S, no further than n

-----------------------------------------------------------------------------
(* head_tracker                                                            *)

\* A new tracker; zq: the glasses whose pose was made the centre, or "user".
Reset_Armed(t, mount) ==                   \* mutant: auto_recentered is kept
    [calibrated |-> FALSE, count |-> 0, start |-> 0, warmup |-> 0, motion |-> FALSE,
     mount |-> mount, zq |-> None, recentered |-> t.recentered]
Reset(t, mount) ==
    [calibrated |-> FALSE, count |-> 0, start |-> 0, warmup |-> 0, motion |-> FALSE,
     mount |-> mount, zq |-> None, recentered |-> FALSE]

RestartWindow_KeepsSums(t) ==              \* mutant: the sums are kept
    [t EXCEPT !.count = 0, !.start = 0]
RestartWindow(t) == [t EXCEPT !.count = 0, !.start = 0, !.motion = FALSE]

RestartCalibration_Warm(t) ==              \* mutant: the warm-up is not repeated
    [RestartWindow(t) EXCEPT !.calibrated = FALSE]
RestartCalibration(t) == [RestartWindow(t) EXCEPT !.calibrated = FALSE, !.warmup = 0]

Elapsed(now, then) == (now - then) % Wrap
NotZero(ts) == IF ts = 0 THEN 1 ELSE ts

\* calibrate: warm up, fill a window, take it or drop it.
Averaged(t, ts) ==
    [t EXCEPT !.start = IF t.start = 0 THEN NotZero(ts) ELSE t.start,
              !.count = Lowest(t.count + 1, MinSamples),
              !.motion = t.motion \/ ~resting]
WarmingUp(t, ts) == t.warmup = 0 \/ Elapsed(ts, t.warmup) < Warmup
Full(t, ts) == t.count >= MinSamples /\ Elapsed(ts, t.start) >= MinWindow
Calibrate(t, ts) ==
    LET a == Averaged(t, ts)
    IN CASE t.warmup = 0       -> [t EXCEPT !.warmup = NotZero(ts)]
         [] t.warmup # 0 /\ WarmingUp(t, ts) -> t
         [] ~WarmingUp(t, ts) /\ ~Full(a, ts) -> a
         [] ~WarmingUp(t, ts) /\ Full(a, ts)  ->
                IF a.motion THEN RestartWindow(a) ELSE [a EXCEPT !.calibrated = TRUE]

\* on_imu and on_external_pose; VITURE's glasses calibrate themselves.
Tracked(t, ts) ==
    IF Family[stream] = "viture" THEN [t EXCEPT !.calibrated = TRUE]
    ELSE IF t.calibrated THEN t ELSE Calibrate(t, ts)

-----------------------------------------------------------------------------
(* The world                                                               *)

Fresh == Reset([recentered |-> FALSE], 0)

Init ==
    /\ history \in Histories /\ plugged = {} /\ resting = TRUE
    /\ detected = None /\ det = "idle" /\ override = None
    /\ auto = TRUE /\ fov = Standard /\ offset = 0 /\ tracker = Fresh
    /\ ses = "closed" /\ stream = None /\ clock = 0 /\ told = FALSE
    /\ usr = "idle" /\ model = None /\ chosen = Standard
    /\ walk = "idle" /\ from = 0
    /\ past = [age |-> 0, span |-> 0, mixed |-> FALSE, strayed |-> FALSE,
               mount |-> FALSE, fov |-> FALSE, walked |-> 0, crossed |-> FALSE]

Plug(m) ==
    /\ m \in history.glasses \ plugged /\ plugged' = plugged \cup {m}
    /\ UNCHANGED << history, resting, detected, det, override, auto, fov, offset >>
    /\ UNCHANGED << tracker, session, user, phone, past >>
Unplug(m) ==
    /\ "unplug" \in history.may /\ m \in plugged /\ plugged' = plugged \ {m}
    /\ ses' = IF stream # m THEN ses ELSE IF ses = "loop" THEN "dead"
              ELSE IF ses = "publish" THEN "last" ELSE ses
    /\ UNCHANGED << history, resting, detected, det, override, auto, fov, offset >>
    /\ UNCHANGED << tracker, stream, clock, told, user, phone, past >>
Move ==
    /\ "move" \in history.may /\ resting' = ~resting
    /\ UNCHANGED << history, plugged, detected, det, override, auto, fov, offset >>
    /\ UNCHANGED << tracker, session, user, phone, past >>

-----------------------------------------------------------------------------
(* The detection thread: run_detection_scan                                *)

First == IF plugged = {} THEN None
         ELSE CHOOSE m \in plugged : \A n \in plugged : Rank[m] <= Rank[n]

Scan ==
    /\ det = "idle" /\ First # detected
    /\ detected' = First /\ det' = "override"
    /\ UNCHANGED << world, override, auto, fov, offset, tracker, session, user, phone, past >>

Cleared_Never == override                  \* mutant: the last board's mount stays
Cleared == None
ClearOverride ==
    /\ det = "override" /\ det' = "reset" /\ override' = Cleared
    /\ past' = [past EXCEPT !.mount = told /\ stream = detected /\ ses # "closed"]
    /\ UNCHANGED << world, detected, auto, fov, offset, tracker, session, user, phone >>

\* clear_viewer_offset; a dolly step under way will store what it read.
ClearOffset == offset' = 0
Cleaned(p) == [p EXCEPT !.walked = 0, !.crossed = (walk = "store")]

\* reset_tracker_for_model_locked
ResetFor(m) ==
    /\ ClearOffset
    /\ tracker' = Reset(tracker, IF m = None THEN tracker.mount ELSE Mount[m])
    /\ past' = [Cleaned(past) EXCEPT !.age = 0, !.span = 0, !.mixed = FALSE,
                                     !.strayed = FALSE]
ResetTracker ==
    /\ det = "reset" /\ det' = "fov" /\ ResetFor(detected)
    /\ UNCHANGED << world, detected, override, auto, fov, session, user, phone >>

CheckFov ==
    /\ det = "fov" /\ det' = IF auto /\ detected # None THEN "store" ELSE "idle"
    /\ UNCHANGED << world, detected, override, auto, fov, offset, tracker, session >>
    /\ UNCHANGED << user, phone, past >>
StoreFov ==
    /\ det = "store" /\ det' = "idle" /\ fov' = Fov[detected]
    /\ past' = [past EXCEPT !.fov = ~auto]
    /\ UNCHANGED << world, detected, override, auto, offset, tracker, session, user, phone >>

-----------------------------------------------------------------------------
(* The worker thread's session                                             *)

\* A RayNeo session clears the mount the last one was told.
Begin ==
    /\ ses = "closed" /\ detected # None
    /\ ses' = "open" /\ stream' = detected /\ told' = FALSE
    /\ override' = IF Family[detected] = "rayneo" THEN None ELSE override
    /\ past' = [past EXCEPT !.mount = IF Family[detected] = "rayneo" THEN FALSE ELSE @]
    /\ UNCHANGED << world, detected, det, auto, fov, offset, tracker, clock, user, phone >>

\* A stream starts at a timestamp of its own.
Open(ts) ==
    /\ ses = "open" /\ stream \in plugged /\ ts \in history.starts
    /\ ses' = "loop" /\ clock' = ts
    /\ past' = [past EXCEPT !.mixed = @ \/ tracker.warmup # 0]
    /\ UNCHANGED << world, detected, det, override, auto, fov, offset, tracker >>
    /\ UNCHANGED << stream, told, user, phone >>

\* The session ends when the glasses cannot be opened or others are detected;
\* and by its watchdog, or because the user has it connect again.
Same == detected # None /\ Family[detected] = Family[stream]
Leave ==
    /\ \/ ses = "open" /\ stream \notin plugged
       \/ ses \in {"loop", "dead"} /\ ~Same
    /\ ses' = "closed"
    /\ UNCHANGED << world, detected, det, override, auto, fov, offset, tracker >>
    /\ UNCHANGED << stream, clock, told, user, phone, past >>
Drop ==
    /\ ses = "dead" \/ (ses = "loop" /\ "restart" \in history.may)
    /\ ses' = "closed"
    /\ UNCHANGED << world, detected, det, override, auto, fov, offset, tracker >>
    /\ UNCHANGED << stream, clock, told, user, phone, past >>

\* The loop has checked detected_model, and a report is there.
Read ==
    /\ ses = "loop" /\ Same
    /\ ses' = "publish"
    /\ UNCHANGED << world, detected, det, override, auto, fov, offset, tracker >>
    /\ UNCHANGED << stream, clock, told, user, phone, past >>

Again == IF ses = "publish" THEN "loop" ELSE "dead"

\* apply_rayneo_board_mount
Tell ==
    /\ ses \in {"publish", "last"} /\ Family[stream] = "rayneo" /\ "board" \in history.may
    /\ ses' = Again /\ told' = TRUE /\ override' = Board
    /\ past' = [past EXCEPT !.mount = detected # stream]
    /\ UNCHANGED << world, detected, det, auto, fov, offset, tracker, stream, clock >>
    /\ UNCHANGED << user, phone >>

\* maybe_auto_recenter_locked
AutoRecenters(t) == t.calibrated /\ ~t.recentered

\* publish_sensor_samples and publish_external_pose; nothing here depends on
\* the timestamps of a pose.
Mounted == [tracker EXCEPT !.mount = IF override = None THEN Mount[detected] ELSE override]
Publish(step) ==
    LET ts == (clock + step) % Wrap
        t == Tracked(Mounted, ts)
    IN
    /\ ses \in {"publish", "last"} /\ step \in history.steps
    /\ ses' = Again /\ clock' = IF Family[stream] = "viture" THEN clock ELSE ts
    /\ IF detected = None
       THEN UNCHANGED << tracker, offset, past >>
       ELSE /\ IF AutoRecenters(t)
               THEN tracker' = [t EXCEPT !.recentered = TRUE, !.zq = stream] /\ ClearOffset
               ELSE tracker' = t /\ UNCHANGED offset
            /\ past' =
                [IF AutoRecenters(t) THEN Cleaned(past) ELSE past EXCEPT
                    !.age = IF tracker.warmup = 0 \/ t.warmup = 0 THEN 0
                            ELSE Lowest(@ + step, Warmup),
                    !.span = IF tracker.start = 0 \/ t.start = 0 THEN 0
                             ELSE Lowest(@ + step, MinWindow),
                    !.strayed = @ \/ stream # detected]
    /\ UNCHANGED << world, detected, det, override, auto, fov, stream, told, user, phone >>

-----------------------------------------------------------------------------
(* The user, in the dock or on the phone                                   *)

\* manager_recenter and manager_recalibrate: the offset first, then the lock.
Square(what) ==
    /\ "square" \in history.may /\ usr = "idle" /\ what \in {"recenter", "recalibrate"}
    /\ usr' = what /\ ClearOffset /\ past' = Cleaned(past)
    /\ UNCHANGED << world, detected, det, override, auto, fov, tracker, session >>
    /\ UNCHANGED << model, chosen, phone >>
Recenter ==
    /\ usr = "recenter" /\ usr' = "idle"
    /\ tracker' = [tracker EXCEPT !.zq = IF @ = None THEN "user" ELSE @]
    /\ UNCHANGED << world, detected, det, override, auto, fov, offset, session >>
    /\ UNCHANGED << model, chosen, phone, past >>
Recalibrate ==
    /\ usr = "recalibrate" /\ usr' = "idle"
    /\ tracker' = RestartCalibration(tracker)
    /\ past' = [past EXCEPT !.age = 0, !.span = 0, !.mixed = FALSE]
    /\ UNCHANGED << world, detected, det, override, auto, fov, offset, session >>
    /\ UNCHANGED << model, chosen, phone >>

\* fov_auto switched; on: manager_apply_model_settings.
SetAuto(b) ==
    /\ "fov" \in history.may /\ usr = "idle" /\ auto' = b
    /\ chosen' = IF b THEN chosen ELSE fov
    /\ usr' = IF b THEN "apply" ELSE "idle"
    /\ UNCHANGED << world, detected, det, override, fov, offset, tracker, session >>
    /\ UNCHANGED << model, phone, past >>
Apply ==
    /\ usr = "apply" /\ usr' = "fov" /\ model' = detected
    /\ UNCHANGED << world, detected, det, override, auto, fov, offset, tracker, session >>
    /\ UNCHANGED << chosen, phone, past >>
ApplyFov ==
    /\ usr \in {"fov", "defaults"} /\ usr' = IF usr = "fov" THEN "mount" ELSE "tracker"
    /\ fov' = IF model = None THEN fov ELSE Fov[model]
    /\ past' = IF model = None THEN past ELSE [past EXCEPT !.fov = (model # detected)]
    /\ UNCHANGED << world, detected, det, override, auto, offset, tracker, session >>
    /\ UNCHANGED << model, chosen, phone >>
ApplyMount ==
    /\ usr = "mount" /\ usr' = "idle"
    /\ tracker' = IF model = None THEN tracker ELSE [tracker EXCEPT !.mount = Mount[model]]
    /\ UNCHANGED << world, detected, det, override, auto, fov, offset, session >>
    /\ UNCHANGED << model, chosen, phone, past >>

SetFov(v) ==
    /\ "fov" \in history.may /\ usr = "idle" /\ ~auto /\ fov' = v /\ chosen' = v
    /\ past' = [past EXCEPT !.fov = FALSE]
    /\ UNCHANGED << world, detected, det, override, auto, offset, tracker, session >>
    /\ UNCHANGED << usr, model, phone >>

\* manager_reset_defaults
ResetDefaults ==
    /\ "defaults" \in history.may /\ usr = "idle" /\ usr' = "defaults"
    /\ auto' = TRUE /\ fov' = Standard /\ model' = detected
    /\ UNCHANGED << world, detected, det, override, offset, tracker, session >>
    /\ UNCHANGED << chosen, phone, past >>
ResetAll ==
    /\ usr = "tracker" /\ usr' = "idle" /\ ResetFor(model)
    /\ UNCHANGED << world, detected, det, override, auto, fov, session, model, chosen, phone >>

\* manager_dolly_step reads the offset, and stores it unless the gaze is off
\* the screen.
DollyStep ==
    /\ "dolly" \in history.may /\ walk = "idle" /\ walk' = "store" /\ from' = offset
    /\ UNCHANGED << world, detected, det, override, auto, fov, offset, tracker, session >>
    /\ UNCHANGED << user, past >>
DollyStore ==
    /\ walk = "store" /\ walk' = "idle" /\ offset' = Lowest(from + 1, MaxOffset)
    /\ past' = [past EXCEPT !.walked = Lowest(@ + 1, MaxOffset)]
    /\ UNCHANGED << world, detected, det, override, auto, fov, tracker, session, user, from >>
DollyMiss ==
    /\ walk = "store" /\ walk' = "idle"
    /\ UNCHANGED << world, detected, det, override, auto, fov, offset, tracker, session >>
    /\ UNCHANGED << user, from, past >>

-----------------------------------------------------------------------------

World == Move \/ \E m \in Model : Plug(m) \/ Unplug(m)
Detection == Scan \/ ClearOverride \/ ResetTracker \/ CheckFov \/ StoreFov
Sample == \E step \in 1..(Wrap - 1) : Publish(step)
Session == Begin \/ (\E ts \in 0..(Wrap - 1) : Open(ts)) \/ Leave \/ Drop \/ Read \/ Tell \/ Sample
Errand == Recenter \/ Recalibrate \/ Apply \/ ApplyFov \/ ApplyMount \/ ResetAll
User ==
    \/ \E what \in {"recenter", "recalibrate"} : Square(what)
    \/ \E b \in BOOLEAN : SetAuto(b)
    \/ \E v \in Choice : SetFov(v)
    \/ ResetDefaults \/ Errand
Phone == DollyStep \/ DollyStore \/ DollyMiss

Next == World \/ Detection \/ Session \/ User \/ Phone

Spec == Init /\ [][Next]_vars

\* The threads run, and a stream keeps sending samples.
Fair ==
    /\ WF_vars(Detection) /\ WF_vars(Begin) /\ WF_vars(\E ts \in 0..(Wrap - 1) : Open(ts))
    /\ WF_vars(Leave) /\ WF_vars(Read) /\ SF_vars(Sample) /\ WF_vars(Errand)
FairSpec == Spec /\ Fair

-----------------------------------------------------------------------------
(* Properties                                                              *)

Tilts == {0, Board} \cup {Mount[m] : m \in Model}
Stamp == 0..(Wrap - 1)
Trackers ==
    [calibrated : BOOLEAN, count : 0..MinSamples, start : Stamp, warmup : Stamp, motion : BOOLEAN,
     mount : Tilts, zq : Model \cup {None, "user"}, recentered : BOOLEAN]
Pasts ==
    [age : 0..Warmup, span : 0..MinWindow, mixed : BOOLEAN, strayed : BOOLEAN,
     mount : BOOLEAN, fov : BOOLEAN, walked : 0..MaxOffset, crossed : BOOLEAN]

TypeOK ==
    /\ history \in Histories /\ plugged \subseteq history.glasses /\ resting \in BOOLEAN
    /\ detected \in Model \cup {None} /\ override \in {None, Board}
    /\ det \in {"idle", "override", "reset", "fov", "store"}
    /\ det = "store" => detected # None
    /\ auto \in BOOLEAN /\ offset \in 0..MaxOffset /\ from \in 0..MaxOffset
    /\ tracker \in Trackers
    /\ ses \in {"closed", "open", "loop", "publish", "dead", "last"}
    /\ stream \in Model \cup {None} /\ (ses # "closed" => stream # None)
    /\ clock \in Stamp /\ told \in BOOLEAN
    /\ usr \in {"idle", "recenter", "recalibrate", "apply", "fov", "mount", "defaults", "tracker"}
    /\ model \in Model \cup {None} /\ walk \in {"idle", "store"}
    /\ past \in Pasts

\* Samples are averaged only after the warm-up, and a bias is taken only from a
\* window as long as it must be, whatever the 32-bit timestamps; unless the
\* stream was opened again while the calibration was under way.
CalibrationSettled ==
    /\ (tracker.start # 0 /\ ~past.mixed) => past.age >= Warmup
    /\ (tracker.calibrated /\ tracker.start # 0 /\ ~past.mixed) => past.span >= MinWindow

\* The first calibrated pose of newly detected glasses is made the centre:
\* their own, unless a sample of the glasses before came late.  And the viewer
\* is away from the origin by the dolly steps since the view was last squared
\* up, unless a step was under way then.
SquaredUp ==
    /\ (/\ tracker.calibrated /\ ~past.strayed
        /\ det \notin {"override", "reset"}) => tracker.zq = detected
    /\ past.crossed \/ offset = past.walked

\* From some time on nobody plugs or edits, and the session goes on.
Steady ==
    /\ <>[][ /\ UNCHANGED << plugged, auto, chosen >> /\ usr' = "idle"
             /\ (ses' = "closed" => ses = "closed") ]_vars
    /\ <>[](ses # "dead")

\* The field of view becomes that of the glasses there are, or stays what the
\* user chose; and samples are turned by the mount of the glasses, or of their
\* board when it was told; unless a thread stored what it had read too early.
SettingsFollow ==
    Steady => <>[](detected # None =>
        /\ past.fov \/ fov = IF auto THEN Fov[detected] ELSE chosen
        /\ past.mount \/ tracker.mount = IF told THEN Board ELSE Mount[detected])

\* Glasses that stay, on a head at rest, get calibrated.
GlassesCalibrate ==
    (Steady /\ <>[](resting /\ plugged # {})) => <>[](tracker.calibrated)
=============================================================================
