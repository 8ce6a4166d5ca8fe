----------------------------- MODULE DeviceLink -----------------------------
(***************************************************************************)
(* core/device_manager.cpp and core/transports: the link to the glasses.   *)
(* The detection thread scans the plugged devices into detected_model; the *)
(* worker thread runs one transport session after the other on what was    *)
(* detected; the UI and phone threads change the network address and       *)
(* recenter the view.  They meet in atomics (detected_model, connected,    *)
(* reconnect_epoch, stop) and in the pose, which state_mutex guards: every *)
(* access to an atomic and every locked section is a step.                 *)
(* connect_enabled is always true in this program: its setter has no       *)
(* caller and manager_apply_settings forces it on.                         *)
(***************************************************************************)
EXTENDS Naturals

CONSTANTS Model,      \* registry rows that may be plugged in
          Transport,  \* Model -> "air", "rayneo", "rokid", "viture", "nreal", "sensor", "tcp"
          Editor,     \* threads that run the setters: the UI thread, a phone session
          Address,    \* values of the ip and port settings
          Default,    \* 169.254.2.1:52998
          Patience,   \* read timeouts that make up the 3 s of the stall watchdogs
          MaxEpoch,   \* bound: no further edit once reconnect_epoch is here
          None        \* MODEL_UNKNOWN

Families == {"air", "rayneo", "rokid", "viture", "nreal", "sensor", "tcp"}

ASSUME Parameters ==
    /\ None \notin Model /\ Transport \in [Model -> Families]
    /\ Default \in Address /\ Patience \in Nat \ {0} /\ MaxEpoch \in Nat

VARIABLES
    plugged,    \* the glasses on the USB port, or None
    handle,     \* the session's device: "none", "live", "dead" once unplugged
    detected,   \* detected_model
    det, found, \* the detection thread: where it is, what detect_hid_model returned
    wrk, on,    \* the worker thread: where it is, the transport it picked
    seen,       \* its seen_epoch
    sess,       \* the address the session read when it started
    quiet,      \* read timeouts since the last sample, up to Patience
    epoch,      \* reconnect_epoch
    connected,  \* the atomic flag
    posed,      \* pose.connected
    address,    \* the ip and port settings
    ed,         \* the setters: "idle", or what they still owe ("both": reset, then bump)
    phase       \* the plugin: "run", "stop" and "join" (unloading), "down"

device == << plugged, handle >>
detector == << detected, det, found >>
worker == << wrk, on, seen, sess, quiet >>
settings == << address, ed >>
vars == << device, detector, worker, epoch, connected, posed, settings, phase >>

TypeOK ==
    /\ plugged \in Model \cup {None} /\ handle \in {"none", "live", "dead"}
    /\ detected \in Model \cup {None} /\ found \in Model \cup {None}
    /\ det \in {"scan", "exchange", "reset", "nap", "done"}
    /\ wrk \in {"top", "pick", "idle", "nap", "open", "dial", "failed", "post",
                "loop", "read", "close", "unpost", "sync", "done"}
    /\ on \in Families \cup {"none"} /\ seen \in Nat /\ epoch \in Nat
    /\ sess \in Address /\ quiet \in 0..Patience
    /\ connected \in BOOLEAN /\ posed \in BOOLEAN
    /\ address \in Address /\ ed \in [Editor -> {"idle", "bump", "reset", "both"}]
    /\ phase \in {"run", "stop", "join", "down"}

Init ==
    /\ plugged \in Model \cup {None} /\ handle = "none"
    /\ detected = None /\ det = "scan" /\ found = None
    /\ wrk = "top" /\ on = "none" /\ seen = 0 /\ sess = Default /\ quiet = 0
    /\ epoch = 0 /\ connected = FALSE /\ posed = FALSE
    /\ address \in Address /\ ed = [e \in Editor |-> "idle"]
    /\ phase = "run"

Stop_AfterJoin == phase = "down"  \* mutant: stop is stored after the joins
Stop == phase # "run"
TransportOf(m) == IF m = None THEN "none" ELSE Transport[m]

-----------------------------------------------------------------------------
(* The seven session functions have one shape.  What tells them apart:     *)
(* endpoint - they read the ip and port settings; watchdog - they break    *)
(* when no sample came for 3 s; hangup - the read reports the peer gone.   *)
(* Air and RayNeo have none of these: a silent stream is nudged instead.   *)

Tcp    == [endpoint |-> TRUE,  watchdog |-> TRUE,  hangup |-> TRUE]
Air    == [endpoint |-> FALSE, watchdog |-> FALSE, hangup |-> FALSE]
RayNeo == [endpoint |-> FALSE, watchdog |-> FALSE, hangup |-> FALSE]
Rokid_NoWatchdog == [endpoint |-> FALSE, watchdog |-> FALSE, hangup |-> FALSE] \* mutant: polls on
Rokid  == [endpoint |-> FALSE, watchdog |-> TRUE,  hangup |-> FALSE]
Viture == [endpoint |-> FALSE, watchdog |-> TRUE,  hangup |-> FALSE]
Nreal  == [endpoint |-> FALSE, watchdog |-> TRUE,  hangup |-> FALSE]
Sensor == [endpoint |-> FALSE, watchdog |-> TRUE,  hangup |-> FALSE]

Session(t) == [tcp |-> Tcp, air |-> Air, rayneo |-> RayNeo, rokid |-> Rokid,
               viture |-> Viture, nreal |-> Nreal, sensor |-> Sensor][t]

-----------------------------------------------------------------------------
(* The glasses and the cable                                               *)

Unplug ==
    /\ plugged # None
    /\ plugged' = None
    /\ handle' = IF handle = "live" THEN "dead" ELSE handle
    /\ UNCHANGED << detector, worker, epoch, connected, posed, settings, phase >>

Plug(m) ==
    /\ plugged = None
    /\ plugged' = m
    /\ UNCHANGED << handle, detector, worker, epoch, connected, posed, settings, phase >>

-----------------------------------------------------------------------------
(* detect_worker_fn                                                        *)

Scan ==
    /\ det = "scan"
    /\ IF Stop THEN det' = "done" /\ UNCHANGED found
               ELSE det' = "exchange" /\ found' = plugged
    /\ UNCHANGED << device, detected, worker, epoch, connected, posed, settings, phase >>

Exchange ==
    /\ det = "exchange"
    /\ detected' = found
    /\ det' = IF found = detected THEN "nap" ELSE "reset"
    /\ UNCHANGED << device, found, worker, epoch, connected, posed, settings, phase >>

\* reset_tracker_for_model_locked
ResetTracker ==
    /\ det = "reset"
    /\ det' = "nap" /\ posed' = FALSE
    /\ UNCHANGED << device, detected, found, worker, epoch, connected, settings, phase >>

DetectNap ==
    /\ det = "nap"
    /\ det' = "scan"
    /\ UNCHANGED << device, detected, found, worker, epoch, connected, posed, settings, phase >>

DetectStep == Scan \/ Exchange \/ ResetTracker \/ DetectNap

-----------------------------------------------------------------------------
(* worker_fn                                                               *)

WorkerOnly == UNCHANGED << device, detector, epoch, settings, phase >>

Top ==
    /\ wrk = "top"
    /\ IF Stop THEN wrk' = "done" /\ UNCHANGED connected
       ELSE IF detected # None THEN wrk' = "pick" /\ UNCHANGED connected
       ELSE wrk' = "idle" /\ connected' = FALSE
    /\ UNCHANGED << on, seen, sess, quiet, posed >> /\ WorkerOnly

\* The switch on detected_transport_for reads the model once more.
Pick ==
    /\ wrk = "pick"
    /\ on' = TransportOf(detected)
    /\ IF on' = "none" THEN wrk' = "idle" /\ connected' = FALSE
                       ELSE wrk' = "open" /\ UNCHANGED connected
    /\ UNCHANGED << seen, sess, quiet, posed >> /\ WorkerOnly

\* publish_pose(f, false) of the idle paths and of a failed open
PublishIdle ==
    /\ wrk \in {"idle", "failed"}
    /\ posed' = FALSE
    /\ wrk' = IF wrk = "idle" THEN "nap" ELSE "top"
    /\ UNCHANGED << on, seen, sess, quiet, connected >> /\ WorkerOnly

WorkerNap ==
    /\ wrk = "nap"
    /\ wrk' = "top" /\ seen' = epoch
    /\ UNCHANGED << on, sess, quiet, connected, posed >> /\ WorkerOnly

WorkerStep == Top \/ Pick \/ PublishIdle \/ WorkerNap

-----------------------------------------------------------------------------
(* A session                                                               *)

\* ip and port are read under settings_mutex.
ReadAddress ==
    /\ wrk = "open"
    /\ wrk' = "dial"
    /\ sess' = IF Session(on).endpoint THEN address ELSE sess
    /\ UNCHANGED << on, seen, quiet, connected, posed >> /\ WorkerOnly

\* connect_tcp, open_*_hid_stream: a device of this transport must be there.
Opened ==
    /\ wrk = "dial" /\ TransportOf(plugged) = on
    /\ wrk' = "post" /\ connected' = TRUE /\ handle' = "live" /\ quiet' = 0
    /\ UNCHANGED << plugged, detector, on, seen, sess, epoch, posed, settings, phase >>

OpenFailed ==
    /\ wrk = "dial"
    /\ wrk' = "failed" /\ connected' = FALSE
    /\ UNCHANGED << on, seen, sess, quiet, posed >> /\ WorkerOnly

PublishConnected ==
    /\ wrk = "post"
    /\ wrk' = "loop" /\ posed' = TRUE
    /\ UNCHANGED << on, seen, sess, quiet, connected >> /\ WorkerOnly

Fits == ~Stop /\ seen = epoch /\ TransportOf(detected) = on

\* The conditions of the loop and its watchdog.
Loop ==
    /\ wrk = "loop"
    /\ wrk' = IF Fits /\ ~(Session(on).watchdog /\ quiet = Patience) THEN "read" ELSE "close"
    /\ UNCHANGED << on, seen, sess, quiet, connected, posed >> /\ WorkerOnly

\* A sample was decoded: publish_sensor_samples, publish_external_pose.
Publish ==
    /\ wrk = "read" /\ handle = "live"
    /\ wrk' = "loop" /\ quiet' = 0
    /\ posed' = (detected # None)
    /\ UNCHANGED << on, seen, sess, connected >> /\ WorkerOnly

ReadTimeout ==
    /\ wrk = "read"
    /\ wrk' = "loop"
    /\ quiet' = IF quiet < Patience THEN quiet + 1 ELSE quiet
    /\ UNCHANGED << on, seen, sess, connected, posed >> /\ WorkerOnly

\* recv ends with an error, or the other side closed the connection.
Hangup ==
    /\ wrk = "read" /\ Session(on).hangup
    /\ wrk' = "close"
    /\ UNCHANGED << on, seen, sess, quiet, connected, posed >> /\ WorkerOnly

\* The tail of every session: the handle is closed, then connected.store(false),
\* then publish_pose(f, false), then seen_epoch.
Closing_PoseFirst ==  \* mutant: publish_pose before connected.store
    \/ wrk = "close" /\ wrk' = "unpost" /\ posed' = FALSE /\ UNCHANGED << connected, seen >>
    \/ wrk = "unpost" /\ wrk' = "sync" /\ connected' = FALSE /\ UNCHANGED << posed, seen >>
    \/ wrk = "sync" /\ wrk' = "top" /\ seen' = epoch /\ UNCHANGED << connected, posed >>
Closing ==
    \/ wrk = "close" /\ wrk' = "unpost" /\ connected' = FALSE /\ UNCHANGED << posed, seen >>
    \/ wrk = "unpost" /\ wrk' = "sync" /\ posed' = FALSE /\ UNCHANGED << connected, seen >>
    \/ wrk = "sync" /\ wrk' = "top" /\ seen' = epoch /\ UNCHANGED << connected, posed >>

EndSession ==
    /\ Closing
    /\ handle' = "none"
    /\ UNCHANGED << plugged, detector, on, sess, quiet, epoch, settings, phase >>

SessionStep ==
    \/ ReadAddress \/ Opened \/ OpenFailed \/ PublishConnected
    \/ Loop \/ Publish \/ ReadTimeout \/ Hangup \/ EndSession

-----------------------------------------------------------------------------
(* Setters, on the UI thread or a phone session                            *)

EditorOnly == UNCHANGED << device, detector, worker, connected, phase >>

Store(e, a, next) ==
    /\ phase = "run" /\ ed[e] = "idle" /\ epoch < MaxEpoch
    /\ address' = a /\ ed' = [ed EXCEPT ![e] = next]
    /\ UNCHANGED << epoch, posed >> /\ EditorOnly

\* manager_set_network; manager_apply_settings does the same for a loaded collection.
SetNetwork(e, a) == a # address /\ Store(e, a, "bump")

ResetDefaults(e) == Store(e, Default, IF address = Default THEN "reset" ELSE "both")

ResetPose(e) ==
    /\ ed[e] \in {"reset", "both"}
    /\ posed' = FALSE
    /\ ed' = [ed EXCEPT ![e] = IF ed[e] = "reset" THEN "idle" ELSE "bump"]
    /\ UNCHANGED << epoch, address >> /\ EditorOnly

Bumped_Lost == epoch      \* mutant: reconnect_epoch is not advanced
Bumped == epoch + 1
Bump(e) ==
    /\ ed[e] = "bump"
    /\ epoch' = Bumped
    /\ ed' = [ed EXCEPT ![e] = "idle"]
    /\ UNCHANGED << posed, address >> /\ EditorOnly

\* manager_recenter; manager_recalibrate, manager_apply_model_settings and
\* manager_set_mag_yaw end in the same locked section.
Shown == connected
Recenter ==
    /\ phase = "run"
    /\ posed' = Shown
    /\ UNCHANGED << epoch, settings >> /\ EditorOnly

\* obs_module_unload: the dock and the phone server are gone by then.
Unload ==
    \/ /\ phase = "run" /\ \A e \in Editor : ed[e] = "idle"
       /\ phase' = "stop" /\ UNCHANGED epoch
    \/ phase = "stop" /\ phase' = "join" /\ epoch' = epoch + 1
    \/ phase = "join" /\ wrk = "done" /\ det = "done" /\ phase' = "down" /\ UNCHANGED epoch

UnloadStep == Unload /\ UNCHANGED << device, detector, worker, connected, posed, settings >>

-----------------------------------------------------------------------------
Next ==
    \/ Unplug \/ \E m \in Model : Plug(m)
    \/ DetectStep \/ WorkerStep \/ SessionStep
    \/ \E e \in Editor :
          \/ \E a \in Address : SetNetwork(e, a)
          \/ ResetDefaults(e) \/ ResetPose(e) \/ Bump(e)
    \/ Recenter \/ UnloadStep

Spec == Init /\ [][Next]_vars

\* Threads get time; a blocking read or open returns by its timeout.
FairSpec ==
    /\ Spec
    /\ WF_vars(DetectStep) /\ WF_vars(WorkerStep \/ SessionStep)
    /\ WF_vars(UnloadStep /\ phase # "run")
    /\ \A e \in Editor : WF_vars(ResetPose(e) \/ Bump(e))

-----------------------------------------------------------------------------
(* Safety                                                                  *)

InSession == wrk \in {"post", "loop", "read", "close"}

\* With no session the pose does not say "connected", whatever the setters
\* and the detection thread interleave: the warp is bypassed (every session's
\* tail, manager_recenter).
PoseTellsTruth == ~InSession /\ wrk # "unpost" => ~posed

\* A session that would go on reading uses the address the settings hold,
\* unless a setter is still on its way to reconnect_epoch (manager_set_network).
AddressIsCurrent ==
    /\ InSession /\ wrk # "close" /\ Session(on).endpoint
    /\ seen = epoch /\ \A e \in Editor : ed[e] = "idle"
    => sess = address

(* Liveness                                                                *)

\* A session whose glasses were unplugged ends, even when they are plugged
\* in again at once (the stall watchdogs).  Air and RayNeo have none: they
\* notice only what a scan notices.
LossNoticed == (handle = "dead" /\ on \notin {"air", "rayneo"}) ~> handle # "dead"

\* Unloading the plugin joins both threads.
UnloadReturns == phase = "stop" ~> phase = "down"
=============================================================================
