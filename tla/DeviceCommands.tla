--------------------------- MODULE DeviceCommands ---------------------------
(***************************************************************************)
(* The command channels of core/transports: display mode, brightness,      *)
(* automatic brightness, the XREAL Eye and MOVERIO's convergence.  The dock *)
(* and the phone leave a request in an atomic; the session of the glasses   *)
(* takes it with an exchange, sends it, asks the glasses and stores what    *)
(* they say in another atomic, which the dock's poll shows.  An access to   *)
(* such an atomic ends a step; the command and the query are between two.   *)
(***************************************************************************)
EXTENDS Integers

CONSTANTS Family,      \* the families plugged in, of "air", "nreal", "viture", "sensor", "tcp"
          Modes,       \* transport_traits.display_modes of each
          Level,       \* brightness levels
          Distance,    \* screen distances
          Shift,       \* convergence_shift_px
          Histories    \* bound: of one history, what users ask for, with which
                       \* rows of the dock, and the families plugged in

Unknown == -1
Automatic == 50        \* what getbright says while brightness is automatic
Factory == 0           \* the convergence of 4.6 m
NoShift == -1000       \* no convergence, or none that could be read
Kind == {"mode", "bright", "auto", "eye"}
Switch == {0, 1}
SbsMode == {"auto", "on", "off"}

ASSUME CommandParameters ==
    /\ Family \subseteq {"air", "nreal", "viture", "sensor", "tcp"}
    /\ Modes \in [Family -> SUBSET Nat] /\ Level \subseteq 0..20 /\ Level # {}
    /\ Distance # {} /\ Shift \in [Distance -> -32..256]
    /\ Histories \subseteq [topics : SUBSET (Kind \cup {"shift"}), rows : SUBSET Kind,
                      families : SUBSET Family]

VARIABLES
    history,        \* the bound of this behaviour
    worn,           \* the family of the glasses, or "none"
    hw, shift,      \* what the glasses are set to; their convergence
    mute,           \* they do not answer (asleep, or their display re-clocks)
    ses, alive,     \* the session's family, and that its glasses never left
    port,           \* its command channel is open
    take, val,      \* the kind of the request it has taken, and its value
    request, current,       \* the atomics
    link, distance, sbs,    \* convergence_link, screen_distance_m, sbs_active
    dd, hold, touched,      \* the session's dd_applied, dd_hold_default, dd_touched
    limited,                \* dd's 200 ms are not over
    dock, open, list, focus, \* the rows: shown, enabled; display_mode_combo's family, hasFocus
    wanted,         \* a history: the last request for these glasses, unless it was lost
    foundShift,     \* a history: the convergence a session found
    blind           \* a history: what its last command was not answered, nor its query

glasses == << worn, hw, shift, mute >>
session == << ses, alive, port, take, val >>
convergence == << dd, hold, touched, limited, foundShift, blind >>
world == << history, link, distance, sbs >>
rows == << dock, open, list, focus >>
commandVars == << world, glasses, session, convergence, request, current, rows, wanted >>

\* What the session of a family looks at in each pass of its loop, as far as
\* the history is about it: it passes by what nobody asks for.
Followed ==
    history.topics \cup (IF "shift" \in history.topics THEN {"mode"} ELSE {})
                   \cup (IF history.topics \cap {"bright", "auto"} # {} THEN {"bright", "auto"} ELSE {})
Channels(f) ==
    Followed \cap
    CASE f = "none"   -> {}
      [] f = "sensor" -> {"bright", "auto", "mode", "shift"}
      [] f = "tcp"    -> {"eye"}
      [] OTHER        -> {"mode"}

Listed(f, k) ==
    IF k \notin Channels(f) THEN {}
    ELSE CASE k = "mode" -> Modes[f] [] k = "bright" -> Level [] OTHER -> Switch

AnyMode == UNION {Modes[f] : f \in Family}
Range(k) == CASE k = "mode" -> AnyMode \cup {0, 1} [] k = "bright" -> Level [] OTHER -> Switch

CommandTypeOK ==
    /\ history \in Histories /\ worn \in Family \cup {"none"} /\ mute \in BOOLEAN
    /\ hw \in [Kind -> Int] /\ \A k \in Kind : hw[k] \in Range(k)
    /\ shift \in Int /\ foundShift \in Int /\ dd \in Int
    /\ ses \in Family \cup {"none"} /\ alive \in BOOLEAN /\ port \in BOOLEAN
    /\ take \in Kind \cup {"none"} /\ val \in Int
    /\ {request, wanted, current, dock} \subseteq [Kind -> Int]
    /\ \A k \in Kind :
          /\ {request[k], wanted[k]} \subseteq Range(k) \cup {Unknown}
          /\ {current[k], dock[k]} \subseteq Range(k) \cup {Unknown, Automatic}
    /\ open \in [Kind -> BOOLEAN] /\ list \in Family \cup {"none"} /\ focus \in BOOLEAN
    /\ link \in BOOLEAN /\ distance \in Distance /\ sbs \in SbsMode
    /\ hold \in BOOLEAN /\ touched \in BOOLEAN /\ limited \in BOOLEAN /\ blind \subseteq Kind \cup {"shift"}

Nothing == [k \in Kind |-> Unknown]
Unset == [k \in Kind |-> CHOOSE v \in Range(k) : TRUE]
Closed == [k \in Kind |-> FALSE]

CommandInit ==
    /\ history \in Histories /\ link = FALSE /\ sbs = "auto"
    /\ distance = CHOOSE d \in Distance : TRUE
    /\ worn = "none" /\ mute = FALSE /\ shift = Factory
    /\ hw = Unset
    /\ ses = "none" /\ alive = FALSE /\ port = FALSE /\ take = "none" /\ val = Unknown
    /\ dd = NoShift /\ hold = FALSE /\ touched = FALSE /\ limited = FALSE
    /\ foundShift = Factory /\ blind = {}
    /\ request = Nothing /\ current = Nothing
    /\ dock = Nothing /\ open = Closed /\ list = "none" /\ focus = FALSE
    /\ wanted = Nothing

-----------------------------------------------------------------------------
(* The glasses                                                             *)

\* Glasses keep what they were set to when they are unplugged, and come back
\* with any of it.
PlugIn(f) ==
    /\ worn = "none" /\ worn' = f
    /\ hw' \in [Kind -> AnyMode \cup Level \cup Switch]
    /\ \A k \in Kind : hw'[k] \in IF k \in Channels(f) THEN Listed(f, k) ELSE {hw[k]}
    /\ shift' \in {Factory} \cup (IF "shift" \in Channels(f) THEN {Shift[d] : d \in Distance}
                                                          ELSE {})
    /\ foundShift' = shift'
    /\ UNCHANGED << world, mute, session, dd, hold, touched, limited, blind >>
    /\ UNCHANGED << request, current, rows, wanted >>

PullOut ==
    /\ worn # "none" /\ worn' = "none" /\ alive' = FALSE
    /\ hw' = Unset /\ shift' = Factory /\ foundShift' = Factory /\ wanted' = Nothing
    /\ UNCHANGED << world, mute, ses, port, take, val, dd, hold, touched, limited, blind >>
    /\ UNCHANGED << request, current, rows >>

Sleep(b) ==
    /\ b # mute /\ mute' = b
    /\ UNCHANGED << world, worn, hw, shift, session, convergence >>
    /\ UNCHANGED << request, current, rows, wanted >>

Answers == alive /\ ~mute

\* MOVERIO's serial port speaks text: numbers in range, and 50 for a level that
\* is automatic.  The Light's answers begin with a digit.
Serial(k, set) == IF k = "bright" /\ set["auto"] = 1 THEN Automatic ELSE set[k]
Digit(set) == IF set["mode"] \in 1..9 THEN set["mode"] ELSE Unknown

\* What glasses that answer in time say; they answer the query or none.
Query(f, k, set) ==
    CASE f = "sensor" -> Serial(k, set)
      [] f = "nreal"  -> Digit(set)
      [] OTHER        -> set[k]

-----------------------------------------------------------------------------
(* A session                                                               *)

\* Its command channel, which it can do without.  VITURE's is the stream's own;
\* the One's is the interface that answers.
Opens(f) ==
    CASE f = "viture" -> {TRUE} [] f = "tcp" /\ mute -> {FALSE} [] OTHER -> BOOLEAN

\* It asks the glasses for all that the channel is for.
Start ==
    /\ ses = "none" /\ worn # "none"
    /\ ses' = worn /\ alive' = TRUE /\ UNCHANGED << take, val >>
    /\ port' \in Opens(worn)
    /\ current' = [k \in Kind |->
                     IF k \notin Channels(worn) THEN current[k]
                     ELSE IF port' /\ ~mute THEN Query(worn, k, hw) ELSE Unknown]
    /\ dd' = IF worn = "sensor" /\ port' /\ ~mute THEN shift ELSE NoShift
    /\ UNCHANGED << hold, touched, limited >>
    /\ foundShift' = shift /\ blind' = {}
    /\ UNCHANGED << world, glasses, request, rows, wanted >>

Looking(k) == take = "none" /\ k \in Channels(ses)

\* The values a session sends: the others are dropped.
Sends(f, v) ==
    CASE f = "nreal"  -> v \in 1..9
      [] f = "viture" -> v \in Modes[f]
      [] OTHER        -> TRUE

Without(k) == [request EXCEPT ![k] = Unknown]
Emptied_Later(k, done) == IF done THEN Without(k) ELSE request
                                         \* mutant: cleared when it is carried out
Emptied(k, done) == IF done THEN request ELSE Without(k)

\* The exchange.  The Light and the One leave a request alone while they have
\* no channel; the others drop it.
Take(k) ==
    /\ Looking(k) /\ request[k] # Unknown
    /\ port \/ ses \in {"air", "sensor"}
    /\ request' = Emptied(k, FALSE)
    /\ LET sent == port /\ (k = "mode" => Sends(ses, request[k])) IN
         /\ take' = IF sent THEN k ELSE "none"
         /\ val' = IF sent THEN request[k] ELSE Unknown
         /\ wanted' = IF sent THEN wanted ELSE [wanted EXCEPT ![k] = Unknown]
    /\ UNCHANGED << world, glasses, ses, alive, port, convergence, current, rows >>

\* Glasses do what they are told, if they know it; set2d3d knows two values.
Obeyed(k) ==
    LET v == IF k = "mode" /\ ses = "sensor" /\ val # 0 THEN 1 ELSE val IN
    IF v \in Listed(ses, k) THEN [hw EXCEPT ![k] = v] ELSE hw

\* What is stored in current: the answer; without one the Air and the Light
\* say unknown, VITURE and MOVERIO trust the request.
Believed(k, set) ==
    IF Answers THEN Query(ses, k, set)
    ELSE IF ses \in {"air", "nreal"} THEN Unknown ELSE val

\* The command for k did not do to j what was last asked of it.
Lost(j, k) ==
    \/ j = k /\ wanted[k] = val /\ hw'[k] # val
    \/ j = "bright" /\ request[j] = Unknown /\ (k = "auto" \/ (k = j /\ hw["auto"] = 1))

Done ==
    /\ take' = "none" /\ val' = Unknown
    /\ request' = Emptied(take, TRUE)
    /\ wanted' = [j \in Kind |-> IF Lost(j, take) THEN Unknown ELSE wanted[j]]

\* The command and the query.  Automatic brightness comes with a level of its
\* own, which is asked for too.
Level_Kept(k) == FALSE                   \* mutant: the level is not read again
Level_Read(k) == k = "auto"
Report ==
    /\ take \in {"mode", "bright", "auto"}
    /\ hw' \in IF Answers /\ ~(take = "bright" /\ hw["auto"] = 1)
               THEN {Obeyed(take)}
               ELSE {hw} \cup (IF alive THEN {Obeyed(take)} ELSE {})
    /\ current' = [k \in Kind |->
                     IF k = take THEN Believed(k, hw')
                     ELSE IF k = "bright" /\ Level_Read(take) /\ Answers THEN Query(ses, k, hw')
                     ELSE current[k]]
    /\ blind' = IF Answers THEN blind \ {take}
                ELSE blind \cup {take} \cup (IF take = "auto" THEN {"bright"} ELSE {})
    /\ Done
    /\ UNCHANGED << world, worn, shift, mute, ses, alive, port >>
    /\ UNCHANGED << dd, hold, touched, limited, foundShift, rows >>

\* The Eye's switch makes the glasses re-enumerate: nobody waits for an answer,
\* and its state is unknown until the next poll.
SetEye ==
    /\ take = "eye"
    /\ hw' \in IF Answers THEN {Obeyed("eye")}
               ELSE {hw} \cup (IF alive THEN {Obeyed("eye")} ELSE {})
    /\ current' = [current EXCEPT !["eye"] = Unknown]
    /\ Done
    /\ UNCHANGED << world, worn, shift, mute, ses, alive, port, convergence, rows >>

\* The Eye is asked for its state every 5 s.
PollEye ==
    /\ Looking("eye") /\ port
    /\ current' = [current EXCEPT !["eye"] = IF Answers THEN Query(ses, "eye", hw)
                                                    ELSE Unknown]
    /\ blind' = IF Answers THEN blind \ {"eye"} ELSE blind
    /\ UNCHANGED << world, glasses, session, dd, hold, touched, limited, foundShift >>
    /\ UNCHANGED << request, rows, wanted >>

\* sbs_output_active, whose "auto" is what the glasses are known to show.
Sbs == sbs = "on" \/ (sbs = "auto" /\ current["mode"] = 1)

\* The hardware's convergence for now: none in SBS, whose rendering has its
\* own; the screen's distance while linked; the factory's after it was.
Target_Unheld ==                         \* mutant: what it was set to last stays
    IF Sbs THEN Factory ELSE IF link THEN Shift[distance] ELSE dd
Target ==
    IF Sbs THEN Factory
    ELSE IF link THEN Shift[distance]
    ELSE IF hold THEN Factory ELSE dd

Converge ==
    /\ Looking("shift")
    /\ hold' = IF dd = NoShift THEN hold ELSE hold \/ link
    /\ IF dd # NoShift /\ Target # dd /\ ~limited
       THEN /\ shift' \in IF Answers THEN {Target} ELSE {shift} \cup (IF alive THEN {Target} ELSE {})
            /\ dd' = IF Answers THEN shift' ELSE Target
            /\ touched' = TRUE /\ limited' = TRUE /\ blind' = IF Answers THEN blind ELSE {"shift"} \cup blind
       ELSE UNCHANGED << shift, dd, touched, limited, blind >>
    /\ UNCHANGED << world, worn, hw, mute, session, foundShift >>
    /\ UNCHANGED << request, current, rows, wanted >>

LimitEnds ==
    /\ limited /\ limited' = FALSE
    /\ UNCHANGED << world, glasses, session, dd, hold, touched, foundShift, blind >>
    /\ UNCHANGED << request, current, rows, wanted >>

\* The loop ends: unplugged, another endpoint, silence.  A convergence that
\* was moved is put back, and everything is unknown again.
Moved == touched
End ==
    /\ ses # "none" /\ take = "none"
    /\ LET back == Moved /\ dd \notin {NoShift, Factory} IN
         /\ shift' \in IF ~back THEN {shift}
                       ELSE IF Answers THEN {Factory}
                       ELSE {shift} \cup (IF alive THEN {Factory} ELSE {})
         /\ blind' = IF back /\ ~Answers THEN {"shift"} ELSE blind \cap {"shift"}
    /\ ses' = "none" /\ alive' = FALSE /\ port' = FALSE
    /\ hold' = FALSE /\ touched' = FALSE /\ limited' = FALSE
    /\ current' = [k \in Kind |-> IF k \in Channels(ses) THEN Unknown ELSE current[k]]
    /\ dd' = NoShift
    /\ UNCHANGED << world, worn, hw, mute, take, val, foundShift >>
    /\ UNCHANGED << request, rows, wanted >>

LoopStep == (\E k \in Kind : Take(k)) \/ Report \/ SetEye \/ PollEye \/ Converge

-----------------------------------------------------------------------------
(* The dock and the phone                                                  *)

Ask(k, v) ==
    /\ request' = [request EXCEPT ![k] = v]
    /\ wanted' = IF worn = "none" THEN wanted ELSE [wanted EXCEPT ![k] = v]

\* What a click on the Eye's button asks for, by the atomic, not the label.
Toggled == IF current["eye"] = 1 THEN 0 ELSE 1

\* A row of the dock is used: enabled, of the family it was filled for.
Choose(k, v) ==
    /\ open[k]
    /\ v \in IF k = "eye" THEN {Toggled} ELSE Listed(list, k) \ {dock[k]}
    /\ Ask(k, v)
    /\ dock' = [dock EXCEPT ![k] = v] /\ focus' = (k \in {"mode", "bright"})
    /\ UNCHANGED << world, glasses, session, convergence, current, open, list >>

\* A "set" message: the row must be one the detected model has, nothing else.
PhoneSets(k, v) ==
    /\ k \in history.topics \cap Channels(worn)
    /\ v \in IF k = "eye" THEN {Toggled} ELSE Listed(worn, k)
    /\ Ask(k, v)
    /\ UNCHANGED << world, glasses, session, convergence, current, rows >>

LeaveRow ==
    /\ focus /\ focus' = FALSE
    /\ UNCHANGED << world, glasses, session, convergence, request, current >>
    /\ UNCHANGED << dock, open, list, wanted >>

\* The dock's poll.  A row with a request under way, or in use, keeps what it
\* shows; what is set here does not echo as a request (QSignalBlocker).
Kept(k) == request[k] # Unknown \/ (k \in {"mode", "bright"} /\ focus)
Refresh ==
    /\ list' = worn
    /\ open' = [k \in Kind |->
                  /\ k \in history.rows \cap Channels(worn) /\ current[k] # Unknown
                  /\ k = "bright" => current["auto"] # 1
                  /\ k = "eye" => request[k] = Unknown]
    /\ dock' = [k \in Kind |->
                  IF k \notin history.rows \/ Kept(k) THEN dock[k]
                  ELSE IF k = "auto" THEN IF current[k] = 1 THEN 1 ELSE 0
                  ELSE IF current[k] \in Listed(worn, k) THEN current[k] ELSE dock[k]]
    /\ UNCHANGED << world, glasses, session, convergence, request, current, focus, wanted >>

\* The link, the distance and the SBS switch are settings.
Settings ==
    /\ "shift" \in history.topics
    /\ \/ link' = ~link /\ UNCHANGED << distance, sbs >>
       \/ \E d \in Distance \ {distance} : distance' = d /\ UNCHANGED << link, sbs >>
       \/ \E s \in SbsMode \ {sbs} : sbs' = s /\ UNCHANGED << link, distance >>
    /\ UNCHANGED << history, glasses, session, convergence, request, current, rows, wanted >>

-----------------------------------------------------------------------------
CommandNext ==
    \/ \E f \in history.families : PlugIn(f)
    \/ PullOut \/ \E b \in BOOLEAN : Sleep(b)
    \/ Start \/ LoopStep \/ LimitEnds \/ End
    \/ \E k \in Kind : \E v \in Range(k) : Choose(k, v) \/ PhoneSets(k, v)
    \/ LeaveRow \/ Refresh \/ Settings

CommandSpec == CommandInit /\ [][CommandNext]_commandVars

\* A session's loop goes round, and the dock polls.
FairCommandSpec == CommandSpec /\ WF_commandVars(LoopStep) /\ WF_commandVars(LimitEnds) /\ WF_commandVars(Refresh)

-----------------------------------------------------------------------------
(* Properties                                                              *)

\* The session is that of the glasses plugged in, and they answer.
InTouch == ses = worn /\ Answers /\ port

\* What was last asked of the glasses - in the dock or on the phone, while
\* another command was under way, whatever the dock's poll wrote into its rows -
\* is what they are set to in the end.
LastChoiceWins ==
    []<>(\/ ~InTouch \/ request # Nothing
         \/ \A k \in Kind : wanted[k] \in Listed(worn, k) => hw[k] = wanted[k])

\* A value on show is one the glasses plugged in have, unless they did not
\* answer; one command may change another value (automatic brightness the
\* level), glasses are exchanged, and with no session nothing is known.
CurrentIsTheirs ==
    \A k \in Kind :
        \/ current[k] = Unknown
        \/ /\ ses # "none"
           /\ alive /\ take # k /\ k \notin blind => current[k] = Query(ses, k, hw)

\* The convergence outlives the program: a session that ends, however the link,
\* the distance and SBS moved it and whenever the glasses left, leaves them as it
\* found them, or as they come from the factory, unless a write was not answered.
ConvergencePutBack ==
    ses = "none" /\ worn # "none" => shift \in {Factory, foundShift} \/ "shift" \in blind

\* While linked, in 2D, the glasses' convergence comes to be that of the screen's
\* distance however fast the distance moves, and the factory's in SBS and once the
\* link is off; and the session that moved it puts it back.
ConvergenceFollows ==
    /\ []ConvergencePutBack
    /\ []<>(\/ ~InTouch \/ dd = NoShift \/ "shift" \in blind
            \/ shift = IF ~Sbs /\ link THEN Shift[distance]
                       ELSE IF Sbs \/ hold THEN Factory ELSE shift)

=============================================================================
