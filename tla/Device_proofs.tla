---------------------------- MODULE Device_proofs ----------------------------
(***************************************************************************)
(* Proofs about DeviceLink for any registry, any number of setters, any    *)
(* addresses and any number of edits and replugs, and about DeviceCommands *)
(* for any families with any modes, levels, distances and histories.       *)
(***************************************************************************)
EXTENDS DeviceLink, DeviceCommands, TLAPS

\* Where the flag and the pose may say "connected".
Flags ==
    /\ connected => InSession
    /\ posed => InSession \/ wrk = "unpost"

Owing(e) == ed[e] \in {"bump", "both"}

\* A session on a replaced address has either missed its epoch or will: the
\* setter that replaced the address still owes the bump.
Debt ==
    /\ seen <= epoch
    /\ /\ wrk \in {"dial", "post", "loop", "read"} /\ Session(on).endpoint
       /\ seen = epoch /\ sess # address
       => \E e \in Editor : Owing(e)

Inv == TypeOK /\ Flags /\ Debt

USE Parameters

LEMMA InitInv == Init => Inv
<1> SUFFICES ASSUME Init PROVE Inv
  OBVIOUS
<1>1. TypeOK
  <2>1. connected \in BOOLEAN /\ posed \in BOOLEAN
    BY Zenon DEF Init
  <2> QED BY <2>1 DEF Init, TypeOK
<1>2. Flags /\ Debt
  BY DEF Init, Flags, Debt, InSession
<1> QED
  BY <1>1, <1>2 DEF Inv

-----------------------------------------------------------------------------
(* Type correctness                                                        *)

LEMMA TransportType == \A m \in Model \cup {None} : TransportOf(m) \in Families \cup {"none"}
  BY DEF TransportOf

LEMMA TypePreserved == TypeOK /\ [Next]_vars => TypeOK'
<1> SUFFICES ASSUME TypeOK, [Next]_vars PROVE TypeOK'
  OBVIOUS
<1> USE DEF TypeOK, WorkerOnly, EditorOnly, vars, device, detector, worker, settings
<1>1. CASE Unplug \/ \E m \in Model : Plug(m)
  BY <1>1 DEF Unplug, Plug
<1>2. CASE DetectStep
  <2>1. CASE Scan
    BY <2>1 DEF Scan
  <2>2. CASE Exchange \/ DetectNap
    BY <2>2 DEF Exchange, DetectNap
  <2>3. CASE ResetTracker
    <3>1. posed' \in BOOLEAN
      BY <2>3, Zenon DEF ResetTracker
    <3> QED BY <2>3, <3>1 DEF ResetTracker
  <2> QED BY <1>2, <2>1, <2>2, <2>3 DEF DetectStep
<1>3. CASE WorkerStep
  <2>1. CASE Pick
    <3>1. connected' \in BOOLEAN
      BY <2>1, Zenon DEF Pick
    <3>2. on' \in Families \cup {"none"} /\ wrk' \in {"idle", "open"}
      BY <2>1, TransportType DEF Pick
    <3>3. UNCHANGED << seen, sess, quiet, posed >> /\ WorkerOnly
      BY <2>1, Zenon DEF Pick
    <3> QED BY <3>1, <3>2, <3>3, ZenonT(60)
  <2>2. CASE Top
    BY <2>2, ZenonT(60) DEF Top
  <2>3. CASE PublishIdle
    BY <2>3, ZenonT(60) DEF PublishIdle
  <2>4. CASE WorkerNap
    BY <2>4, ZenonT(60) DEF WorkerNap
  <2> QED BY <1>3, <2>1, <2>2, <2>3, <2>4 DEF WorkerStep
<1>4. CASE SessionStep
  <2>1. CASE ReadAddress \/ Opened \/ OpenFailed \/ PublishConnected
    <3>1. connected' \in BOOLEAN /\ posed' \in BOOLEAN
      BY <2>1, Zenon DEF ReadAddress, Opened, OpenFailed, PublishConnected
    <3> QED BY <2>1, <3>1 DEF ReadAddress, Opened, OpenFailed, PublishConnected
  <2>2. CASE Loop \/ Hangup
    BY <2>2 DEF Loop, Hangup
  <2>3. CASE ReadTimeout
    BY <2>3 DEF ReadTimeout
  <2>4. CASE EndSession
    BY <2>4, ZenonT(60) DEF EndSession, Closing
  <2>5. CASE Publish
    BY <2>5 DEF Publish
  <2> QED BY <1>4, <2>1, <2>2, <2>3, <2>4, <2>5 DEF SessionStep
<1>5. ASSUME NEW e \in Editor, (\E a \in Address : SetNetwork(e, a)) \/ ResetDefaults(e) PROVE TypeOK'
  BY <1>5 DEF SetNetwork, ResetDefaults, Store
<1>6. ASSUME NEW e \in Editor, ResetPose(e) \/ Bump(e) PROVE TypeOK'
  <2>1. CASE ResetPose(e)
    <3>1. posed' \in BOOLEAN
      BY <2>1, Zenon DEF ResetPose
    <3> QED BY <2>1, <3>1 DEF ResetPose
  <2>2. CASE Bump(e)
    BY <2>2 DEF Bump, Bumped
  <2> QED BY <1>6, <2>1, <2>2
<1>7. CASE Recenter
  BY <1>7 DEF Recenter, Shown
<1>8. CASE UnloadStep
  BY <1>8 DEF UnloadStep, Unload
<1>9. CASE UNCHANGED vars
  BY <1>9
<1> QED
  BY <1>1, <1>2, <1>3, <1>4, <1>5, <1>6, <1>7, <1>8, <1>9 DEF Next

-----------------------------------------------------------------------------
(* The flags and the pose                                                  *)

LEMMA FlagsPreserved == TypeOK /\ Flags /\ [Next]_vars => Flags'
<1> SUFFICES ASSUME TypeOK, Flags, [Next]_vars PROVE Flags'
  OBVIOUS
<1> USE DEF TypeOK, Flags, InSession, WorkerOnly, EditorOnly, vars, device, detector, worker, settings
<1>1. CASE Unplug \/ \E m \in Model : Plug(m)
  BY <1>1 DEF Unplug, Plug
<1>2. CASE DetectStep
  BY <1>2 DEF DetectStep, Scan, Exchange, ResetTracker, DetectNap
<1>3. CASE WorkerStep
  BY <1>3 DEF WorkerStep, Top, Pick, PublishIdle, WorkerNap
<1>4. CASE SessionStep
  <2>1. CASE ReadAddress \/ Opened \/ OpenFailed \/ PublishConnected
    BY <2>1 DEF ReadAddress, Opened, OpenFailed, PublishConnected
  <2>2. CASE Loop \/ Publish \/ Hangup \/ ReadTimeout
    BY <2>2 DEF Loop, Publish, Hangup, ReadTimeout
  <2>3. CASE EndSession
    BY <2>3 DEF EndSession, Closing
  <2> QED BY <1>4, <2>1, <2>2, <2>3 DEF SessionStep
<1>5. CASE \E e \in Editor : (\E a \in Address : SetNetwork(e, a)) \/ ResetDefaults(e)
  BY <1>5 DEF SetNetwork, ResetDefaults, Store
<1>6. CASE \E e \in Editor : ResetPose(e) \/ Bump(e)
  BY <1>6 DEF ResetPose, Bump
\* A recentered pose copies the flag, and the flag is only up in a session.
<1>7. CASE Recenter
  BY <1>7 DEF Recenter, Shown
<1>8. CASE UnloadStep
  BY <1>8 DEF UnloadStep, Unload
<1>9. CASE UNCHANGED vars
  BY <1>9
<1> QED
  BY <1>1, <1>2, <1>3, <1>4, <1>5, <1>6, <1>7, <1>8, <1>9 DEF Next

-----------------------------------------------------------------------------
(* The address                                                             *)

\* Steps that leave the address, the setters and both epochs alone, and do
\* not bring the worker into a session, keep the debt.
LEMMA DebtElsewhere ==
  ASSUME Debt, UNCHANGED << address, ed, epoch, seen >>,
         \/ UNCHANGED << wrk, on, sess >>
         \/ wrk' \notin {"dial", "post", "loop", "read"}
         \/ wrk \in {"dial", "post", "loop", "read"} /\ UNCHANGED << on, sess >>
  PROVE  Debt'
  BY DEF Debt, Owing, Session, Tcp, Air, RayNeo, Rokid, Viture, Nreal, Sensor

LEMMA DebtPreserved == TypeOK /\ Debt /\ [Next]_vars => Debt'
<1> SUFFICES ASSUME TypeOK, Debt, [Next]_vars PROVE Debt'
  OBVIOUS
<1> USE DEF WorkerOnly, EditorOnly, vars, device, detector, worker, settings
<1>1. CASE Unplug \/ \E m \in Model : Plug(m)
  BY <1>1, DebtElsewhere DEF Unplug, Plug
<1>2. CASE DetectStep
  BY <1>2, DebtElsewhere DEF DetectStep, Scan, Exchange, ResetTracker, DetectNap
<1>3. CASE WorkerStep
  <2>1. CASE Top \/ PublishIdle
    BY <2>1, DebtElsewhere DEF Top, PublishIdle
  <2>2. CASE Pick
    BY <2>2, DebtElsewhere DEF Pick
  <2>3. CASE WorkerNap
    BY <2>3 DEF WorkerNap, Debt, TypeOK
  <2> QED BY <1>3, <2>1, <2>2, <2>3 DEF WorkerStep
<1>4. CASE SessionStep
  \* The session starts on the address of this moment.
  <2>1. CASE ReadAddress
    <3>1. Session(on)'.endpoint = Session(on).endpoint
      BY <2>1 DEF ReadAddress, Session, Tcp, Air, RayNeo, Rokid, Viture, Nreal, Sensor
    <3> QED BY <2>1, <3>1 DEF ReadAddress, Debt
  <2>2. CASE Opened \/ OpenFailed \/ PublishConnected
    BY <2>2, DebtElsewhere DEF Opened, OpenFailed, PublishConnected
  <2>3. CASE Loop \/ Publish \/ Hangup \/ ReadTimeout
    BY <2>3, DebtElsewhere DEF Loop, Publish, Hangup, ReadTimeout
  <2>4. CASE EndSession
    BY <2>4 DEF EndSession, Closing, Debt, TypeOK
  <2> QED BY <1>4, <2>1, <2>2, <2>3, <2>4 DEF SessionStep
\* Whoever replaces the address owes a bump from that moment on.
<1>5. ASSUME NEW e \in Editor, NEW a \in Address, SetNetwork(e, a) PROVE Debt'
  <2>1. Owing(e)' /\ UNCHANGED << seen, epoch >>
    BY <1>5 DEF SetNetwork, Store, Owing, TypeOK
  <2> QED BY <2>1 DEF Debt
<1>6. ASSUME NEW e \in Editor, ResetDefaults(e) PROVE Debt'
  <2>1. CASE address = Default
    <3>1. UNCHANGED << address, epoch, seen, wrk, on, sess >>
      BY <1>6, <2>1 DEF ResetDefaults, Store
    <3>2. \A i \in Editor : Owing(i) => Owing(i)'
      BY <1>6, <2>1 DEF ResetDefaults, Store, Owing, TypeOK
    <3> QED BY <3>1, <3>2 DEF Debt, Session, Tcp, Air, RayNeo, Rokid, Viture, Nreal, Sensor
  <2>2. CASE address # Default
    <3>1. Owing(e)' /\ UNCHANGED << seen, epoch >>
      BY <1>6, <2>2 DEF ResetDefaults, Store, Owing, TypeOK
    <3> QED BY <3>1 DEF Debt
  <2> QED BY <2>1, <2>2
<1>7. ASSUME NEW e \in Editor, ResetPose(e) PROVE Debt'
  <2>1. UNCHANGED << address, epoch, seen, wrk, on, sess >>
    BY <1>7 DEF ResetPose
  <2>2. \A i \in Editor : Owing(i) => Owing(i)'
    BY <1>7 DEF ResetPose, Owing, TypeOK
  <2> QED BY <2>1, <2>2 DEF Debt, Session, Tcp, Air, RayNeo, Rokid, Viture, Nreal, Sensor
\* The paid debt leaves every session behind its epoch.
<1>8. ASSUME NEW e \in Editor, Bump(e) PROVE Debt'
  BY <1>8 DEF Bump, Bumped, Debt, TypeOK
<1>9. CASE Recenter
  BY <1>9, DebtElsewhere DEF Recenter
<1>10. CASE UnloadStep
  <2>1. CASE phase = "stop"
    BY <1>10, <2>1 DEF UnloadStep, Unload, Debt, TypeOK
  <2>2. CASE phase # "stop"
    BY <1>10, <2>2, DebtElsewhere DEF UnloadStep, Unload
  <2> QED BY <2>1, <2>2
<1>11. CASE UNCHANGED vars
  BY <1>11, DebtElsewhere
<1> QED
  BY <1>1, <1>2, <1>3, <1>4, <1>5, <1>6, <1>7, <1>8, <1>9, <1>10, <1>11 DEF Next

-----------------------------------------------------------------------------

LEMMA InvHolds == Spec => []Inv
<1>1. Inv /\ [Next]_vars => Inv'
  BY TypePreserved, FlagsPreserved, DebtPreserved DEF Inv
<1> QED
  BY InitInv, <1>1, PTL DEF Spec

\* Every variable keeps its type (device_manager's fields, both threads).
THEOREM TypeCorrect == Spec => []TypeOK
<1>1. Inv => TypeOK
  BY DEF Inv
<1> QED
  BY InvHolds, <1>1, PTL

\* Outside a session the pose never says "connected", for any number of
\* setters that recenter and reset (publish_pose, manager_recenter).
THEOREM PoseIsTruthful == Spec => []PoseTellsTruth
<1>1. Inv => PoseTellsTruth
  BY DEF Inv, Flags, PoseTellsTruth
<1> QED
  BY InvHolds, <1>1, PTL

\* A session that goes on reading uses the current address, for any number of
\* setters and edits (manager_set_network, reconnect_epoch).
THEOREM SessionsFollowTheAddress == Spec => []AddressIsCurrent
<1>1. Inv => AddressIsCurrent
  BY DEF Inv, TypeOK, Debt, Owing, AddressIsCurrent, InSession
<1> QED
  BY InvHolds, <1>1, PTL

-----------------------------------------------------------------------------
(* The command channels, and what the glasses say                          *)

\* The session, and what it is doing, belong to the glasses that are worn;
\* what is on show, to the session.
SessionIsTheirs ==
    /\ alive => ses = worn /\ ses # "none"
    /\ take # "none" => take \in Channels(ses) /\ val \in Range(take)
    /\ \A k \in Kind : current[k] # Unknown => k \in Channels(ses)

CommandTypes == CommandTypeOK /\ SessionIsTheirs

\* Whose convergence it is: what the session found, until it moves it; then
\* what it set last.
ConvergenceIsKnown ==
    /\ ses = "none" => ~touched
    /\ touched => dd # NoShift
    /\ \/ worn = "none" \/ "shift" \in blind
       \/ ~alive /\ shift \in {Factory, foundShift}
       \/ alive /\ ~touched /\ shift = foundShift
       \/ alive /\ touched /\ shift = dd

HIDE Parameters
USE CommandParameters

LEMMA ChannelsOf ==
    ASSUME NEW f
    PROVE  /\ f = "none" => Channels(f) = {}
           /\ f = "tcp" => Channels(f) \subseteq {"eye"}
           /\ f = "sensor" => /\ Channels(f) \subseteq {"bright", "auto", "mode", "shift"}
                              /\ "auto" \in Channels(f) => "bright" \in Channels(f)
           /\ f \notin {"none", "tcp", "sensor"} => Channels(f) \subseteq {"mode"}
  BY DEF Channels, Followed

LEMMA RangesAreNumbers ==
    \A k \in Kind : Range(k) # {} /\ Range(k) \subseteq Int /\ Unknown \notin Range(k)
<1>1. AnyMode \subseteq Nat
  BY DEF AnyMode
<1> QED
  BY <1>1 DEF Range, Kind, Switch, Unknown

LEMMA ListedInRange ==
    ASSUME NEW f \in Family, NEW k \in Kind
    PROVE  Listed(f, k) \subseteq Range(k)
<1>1. Modes[f] \subseteq AnyMode
  BY DEF AnyMode
<1> QED
  BY <1>1 DEF Listed, Range, Kind

\* An answer about a kind is a value of its own.
LEMMA AnswersInRange ==
    ASSUME NEW f \in Family, NEW set \in [Kind -> Int], NEW k \in Kind, k \in Channels(f),
           \A j \in Kind : set[j] \in Range(j)
    PROVE  Query(f, k, set) \in Range(k) \cup {Unknown, Automatic}
<1>1. CASE f = "nreal"
  <2>1. k = "mode"
    BY <1>1, ChannelsOf
  <2> QED BY <1>1, <2>1 DEF Query, Digit, Kind
<1>2. CASE f = "sensor"
  BY <1>2 DEF Query, Serial
<1>3. CASE f \notin {"nreal", "sensor"}
  BY <1>3 DEF Query
<1> QED
  BY <1>1, <1>2, <1>3

\* Changing one value changes the answer about another only where one serial
\* port reports a level as automatic.
LEMMA AnswersKept ==
    ASSUME NEW f, NEW set, NEW new, NEW j, NEW k, {j, k} \subseteq Kind, set \in [Kind -> Int],
           new \in {set} \cup {[set EXCEPT ![j] = v] : v \in Int},
           k \in Channels(f), j # k, ~(k = "bright" /\ j = "auto")
    PROVE  Query(f, k, new) = Query(f, k, set)
<1>1. new[k] = set[k]
  OBVIOUS
<1>2. CASE f = "nreal"
  <2>1. k = "mode"
    BY <1>2, ChannelsOf
  <2> QED BY <1>1, <1>2, <2>1 DEF Query, Digit
<1>3. CASE f = "sensor"
  <2>1. k = "bright" => new["auto"] = set["auto"]
    BY DEF Kind
  <2> QED BY <1>1, <1>3, <2>1 DEF Query, Serial
<1>4. CASE f \notin {"nreal", "sensor"}
  BY <1>1, <1>4 DEF Query
<1> QED
  BY <1>2, <1>3, <1>4

-----------------------------------------------------------------------------
(* Types                                                                   *)

LEMMA CommandsInit == CommandInit => CommandTypes /\ CurrentIsTheirs /\ ConvergenceIsKnown
<1> SUFFICES ASSUME CommandInit PROVE CommandTypes /\ CurrentIsTheirs /\ ConvergenceIsKnown
  OBVIOUS
<1>1. distance \in Distance
  BY DEF CommandInit
<1>2. hw \in [Kind -> Int] /\ \A k \in Kind : hw[k] \in Range(k)
  BY RangesAreNumbers DEF CommandInit, Unset
<1>3. CommandTypeOK
  <2>1. {request, wanted, current, dock} \subseteq [Kind -> Int]
    BY DEF CommandInit, Nothing, Unknown
  <2>2. \A k \in Kind : /\ {request[k], wanted[k]} \subseteq Range(k) \cup {Unknown}
                        /\ {current[k], dock[k]} \subseteq Range(k) \cup {Unknown, Automatic}
    BY DEF CommandInit, Nothing
  <2>3. open \in [Kind -> BOOLEAN]
    BY DEF CommandInit, Closed
  <2>4. {shift, foundShift, dd, val} \subseteq Int
    BY DEF CommandInit, Factory, NoShift, Unknown
  <2> QED
    BY <1>1, <1>2, <2>1, <2>2, <2>3, <2>4 DEF CommandInit, CommandTypeOK, SbsMode
<1>4. SessionIsTheirs /\ CurrentIsTheirs /\ ConvergenceIsKnown
  BY DEF CommandInit, SessionIsTheirs, CurrentIsTheirs, ConvergenceIsKnown, Nothing
<1> QED
  BY <1>3, <1>4 DEF CommandTypes

LEMMA DistancesAreNumbers == \A d \in Distance : Shift[d] \in Int /\ Shift[d] # NoShift
  BY DEF NoShift

\* Glasses come and go with values of their ranges, whatever the session does.
LEMMA GlassesKeepTypes ==
    ASSUME CommandTypes, \/ \E f \in history.families : PlugIn(f)
                         \/ PullOut \/ \E b \in BOOLEAN : Sleep(b)
    PROVE  CommandTypes'
<1> USE DEF CommandTypes, CommandTypeOK, SessionIsTheirs, world, session, rows
<1>1. ASSUME NEW f \in history.families, PlugIn(f) PROVE CommandTypes'
  <2>1. f \in Family
    BY <1>1
  <2>2. shift' \in Int
    BY <1>1, DistancesAreNumbers DEF PlugIn, Factory
  <2>3. hw' \in [Kind -> Int] /\ \A k \in Kind : hw'[k] \in Range(k)
    <3>1. hw' \in [Kind -> AnyMode \cup Level \cup Switch]
      BY <1>1 DEF PlugIn
    <3>2. AnyMode \cup Level \cup Switch \subseteq Int
      <4>1. AnyMode \subseteq Int
        BY DEF AnyMode
      <4> QED BY <4>1 DEF Switch
    <3>3. ASSUME NEW k \in Kind PROVE hw'[k] \in Range(k)
      BY <1>1, <2>1, <3>3, ListedInRange DEF PlugIn
    <3>4. hw' \in [Kind -> Int]
      BY <3>1, <3>2
    <3> QED BY <3>3, <3>4
  <2> QED BY <1>1, <2>1, <2>2, <2>3 DEF PlugIn, Channels, Followed
<1>2. CASE PullOut
  <2>1. hw' \in [Kind -> Int] /\ \A k \in Kind : hw'[k] \in Range(k)
    BY <1>2, RangesAreNumbers DEF PullOut, Unset
  <2>2. wanted' \in [Kind -> Int] /\ \A k \in Kind : wanted'[k] \in Range(k) \cup {Unknown}
    BY <1>2 DEF PullOut, Nothing, Unknown
  <2>3. shift' \in Int /\ foundShift' \in Int
    BY <1>2 DEF PullOut, Factory
  <2>4. SessionIsTheirs'
    <3>1. alive' = FALSE /\ UNCHANGED << world, ses, take, val, current >>
      BY <1>2, Zenon DEF PullOut
    <3>2. Channels(ses)' = Channels(ses)
      BY <3>1 DEF Channels, Followed, world
    <3>3. take # "none" => (take \in Channels(ses) /\ val \in Range(take))'
      BY <3>1, <3>2, Zenon
    <3>4. \A k \in Kind : (current[k] # Unknown => k \in Channels(ses))'
      BY <3>1, <3>2, Zenon DEF Unknown
    <3> QED BY <3>1, <3>3, <3>4, Zenon
  <2>5. CommandTypeOK'
    BY <1>2, <2>1, <2>2, <2>3, ZenonT(60) DEF PullOut
  <2> QED BY <2>4, <2>5
<1>3. ASSUME NEW b \in BOOLEAN, Sleep(b) PROVE CommandTypes'
  BY <1>3 DEF Sleep, convergence, Channels, Followed
<1> QED
  BY <1>1, <1>2, <1>3

\* A session whose channels have anything is one of a family.
LEMMA ServesFamily ==
    ASSUME CommandTypes, NEW k \in Channels(ses)
    PROVE  ses \in Family
  BY ChannelsOf DEF CommandTypes, CommandTypeOK

LEMMA StartKeepsTypes == CommandTypes /\ Start => CommandTypes'
<1> SUFFICES ASSUME CommandTypes, Start PROVE CommandTypes'
  OBVIOUS
<1> USE DEF CommandTypes
<1>1. worn \in Family /\ hw \in [Kind -> Int] /\ \A j \in Kind : hw[j] \in Range(j)
  BY DEF Start, CommandTypeOK
<1>2. \A k \in Kind : /\ current'[k] \in Range(k) \cup {Unknown, Automatic}
                      /\ current'[k] # Unknown => k \in Channels(worn)
  <2> TAKE k \in Kind
  <2>1. CASE k \notin Channels(worn)
    <3>1. k \notin Channels(ses)
      BY ChannelsOf DEF Start
    <3>2. current[k] = Unknown
      BY <3>1 DEF SessionIsTheirs
    <3>3. current'[k] = current[k]
      BY <2>1 DEF Start
    <3> QED BY <2>1, <3>2, <3>3
  <2>2. CASE k \in Channels(worn)
    <3>1. Query(worn, k, hw) \in Range(k) \cup {Unknown, Automatic}
      BY <1>1, <2>2, AnswersInRange
    <3> QED BY <2>2, <3>1 DEF Start
  <2> QED BY <2>1, <2>2
<1>3. current' \in [Kind -> Int]
  <2>1. current' = [k \in Kind |-> current'[k]]
    BY DEF Start
  <2>2. \A k \in Kind : current'[k] \in Int
    BY <1>2, RangesAreNumbers DEF Unknown, Automatic
  <2> QED BY <2>1, <2>2
<1>4. port' \in BOOLEAN
  BY DEF Start, Opens
<1>5. dd' \in Int
  BY DEF Start, NoShift, CommandTypeOK
<1>6. CommandTypeOK'
  BY <1>1, <1>2, <1>3, <1>4, <1>5 DEF Start, CommandTypeOK, world, glasses, rows
<1>7. SessionIsTheirs'
  <2>1. take = "none"
    BY ChannelsOf DEF Start, SessionIsTheirs
  <2>2. \A k \in Kind : k \in Channels(worn) => (k \in Channels(ses))'
    BY DEF Start, Channels, Followed, world
  <2> QED BY <1>1, <1>2, <2>1, <2>2, ChannelsOf DEF Start, SessionIsTheirs, glasses, CommandTypeOK
<1> QED
  BY <1>6, <1>7

LEMMA TakeKeepsTypes == ASSUME CommandTypes, NEW k \in Kind, Take(k) PROVE CommandTypes'
<1> USE DEF CommandTypes
<1>1. k \in Channels(ses) /\ request[k] \in Range(k)
  BY DEF Take, Looking, CommandTypeOK
<1>2. request' \in [Kind -> Int] /\ \A j \in Kind : request'[j] \in Range(j) \cup {Unknown}
  BY DEF Take, Emptied, Without, CommandTypeOK, Unknown
<1>3. wanted' \in [Kind -> Int] /\ \A j \in Kind : wanted'[j] \in Range(j) \cup {Unknown}
  BY DEF Take, CommandTypeOK, Unknown
<1>4. /\ take' \in {k, "none"} /\ val' \in Int
      /\ take' # "none" => val' \in Range(k)
  BY <1>1, RangesAreNumbers DEF Take, Unknown, Kind
<1>5. CommandTypeOK'
  <2>1. {request', wanted', current', dock'} \subseteq [Kind -> Int]
    BY <1>2, <1>3, ZenonT(60) DEF Take, CommandTypeOK, rows
  <2>2. \A j \in Kind : /\ {request'[j], wanted'[j]} \subseteq Range(j) \cup {Unknown}
                        /\ {current'[j], dock'[j]} \subseteq Range(j) \cup {Unknown, Automatic}
    <3>1. UNCHANGED << current, dock >>
      BY DEF Take, rows
    <3>2. \A j \in Kind : {current'[j], dock'[j]} \subseteq Range(j) \cup {Unknown, Automatic}
      BY <3>1 DEF CommandTypeOK
    <3> QED BY <1>2, <1>3, <3>2
  <2>3. take' \in Kind \cup {"none"} /\ val' \in Int
    BY <1>4
  <2> QED BY <2>1, <2>2, <2>3 DEF Take, CommandTypeOK, world, glasses, convergence, rows
<1>6. \A j : j \in Channels(ses) <=> (j \in Channels(ses))'
  BY DEF Take, Channels, Followed, world
<1>7. SessionIsTheirs'
  <2>1. take' # "none" => take' \in Channels(ses)' /\ val' \in Range(take')
    BY <1>1, <1>4, <1>6
  <2> QED BY <1>6, <2>1 DEF Take, SessionIsTheirs, glasses
<1> QED
  BY <1>5, <1>7

\* A command leaves every value of the glasses one of its range.
LEMMA ObeyedInRange ==
    ASSUME CommandTypes, take \in Kind
    PROVE  /\ Obeyed(take) \in {hw} \cup {[hw EXCEPT ![take] = v] : v \in Int}
           /\ Obeyed(take) \in [Kind -> Int]
           /\ \A j \in Kind : Obeyed(take)[j] \in Range(j)
<1>1. ses \in Family /\ hw \in [Kind -> Int] /\ \A j \in Kind : hw[j] \in Range(j)
  <2>1. take \in Channels(ses)
    BY DEF CommandTypes, SessionIsTheirs, Kind
  <2> QED BY <2>1, ServesFamily DEF CommandTypes, CommandTypeOK
<1>2. Listed(ses, take) \subseteq Range(take) /\ Range(take) \subseteq Int
  BY <1>1, ListedInRange, RangesAreNumbers
<1>3. \/ Obeyed(take) = hw
      \/ \E v \in Listed(ses, take) : Obeyed(take) = [hw EXCEPT ![take] = v]
  BY DEF Obeyed
<1>4. CASE Obeyed(take) = hw
  BY <1>1, <1>4
<1>5. ASSUME NEW v \in Listed(ses, take), Obeyed(take) = [hw EXCEPT ![take] = v]
      PROVE  /\ Obeyed(take) \in {[hw EXCEPT ![take] = w] : w \in Int}
             /\ Obeyed(take) \in [Kind -> Int]
             /\ \A j \in Kind : Obeyed(take)[j] \in Range(j)
  BY <1>1, <1>2, <1>5
<1> QED
  BY <1>3, <1>4, <1>5

\* The command is over: no request came or went but users'.
LEMMA DoneKeepsTypes ==
    ASSUME CommandTypes, Done, take \in Kind
    PROVE  /\ request' \in [Kind -> Int] /\ wanted' \in [Kind -> Int]
           /\ \A j \in Kind : {request'[j], wanted'[j]} \subseteq Range(j) \cup {Unknown}
           /\ take' = "none" /\ val' \in Int
<1>1. request' = request /\ request \in [Kind -> Int] /\ wanted \in [Kind -> Int]
  BY DEF Done, Emptied, CommandTypes, CommandTypeOK
<1>2. \A j \in Kind : {request[j], wanted[j]} \subseteq Range(j) \cup {Unknown}
  BY DEF CommandTypes, CommandTypeOK
<1>3. \A j \in Kind : wanted'[j] \in {wanted[j], Unknown}
  BY DEF Done
<1>4. wanted' \in [Kind -> Int]
  <2>1. wanted' = [j \in Kind |-> wanted'[j]]
    BY DEF Done
  <2> QED BY <1>1, <1>3, <2>1 DEF Unknown
<1>5. take' = "none" /\ val' \in Int
  BY DEF Done, Unknown
<1> QED
  BY <1>1, <1>2, <1>3, <1>4, <1>5

LEMMA ReportKeepsTypes == CommandTypes /\ Report => CommandTypes'
<1> SUFFICES ASSUME CommandTypes, Report PROVE CommandTypes'
  OBVIOUS
<1>1. take \in Kind /\ take \in Channels(ses) /\ val \in Range(take) /\ ses \in Family
  <2>1. take \in Kind /\ take \in Channels(ses) /\ val \in Range(take)
    BY DEF Report, CommandTypes, SessionIsTheirs, Kind
  <2> QED BY <2>1, ServesFamily
<1>2. hw' \in [Kind -> Int] /\ \A j \in Kind : hw'[j] \in Range(j)
  <2>1. hw' \in {hw, Obeyed(take)}
    BY DEF Report
  <2> QED BY <1>1, <2>1, ObeyedInRange DEF CommandTypes, CommandTypeOK
<1>3. \A k \in Kind : k \in Channels(ses) =>
         Query(ses, k, hw') \in Range(k) \cup {Unknown, Automatic}
  BY <1>1, <1>2, AnswersInRange
<1>4. \A k \in Kind : /\ current'[k] \in Range(k) \cup {Unknown, Automatic}
                      /\ current'[k] # Unknown => k \in Channels(ses)
  <2> TAKE k \in Kind
  <2>1. CASE k = take
    <3>1. current'[k] = Believed(k, hw')
      BY <2>1 DEF Report
    <3> QED BY <1>1, <1>3, <2>1, <3>1 DEF Believed
  <2>2. CASE k # take /\ k = "bright" /\ Level_Read(take) /\ Answers
    <3>1. current'[k] = Query(ses, k, hw')
      BY <2>2 DEF Report
    <3>2. k \in Channels(ses)
      BY <1>1, <2>2, ChannelsOf DEF Level_Read
    <3> QED BY <1>3, <3>1, <3>2
  <2>3. CASE k # take /\ ~(k = "bright" /\ Level_Read(take) /\ Answers)
    <3>1. current'[k] = current[k]
      BY <2>3 DEF Report
    <3> QED BY <3>1 DEF CommandTypes, CommandTypeOK, SessionIsTheirs
  <2> QED BY <2>1, <2>2, <2>3
<1>5. current' \in [Kind -> Int]
  <2>1. current' = [k \in Kind |-> current'[k]]
    BY DEF Report
  <2>2. \A k \in Kind : current'[k] \in Int
    BY <1>4, RangesAreNumbers DEF Unknown, Automatic
  <2> QED BY <2>1, <2>2
<1>6. /\ request' \in [Kind -> Int] /\ wanted' \in [Kind -> Int]
      /\ \A j \in Kind : {request'[j], wanted'[j]} \subseteq Range(j) \cup {Unknown}
      /\ take' = "none" /\ val' \in Int
  BY <1>1, DoneKeepsTypes DEF Report
<1>7. CommandTypeOK'
  <2>1. blind' \subseteq Kind \cup {"shift"}
    BY <1>1 DEF Report, CommandTypes, CommandTypeOK, Kind
  <2>2. UNCHANGED << dock, open, list, focus >>
    BY DEF Report, rows
  <2>3. \A j \in Kind : dock'[j] \in Range(j) \cup {Unknown, Automatic}
    BY <2>2 DEF CommandTypes, CommandTypeOK
  <2> QED BY <1>2, <1>4, <1>5, <1>6, <2>1, <2>2, <2>3 DEF Report, CommandTypes, CommandTypeOK, world
<1>8. SessionIsTheirs'
  <2>1. \A k \in Kind : k \in Channels(ses) => (k \in Channels(ses))'
    BY DEF Report, Channels, Followed, world
  <2> QED BY <1>4, <1>6, <2>1 DEF Report, CommandTypes, SessionIsTheirs
<1> QED
  BY <1>7, <1>8 DEF CommandTypes

LEMMA EyeKeepsTypes == CommandTypes /\ (SetEye \/ PollEye) => CommandTypes'
<1> SUFFICES ASSUME CommandTypes, SetEye \/ PollEye PROVE CommandTypes'
  OBVIOUS
<1>1. ses \in Family /\ "eye" \in Channels(ses) /\ "eye" \in Kind
  <2>1. "eye" \in Channels(ses)
    BY DEF SetEye, PollEye, Looking, CommandTypes, SessionIsTheirs
  <2> QED BY <2>1, ServesFamily DEF Kind
<1>2. hw' \in [Kind -> Int] /\ \A j \in Kind : hw'[j] \in Range(j)
  <2>1. CASE SetEye
    <3>1. hw' \in {hw, Obeyed(take)} /\ take \in Kind
      BY <2>1, <1>1 DEF SetEye
    <3> QED BY <3>1, ObeyedInRange DEF CommandTypes, CommandTypeOK
  <2>2. CASE PollEye
    BY <2>2 DEF PollEye, glasses, CommandTypes, CommandTypeOK
  <2> QED BY <2>1, <2>2
<1>3. /\ current' = [current EXCEPT !["eye"] = current'["eye"]]
      /\ current'["eye"] \in Range("eye") \cup {Unknown, Automatic}
  <2>1. Query(ses, "eye", hw) \in Range("eye") \cup {Unknown, Automatic}
    BY <1>1, AnswersInRange DEF CommandTypes, CommandTypeOK
  <2> QED BY <1>1, <2>1 DEF SetEye, PollEye, CommandTypes, CommandTypeOK
<1>4. /\ current' \in [Kind -> Int]
      /\ \A k \in Kind : current'[k] \in Range(k) \cup {Unknown, Automatic}
  <2>1. Range("eye") \cup {Unknown, Automatic} \subseteq Int
    BY <1>1, RangesAreNumbers DEF Unknown, Automatic
  <2> QED BY <1>1, <1>3, <2>1 DEF CommandTypes, CommandTypeOK
<1>5. /\ request' \in [Kind -> Int] /\ wanted' \in [Kind -> Int]
      /\ \A j \in Kind : {request'[j], wanted'[j]} \subseteq Range(j) \cup {Unknown}
      /\ take' \in {take, "none"} /\ val' \in Int /\ (take' # "none" => val' = val)
  <2>1. CASE SetEye
    BY <1>1, <2>1, DoneKeepsTypes DEF SetEye
  <2>2. CASE PollEye
    BY <2>2 DEF PollEye, session, CommandTypes, CommandTypeOK
  <2> QED BY <2>1, <2>2
<1>6. UNCHANGED << history, link, distance, sbs, worn, shift, mute, ses, alive, port, dd, hold,
                   touched, limited, foundShift, dock, open, list, focus >>
  BY DEF SetEye, PollEye, world, glasses, session, convergence, rows
<1>7. CommandTypeOK'
  <2>1. blind' \subseteq Kind \cup {"shift"}
    BY DEF SetEye, PollEye, convergence, CommandTypes, CommandTypeOK
  <2>2. \A j \in Kind : dock'[j] \in Range(j) \cup {Unknown, Automatic}
    BY <1>6 DEF CommandTypes, CommandTypeOK
  <2> QED BY <1>2, <1>4, <1>5, <1>6, <2>1, <2>2 DEF CommandTypes, CommandTypeOK
<1>8. SessionIsTheirs'
  <2>1. \A k : k \in Channels(ses) => (k \in Channels(ses))'
    BY <1>6 DEF Channels, Followed
  <2>2. \A k \in Kind : k # "eye" => current'[k] = current[k]
    BY <1>3 DEF CommandTypes, CommandTypeOK
  <2> QED BY <1>1, <1>5, <1>6, <2>1, <2>2 DEF CommandTypes, SessionIsTheirs
<1> QED
  BY <1>7, <1>8 DEF CommandTypes

LEMMA TargetIsNumber ==
    ASSUME CommandTypes
    PROVE  Target \in Int /\ (dd # NoShift => Target # NoShift)
  BY DistancesAreNumbers DEF Target, CommandTypes, CommandTypeOK, Factory, NoShift

LEMMA ConvergeKeepsTypes == CommandTypes /\ (Converge \/ LimitEnds) => CommandTypes'
<1> SUFFICES ASSUME CommandTypes, Converge \/ LimitEnds PROVE CommandTypes'
  OBVIOUS
<1>1. UNCHANGED << history, link, distance, sbs, worn, hw, mute, ses, alive, port, take, val,
                   foundShift, request, current, dock, open, list, focus, wanted >>
  BY DEF Converge, LimitEnds, world, glasses, session, rows
<1>2. shift' \in Int /\ dd' \in Int
  BY TargetIsNumber DEF Converge, LimitEnds, glasses, CommandTypes, CommandTypeOK
<1>3. hold' \in BOOLEAN
  BY Zenon DEF Converge, LimitEnds, CommandTypes, CommandTypeOK
<1>4. touched' \in BOOLEAN /\ limited' \in BOOLEAN
  BY DEF Converge, LimitEnds, CommandTypes, CommandTypeOK
<1>5. blind' \subseteq Kind \cup {"shift"}
  BY DEF Converge, LimitEnds, CommandTypes, CommandTypeOK
<1>6. CommandTypeOK'
  BY <1>1, <1>2, <1>3, <1>4, <1>5 DEF CommandTypes, CommandTypeOK
<1>7. SessionIsTheirs'
  BY <1>1 DEF CommandTypes, SessionIsTheirs, Channels, Followed
<1> QED
  BY <1>6, <1>7 DEF CommandTypes

LEMMA EndKeepsTypes == CommandTypes /\ End => CommandTypes'
<1> SUFFICES ASSUME CommandTypes, End PROVE CommandTypes'
  OBVIOUS
<1>1. UNCHANGED << history, link, distance, sbs, worn, hw, mute, take, val,
                   foundShift, request, dock, open, list, focus, wanted >>
  BY DEF End, world, rows
<1>2. shift' \in Int /\ dd' \in Int
  BY DEF End, CommandTypes, CommandTypeOK, Factory, NoShift
<1>3. /\ current' \in [Kind -> Int]
      /\ \A k \in Kind : current'[k] = Unknown
  <2>1. \A k \in Kind : current'[k] = Unknown
    BY DEF End, CommandTypes, SessionIsTheirs
  <2>2. current' = [k \in Kind |-> current'[k]]
    BY DEF End
  <2> QED BY <2>1, <2>2 DEF Unknown
<1>4. blind' \subseteq Kind \cup {"shift"}
  BY DEF End, CommandTypes, CommandTypeOK
<1>5. CommandTypeOK'
  <2>1. \A j \in Kind : /\ {request'[j], wanted'[j]} \subseteq Range(j) \cup {Unknown}
                        /\ {current'[j], dock'[j]} \subseteq Range(j) \cup {Unknown, Automatic}
    BY <1>1, <1>3 DEF CommandTypes, CommandTypeOK
  <2>2. {request', wanted', current', dock'} \subseteq [Kind -> Int]
    BY <1>1, <1>3 DEF CommandTypes, CommandTypeOK
  <2> QED BY <1>1, <1>2, <1>4, <2>1, <2>2 DEF End, CommandTypes, CommandTypeOK
<1>6. SessionIsTheirs'
  BY <1>3 DEF End, SessionIsTheirs
<1> QED
  BY <1>5, <1>6 DEF CommandTypes

\* What the dock and the phone do to a session's types: nothing but requests.
LEMMA UsersKeepTypes ==
    ASSUME CommandTypes,
           \/ \E k \in Kind : \E v \in Range(k) : Choose(k, v) \/ PhoneSets(k, v)
           \/ LeaveRow \/ Refresh \/ Settings
    PROVE  CommandTypes'
<1> USE DEF CommandTypes
<1>1. ASSUME UNCHANGED << history, worn, ses, alive, take, val, current >> PROVE SessionIsTheirs'
  BY <1>1 DEF SessionIsTheirs, Channels, Followed
<1>2. ASSUME NEW k \in Kind, NEW v \in Range(k), Ask(k, v)
      PROVE  /\ request' \in [Kind -> Int] /\ wanted' \in [Kind -> Int]
             /\ \A j \in Kind : {request'[j], wanted'[j]} \subseteq Range(j) \cup {Unknown}
  <2>1. v \in Int
    BY RangesAreNumbers
  <2>2. /\ request \in [Kind -> Int] /\ wanted \in [Kind -> Int]
        /\ \A j \in Kind : {request[j], wanted[j]} \subseteq Range(j) \cup {Unknown}
    BY DEF CommandTypeOK
  <2>3. request' \in [Kind -> Int] /\ \A j \in Kind : request'[j] \in Range(j) \cup {Unknown}
    BY <1>2, <2>1, <2>2 DEF Ask
  <2>4. wanted' \in [Kind -> Int] /\ \A j \in Kind : wanted'[j] \in Range(j) \cup {Unknown}
    BY <1>2, <2>1, <2>2 DEF Ask
  <2> QED BY <2>3, <2>4
<1>3. ASSUME NEW k \in Kind, NEW v \in Range(k), Choose(k, v) PROVE CommandTypes'
  <2>1. UNCHANGED << history, link, distance, sbs, worn, hw, shift, mute, ses, alive, port, take,
                     val, dd, hold, touched, limited, foundShift, blind, current, open, list >>
    BY <1>3 DEF Choose, world, glasses, session, convergence
  <2>2. dock' \in [Kind -> Int] /\ \A j \in Kind : dock'[j] \in Range(j) \cup {Unknown, Automatic}
    BY <1>3, RangesAreNumbers DEF Choose, CommandTypeOK
  <2>3. focus' \in BOOLEAN
    <3>1. CASE k \in {"mode", "bright"}
      BY <1>3, <3>1, Zenon DEF Choose
    <3>2. CASE k \notin {"mode", "bright"}
      BY <1>3, <3>2 DEF Choose
    <3> QED BY <3>1, <3>2
  <2>4. /\ request' \in [Kind -> Int] /\ wanted' \in [Kind -> Int]
        /\ \A j \in Kind : {request'[j], wanted'[j]} \subseteq Range(j) \cup {Unknown}
    BY <1>2, <1>3 DEF Choose
  <2>5. \A j \in Kind : {current'[j], dock'[j]} \subseteq Range(j) \cup {Unknown, Automatic}
    BY <2>1, <2>2 DEF CommandTypeOK
  <2>6. CommandTypeOK'
    BY <2>1, <2>2, <2>3, <2>4, <2>5 DEF CommandTypeOK
  <2> QED BY <1>1, <2>1, <2>6
<1>4. ASSUME NEW k \in Kind, NEW v \in Range(k), PhoneSets(k, v) PROVE CommandTypes'
  <2>1. UNCHANGED << history, link, distance, sbs, worn, hw, shift, mute, ses, alive, port, take,
                     val, dd, hold, touched, limited, foundShift, blind, current, dock, open, list, focus >>
    BY <1>4 DEF PhoneSets, world, glasses, session, convergence, rows
  <2>2. /\ request' \in [Kind -> Int] /\ wanted' \in [Kind -> Int]
        /\ \A j \in Kind : {request'[j], wanted'[j]} \subseteq Range(j) \cup {Unknown}
    BY <1>2, <1>4 DEF PhoneSets
  <2>3. \A j \in Kind : {current'[j], dock'[j]} \subseteq Range(j) \cup {Unknown, Automatic}
    BY <2>1 DEF CommandTypeOK
  <2>4. CommandTypeOK'
    BY <2>1, <2>2, <2>3 DEF CommandTypeOK
  <2> QED BY <1>1, <2>1, <2>4
<1>5. CASE LeaveRow
  <2>1. CommandTypeOK'
    BY <1>5 DEF LeaveRow, CommandTypeOK, world, glasses, session, convergence
  <2> QED BY <1>1, <1>5, <2>1 DEF LeaveRow, world, glasses, session
<1>6. CASE Refresh
  <2>1. UNCHANGED << history, link, distance, sbs, worn, hw, shift, mute, ses, alive, port, take,
                     val, dd, hold, touched, limited, foundShift, blind, current, request, wanted, focus >>
    BY <1>6 DEF Refresh, world, glasses, session, convergence
  <2>2. open' \in [Kind -> BOOLEAN] /\ list' \in Family \cup {"none"}
    <3>1. \A k \in Kind : open'[k] \in BOOLEAN
      BY <1>6, Zenon DEF Refresh
    <3>2. open' = [k \in Kind |-> open'[k]]
      BY <1>6 DEF Refresh
    <3> QED BY <1>6, <3>1, <3>2 DEF Refresh, CommandTypeOK
  <2>3. \A k \in Kind : dock'[k] \in Range(k) \cup {Unknown, Automatic}
    <3> TAKE k \in Kind
    <3>1. k = "auto" => {0, 1} \subseteq Range(k)
      BY DEF Range, Switch
    <3>2. dock'[k] \in {dock[k], current[k]} \/ (k = "auto" /\ dock'[k] \in {0, 1})
      BY <1>6 DEF Refresh
    <3> QED BY <3>1, <3>2 DEF CommandTypeOK
  <2>4. dock' \in [Kind -> Int]
    <3>1. dock' = [k \in Kind |-> dock'[k]]
      BY <1>6 DEF Refresh
    <3>2. \A k \in Kind : dock'[k] \in Int
      BY <2>3, RangesAreNumbers DEF Unknown, Automatic
    <3> QED BY <3>1, <3>2
  <2>5. \A j \in Kind : /\ {request'[j], wanted'[j]} \subseteq Range(j) \cup {Unknown}
                        /\ {current'[j], dock'[j]} \subseteq Range(j) \cup {Unknown, Automatic}
    BY <2>1, <2>3 DEF CommandTypeOK
  <2>6. CommandTypeOK'
    BY <2>1, <2>2, <2>4, <2>5 DEF CommandTypeOK
  <2> QED BY <1>1, <2>1, <2>6
<1>7. CASE Settings
  <2>1. UNCHANGED << history, glasses, session, convergence, request, current, rows, wanted >>
    BY <1>7 DEF Settings
  <2>2. link' \in BOOLEAN
    BY <1>7, Zenon DEF Settings, CommandTypeOK
  <2>3. distance' \in Distance /\ sbs' \in SbsMode
    BY <1>7 DEF Settings, CommandTypeOK
  <2>4. CommandTypeOK'
    BY <2>1, <2>2, <2>3 DEF CommandTypeOK, glasses, session, convergence, rows
  <2> QED BY <1>1, <2>1, <2>4 DEF glasses, session
<1> QED
  BY <1>3, <1>4, <1>5, <1>6, <1>7

LEMMA TypesKept == CommandTypes /\ [CommandNext]_commandVars => CommandTypes'
<1> SUFFICES ASSUME CommandTypes, [CommandNext]_commandVars PROVE CommandTypes'
  OBVIOUS
<1>1. CASE (\E f \in history.families : PlugIn(f)) \/ PullOut \/ (\E b \in BOOLEAN : Sleep(b))
  BY <1>1, GlassesKeepTypes
<1>2. CASE Start \/ Converge \/ LimitEnds \/ End
  BY <1>2, StartKeepsTypes, ConvergeKeepsTypes, EndKeepsTypes
<1>3. CASE (\E k \in Kind : Take(k)) \/ Report \/ SetEye \/ PollEye
  BY <1>3, TakeKeepsTypes, ReportKeepsTypes, EyeKeepsTypes
<1>4. CASE \/ \E k \in Kind : \E v \in Range(k) : Choose(k, v) \/ PhoneSets(k, v)
           \/ LeaveRow \/ Refresh \/ Settings
  BY <1>4, UsersKeepTypes
<1>5. CASE UNCHANGED commandVars
  BY <1>5 DEF CommandTypes, CommandTypeOK, SessionIsTheirs, Channels, Followed, commandVars,
              world, glasses, session, convergence, rows
<1> QED
  BY <1>1, <1>2, <1>3, <1>4, <1>5 DEF CommandNext, LoopStep

-----------------------------------------------------------------------------
(* What is on show is theirs                                               *)

LEMMA CurrentKept ==
    CommandTypes /\ CurrentIsTheirs /\ [CommandNext]_commandVars => CurrentIsTheirs'
<1> SUFFICES ASSUME CommandTypes, CurrentIsTheirs, [CommandNext]_commandVars,
                    NEW k \in Kind, current'[k] # Unknown
             PROVE  /\ ses' # "none"
                    /\ alive' /\ take' # k /\ k \notin blind' => current'[k] = Query(ses', k, hw')
  BY DEF CurrentIsTheirs
<1>1. hw \in [Kind -> Int]
  BY DEF CommandTypes, CommandTypeOK
<1>2. ASSUME current[k] # Unknown
      PROVE  /\ ses # "none" /\ k \in Channels(ses)
             /\ alive /\ take # k /\ k \notin blind => current[k] = Query(ses, k, hw)
  BY <1>2 DEF CommandTypes, SessionIsTheirs, CurrentIsTheirs
<1>3. ASSUME UNCHANGED << ses, current, hw >>, alive' => alive,
             take' # k => take # k \/ take = "none", k \notin blind' => k \notin blind
      PROVE  /\ ses' # "none"
             /\ alive' /\ take' # k /\ k \notin blind' => current'[k] = Query(ses', k, hw')
  BY <1>2, <1>3 DEF Kind
<1>4. ASSUME NEW f \in history.families, PlugIn(f)
      PROVE  ses' # "none" /\ ~alive'
  BY <1>2, <1>4 DEF PlugIn, session, CommandTypes, SessionIsTheirs
<1>5. CASE PullOut
  BY <1>2, <1>5 DEF PullOut
<1>6. CASE (\E b \in BOOLEAN : Sleep(b)) \/ (\E j \in Kind : Take(j)) \/ Converge \/ LimitEnds
  <2>1. UNCHANGED << ses, current, hw, alive >>
    BY <1>6 DEF Sleep, Take, Converge, LimitEnds, glasses, session
  <2>2. take' # k => take # k \/ take = "none"
    BY <1>6 DEF Sleep, Take, Converge, LimitEnds, Looking, session
  <2>3. k \notin blind' => k \notin blind
    BY <1>6 DEF Sleep, Take, Converge, LimitEnds, convergence
  <2> QED BY <1>3, <2>1, <2>2, <2>3
<1>7. CASE Start
  <2>1. ses' = worn /\ worn # "none" /\ hw' = hw
    BY <1>7 DEF Start, glasses
  <2>2. CASE k \in Channels(worn)
    BY <1>7, <2>1, <2>2 DEF Start
  <2>3. CASE k \notin Channels(worn)
    <3>1. current'[k] = current[k] /\ ses = "none"
      BY <1>7, <2>3 DEF Start
    <3> QED BY <1>2, <3>1
  <2> QED BY <2>2, <2>3
<1>8. CASE Report
  <2>1. take \in Kind /\ take \in Channels(ses) /\ ses # "none"
    <3>1. take \in Kind /\ take \in Channels(ses)
      BY <1>8 DEF Report, CommandTypes, SessionIsTheirs, Kind
    <3> QED BY <3>1, ServesFamily, ChannelsOf
  <2>2. hw' \in {hw} \cup {[hw EXCEPT ![take] = v] : v \in Int}
    <3>1. hw' \in {hw, Obeyed(take)}
      BY <1>8 DEF Report
    <3> QED BY <2>1, <3>1, ObeyedInRange
  <2>3. UNCHANGED << ses, alive, mute >>
    BY <1>8 DEF Report
  <2> SUFFICES ASSUME alive', k \notin blind'
               PROVE  current'[k] = Query(ses, k, hw')
    BY <2>1, <2>3
  <2>4. CASE k = take
    <3>1. Answers
      BY <1>8, <2>4 DEF Report
    <3>2. current'[k] = Believed(k, hw')
      BY <1>8, <2>4 DEF Report
    <3> QED BY <3>1, <3>2 DEF Believed
  <2>5. CASE k # take /\ k = "bright" /\ take = "auto"
    <3>1. Answers
      BY <1>8, <2>5 DEF Report
    <3> QED BY <1>8, <2>5, <3>1 DEF Report, Level_Read
  <2>6. CASE k # take /\ ~(k = "bright" /\ take = "auto")
    <3>1. current'[k] = current[k]
      BY <1>8, <2>6 DEF Report, Level_Read
    <3>2. k \in Channels(ses) /\ current[k] = Query(ses, k, hw)
      BY <1>2, <1>8, <2>3, <2>6, <3>1 DEF Report
    <3>3. Query(ses, k, hw') = Query(ses, k, hw)
      BY <1>1, <2>1, <2>2, <2>6, <3>2, AnswersKept
    <3> QED BY <3>1, <3>2, <3>3
  <2> QED BY <2>4, <2>5, <2>6
<1>9. CASE SetEye
  <2>1. k # "eye" /\ current'[k] = current[k]
    BY <1>9 DEF SetEye, CommandTypes, CommandTypeOK
  <2>2. k \in Channels(ses) /\ "eye" \in Channels(ses)
    BY <1>2, <1>9, <2>1 DEF SetEye, CommandTypes, SessionIsTheirs
  <2> QED BY <2>1, <2>2, ChannelsOf
<1>10. CASE PollEye
  <2>1. UNCHANGED << ses, hw, alive, take >> /\ (k # "eye" => (k \notin blind' => k \notin blind))
    BY <1>10 DEF PollEye, session, glasses
  <2>2. CASE k = "eye"
    <3>1. ses # "none" /\ Answers /\ current'[k] = Query(ses, k, hw)
      BY <1>10, <2>2, ChannelsOf DEF PollEye, Looking, CommandTypes, CommandTypeOK
    <3> QED BY <2>1, <3>1
  <2>3. CASE k # "eye"
    <3>1. current'[k] = current[k]
      BY <1>10, <2>3 DEF PollEye, CommandTypes, CommandTypeOK
    <3> QED BY <1>2, <2>1, <2>3, <3>1
  <2> QED BY <2>2, <2>3
<1>11. CASE End
  BY <1>2, <1>11 DEF End
<1>12. CASE \/ \E j \in Kind : \E v \in Range(j) : Choose(j, v) \/ PhoneSets(j, v)
            \/ LeaveRow \/ Refresh \/ Settings \/ UNCHANGED commandVars
  <2>1. UNCHANGED << glasses, session, convergence, current >>
    BY <1>12 DEF Choose, PhoneSets, LeaveRow, Refresh, Settings, commandVars
  <2> QED BY <1>3, <2>1 DEF glasses, session, convergence
<1> QED
  BY <1>4, <1>5, <1>6, <1>7, <1>8, <1>9, <1>10, <1>11, <1>12 DEF CommandNext, LoopStep

-----------------------------------------------------------------------------
(* The convergence is put back                                             *)

LEMMA ConvergenceKept ==
    CommandTypes /\ ConvergenceIsKnown /\ [CommandNext]_commandVars => ConvergenceIsKnown'
<1> SUFFICES ASSUME CommandTypes, ConvergenceIsKnown, [CommandNext]_commandVars
             PROVE  ConvergenceIsKnown'
  OBVIOUS
<1> USE DEF ConvergenceIsKnown
<1>1. /\ {touched, alive, mute} \subseteq BOOLEAN /\ {shift, dd, foundShift} \subseteq Int
      /\ alive => ses = worn /\ ses # "none"
  BY DEF CommandTypes, CommandTypeOK, SessionIsTheirs
<1>2. ASSUME NEW f \in history.families, PlugIn(f) PROVE ConvergenceIsKnown'
  BY <1>1, <1>2 DEF PlugIn, session
<1>3. CASE PullOut
  BY <1>3 DEF PullOut
<1>4. CASE \/ \E b \in BOOLEAN : Sleep(b)
           \/ \E j \in Kind : Take(j)
           \/ LimitEnds
           \/ \E j \in Kind : \E v \in Range(j) : Choose(j, v) \/ PhoneSets(j, v)
           \/ LeaveRow \/ Refresh \/ Settings \/ UNCHANGED commandVars
  <2>1. UNCHANGED << ses, alive, worn, shift, touched, dd, foundShift, blind >>
    BY <1>4 DEF Sleep, Take, LimitEnds, Choose, PhoneSets, LeaveRow, Refresh, Settings, commandVars,
                glasses, session, convergence
  <2> QED BY <2>1
<1>5. CASE Report \/ SetEye \/ PollEye
  <2>1. UNCHANGED << ses, alive, worn, shift, touched, dd, foundShift >>
    BY <1>5 DEF Report, SetEye, PollEye, glasses, session, convergence
  <2>2. "shift" \in blind => "shift" \in blind'
    BY <1>5 DEF Report, SetEye, PollEye, convergence
  <2> QED BY <2>1, <2>2
<1>6. CASE Start
  BY <1>6 DEF Start, glasses
<1>7. CASE Converge
  <2>1. ses # "none" /\ UNCHANGED << ses, alive, worn, foundShift >>
    BY <1>7, ChannelsOf DEF Converge, Looking, session
  <2>2. CASE dd # NoShift /\ Target # dd /\ ~limited
    <3>1. Target # NoShift
      BY <2>2, TargetIsNumber
    <3>2. touched' /\ dd' = Target
      BY <1>7, <2>2 DEF Converge
    <3>3. Answers => alive /\ shift' = Target
      BY <1>7, <2>2 DEF Converge, Answers
    <3>4. ~Answers => "shift" \in blind'
      BY <1>7, <2>2 DEF Converge
    <3> QED BY <2>1, <3>1, <3>2, <3>3, <3>4
  <2>3. CASE ~(dd # NoShift /\ Target # dd /\ ~limited)
    BY <1>7, <2>1, <2>3 DEF Converge
  <2> QED BY <2>2, <2>3
<1>8. CASE End
  <2>1. /\ ses' = "none" /\ ~alive' /\ ~touched' /\ UNCHANGED << worn, foundShift >>
    BY <1>8 DEF End
  <2>2. CASE touched /\ dd \notin {NoShift, Factory}
    <3>1. Answers => shift' = Factory
      BY <1>8, <2>2 DEF End, Moved
    <3>2. ~Answers => "shift" \in blind'
      BY <1>8, <2>2 DEF End, Moved
    <3> QED BY <2>1, <3>1, <3>2
  <2>3. CASE ~(touched /\ dd \notin {NoShift, Factory})
    <3>1. shift' = shift /\ ("shift" \in blind => "shift" \in blind')
      BY <1>8, <2>3 DEF End, Moved
    <3> QED BY <2>1, <2>3, <3>1
  <2> QED BY <2>2, <2>3
<1> QED
  BY <1>2, <1>3, <1>4, <1>5, <1>6, <1>7, <1>8 DEF CommandNext, LoopStep

LEMMA CommandsInvariant ==
    CommandSpec => [](CommandTypes /\ CurrentIsTheirs /\ ConvergenceIsKnown)
<1>1. CommandTypes /\ CurrentIsTheirs /\ ConvergenceIsKnown /\ [CommandNext]_commandVars
      => (CommandTypes /\ CurrentIsTheirs /\ ConvergenceIsKnown)'
  BY TypesKept, CurrentKept, ConvergenceKept
<1> QED
  BY CommandsInit, <1>1, PTL DEF CommandSpec

\* Types, for any models, values, distances and histories.
THEOREM CommandTypeCorrect == CommandSpec => []CommandTypeOK
  BY CommandsInvariant, PTL DEF CommandTypes

\* What is on show is what the glasses say (CurrentIsTheirs).
THEOREM ShownIsTheirs == CommandSpec => []CurrentIsTheirs
  BY CommandsInvariant, PTL

\* A session leaves the glasses' convergence as it found it, or the factory's.
THEOREM ConvergenceIsPutBack == CommandSpec => []ConvergencePutBack
<1>1. CommandTypes /\ ConvergenceIsKnown => ConvergencePutBack
  BY DEF ConvergenceIsKnown, ConvergencePutBack, CommandTypes, SessionIsTheirs
<1> QED
  BY CommandsInvariant, <1>1, PTL

=============================================================================
