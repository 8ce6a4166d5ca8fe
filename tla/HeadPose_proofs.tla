--------------------------- MODULE HeadPose_proofs ---------------------------
(***************************************************************************)
(* Proofs about HeadPose for any glasses, any sampling times, any wrap of  *)
(* the timestamps and any bound on dolly steps.                            *)
(***************************************************************************)
EXTENDS HeadPose, TLAPS, WellFoundedInduction

\* The automatic recentering has made the pose of the detected glasses the
\* centre; a tracker is calibrated only together with it, or after it.
Centred ==
    /\ tracker.calibrated => tracker.recentered
    /\ tracker.recentered => tracker.zq # None
    /\ tracker.recentered /\ ~past.strayed /\ det \notin {"override", "reset"}
        => tracker.zq = detected

\* A dolly step under way has read the offset it will add to.
Walked ==
    /\ past.crossed \/ offset = past.walked
    /\ walk = "store" => past.crossed \/ from = offset

\* A kept timestamp is that of the sample some ticks ago.
Ago(stamp, sum) == \E o \in Stamp : stamp = NotZero(o) /\ clock = (o + sum) % Wrap

Streaming == ses \in {"loop", "publish", "dead", "last"} /\ detected # None

\* While the histories still count, the clock and the tracker agree with them:
\* a window opens after a warm-up, and each is as old as the stream says.
Anchored ==
    /\ detected = None => det \in {"override", "reset"} \/ tracker.warmup = 0
    /\ tracker.warmup = 0 => tracker.start = 0
    /\ tracker.start = 0 => tracker.count = 0
    /\ tracker.warmup # 0 /\ ~past.mixed /\ Streaming =>
          /\ Family[stream] # "viture"
          /\ past.age < Warmup => Ago(tracker.warmup, past.age)
          /\ tracker.start # 0 /\ past.span < MinWindow => Ago(tracker.start, past.span)

Settled ==
    tracker.start # 0 /\ ~past.mixed =>
        /\ past.age = Warmup
        /\ tracker.calibrated => past.span = MinWindow

Inv == TypeOK /\ Centred /\ Walked

USE Parameters

LEMMA Zeros ==
    /\ 0 \in 0..Warmup /\ 0 \in 0..MinWindow /\ 0 \in 0..MaxOffset
    /\ 0 \in Stamp /\ 0 \in 0..MinSamples
  BY DEF Stamp

-----------------------------------------------------------------------------
(* The operators                                                           *)

LEMMA FirstType == plugged \subseteq Model => First \in Model \cup {None}
<1> SUFFICES ASSUME plugged \subseteq Model, plugged # {} PROVE First \in plugged
  BY DEF First
<1> DEFINE ranks == {Rank[m] : m \in plugged}
<1>1. ranks \subseteq Nat /\ ranks # {}
  OBVIOUS
<1>2. \E x \in ranks : \A y \in ranks : ~ (<< y, x >> \in OpToRel(<, Nat))
  <2> HIDE DEF ranks
  <2> QED BY <1>1, WFMin, NatLessThanWellFounded
<1>3. PICK x \in ranks : \A y \in ranks : ~ (y < x)
  BY <1>1, <1>2 DEF OpToRel
<1>4. PICK m \in plugged : x = Rank[m]
  BY <1>3
<1>5. \A n \in plugged : Rank[m] <= Rank[n]
  BY <1>1, <1>3, <1>4
<1> QED
  BY <1>4, <1>5 DEF First

LEMMA ResetType ==
    ASSUME NEW t \in Trackers, NEW mount \in Tilts
    PROVE  /\ Reset(t, mount) \in Trackers
           /\ ~Reset(t, mount).calibrated /\ ~Reset(t, mount).recentered
  BY DEF Trackers, Reset, Stamp

LEMMA RestartWindowType ==
    ASSUME NEW t \in Trackers
    PROVE  /\ RestartWindow(t) \in Trackers
           /\ RestartWindow(t).zq = t.zq /\ RestartWindow(t).recentered = t.recentered
<1>1. /\ 0 \in Stamp /\ 0 \in 0..MinSamples
  BY DEF Stamp
<1>2. RestartWindow(t) \in Trackers
  BY <1>1 DEF Trackers, RestartWindow
<1>3. RestartWindow(t).zq = t.zq 
  BY DEF Trackers, RestartWindow
<1>4. RestartWindow(t).recentered = t.recentered
  BY DEF Trackers, RestartWindow
<1> QED BY <1>2, <1>3, <1>4

LEMMA CalibrateType ==
    ASSUME NEW t \in Trackers, NEW ts \in Stamp, resting \in BOOLEAN, 1 \in Stamp
    PROVE  /\ Calibrate(t, ts) \in Trackers
           /\ Calibrate(t, ts).zq = t.zq /\ Calibrate(t, ts).recentered = t.recentered
<1>1. NotZero(ts) \in Stamp
  BY DEF NotZero
<1>2. /\ Averaged(t, ts) \in Trackers
      /\ Averaged(t, ts).zq = t.zq /\ Averaged(t, ts).recentered = t.recentered
  <2>1. Lowest(t.count + 1, MinSamples) \in 0..MinSamples
    BY DEF Lowest, Trackers
  <2>2. (IF t.start = 0 THEN NotZero(ts) ELSE t.start) \in Stamp
    BY <1>1 DEF Trackers
  <2>3. (t.motion \/ ~resting) \in BOOLEAN
    BY Zenon
  <2>4. Averaged(t, ts) \in Trackers
    BY <2>1, <2>2, <2>3 DEF Averaged, Trackers
  <2>5. Averaged(t, ts).zq = t.zq
    BY DEF Averaged, Trackers
  <2>6. Averaged(t, ts).recentered = t.recentered
    BY DEF Averaged, Trackers
  <2> QED BY <2>4, <2>5, <2>6
<1> DEFINE a == Averaged(t, ts)
<1>3. /\ RestartWindow(a) \in Trackers
      /\ RestartWindow(a).zq = t.zq /\ RestartWindow(a).recentered = t.recentered
  BY <1>2, RestartWindowType
<1>4. [a EXCEPT !.calibrated = TRUE] \in Trackers
  BY <1>2 DEF Trackers
<1>5. [t EXCEPT !.warmup = NotZero(ts)] \in Trackers
  BY <1>1 DEF Trackers
<1> QED
  BY <1>1, <1>2, <1>3, <1>4, <1>5 DEF Calibrate, Trackers, WarmingUp

LEMMA TrackedType ==
    ASSUME NEW t \in Trackers, NEW ts \in Stamp, resting \in BOOLEAN, 1 \in Stamp
    PROVE  /\ Tracked(t, ts) \in Trackers
           /\ Tracked(t, ts).zq = t.zq /\ Tracked(t, ts).recentered = t.recentered
<1>1. [t EXCEPT !.calibrated = TRUE] \in Trackers
  BY DEF Trackers
<1> QED
  BY <1>1, CalibrateType DEF Tracked, Trackers
-----------------------------------------------------------------------------
(* Type correctness                                                        *)

LEMMA InitInv == Init => Inv
<1> SUFFICES ASSUME Init PROVE Inv
  OBVIOUS
<1>1. Fresh \in Trackers /\ ~Fresh.calibrated /\ ~Fresh.recentered
  BY DEF Fresh, Reset, Tilts, Trackers, Stamp
<1>2. TypeOK
  <2>1. past \in Pasts
    BY DEF Init, Pasts
  <2>2. resting \in BOOLEAN /\ auto \in BOOLEAN /\ told \in BOOLEAN
    BY Zenon DEF Init
  <2> QED BY <1>1, <2>1, <2>2 DEF Init, TypeOK, Stamp
<1>3. Centred /\ Walked
  BY <1>1 DEF Init, Centred, Walked
<1> QED
  BY <1>2, <1>3 DEF Inv

LEMMA HistoryType == history \in Histories => history.glasses \subseteq Model
                                /\ history.steps \subseteq 1..(Wrap - 1) /\ history.starts \subseteq Stamp
  BY DEF Stamp

LEMMA CleanedType == ASSUME NEW p \in Pasts PROVE Cleaned(p) \in Pasts
<1> DEFINE crossed == (walk = "store")
<1>1. crossed \in BOOLEAN
  BY Zenon
<1> HIDE DEF crossed
<1>2. [p EXCEPT !.walked = 0, !.crossed = crossed] \in Pasts
  BY <1>1, Zeros DEF Pasts
<1> QED
  BY <1>2 DEF Cleaned, crossed

LEMMA ResetForType ==
    ASSUME TypeOK, NEW m \in Model \cup {None}, ResetFor(m)
    PROVE  /\ offset' \in 0..MaxOffset /\ tracker' \in Trackers
           /\ past' \in Pasts
<1>1. (IF m = None THEN tracker.mount ELSE Mount[m]) \in Tilts
  BY DEF TypeOK, Trackers, Tilts
<1>2. tracker \in Trackers
  BY DEF TypeOK
<1>3. tracker' \in Trackers
  BY <1>1, <1>2, ResetType DEF ResetFor
<1>4. Cleaned(past) \in Pasts
  BY CleanedType DEF TypeOK
<1>5. past' \in Pasts
  BY <1>4, Zeros DEF ResetFor, Pasts
<1> QED
  BY <1>3, <1>5 DEF ResetFor, ClearOffset

LEMMA MountedType ==
    ASSUME TypeOK, detected # None
    PROVE  /\ Mounted \in Trackers
           /\ Mounted.zq = tracker.zq /\ Mounted.recentered = tracker.recentered
<1>1. (IF override = None THEN Mount[detected] ELSE override) \in Tilts
  BY DEF TypeOK, Tilts
<1>2. tracker \in Trackers
  BY DEF TypeOK
<1>3. Mounted \in Trackers
  BY <1>1, <1>2 DEF Mounted, Trackers
<1>4. Mounted.zq = tracker.zq
  BY <1>2 DEF Mounted, Trackers
<1>5. Mounted.recentered = tracker.recentered
  BY <1>2 DEF Mounted, Trackers
<1> QED BY <1>3, <1>4, <1>5

\* What a sample does to the tracker, the offset and the histories.
LEMMA PublishEffect ==
    ASSUME TypeOK, NEW step \in 1..(Wrap - 1), Publish(step), detected # None
    PROVE  /\ tracker' \in Trackers /\ past' \in Pasts
           /\ past'.strayed = (past.strayed \/ stream # detected)
           /\ \/ /\ tracker'.recentered /\ tracker'.zq = stream /\ offset' = 0
                 /\ past'.walked = 0 /\ past'.crossed = (walk = "store")
              \/ /\ tracker'.recentered = tracker.recentered /\ tracker'.zq = tracker.zq
                 /\ tracker'.calibrated => tracker'.recentered
                 /\ offset' = offset /\ past'.walked = past.walked /\ past'.crossed = past.crossed
<1> DEFINE ts == (clock + step) % Wrap
           t == Tracked(Mounted, ts)
<1>1. ts \in Stamp /\ 1 \in Stamp
  BY DEF TypeOK, Stamp
<1>2. resting \in BOOLEAN /\ past \in Pasts /\ stream \in Model
  BY DEF TypeOK, Publish
<1>3. /\ t \in Trackers /\ t.zq = tracker.zq /\ t.recentered = tracker.recentered
  <2> HIDE DEF ts
  <2> QED BY <1>1, <1>2, MountedType, TrackedType
<1> HIDE DEF ts, t
<1> DEFINE base == IF AutoRecenters(t) THEN Cleaned(past) ELSE past
           age == IF tracker.warmup = 0 \/ t.warmup = 0 THEN 0 ELSE Lowest(base.age + step, Warmup)
           span == IF tracker.start = 0 \/ t.start = 0 THEN 0
                   ELSE Lowest(base.span + step, MinWindow)
           strayed == base.strayed \/ stream # detected
<1>4. past' = [base EXCEPT !.age = age, !.span = span, !.strayed = strayed]
  BY DEF Publish, ts, t
<1>5. base \in Pasts
  BY <1>2, CleanedType
<1>6. age \in 0..Warmup /\ span \in 0..MinWindow
  <2> HIDE DEF base
  <2> QED BY <1>5 DEF Lowest, Pasts
<1>7. strayed \in BOOLEAN
  BY Zenon
<1>8. base.strayed = past.strayed
  BY <1>2 DEF Cleaned, Pasts
<1>9. /\ past' \in Pasts /\ past'.strayed = strayed
      /\ past'.walked = base.walked /\ past'.crossed = base.crossed
  <2> HIDE DEF base, age, span, strayed
  <2>1. past' \in Pasts
    BY <1>4, <1>5, <1>6, <1>7 DEF Pasts
  <2>2. past'.walked = base.walked
    BY <1>4, <1>5 DEF Pasts
  <2>3. past'.crossed = base.crossed
    BY <1>4, <1>5 DEF Pasts
  <2>4. past'.strayed = strayed
    BY <1>4, <1>5 DEF Pasts
  <2> QED BY <2>1, <2>2, <2>3, <2>4
<1>10. past'.strayed = (past.strayed \/ stream # detected)
  BY <1>8, <1>9, Zenon
<1>11. CASE AutoRecenters(t)
  <2>1. tracker' = [t EXCEPT !.recentered = TRUE, !.zq = stream] /\ offset' = 0
    BY <1>11 DEF Publish, ClearOffset, ts, t
  <2>2. tracker' \in Trackers /\ tracker'.recentered /\ tracker'.zq = stream
    BY <1>2, <1>3, <2>1 DEF Trackers
  <2>3. base.walked = 0
    BY <1>2, <1>11 DEF Cleaned, Pasts
  <2>4. base.crossed = (walk = "store")
    BY <1>2, <1>11 DEF Cleaned, Pasts
  <2> HIDE DEF base
  <2> QED BY <1>9, <1>10, <2>1, <2>2, <2>3, <2>4
<1>12. CASE ~AutoRecenters(t)
  <2>1. tracker' = t /\ offset' = offset /\ base = past
    BY <1>12 DEF Publish, ts, t
  <2>2. t.calibrated => t.recentered
    BY <1>12 DEF AutoRecenters
  <2> HIDE DEF base
  <2> QED BY <1>3, <1>9, <1>10, <2>1, <2>2
<1> QED
  BY <1>11, <1>12

LEMMA PublishType ==
    ASSUME TypeOK, NEW step \in 1..(Wrap - 1), Publish(step)
    PROVE  TypeOK'
<1>1. tracker' \in Trackers /\ past' \in Pasts /\ offset' \in 0..MaxOffset
  <2>1. CASE detected = None
    BY <2>1 DEF Publish, TypeOK
  <2>2. CASE detected # None
    BY <2>2, PublishEffect, Zeros DEF TypeOK
  <2> QED BY <2>1, <2>2
<1>2. clock' \in Stamp
  BY DEF Publish, TypeOK, Stamp
<1> QED
  BY <1>1, <1>2 DEF Publish, TypeOK, Again, world, user, phone

LEMMA TypePreserved == TypeOK /\ [Next]_vars => TypeOK'
<1> SUFFICES ASSUME TypeOK, [Next]_vars PROVE TypeOK'
  OBVIOUS
<1> USE DEF TypeOK, world, session, user, phone
<1>1. history.glasses \subseteq Model /\ history.steps \subseteq 1..(Wrap - 1) /\ history.starts \subseteq Stamp
  BY HistoryType
<1>2. CASE World
  <2>1. CASE Move
    <3>1. resting' \in BOOLEAN
      BY <2>1, Zenon DEF Move
    <3> QED BY <2>1, <3>1 DEF Move
  <2>2. ASSUME NEW m \in Model, Plug(m) PROVE TypeOK'
    BY <2>2 DEF Plug
  <2>3. ASSUME NEW m \in Model, Unplug(m) PROVE TypeOK'
    BY <2>3 DEF Unplug
  <2> QED BY <1>2, <2>1, <2>2, <2>3 DEF World
<1>3. CASE Detection
  <2>1. CASE Scan
    <3>1. First \in Model \cup {None}
      BY <1>1, FirstType
    <3> QED BY <2>1, <3>1 DEF Scan
  <2>2. CASE ClearOverride
    <3> DEFINE lost == (told /\ stream = detected /\ ses # "closed")
    <3>1. lost \in BOOLEAN
      BY Zenon
    <3>2. past' = [past EXCEPT !.mount = lost]
      BY <2>2 DEF ClearOverride
    <3> HIDE DEF lost
    <3>3. past' \in Pasts
      BY <3>1, <3>2 DEF Pasts
    <3> QED BY <2>2, <3>3 DEF ClearOverride, Cleared
  <2>3. CASE ResetTracker
    BY <2>3, ResetForType DEF ResetTracker
  <2>4. CASE CheckFov
    BY <2>4 DEF CheckFov
  <2>5. CASE StoreFov
    <3>1. (~auto) \in BOOLEAN
      BY Zenon
    <3>2. past' \in Pasts
      BY <2>5, <3>1 DEF StoreFov, Pasts
    <3> QED BY <2>5, <3>2 DEF StoreFov
  <2> QED BY <1>3, <2>1, <2>2, <2>3, <2>4, <2>5 DEF Detection
<1>4. CASE Session
  <2>1. CASE Begin
    <3>1. past' \in Pasts
      <4>1. CASE Family[detected] = "rayneo"
        BY <2>1, <4>1 DEF Begin, Pasts
      <4>2. CASE Family[detected] # "rayneo"
        BY <2>1, <4>2 DEF Begin, Pasts
      <4> QED BY <4>1, <4>2
    <3> QED BY <2>1, <3>1 DEF Begin
  <2>2. ASSUME NEW ts \in Stamp, Open(ts) PROVE TypeOK'
    <3> DEFINE warm == past.mixed \/ tracker.warmup # 0
    <3>1. warm \in BOOLEAN
      BY Zenon
    <3>2. past' = [past EXCEPT !.mixed = warm]
      BY <2>2 DEF Open
    <3> HIDE DEF warm
    <3>3. past' \in Pasts
      BY <3>1, <3>2 DEF Pasts
    <3> QED BY <2>2, <3>3 DEF Open
  <2>3. CASE Leave \/ Drop \/ Read
    BY <2>3 DEF Leave, Drop, Read
  <2>4. CASE Tell
    <3> DEFINE late == detected # stream
    <3>1. late \in BOOLEAN
      BY Zenon
    <3>2. past' = [past EXCEPT !.mount = late]
      BY <2>4 DEF Tell
    <3> HIDE DEF late
    <3>3. past' \in Pasts
      BY <3>1, <3>2 DEF Pasts
    <3> QED BY <2>4, <3>3 DEF Tell, Again
  <2>5. ASSUME NEW step \in 1..(Wrap - 1), Publish(step) PROVE TypeOK'
    BY <2>5, PublishType
  <2> QED BY <1>4, <2>1, <2>2, <2>3, <2>4, <2>5 DEF Session, Sample, Stamp
<1>5. CASE User
  <2>1. ASSUME NEW what \in {"recenter", "recalibrate"}, Square(what) PROVE TypeOK'
    <3>1. past' \in Pasts
      BY <2>1, CleanedType DEF Square
    <3> QED BY <2>1, <3>1, Zeros DEF Square, ClearOffset
  <2>2. CASE Recenter
    <3>1. tracker' \in Trackers
      BY <2>2 DEF Recenter, Trackers
    <3> QED BY <2>2, <3>1 DEF Recenter
  <2>3. CASE Recalibrate
    <3>1. RestartWindow(tracker) \in Trackers
      BY RestartWindowType
    <3>2. tracker' \in Trackers
      BY <2>3, <3>1, Zeros DEF Recalibrate, RestartCalibration, Trackers
    <3>3. past' \in Pasts
      BY <2>3, Zeros DEF Recalibrate, Pasts
    <3> QED BY <2>3, <3>2, <3>3 DEF Recalibrate
  <2>4. ASSUME NEW b \in BOOLEAN, SetAuto(b) PROVE TypeOK'
    BY <2>4 DEF SetAuto
  <2>5. CASE Apply \/ ResetDefaults
    BY <2>5, ZenonT(60) DEF Apply, ResetDefaults
  <2>6. CASE ApplyFov
    <3> DEFINE old == model # detected
    <3>1. old \in BOOLEAN
      BY Zenon
    <3>2. past' = past \/ past' = [past EXCEPT !.fov = old]
      BY <2>6 DEF ApplyFov
    <3> HIDE DEF old
    <3>3. past' \in Pasts
      BY <3>1, <3>2 DEF Pasts
    <3> QED BY <2>6, <3>3 DEF ApplyFov
  <2>7. CASE ApplyMount
    <3>1. tracker' \in Trackers
      BY <2>7 DEF ApplyMount, Trackers, Tilts
    <3> QED BY <2>7, <3>1 DEF ApplyMount
  <2>8. ASSUME NEW v \in Choice, SetFov(v) PROVE TypeOK'
    <3>1. past' \in Pasts
      BY <2>8 DEF SetFov, Pasts
    <3> QED BY <2>8, <3>1 DEF SetFov
  <2>9. CASE ResetAll
    BY <2>9, ResetForType DEF ResetAll
  <2> QED BY <1>5, <2>1, <2>2, <2>3, <2>4, <2>5, <2>6, <2>7, <2>8, <2>9 DEF User, Errand
<1>6. CASE Phone
  <2>1. CASE DollyStep \/ DollyMiss
    BY <2>1 DEF DollyStep, DollyMiss
  <2>2. CASE DollyStore
    <3>1. /\ Lowest(from + 1, MaxOffset) \in 0..MaxOffset
          /\ Lowest(past.walked + 1, MaxOffset) \in 0..MaxOffset
      BY DEF Lowest, Pasts
    <3>2. past' \in Pasts
      BY <2>2, <3>1 DEF DollyStore, Pasts
    <3> QED BY <2>2, <3>1, <3>2 DEF DollyStore
  <2> QED BY <1>6, <2>1, <2>2 DEF Phone
<1>7. CASE UNCHANGED vars
  BY <1>7 DEF vars
<1> QED
  BY <1>2, <1>3, <1>4, <1>5, <1>6, <1>7 DEF Next

\* The tracker always has its type, and so have histories and places, for any
\* registry, any timing and any bound (TypeOK).
THEOREM TypeCorrect == Spec => []TypeOK
<1>1. Init => TypeOK
  BY InitInv DEF Inv
<1> QED
  BY <1>1, TypePreserved, PTL DEF Spec

-----------------------------------------------------------------------------
(* The centre and the offset                                               *)

LEMMA CentredPreserved ==
    ASSUME TypeOK, Centred, [Next]_vars
    PROVE  Centred'
<1> USE DEF Centred
<1>0. tracker \in Trackers /\ past \in Pasts
  BY DEF TypeOK
<1>1. CASE /\ UNCHANGED tracker /\ det' = det /\ detected' = detected
           /\ past'.strayed = past.strayed
  BY <1>1
<1>2. CASE World
  <2>1. UNCHANGED << tracker, det, detected, past >>
    BY <1>2 DEF World, Move, Plug, Unplug
  <2> QED BY <1>1, <2>1
<1>3. CASE Scan
  BY <1>3 DEF Scan
<1>4. CASE ClearOverride
  BY <1>4 DEF ClearOverride
<1>5. CASE ResetTracker \/ ResetAll
  <2>1. tracker.mount \in Tilts
    BY <1>0 DEF Trackers
  <2>2. ~tracker'.calibrated /\ ~tracker'.recentered
    BY <1>5 DEF ResetTracker, ResetAll, ResetFor, Reset
  <2> QED BY <2>2
<1>6. CASE CheckFov \/ StoreFov
  <2>1. UNCHANGED << tracker, detected >> /\ past'.strayed = past.strayed
    BY <1>0, <1>6 DEF CheckFov, StoreFov, Pasts
  <2> QED BY <1>6, <2>1 DEF CheckFov, StoreFov
<1>7. CASE Begin \/ (\E ts \in Stamp : Open(ts)) \/ Leave \/ Drop \/ Read \/ Tell
  <2>1. UNCHANGED << tracker, det, detected >>
    BY <1>7 DEF Begin, Open, Leave, Drop, Read, Tell
  <2>2. past'.strayed = past.strayed
    BY <1>0, <1>7 DEF Begin, Open, Leave, Drop, Read, Tell, Pasts
  <2> QED BY <1>1, <2>1, <2>2
<1>8. ASSUME NEW step \in 1..(Wrap - 1), Publish(step) PROVE Centred'
  <2>1. det' = det /\ detected' = detected
    BY <1>8 DEF Publish, world
  <2>2. CASE detected = None
    BY <1>1, <1>8, <2>1, <2>2 DEF Publish
  <2>3. CASE detected # None
    <3>1. stream # None
      BY <1>8 DEF Publish, TypeOK
    <3> QED BY <1>8, <2>1, <2>3, <3>1, PublishEffect
  <2> QED BY <2>2, <2>3
<1>9. CASE (\E what \in {"recenter", "recalibrate"} : Square(what)) \/ Phone
  <2>1. UNCHANGED << tracker, det, detected >>
    BY <1>9 DEF Square, Phone, DollyStep, DollyStore, DollyMiss
  <2>2. past'.strayed = past.strayed
    BY <1>0, <1>9 DEF Square, Cleaned, Phone, DollyStep, DollyStore, DollyMiss, Pasts
  <2> QED BY <1>1, <2>1, <2>2
<1>10. CASE Recenter
  <2>1. UNCHANGED << det, detected, past >>
    BY <1>10 DEF Recenter
  <2>2. tracker'.calibrated = tracker.calibrated
    BY <1>0, <1>10 DEF Recenter, Trackers
  <2>3. tracker'.recentered = tracker.recentered
    BY <1>0, <1>10 DEF Recenter, Trackers
  <2>4. tracker.recentered => tracker'.zq = tracker.zq
    BY <1>0, <1>10 DEF Recenter, Trackers
  <2> QED BY <2>1, <2>2, <2>3, <2>4
<1>11. CASE Recalibrate
  <2>1. UNCHANGED << det, detected >> /\ past'.strayed = past.strayed
    BY <1>0, <1>11 DEF Recalibrate, Pasts
  <2>2. RestartWindow(tracker) \in Trackers
    BY <1>0, RestartWindowType
  <2>3. ~tracker'.calibrated
    BY <1>11, <2>2 DEF Recalibrate, RestartCalibration, Trackers
  <2>4. tracker'.recentered = RestartWindow(tracker).recentered
    BY <1>11, <2>2 DEF Recalibrate, RestartCalibration, Trackers
  <2>5. tracker'.zq = RestartWindow(tracker).zq
    BY <1>11, <2>2 DEF Recalibrate, RestartCalibration, Trackers
  <2> QED BY <1>0, <2>1, <2>3, <2>4, <2>5, RestartWindowType
<1>12. CASE (\E b \in BOOLEAN : SetAuto(b)) \/ Apply \/ ApplyFov
            \/ (\E v \in Choice : SetFov(v)) \/ ResetDefaults
  <2>1. UNCHANGED << tracker, det, detected >>
    BY <1>12 DEF SetAuto, Apply, ApplyFov, SetFov, ResetDefaults
  <2>2. past'.strayed = past.strayed
    BY <1>0, <1>12 DEF SetAuto, Apply, ApplyFov, SetFov, ResetDefaults, Pasts
  <2> QED BY <1>1, <2>1, <2>2
<1>13. CASE ApplyMount
  <2>1. UNCHANGED << det, detected, past >>
    BY <1>13 DEF ApplyMount
  <2>2. tracker'.calibrated = tracker.calibrated
    BY <1>0, <1>13 DEF ApplyMount, Trackers
  <2>3. tracker'.recentered = tracker.recentered
    BY <1>0, <1>13 DEF ApplyMount, Trackers
  <2>4. tracker'.zq = tracker.zq
    BY <1>0, <1>13 DEF ApplyMount, Trackers
  <2> QED BY <2>1, <2>2, <2>3, <2>4
<1>14. CASE UNCHANGED vars
  BY <1>1, <1>14 DEF vars
<1> QED
  BY <1>2, <1>3, <1>4, <1>5, <1>6, <1>7, <1>8, <1>9, <1>10, <1>11, <1>12, <1>13, <1>14
     DEF Next, Detection, Session, Sample, User, Errand, Stamp

LEMMA WalkedPreserved ==
    ASSUME TypeOK, Walked, [Next]_vars
    PROVE  Walked'
<1> USE DEF Walked
<1>0. past \in Pasts /\ walk \in {"idle", "store"}
  BY DEF TypeOK
<1>1. CASE UNCHANGED << offset, phone >> /\ past'.walked = past.walked
           /\ past'.crossed = past.crossed
  BY <1>1 DEF phone
\* Whoever squares the view up crosses the dolly step that is under way.
<1>2. ASSUME past'.walked = 0, past'.crossed = (walk = "store"), offset' = 0, UNCHANGED phone
      PROVE  Walked'
  BY <1>2 DEF phone
<1>3. CASE World \/ Scan \/ ClearOverride \/ CheckFov \/ StoreFov
  <2>1. UNCHANGED << offset, phone >>
    BY <1>3 DEF World, Move, Plug, Unplug, Scan, ClearOverride, CheckFov, StoreFov
  <2>2. past'.walked = past.walked
    BY <1>0, <1>3 DEF World, Move, Plug, Unplug, Scan, ClearOverride, CheckFov, StoreFov, Pasts
  <2>3. past'.crossed = past.crossed
    BY <1>0, <1>3 DEF World, Move, Plug, Unplug, Scan, ClearOverride, CheckFov, StoreFov, Pasts
  <2> QED BY <1>1, <2>1, <2>2, <2>3
<1>4. CASE ResetTracker \/ ResetAll
  <2>1. UNCHANGED phone /\ offset' = 0
    BY <1>4 DEF ResetTracker, ResetAll, ResetFor, ClearOffset
  <2>2. Cleaned(past) \in Pasts /\ Cleaned(past).walked = 0
    BY <1>0, CleanedType DEF Cleaned, Pasts
  <2>3. Cleaned(past).crossed = (walk = "store")
    BY <1>0 DEF Cleaned, Pasts
  <2>4. past'.walked = Cleaned(past).walked
    BY <1>4, <2>2 DEF ResetTracker, ResetAll, ResetFor, Pasts
  <2>5. past'.crossed = Cleaned(past).crossed
    BY <1>4, <2>2 DEF ResetTracker, ResetAll, ResetFor, Pasts
  <2> QED BY <1>2, <2>1, <2>2, <2>3, <2>4, <2>5
<1>5. CASE Begin \/ (\E ts \in Stamp : Open(ts)) \/ Leave \/ Drop \/ Read \/ Tell
  <2>1. UNCHANGED << offset, phone >>
    BY <1>5 DEF Begin, Open, Leave, Drop, Read, Tell
  <2>2. past'.walked = past.walked
    BY <1>0, <1>5 DEF Begin, Open, Leave, Drop, Read, Tell, Pasts
  <2>3. past'.crossed = past.crossed
    BY <1>0, <1>5 DEF Begin, Open, Leave, Drop, Read, Tell, Pasts
  <2> QED BY <1>1, <2>1, <2>2, <2>3
<1>6. ASSUME NEW step \in 1..(Wrap - 1), Publish(step) PROVE Walked'
  <2>1. UNCHANGED phone
    BY <1>6 DEF Publish
  <2>2. CASE detected = None
    BY <1>1, <1>6, <2>1, <2>2 DEF Publish
  <2>3. CASE detected # None
    BY <1>1, <1>2, <1>6, <2>1, <2>3, PublishEffect
  <2> QED BY <2>2, <2>3
<1>7. CASE \E what \in {"recenter", "recalibrate"} : Square(what)
  <2>1. UNCHANGED phone /\ offset' = 0 /\ past' = Cleaned(past)
    BY <1>7 DEF Square, ClearOffset
  <2>2. Cleaned(past).walked = 0
    BY <1>0 DEF Cleaned, Pasts
  <2>3. Cleaned(past).crossed = (walk = "store")
    BY <1>0 DEF Cleaned, Pasts
  <2> QED BY <1>2, <2>1, <2>2, <2>3
<1>8. CASE Recenter \/ Recalibrate \/ (\E b \in BOOLEAN : SetAuto(b)) \/ Apply \/ ApplyFov
           \/ ApplyMount \/ (\E v \in Choice : SetFov(v)) \/ ResetDefaults
  <2>1. UNCHANGED << offset, phone >>
    BY <1>8 DEF Recenter, Recalibrate, SetAuto, Apply, ApplyFov, ApplyMount, SetFov, ResetDefaults
  <2>2. past'.walked = past.walked
    BY <1>0, <1>8 DEF Recenter, Recalibrate, SetAuto, Apply, ApplyFov, ApplyMount, SetFov,
                      ResetDefaults, Pasts
  <2>3. past'.crossed = past.crossed
    BY <1>0, <1>8 DEF Recenter, Recalibrate, SetAuto, Apply, ApplyFov, ApplyMount, SetFov,
                      ResetDefaults, Pasts
  <2> QED BY <1>1, <2>1, <2>2, <2>3
<1>9. CASE DollyStep \/ DollyMiss
  BY <1>0, <1>9 DEF DollyStep, DollyMiss
<1>10. CASE DollyStore
  <2>1. past'.walked = Lowest(past.walked + 1, MaxOffset)
    BY <1>0, <1>10 DEF DollyStore, Pasts
  <2>2. past'.crossed = past.crossed
    BY <1>0, <1>10 DEF DollyStore, Pasts
  <2> QED BY <1>10, <2>1, <2>2 DEF DollyStore
<1>11. CASE UNCHANGED vars
  BY <1>1, <1>11 DEF vars
<1> QED
  BY <1>3, <1>4, <1>5, <1>6, <1>7, <1>8, <1>9, <1>10, <1>11
     DEF Next, Detection, Session, Sample, User, Errand, Phone, Stamp

\* maybe_auto_recenter_locked squares newly detected glasses up to a pose of
\* their own, unless a sample of the glasses before was published late, and
\* recentering and dolly steps add up, unless they cross (SquaredUp).
THEOREM ViewSquaredUp == Spec => []SquaredUp
<1>1. Inv /\ [Next]_vars => Inv'
  BY TypePreserved, CentredPreserved, WalkedPreserved DEF Inv
<1>2. Inv => SquaredUp
  BY DEF Inv, Centred, Walked, SquaredUp
<1> QED
  BY InitInv, <1>1, <1>2, PTL DEF Spec
-----------------------------------------------------------------------------
(* Timestamps that wrap                                                    *)

LEMMA Modular ==
    ASSUME NEW x \in Stamp, NEW y \in Stamp
    PROVE  /\ (x + y) % Wrap = IF x + y < Wrap THEN x + y ELSE x + y - Wrap
           /\ (x - y) % Wrap = IF x >= y THEN x - y ELSE x - y + Wrap
<1> DEFINE w == Wrap
<1>1. w \in Nat /\ x \in 0..(w - 1) /\ y \in 0..(w - 1)
  BY DEF Stamp
<1> HIDE DEF w
<1>2. (x + y) % w = IF x + y < w THEN x + y ELSE x + y - w
  BY <1>1, SMT
<1>3. (x - y) % w = IF x >= y THEN x - y ELSE x - y + w
  BY <1>1, SMT
<1> QED BY <1>2, <1>3 DEF w

\* A step further from a sample less than a turn ago, the clock shows it.
LEMMA TimeAdds ==
    ASSUME NEW o \in Stamp, NEW sum \in Nat, NEW step \in 1..(Wrap - 1), sum + step < Wrap
    PROVE  LET ts == (((o + sum) % Wrap) + step) % Wrap IN
           /\ ts = (o + (sum + step)) % Wrap
           /\ Elapsed(ts, NotZero(o)) =< sum + step
<1> DEFINE a == (o + sum) % Wrap
           ts == (a + step) % Wrap
           b == (o + (sum + step)) % Wrap
<1>1. sum \in Stamp /\ step \in Stamp /\ sum + step \in Stamp /\ o \in Int /\ Wrap \in Int
  BY DEF Stamp
<1>2. a = IF o + sum < Wrap THEN o + sum ELSE o + sum - Wrap
  BY <1>1, Modular
<1>3. b = IF o + (sum + step) < Wrap THEN o + (sum + step) ELSE o + (sum + step) - Wrap
  BY <1>1, Modular
<1> HIDE DEF a
<1>4. a \in Stamp
  BY <1>1, <1>2 DEF Stamp
<1>5. ts = IF a + step < Wrap THEN a + step ELSE a + step - Wrap
  BY <1>1, <1>4, Modular
<1> HIDE DEF ts, b
<1>6. ts = b /\ ts \in Stamp
  BY <1>1, <1>2, <1>3, <1>5 DEF Stamp
<1>7. NotZero(o) \in Stamp /\ NotZero(o) \in Int /\ ts \in Int
  BY <1>1, <1>6 DEF NotZero, Stamp
<1>8. Elapsed(ts, NotZero(o)) = IF ts >= NotZero(o) THEN ts - NotZero(o)
                                                     ELSE ts - NotZero(o) + Wrap
  BY <1>6, <1>7, Modular DEF Elapsed
<1>9. Elapsed(ts, NotZero(o)) =< sum + step
  BY <1>1, <1>3, <1>6, <1>7, <1>8 DEF NotZero, Stamp
<1> QED BY <1>6, <1>9 DEF a, ts, b

-----------------------------------------------------------------------------
(* The calibration's window                                                *)

LEMMA AveragedFields ==
    ASSUME NEW t \in Trackers, NEW ts \in Stamp, resting \in BOOLEAN, 1 \in Stamp
    PROVE  LET a == Averaged(t, ts) IN
           /\ a.start = (IF t.start = 0 THEN NotZero(ts) ELSE t.start) /\ a.start # 0
           /\ a.count = Lowest(t.count + 1, MinSamples)
           /\ a.warmup = t.warmup /\ a.calibrated = t.calibrated
           /\ a \in Trackers
<1> DEFINE start == IF t.start = 0 THEN NotZero(ts) ELSE t.start
           count == Lowest(t.count + 1, MinSamples)
           motion == t.motion \/ ~resting
           a == [t EXCEPT !.start = start, !.count = count, !.motion = motion]
<1>1. NotZero(ts) \in Stamp /\ NotZero(ts) # 0
  BY DEF NotZero
<1>2. start \in Stamp /\ start # 0
  BY <1>1 DEF Trackers
<1>3. count \in 0..MinSamples
  BY DEF Lowest, Trackers
<1>4. motion \in BOOLEAN
  BY Zenon
<1>5. a = Averaged(t, ts)
  BY DEF Averaged
<1> HIDE DEF start, count, motion
<1>6. a \in Trackers
  BY <1>2, <1>3, <1>4 DEF Trackers
<1>7. a.start = start /\ a.count = count
  BY DEF Trackers
<1>8. a.warmup = t.warmup
  BY DEF Trackers
<1>9. a.calibrated = t.calibrated
  BY DEF Trackers
<1> QED BY <1>2, <1>5, <1>6, <1>7, <1>8, <1>9 DEF start, count

\* What calibrate does: it begins the warm-up, waits for its end, drops the
\* window, or goes on with it - to its end only when it is full.
LEMMA CalibrateCases ==
    ASSUME NEW t \in Trackers, NEW ts \in Stamp, resting \in BOOLEAN, 1 \in Stamp, ~t.calibrated
    PROVE  LET c == Calibrate(t, ts) IN
           \/ /\ t.warmup = 0 /\ c.warmup = NotZero(ts)
              /\ c.start = t.start /\ c.count = t.count /\ ~c.calibrated
           \/ /\ t.warmup # 0 /\ c.warmup = t.warmup
              /\ c.start = t.start /\ c.count = t.count /\ ~c.calibrated
           \/ /\ t.warmup # 0 /\ c.warmup = t.warmup
              /\ Elapsed(ts, t.warmup) >= Warmup
              /\ \/ c.start = 0 /\ c.count = 0 /\ ~c.calibrated
                 \/ /\ c.start = (IF t.start = 0 THEN NotZero(ts) ELSE t.start) /\ c.start # 0
                    /\ c.calibrated => /\ t.count + 1 >= MinSamples
                                       /\ Elapsed(ts, c.start) >= MinWindow
<1> DEFINE a == Averaged(t, ts)
           c == Calibrate(t, ts)
<1>1. /\ a.start = (IF t.start = 0 THEN NotZero(ts) ELSE t.start) /\ a.start # 0
      /\ a.count = Lowest(t.count + 1, MinSamples)
      /\ a.warmup = t.warmup /\ a.calibrated = t.calibrated /\ a \in Trackers
  BY AveragedFields
<1>2. Elapsed(ts, t.warmup) \in Int /\ t.count \in Nat
  BY DEF Elapsed, Trackers, Stamp
<1>3. CASE t.warmup = 0
  <2>1. c = [t EXCEPT !.warmup = NotZero(ts)]
    BY <1>3 DEF Calibrate, WarmingUp
  <2>2. c.warmup = NotZero(ts)
    BY <2>1 DEF Trackers
  <2>3. c.start = t.start /\ c.count = t.count
    BY <2>1 DEF Trackers
  <2>4. c.calibrated = t.calibrated
    BY <2>1 DEF Trackers
  <2> QED BY <1>3, <2>2, <2>3, <2>4
<1>4. CASE t.warmup # 0 /\ WarmingUp(t, ts)
  <2>1. c = t
    BY <1>4 DEF Calibrate
  <2> QED BY <1>4, <2>1
<1>5. CASE ~WarmingUp(t, ts) /\ ~Full(a, ts)
  <2>1. c = a
    BY <1>5 DEF Calibrate, WarmingUp
  <2>2. t.warmup # 0 /\ Elapsed(ts, t.warmup) >= Warmup
    BY <1>2, <1>5 DEF WarmingUp
  <2> HIDE DEF a, c
  <2> QED BY <1>1, <2>1, <2>2 DEF c
<1>6. CASE ~WarmingUp(t, ts) /\ Full(a, ts)
  <2>1. c = IF a.motion THEN RestartWindow(a) ELSE [a EXCEPT !.calibrated = TRUE]
    BY <1>6 DEF Calibrate, WarmingUp
  <2>2. t.warmup # 0 /\ Elapsed(ts, t.warmup) >= Warmup
    BY <1>2, <1>6 DEF WarmingUp
  <2>3. a.count >= MinSamples /\ Elapsed(ts, a.start) >= MinWindow
    BY <1>6 DEF Full
  <2> HIDE DEF a, c
  <2>4. CASE a.motion
    <3>1. c = [a EXCEPT !.count = 0, !.start = 0, !.motion = FALSE]
      BY <2>1, <2>4 DEF RestartWindow
    <3>2. c.start = 0 /\ c.count = 0
      BY <1>1, <3>1 DEF Trackers
    <3>3. c.warmup = a.warmup
      BY <1>1, <3>1 DEF Trackers
    <3>4. c.calibrated = a.calibrated
      BY <1>1, <3>1 DEF Trackers
    <3> QED BY <1>1, <2>2, <3>2, <3>3, <3>4 DEF c
  <2>5. CASE ~a.motion
    <3>1. c = [a EXCEPT !.calibrated = TRUE]
      BY <2>1, <2>5
    <3>2. c.start = a.start
      BY <1>1, <3>1 DEF Trackers
    <3>3. c.warmup = a.warmup
      BY <1>1, <3>1 DEF Trackers
    <3>4. t.count + 1 >= MinSamples
      BY <1>1, <1>2, <2>3 DEF Lowest
    <3> QED BY <1>1, <2>2, <2>3, <3>2, <3>3, <3>4 DEF c
  <2> QED BY <2>4, <2>5
<1> QED BY <1>3, <1>4, <1>5, <1>6

\* The same of on_imu and on_external_pose.
LEMMA TrackedCases ==
    ASSUME NEW t \in Trackers, NEW ts \in Stamp, resting \in BOOLEAN, 1 \in Stamp
    PROVE  LET c == Tracked(t, ts) IN
           \/ /\ Family[stream] = "viture" \/ t.calibrated
              /\ c.warmup = t.warmup /\ c.start = t.start /\ c.count = t.count
           \/ Family[stream] # "viture" /\ ~t.calibrated /\ c = Calibrate(t, ts)
<1> DEFINE c == Tracked(t, ts)
<1>1. CASE Family[stream] = "viture"
  <2>1. c = [t EXCEPT !.calibrated = TRUE]
    BY <1>1 DEF Tracked
  <2>2. c.warmup = t.warmup
    BY <2>1 DEF Trackers
  <2>3. c.start = t.start /\ c.count = t.count
    BY <2>1 DEF Trackers
  <2> QED BY <1>1, <2>2, <2>3
<1>2. CASE Family[stream] # "viture" /\ t.calibrated
  BY <1>2 DEF Tracked
<1>3. CASE Family[stream] # "viture" /\ ~t.calibrated
  BY <1>3 DEF Tracked
<1> QED BY <1>1, <1>2, <1>3

\* What a sample does to the window and its histories.
LEMMA PublishWindow ==
    ASSUME TypeOK, NEW step \in 1..(Wrap - 1), Publish(step), detected # None
    PROVE  LET c == Tracked(Mounted, (clock + step) % Wrap) IN
           /\ tracker'.warmup = c.warmup /\ tracker'.start = c.start /\ tracker'.count = c.count
           /\ tracker'.calibrated = c.calibrated
           /\ Mounted \in Trackers
           /\ Mounted.warmup = tracker.warmup /\ Mounted.start = tracker.start
           /\ Mounted.count = tracker.count /\ Mounted.calibrated = tracker.calibrated
           /\ past'.mixed = past.mixed
           /\ past'.age = IF tracker.warmup = 0 \/ c.warmup = 0 THEN 0
                          ELSE Lowest(past.age + step, Warmup)
           /\ past'.span = IF tracker.start = 0 \/ c.start = 0 THEN 0
                           ELSE Lowest(past.span + step, MinWindow)
<1> DEFINE ts == (clock + step) % Wrap
           c == Tracked(Mounted, ts)
<1>1. ts \in Stamp /\ 1 \in Stamp /\ resting \in BOOLEAN /\ past \in Pasts /\ tracker \in Trackers
  BY DEF TypeOK, Stamp
<1>2. Mounted \in Trackers
  BY MountedType
<1>3. Mounted.warmup = tracker.warmup /\ Mounted.start = tracker.start
  BY <1>1 DEF Mounted, Trackers
<1>4. Mounted.count = tracker.count /\ Mounted.calibrated = tracker.calibrated
  BY <1>1 DEF Mounted, Trackers
<1> HIDE DEF ts
<1>5. c \in Trackers
  BY <1>1, <1>2, TrackedType
<1> DEFINE base == IF AutoRecenters(c) THEN Cleaned(past) ELSE past
           age == IF tracker.warmup = 0 \/ c.warmup = 0 THEN 0 ELSE Lowest(base.age + step, Warmup)
           span == IF tracker.start = 0 \/ c.start = 0 THEN 0
                   ELSE Lowest(base.span + step, MinWindow)
           strayed == base.strayed \/ stream # detected
<1> HIDE DEF c
<1>6. past' = [base EXCEPT !.age = age, !.span = span, !.strayed = strayed]
  BY DEF Publish, ts, c
<1>7. base \in Pasts
  BY <1>1, CleanedType
<1>8. base.age = past.age /\ base.span = past.span
  BY <1>1 DEF Cleaned, Pasts
<1>9. base.mixed = past.mixed
  BY <1>1 DEF Cleaned, Pasts
<1>10. past'.age = age /\ past'.span = span
  <2> HIDE DEF base, age, span, strayed
  <2> QED BY <1>6, <1>7 DEF Pasts
<1>11. past'.mixed = base.mixed
  <2> HIDE DEF base, age, span, strayed
  <2> QED BY <1>6, <1>7 DEF Pasts
<1>12. tracker' = c \/ tracker' = [c EXCEPT !.recentered = TRUE, !.zq = stream]
  BY DEF Publish, ts, c
<1>13. tracker'.warmup = c.warmup /\ tracker'.start = c.start
  BY <1>5, <1>12 DEF Trackers
<1>14. tracker'.count = c.count /\ tracker'.calibrated = c.calibrated
  BY <1>5, <1>12 DEF Trackers
<1> HIDE DEF base
<1> QED BY <1>2, <1>3, <1>4, <1>8, <1>9, <1>10, <1>11, <1>13, <1>14 DEF c, ts

LEMMA SamplesKeepTime ==
    ASSUME TypeOK, Anchored, Settled, NEW step \in 1..(Wrap - 1), Publish(step), detected # None
    PROVE  Anchored' /\ Settled'
<1> DEFINE ts == (clock + step) % Wrap
           c == Tracked(Mounted, ts)
<1>1. /\ ts \in Stamp /\ 1 \in Stamp /\ resting \in BOOLEAN /\ tracker \in Trackers
      /\ past.age \in 0..Warmup /\ past.span \in 0..MinWindow /\ tracker.count \in Nat
      /\ clock \in Stamp
  BY DEF TypeOK, Stamp, Trackers, Pasts
<1>2. /\ tracker'.warmup = c.warmup /\ tracker'.start = c.start /\ tracker'.count = c.count
      /\ tracker'.calibrated = c.calibrated
      /\ Mounted \in Trackers
      /\ Mounted.warmup = tracker.warmup /\ Mounted.start = tracker.start
      /\ Mounted.count = tracker.count /\ Mounted.calibrated = tracker.calibrated
      /\ past'.mixed = past.mixed
      /\ past'.age = IF tracker.warmup = 0 \/ c.warmup = 0 THEN 0
                     ELSE Lowest(past.age + step, Warmup)
      /\ past'.span = IF tracker.start = 0 \/ c.start = 0 THEN 0
                      ELSE Lowest(past.span + step, MinWindow)
  BY PublishWindow
<1>3. /\ ses \in {"publish", "last"} /\ ses' = Again /\ stream' = stream
      /\ detected' = detected /\ det' = det
      /\ clock' = IF Family[stream] = "viture" THEN clock ELSE ts
  BY DEF Publish
<1>4. Streaming
  BY <1>3 DEF Streaming
\* A timestamp kept less than a turn ago stays that of its sample.
<1>5. ASSUME NEW stamp, NEW sum \in Nat, NEW limit \in 1..Wrap, Ago(stamp, sum),
             Lowest(sum + step, limit) < limit
      PROVE  /\ Lowest(sum + step, limit) = sum + step
             /\ \E o \in Stamp : stamp = NotZero(o) /\ ts = (o + (sum + step)) % Wrap
             /\ Elapsed(ts, stamp) < limit
  <2>1. Lowest(sum + step, limit) = sum + step /\ sum + step < limit
    BY <1>5 DEF Lowest
  <2>2. PICK o \in Stamp : stamp = NotZero(o) /\ clock = (o + sum) % Wrap
    BY <1>5 DEF Ago
  <2>3. sum + step < Wrap
    BY <2>1
  <2>4. ts = (o + (sum + step)) % Wrap /\ Elapsed(ts, NotZero(o)) =< sum + step
    BY <2>2, <2>3, TimeAdds
  <2>5. Elapsed(ts, NotZero(o)) \in Int
    BY <1>1 DEF Elapsed, NotZero, Stamp
  <2> HIDE DEF ts
  <2> QED BY <2>1, <2>2, <2>4, <2>5
\* A timestamp taken now.
<1>6. NotZero(ts) # 0 /\ \E o \in Stamp : NotZero(ts) = NotZero(o) /\ ts = (o + 0) % Wrap
  <2>1. (ts + 0) % Wrap = ts
    BY <1>1, Modular DEF Stamp
  <2> HIDE DEF ts
  <2> QED BY <1>1, <2>1 DEF NotZero
<1>7. \/ /\ Family[stream] = "viture" \/ tracker.calibrated
         /\ c.warmup = tracker.warmup /\ c.start = tracker.start /\ c.count = tracker.count
      \/ Family[stream] # "viture" /\ ~tracker.calibrated /\ c = Calibrate(Mounted, ts)
  BY <1>1, <1>2, TrackedCases
<1>8. CASE past.mixed
  <2>1. (c.warmup = 0 => c.start = 0) /\ (c.start = 0 => c.count = 0)
    <3> HIDE DEF ts, c
    <3>1. CASE c = Calibrate(Mounted, ts) /\ ~tracker.calibrated
      BY <1>1, <1>2, <1>6, <3>1, CalibrateCases DEF Anchored
    <3> QED BY <1>7, <3>1 DEF Anchored
  <2> HIDE DEF c, ts
  <2> QED BY <1>2, <1>3, <1>8, <2>1 DEF Anchored, Settled, Streaming
<1>9. CASE ~past.mixed /\ (Family[stream] = "viture" \/ tracker.calibrated)
           /\ c.warmup = tracker.warmup /\ c.start = tracker.start /\ c.count = tracker.count
  <2>1. CASE tracker.warmup = 0
    <3> HIDE DEF c, ts
    <3> QED BY <1>2, <1>3, <1>9, <2>1 DEF Anchored, Settled, Streaming
  <2>2. CASE tracker.warmup # 0
    <3>1. Family[stream] # "viture" /\ tracker.calibrated /\ clock' = ts
      BY <1>3, <1>4, <1>9, <2>2 DEF Anchored
    <3>2. past.age < Warmup => Ago(tracker.warmup, past.age)
      BY <1>4, <1>9, <2>2 DEF Anchored
    <3>3. tracker.start # 0 => past.age = Warmup /\ past.span = MinWindow
      BY <1>9, <3>1 DEF Settled
    <3>4. past'.age = Lowest(past.age + step, Warmup)
      BY <1>2, <1>9, <2>2
    <3>5. past'.age < Warmup => Ago(tracker.warmup, past.age)'
      <4> SUFFICES ASSUME past'.age < Warmup PROVE Ago(tracker.warmup, past.age)'
        OBVIOUS
      <4>1. past.age < Warmup
        BY <1>1, <3>4 DEF Lowest
      <4>2. /\ past'.age = past.age + step
            /\ \E o \in Stamp : tracker.warmup = NotZero(o) /\ ts = (o + (past.age + step)) % Wrap
        BY <1>1, <1>5, <3>2, <3>4, <4>1
      <4> HIDE DEF c, ts
      <4> QED BY <1>2, <1>9, <3>1, <4>2 DEF Ago, Stamp
    <3>6. tracker.start # 0 => past'.age = Warmup /\ past'.span = MinWindow
      <4> HIDE DEF c, ts
      <4> QED BY <1>1, <1>2, <1>9, <2>2, <3>3, <3>4 DEF Lowest
    <3> HIDE DEF c, ts
    <3> QED BY <1>2, <1>3, <1>9, <2>2, <3>1, <3>5, <3>6 DEF Anchored, Settled, Streaming
  <2> QED BY <2>1, <2>2
<1>10. CASE ~past.mixed /\ Family[stream] # "viture" /\ ~tracker.calibrated
            /\ c = Calibrate(Mounted, ts)
  <2>0. clock' = ts
    BY <1>3, <1>10
  <2>1. CASE tracker.warmup = 0
    <3>1. c.warmup = NotZero(ts) /\ c.start = 0 /\ c.count = 0 /\ ~c.calibrated
      BY <1>1, <1>2, <1>10, <2>1, CalibrateCases DEF Anchored
    <3>2. past'.age = 0
      BY <1>2, <2>1
    <3>3. Ago(tracker.warmup, past.age)'
      <4> HIDE DEF c, ts
      <4> QED BY <1>2, <1>6, <2>0, <3>1, <3>2 DEF Ago, Stamp
    <3> HIDE DEF c, ts
    <3> QED BY <1>2, <1>3, <1>6, <1>10, <3>1, <3>3 DEF Anchored, Settled, Streaming
  <2>2. CASE tracker.warmup # 0
    <3>0. c.warmup = tracker.warmup /\ (c.start = 0 => c.count = 0)
      BY <1>1, <1>2, <1>6, <1>10, <2>2, CalibrateCases DEF Anchored
    <3>1. /\ past.age < Warmup => Ago(tracker.warmup, past.age)
          /\ tracker.start # 0 /\ past.span < MinWindow => Ago(tracker.start, past.span)
      BY <1>4, <1>10, <2>2 DEF Anchored
    <3>2. past'.age = Lowest(past.age + step, Warmup)
      BY <1>2, <2>2, <3>0
    <3>3. past'.age < Warmup =>
              Ago(tracker.warmup, past.age)' /\ Elapsed(ts, tracker.warmup) < Warmup
      <4> SUFFICES ASSUME past'.age < Warmup
                   PROVE  Ago(tracker.warmup, past.age)' /\ Elapsed(ts, tracker.warmup) < Warmup
        OBVIOUS
      <4>1. past.age < Warmup
        BY <1>1, <3>2 DEF Lowest
      <4>2. /\ past'.age = past.age + step /\ Elapsed(ts, tracker.warmup) < Warmup
            /\ \E o \in Stamp : tracker.warmup = NotZero(o) /\ ts = (o + (past.age + step)) % Wrap
        BY <1>1, <1>5, <3>1, <3>2, <4>1
      <4> HIDE DEF c, ts
      <4> QED BY <1>2, <2>0, <3>0, <4>2 DEF Ago, Stamp
    <3>4. past'.age =< Warmup /\ past'.age >= past.age
      BY <1>1, <3>2 DEF Lowest
    <3>5. c.start # 0 => past'.age = Warmup
      <4>1. CASE c.start = tracker.start
        BY <1>1, <1>10, <3>2, <4>1 DEF Settled, Lowest
      <4>2. CASE Elapsed(ts, tracker.warmup) >= Warmup
        <5>1. Elapsed(ts, tracker.warmup) \in Int
          BY <1>1 DEF Elapsed, Trackers, Stamp
        <5>2. past'.age \in Int
          BY <1>1, <3>2 DEF Lowest
        <5> QED BY <3>3, <3>4, <4>2, <5>1, <5>2
      <4> QED BY <1>1, <1>2, <1>10, <2>2, <4>1, <4>2, CalibrateCases
    <3>6. CASE c.start = 0
      <4> HIDE DEF c, ts
      <4> QED BY <1>2, <1>3, <1>10, <3>0, <3>3, <3>6 DEF Anchored, Settled, Streaming
    <3>7. CASE c.start # 0 /\ tracker.start = 0
      <4>1. past'.span = 0 /\ c.start = NotZero(ts) /\ ~c.calibrated
        BY <1>1, <1>2, <1>10, <2>2, <3>7, CalibrateCases DEF Anchored
      <4>2. Ago(tracker.start, past.span)'
        <5> HIDE DEF c, ts
        <5> QED BY <1>2, <1>6, <2>0, <4>1 DEF Ago, Stamp
      <4> HIDE DEF c, ts
      <4> QED BY <1>2, <1>3, <1>10, <3>0, <3>3, <3>5, <3>7, <4>1, <4>2
              DEF Anchored, Settled, Streaming
    <3>8. CASE c.start # 0 /\ tracker.start # 0
      <4>1. c.start = tracker.start /\ (c.calibrated => Elapsed(ts, tracker.start) >= MinWindow)
        BY <1>1, <1>2, <1>10, <2>2, <3>8, CalibrateCases
      <4>2. past'.span = Lowest(past.span + step, MinWindow)
        BY <1>2, <3>8
      <4>3. past'.span < MinWindow =>
                Ago(tracker.start, past.span)' /\ Elapsed(ts, tracker.start) < MinWindow
        <5> SUFFICES ASSUME past'.span < MinWindow
                     PROVE  Ago(tracker.start, past.span)' /\ Elapsed(ts, tracker.start) < MinWindow
          OBVIOUS
        <5>1. past.span < MinWindow
          BY <1>1, <4>2 DEF Lowest
        <5>2. /\ past'.span = past.span + step /\ Elapsed(ts, tracker.start) < MinWindow
              /\ \E o \in Stamp : tracker.start = NotZero(o) /\ ts = (o + (past.span + step)) % Wrap
          BY <1>1, <1>5, <3>1, <3>8, <4>2, <5>1
        <5> HIDE DEF c, ts
        <5> QED BY <1>2, <2>0, <4>1, <5>2 DEF Ago, Stamp
      <4>4. c.calibrated => past'.span = MinWindow
        <5>1. Elapsed(ts, tracker.start) \in Int
          BY <1>1 DEF Elapsed, Trackers, Stamp
        <5>2. past'.span \in Int /\ past'.span =< MinWindow
          BY <1>1, <4>2 DEF Lowest
        <5> QED BY <4>1, <4>3, <5>1, <5>2
      <4> HIDE DEF c, ts
      <4> QED BY <1>2, <1>3, <1>10, <3>0, <3>3, <3>5, <3>8, <4>1, <4>3, <4>4
              DEF Anchored, Settled, Streaming
    <3> QED BY <3>6, <3>7, <3>8
  <2> QED BY <2>1, <2>2
<1> QED BY <1>7, <1>8, <1>9, <1>10

LEMMA TimeKept ==
    ASSUME TypeOK, Anchored, Settled, [Next]_vars
    PROVE  Anchored' /\ Settled'
<1> USE DEF Anchored, Settled, Streaming, Ago
<1>0. tracker \in Trackers /\ past \in Pasts
  BY DEF TypeOK
\* What leaves tracker, histories and clock alone, and starts no stream.
<1>1. CASE /\ UNCHANGED << tracker, clock, stream, det, detected >>
           /\ past'.mixed = past.mixed /\ past'.age = past.age /\ past'.span = past.span
           /\ ses' \in {"loop", "publish", "dead", "last"} =>
                  ses \in {"loop", "publish", "dead", "last"}
  BY <1>1
\* What begins the calibration anew.
<1>2. ASSUME tracker'.warmup = 0, tracker'.start = 0, tracker'.count = 0
      PROVE  Anchored' /\ Settled'
  BY <1>2
<1>3. CASE World \/ Recenter \/ ApplyMount
  <2>1. /\ UNCHANGED << clock, stream, det, detected, past >>
        /\ ses' \in {"loop", "publish", "dead", "last"} =>
               ses \in {"loop", "publish", "dead", "last"}
    BY <1>3 DEF World, Move, Plug, Unplug, Recenter, ApplyMount, session
  <2>2. tracker'.warmup = tracker.warmup /\ tracker'.start = tracker.start
    BY <1>0, <1>3 DEF World, Move, Plug, Unplug, Recenter, ApplyMount, Trackers
  <2>3. tracker'.count = tracker.count /\ tracker'.calibrated = tracker.calibrated
    BY <1>0, <1>3 DEF World, Move, Plug, Unplug, Recenter, ApplyMount, Trackers
  <2> QED BY <2>1, <2>2, <2>3
<1>4. CASE Scan
  <2>1. UNCHANGED << tracker, clock, stream, ses, past >> /\ det = "idle" /\ det' = "override"
    BY <1>4 DEF Scan, session
  <2>2. detected' # None => tracker.warmup = 0 \/ detected # None
    BY <2>1
  <2> QED BY <2>1, <2>2
<1>5. CASE ClearOverride \/ CheckFov \/ StoreFov
  <2>1. UNCHANGED << tracker, clock, stream, ses, detected >>
    BY <1>5 DEF ClearOverride, CheckFov, StoreFov, session
  <2>2. past'.mixed = past.mixed /\ past'.age = past.age
    BY <1>0, <1>5 DEF ClearOverride, CheckFov, StoreFov, Pasts
  <2>3. past'.span = past.span
    BY <1>0, <1>5 DEF ClearOverride, CheckFov, StoreFov, Pasts
  <2>4. det \in {"override", "reset"} => det' \in {"override", "reset"}
    BY <1>5 DEF ClearOverride, CheckFov, StoreFov
  <2> QED BY <2>1, <2>2, <2>3, <2>4
<1>6. CASE ResetTracker \/ ResetAll
  <2>1. tracker'.warmup = 0 /\ tracker'.start = 0 /\ tracker'.count = 0
    BY <1>6 DEF ResetTracker, ResetAll, ResetFor, Reset
  <2> QED BY <1>2, <2>1
<1>7. CASE Begin \/ Leave \/ Drop \/ Read \/ Tell
  <2>1. UNCHANGED << tracker, det, detected >>
    BY <1>7 DEF Begin, Leave, Drop, Read, Tell
  <2>2. past'.mixed = past.mixed /\ past'.age = past.age
    BY <1>0, <1>7 DEF Begin, Leave, Drop, Read, Tell, Pasts
  <2>3. past'.span = past.span
    BY <1>0, <1>7 DEF Begin, Leave, Drop, Read, Tell, Pasts
  <2>4. CASE Begin \/ Leave \/ Drop
    BY <2>1, <2>2, <2>3, <2>4 DEF Begin, Leave, Drop
  <2>5. CASE Read \/ Tell
    BY <1>1, <2>1, <2>2, <2>3, <2>5 DEF Read, Tell, Again
  <2> QED BY <1>7, <2>4, <2>5
\* A stream that starts is another clock.
<1>8. ASSUME NEW ts \in Stamp, Open(ts) PROVE Anchored' /\ Settled'
  <2>1. UNCHANGED << tracker, det, detected >>
    BY <1>8 DEF Open
  <2>2. past'.mixed = (past.mixed \/ tracker.warmup # 0)
    BY <1>0, <1>8 DEF Open, Pasts
  <2> QED BY <2>1, <2>2
<1>9. ASSUME NEW step \in 1..(Wrap - 1), Publish(step) PROVE Anchored' /\ Settled'
  <2>1. CASE detected = None
    BY <1>9, <2>1 DEF Publish
  <2>2. CASE detected # None
    BY <1>9, <2>2, SamplesKeepTime
  <2> QED BY <2>1, <2>2
<1>10. CASE (\E what \in {"recenter", "recalibrate"} : Square(what)) \/ Phone
            \/ (\E b \in BOOLEAN : SetAuto(b)) \/ Apply \/ ApplyFov
            \/ (\E v \in Choice : SetFov(v)) \/ ResetDefaults
  <2>1. UNCHANGED << tracker, session, det, detected >>
    BY <1>10 DEF Square, Phone, DollyStep, DollyStore, DollyMiss, SetAuto, Apply, ApplyFov, SetFov,
                 ResetDefaults
  <2>2. past'.mixed = past.mixed /\ past'.age = past.age
    BY <1>0, <1>10 DEF Square, Cleaned, Phone, DollyStep, DollyStore, DollyMiss, SetAuto, Apply,
                       ApplyFov, SetFov, ResetDefaults, Pasts
  <2>3. past'.span = past.span
    BY <1>0, <1>10 DEF Square, Cleaned, Phone, DollyStep, DollyStore, DollyMiss, SetAuto, Apply,
                       ApplyFov, SetFov, ResetDefaults, Pasts
  <2> QED BY <1>1, <2>1, <2>2, <2>3 DEF session
<1>11. CASE Recalibrate
  <2>1. RestartWindow(tracker) \in Trackers
    BY <1>0, RestartWindowType
  <2>2. RestartWindow(tracker).start = 0 /\ RestartWindow(tracker).count = 0
    BY <1>0 DEF RestartWindow, Trackers
  <2>3. tracker' = [RestartWindow(tracker) EXCEPT !.calibrated = FALSE, !.warmup = 0]
    BY <1>11 DEF Recalibrate, RestartCalibration
  <2>4. tracker'.warmup = 0
    BY <2>1, <2>3 DEF Trackers
  <2>5. tracker'.start = 0 /\ tracker'.count = 0
    BY <2>1, <2>2, <2>3 DEF Trackers
  <2> QED BY <1>2, <2>4, <2>5
<1>12. CASE UNCHANGED vars
  BY <1>1, <1>12 DEF vars, session
<1> QED
  BY <1>3, <1>4, <1>5, <1>6, <1>7, <1>8, <1>9, <1>10, <1>11, <1>12
     DEF Next, Detection, Session, Sample, User, Errand, Stamp

\* head_tracker::calibrate averages no sample before the warm-up is over and
\* takes no bias from a window shorter than it must be, although its timestamps
\* wrap and restart: for any Wrap, and unless a stream was opened again while
\* it calibrated (CalibrationSettled).
THEOREM CalibrationHasItsTime == Spec => []CalibrationSettled
<1>1. Init => TypeOK /\ Anchored /\ Settled
  <2> SUFFICES ASSUME Init PROVE TypeOK /\ Anchored /\ Settled
    OBVIOUS
  <2>1. TypeOK
    BY InitInv DEF Inv
  <2>2. tracker.warmup = 0 /\ tracker.start = 0 /\ tracker.count = 0
    BY DEF Init, Fresh, Reset
  <2> QED BY <2>1, <2>2 DEF Anchored, Settled
<1>2. TypeOK /\ Anchored /\ Settled /\ [Next]_vars => (TypeOK /\ Anchored /\ Settled)'
  BY TypePreserved, TimeKept
<1>3. TypeOK /\ Settled => CalibrationSettled
  BY DEF Settled, CalibrationSettled
<1> QED
  BY <1>1, <1>2, <1>3, PTL DEF Spec
=============================================================================
