------------------------- MODULE AudioWall_proofs -------------------------
(***************************************************************************)
(* Theorems about AudioWall, for any executables, connections and streams. *)
(* RegisteredOnce is inductive together with the types: a source that goes *)
(* was alive, one that comes was not, so counting each of them once keeps  *)
(* every count at one or zero.                                             *)
(***************************************************************************)
EXTENDS AudioWall, TLAPS

\* Sources registered once each, if any are.
Registered(live) == [s \in Source |-> IF s \in live THEN 1 ELSE 0]

\* Swapping live sources for new ones keeps the counts of those that live.
LEMMA SwappedCounts ==
    ASSUME NEW live, NEW gone, NEW new, refs = Registered(live),
           gone \subseteq live, new \cap live = {}
    PROVE  Counted(gone, new) = Registered((live \ gone) \cup new)
  <1>1. ASSUME NEW s \in Source
        PROVE  refs[s] - (IF s \in gone THEN 1 ELSE 0) + (IF s \in new THEN 1 ELSE 0)
                 = IF s \in (live \ gone) \cup new THEN 1 ELSE 0
    <2>1. refs[s] = IF s \in live THEN 1 ELSE 0  BY DEF Registered
    <2>2. CASE s \in gone  BY <2>1, <2>2
    <2>3. CASE s \notin gone /\ s \in new  BY <2>1, <2>3
    <2>4. CASE s \notin gone /\ s \notin new  BY <2>1, <2>4
    <2> QED  BY <2>2, <2>3, <2>4
  <1> QED  BY <1>1 DEF Counted, Registered

\* The property, as one equation about the counts.
LEMMA CountsAsFunction ==
    ASSUME TypeOK
    PROVE  RegisteredOnce <=> refs = Registered(IF latch THEN Live ELSE {})
  BY DEF TypeOK, RegisteredOnce, Registered

\* No entry is not an entry.
LEMMA NoneIsNoEntry ==
    \A e, f, g : [exe |-> e, src |-> f, fresh |-> g] # None
  <1>1. ASSUME NEW e, NEW f, NEW g PROVE [exe |-> e, src |-> f, fresh |-> g] # None
    <2>1. "src" \in DOMAIN [exe |-> e, src |-> f, fresh |-> g]  OBVIOUS
    <2>2. "src" \notin DOMAIN None  BY DEF None
    <2> QED  BY <2>1, <2>2
  <1> QED  BY <1>1

LEMMA EntryIsNoNone == None \notin Entry
  <1>1. "src" \notin DOMAIN None  BY DEF None
  <1>2. \A x \in Entry : "src" \in DOMAIN x  BY DEF Entry
  <1> QED  BY <1>1, <1>2

-----------------------------------------------------------------------------
(* The counts                                                              *)

\* What is registered: the live sources, if the latch is set.
OnList == IF latch THEN Live ELSE {}

\* No executable is a stream.
LEMMA Disjoint ==
    ASSUME TypeOK PROVE children \cap Key = {} /\ Live \subseteq Source
  BY Parameters DEF TypeOK, Key, Source, Live, Streams

\* Steps that leave the wall's sources and counts alone.
LEMMA StillRegistered ==
    ASSUME TypeOK, RegisteredOnce, UNCHANGED << children, latch, refs >>,
           \A k \in Key : /\ (ws_streams'[k] = None) = (ws_streams[k] = None)
                          /\ ws_streams[k] # None => ws_streams'[k].src = ws_streams[k].src
    PROVE  refs' = Registered(OnList')
  <1>1. refs = Registered(OnList)  BY CountsAsFunction DEF OnList
  <1>2. Live' = Live
    <2>1. Streams' = Streams  BY DEF Streams
    <2> QED  BY <2>1 DEF Live, Streams
  <1> QED  BY <1>1, <1>2 DEF OnList, Registered, Source, Key

\* Erasing streams takes the sources of exactly those off the list.
LEMMA Erased ==
    ASSUME TypeOK, NEW gone, gone \subseteq Streams,
           ws_streams' = Without(gone), UNCHANGED children
    PROVE  Live' = Live \ Sounding(gone) /\ Sounding(gone) \subseteq Live
  <1>1. Streams' = Streams \ gone  BY DEF Streams, Without
  <1>2. \A k \in Streams' : ws_streams'[k] = ws_streams[k]  BY <1>1 DEF Streams, Without
  <1>3. gone \cap children = {}  BY Disjoint DEF Streams
  <1> QED  BY <1>1, <1>2, <1>3 DEF Live, Sounding

\* Sources that go and come, under Swapped.
LEMMA SwappedStep ==
    ASSUME TypeOK, RegisteredOnce, NEW gone, NEW new, Swapped(gone, new), UNCHANGED latch,
           gone \subseteq Live, new \cap Live = {}, Live' = (Live \ gone) \cup new
    PROVE  refs' = Registered(OnList')
  <1>1. refs = Registered(OnList)  BY CountsAsFunction DEF OnList
  <1>2. CASE latch
    <2>1. refs' = Counted(gone, new)  BY <1>2 DEF Swapped
    <2>2. refs = Registered(Live)  BY <1>1, <1>2 DEF OnList
    <2>3. Counted(gone, new) = Registered((Live \ gone) \cup new)  BY <2>2, SwappedCounts
    <2>4. OnList' = (Live \ gone) \cup new  BY <1>2 DEF OnList
    <2> QED  BY <2>1, <2>3, <2>4 DEF Registered, Source, Key
  <1>3. CASE ~latch
    <2>1. refs' = refs /\ OnList' = {} /\ OnList = {}  BY <1>3 DEF Swapped, OnList
    <2> QED  BY <1>1, <2>1 DEF Registered, Source, Key
  <1> QED  BY <1>2, <1>3

\* Setting the latch registers every source that lives.
LEMMA AddAllStep ==
    ASSUME TypeOK, RegisteredOnce, NEW live, AddAll(live), live \subseteq Live,
           live = Live \/ ~latch, Live' = live
    PROVE  refs' = Registered(OnList')
  <1>1. refs = Registered(OnList)  BY CountsAsFunction DEF OnList
  <1>2. CASE latch \/ ~showing
    <2>1. refs' = refs /\ OnList' = OnList  BY <1>2 DEF AddAll, OnList
    <2> QED  BY <1>1, <2>1 DEF Registered, Source, Key
  <1>3. CASE ~(latch \/ ~showing)
    <2>1. refs' = Counted({}, live) /\ latch'  BY <1>3 DEF AddAll
    <2>2. refs = Registered({})  BY <1>1, <1>3 DEF OnList
    <2>3. Counted({}, live) = Registered(({} \ {}) \cup live)  BY <2>2, SwappedCounts
    <2>4. OnList' = live  BY <2>1 DEF OnList
    <2>5. ({} \ {}) \cup live = live  OBVIOUS
    <2> QED  BY <2>1, <2>3, <2>4, <2>5 DEF Registered, Source, Key
  <1> QED  BY <1>2, <1>3

\* Clearing it takes every source off, whatever lives afterwards.
LEMMA RemoveAllStep ==
    ASSUME TypeOK, RegisteredOnce, RemoveAll
    PROVE  refs' = Registered(OnList')
  <1>1. refs = Registered(OnList)  BY CountsAsFunction DEF OnList
  <1>2. CASE latch
    <2>1. refs' = Counted(Live, {}) /\ ~latch'  BY <1>2 DEF RemoveAll
    <2>2. refs = Registered(Live)  BY <1>1, <1>2 DEF OnList
    <2>3. Counted(Live, {}) = Registered((Live \ Live) \cup {})  BY <2>2, SwappedCounts
    <2>4. OnList' = {} /\ (Live \ Live) \cup {} = {}  BY <2>1 DEF OnList
    <2> QED  BY <2>1, <2>3, <2>4 DEF Registered, Source, Key
  <1>3. CASE ~latch
    <2>1. refs' = refs /\ OnList' = {} /\ OnList = {}  BY <1>3 DEF RemoveAll, OnList
    <2> QED  BY <1>1, <2>1 DEF Registered, Source, Key
  <1> QED  BY <1>2, <1>3

-----------------------------------------------------------------------------
(* Every step keeps the counts                                             *)

\* Steps that do not touch the sources, the latch or the counts.
LEMMA Bystanders ==
    ASSUME TypeOK, RegisteredOnce, UNCHANGED wall
    PROVE  refs' = Registered(OnList')
  BY StillRegistered DEF wall

\* Streams that are erased.
LEMMA ErasedCounts ==
    ASSUME TypeOK, RegisteredOnce, NEW gone, gone \subseteq Streams, Erase(gone),
           UNCHANGED ofCallback
    PROVE  refs' = Registered(OnList')
  <1>1. /\ ws_streams' = Without(gone) /\ Swapped(Sounding(gone), {})
        /\ UNCHANGED << children, latch >>  BY DEF Erase, ofCallback
  <1>2. Live' = Live \ Sounding(gone) /\ Sounding(gone) \subseteq Live
    BY <1>1, Erased
  <1>3. Live' = (Live \ Sounding(gone)) \cup {} /\ {} \cap Live = {}  BY <1>2
  <1> QED  BY <1>1, <1>2, <1>3, SwappedStep

\* A callback about one stream.
LEMMA CallbackCounts ==
    ASSUME TypeOK, RegisteredOnce, NEW c \in Conn, NEW i \in Sid,
           Close(c, i) \/ Binary(c, i) \/ \E e \in Browser : Meta(c, i, e)
    PROVE  refs' = Registered(OnList')
  <1> DEFINE k == << c, i >>
  <1>0. k \in Key  BY DEF Key
  <1>2. CASE Close(c, i)
    <2>1. {k} \subseteq Streams /\ Erase({k}) /\ UNCHANGED ofCallback  BY <1>2 DEF Close
    <2> QED  BY <2>1, ErasedCounts
  <1>3. CASE Binary(c, i)
    <2>1. /\ UNCHANGED << children, latch, refs >> /\ k \in Streams
          /\ ws_streams' = [ws_streams EXCEPT ![k].fresh = TRUE]
      BY <1>3 DEF Binary, ofCallback
    <2>2. ws_streams[k] \in Entry  BY <2>1 DEF TypeOK, Streams
    <2>3. /\ ws_streams'[k] = [ws_streams[k] EXCEPT !.fresh = TRUE]
          /\ \A j \in Key : j # k => ws_streams'[j] = ws_streams[j]
      BY <2>1 DEF TypeOK, Streams
    <2>4. ws_streams'[k] \in Entry /\ ws_streams'[k].src = ws_streams[k].src
      BY <2>2, <2>3 DEF Entry
    <2> QED  BY <2>1, <2>2, <2>3, <2>4, EntryIsNoNone, StillRegistered
  <1>4. ASSUME NEW e \in Browser, Meta(c, i, e)  PROVE refs' = Registered(OnList')
    <2> DEFINE src == k \in Streams /\ ws_streams[k].src
    <2>1. PICK made \in BOOLEAN :
             /\ ws_streams' = [ws_streams EXCEPT ![k] =
                                  [exe |-> e, src |-> src \/ made, fresh |-> TRUE]]
             /\ IF made /\ ~src THEN Swapped({}, {k}) ELSE UNCHANGED refs
             /\ UNCHANGED << children, latch >>
      BY <1>4 DEF Meta, ofCallback
    <2>2. /\ ws_streams'[k] = [exe |-> e, src |-> src \/ made, fresh |-> TRUE]
          /\ \A j \in Key : j # k => ws_streams'[j] = ws_streams[j]
      BY <1>0, <2>1 DEF TypeOK
    <2>3. ws_streams'[k] # None /\ ws_streams'[k].src = (src \/ made)
      BY <2>2, NoneIsNoEntry
    <2>4. Streams' = Streams \cup {k}  BY <1>0, <2>2, <2>3 DEF Streams
    <2>5. k \notin children  BY <1>0, Disjoint
    <2>6. CASE made /\ ~src
      <3>1. Live' = (Live \ {}) \cup {k} /\ {k} \cap Live = {}
        BY <1>0, <2>1, <2>2, <2>3, <2>4, <2>5, <2>6 DEF Live, Streams
      <3>2. Swapped({}, {k}) /\ UNCHANGED latch /\ {} \subseteq Live  BY <2>1, <2>6
      <3> QED  BY <3>1, <3>2, SwappedStep
    <2>7. CASE ~(made /\ ~src)
      <3>1. Live' = Live
        BY <1>0, <2>1, <2>2, <2>3, <2>4, <2>5, <2>7 DEF Live, Streams
      <3>2. UNCHANGED << refs, latch >>  BY <2>1, <2>7
      <3>3. refs = Registered(OnList)  BY CountsAsFunction DEF OnList
      <3> QED  BY <3>1, <3>2, <3>3 DEF OnList, Registered, Source, Key
    <2> QED  BY <2>6, <2>7
  <1> QED  BY <1>2, <1>3, <1>4

\* The tick and the show and hide callbacks.
LEMMA TickCounts ==
    ASSUME TypeOK, RegisteredOnce, TickStep \/ ShowHide
    PROVE  refs' = Registered(OnList')
  <1>1. CASE TakeDesired \/ Props
    BY <1>1, Bystanders DEF TakeDesired, Props
  <1>2. CASE Reconcile
    <2>1. PICK failed : /\ failed \subseteq want \ children
                        /\ children' = want \ failed
                        /\ Swapped(children \ want, (want \ children) \ failed)
                        /\ UNCHANGED << ws_streams, latch >>
      BY <1>2 DEF Reconcile
    <2>2. Live' = (Live \ (children \ want)) \cup ((want \ children) \ failed)
      <3>1. Streams' = Streams  BY <2>1 DEF Streams
      <3>2. (children \cup want) \cap Key = {}
        BY Parameters DEF TypeOK, Key
      <3> QED  BY <2>1, <3>1, <3>2 DEF Live, Streams
    <2>3. (children \ want) \subseteq Live /\ ((want \ children) \ failed) \cap Live = {}
      BY Parameters DEF Live, Streams, TypeOK, Key
    <2> QED  BY <2>1, <2>2, <2>3, SwappedStep
  <1>3. CASE Tail
    <2>1. /\ ws_streams' = Without(TimedOut) /\ UNCHANGED children
          /\ IF latch THEN Swapped(Sounding(TimedOut), {}) /\ UNCHANGED latch
                      ELSE AddAll(Live \ TimedOut)
      BY <1>3 DEF Tail
    <2>2. TimedOut \subseteq Streams  BY DEF TimedOut
    <2>3. Live' = Live \ Sounding(TimedOut) /\ Sounding(TimedOut) \subseteq Live
      BY <2>1, <2>2, Erased
    <2>4. CASE latch
      <3>1. Live' = (Live \ Sounding(TimedOut)) \cup {} /\ {} \cap Live = {}  BY <2>3
      <3> QED  BY <2>1, <2>3, <2>4, <3>1, SwappedStep
    <2>5. CASE ~latch
      <3>1. Live \ TimedOut = Live \ Sounding(TimedOut)
        BY <2>2, Disjoint DEF Live, Sounding, Streams
      <3>2. Live \ TimedOut \subseteq Live  OBVIOUS
      <3> QED  BY <2>1, <2>3, <2>5, <3>1, <3>2, AddAllStep
    <2> QED  BY <2>4, <2>5
  <1>4. CASE ShowHide
    <2>1. (AddAll(Live) \/ RemoveAll) /\ UNCHANGED << ws_streams, children >>
      BY <1>4 DEF ShowHide
    <2>2. Live' = Live  BY <2>1 DEF Live, Streams
    <2>3. CASE AddAll(Live)  BY <2>2, <2>3, AddAllStep
    <2>4. CASE RemoveAll  BY <2>4, RemoveAllStep
    <2> QED  BY <2>1, <2>3, <2>4
  <1> QED  BY <1>1, <1>2, <1>3, <1>4 DEF TickStep

\* Every step.
LEMMA StepCounts ==
    ASSUME TypeOK, RegisteredOnce, [Next]_vars
    PROVE  refs' = Registered(OnList')
  <1>1. CASE PollStep
    BY <1>1, Bystanders DEF PollStep, Wake, Check, Publish, PollExit, ofPoll
  <1>2. CASE TickStep \/ ShowHide  BY <1>2, TickCounts
  <1>3. CASE Refresh \/ SwitchOff \/ Stop \/ SwitchOn \/ SetPlaying \/ SetShowing \/ SetExclude
    BY <1>3, Bystanders
       DEF Refresh, SwitchOff, Stop, SwitchOn, SetPlaying, SetShowing, SetExclude, ofLife
  <1>4. CASE Destroy
    <2>1. RemoveAll  BY <1>4 DEF Destroy
    <2> QED  BY <2>1, RemoveAllStep
  <1>5. ASSUME NEW c \in Conn, Connect(c)  PROVE refs' = Registered(OnList')
    BY <1>5, Bystanders DEF Connect, ofCallback, wall
  <1>6. ASSUME NEW c \in Conn, Closed(c) \/ Message(c)  PROVE refs' = Registered(OnList')
    <2>1. CASE Closed(c)
      <3>1. Erase({ j \in Streams : j[1] = c }) /\ UNCHANGED ofCallback  BY <2>1 DEF Closed
      <3> QED  BY <3>1, ErasedCounts
    <2>2. CASE Message(c)  BY <2>2, CallbackCounts DEF Message
    <2> QED  BY <1>6, <2>1, <2>2
  <1>7. ASSUME NEW k \in Key, Silence(k)  PROVE refs' = Registered(OnList')
    <2>1. /\ UNCHANGED << children, latch, refs >> /\ k \in Streams
          /\ ws_streams' = [ws_streams EXCEPT ![k].fresh = FALSE]
      BY <1>7 DEF Silence, ofCallback
    <2>2. ws_streams[k] \in Entry  BY <2>1 DEF TypeOK, Streams
    <2>3. /\ ws_streams'[k] = [ws_streams[k] EXCEPT !.fresh = FALSE]
          /\ \A j \in Key : j # k => ws_streams'[j] = ws_streams[j]
      BY <2>1 DEF TypeOK, Streams
    <2>4. ws_streams'[k] \in Entry /\ ws_streams'[k].src = ws_streams[k].src
      BY <2>2, <2>3 DEF Entry
    <2> QED  BY <2>1, <2>2, <2>3, <2>4, EntryIsNoNone, StillRegistered
  <1>8. CASE UNCHANGED vars  BY <1>8, Bystanders DEF vars
  <1> QED  BY <1>1, <1>2, <1>3, <1>4, <1>5, <1>6, <1>7, <1>8 DEF Next

-----------------------------------------------------------------------------
(* Types and theorems                                                      *)

\* The streams after a callback or a tick are streams.
LEMMA StreamTypes ==
    ASSUME TypeOK, [Next]_vars
    PROVE  ws_streams' \in [Key -> Entry \cup {None}]
  <1>1. \A gone : Without(gone) \in [Key -> Entry \cup {None}]
    BY DEF TypeOK, Without
  <1>2. ASSUME NEW k \in Key, NEW b \in BOOLEAN, k \in Streams
        PROVE  [ws_streams EXCEPT ![k].fresh = b] \in [Key -> Entry \cup {None}]
    <2>1. ws_streams[k] \in Entry  BY <1>2 DEF TypeOK, Streams
    <2>2. [ws_streams[k] EXCEPT !.fresh = b] \in Entry  BY <2>1 DEF Entry
    <2> QED  BY <2>2 DEF TypeOK
  <1>3. ASSUME NEW c \in Conn, NEW i \in Sid, NEW e \in Browser, Meta(c, i, e)
        PROVE  ws_streams' \in [Key -> Entry \cup {None}]
    <2>1. PICK made \in BOOLEAN : ws_streams' = [ws_streams EXCEPT ![<< c, i >>] =
             [exe |-> e,
              src |-> (<< c, i >> \in Streams /\ ws_streams[<< c, i >>].src) \/ made,
              fresh |-> TRUE]]
      BY <1>3 DEF Meta
    <2>2. ((<< c, i >> \in Streams /\ ws_streams[<< c, i >>].src) \/ made) \in BOOLEAN
      BY Zenon
    <2>3. [exe |-> e,
           src |-> (<< c, i >> \in Streams /\ ws_streams[<< c, i >>].src) \/ made,
           fresh |-> TRUE] \in Entry
      BY <2>2 DEF Entry
    <2> QED  BY <2>1, <2>3 DEF TypeOK
  <1>4. CASE PollStep
    BY <1>4 DEF PollStep, Wake, Check, Publish, PollExit, ofPoll, wall, TypeOK
  <1>5. CASE TickStep \/ ShowHide
    BY <1>1, <1>5
       DEF TickStep, ShowHide, TakeDesired, Reconcile, Props, Tail, wall, TypeOK
  <1>6. CASE Refresh \/ SwitchOff \/ Stop \/ SwitchOn \/ SetPlaying \/ SetShowing \/ SetExclude
    BY <1>6 DEF Refresh, SwitchOff, Stop, SwitchOn, SetPlaying, SetShowing, SetExclude,
                ofLife, wall, TypeOK
  <1>7. CASE Destroy  BY <1>1, <1>7 DEF Destroy
  <1>8. ASSUME NEW c \in Conn, Connect(c) \/ Closed(c)
        PROVE  ws_streams' \in [Key -> Entry \cup {None}]
    BY <1>1, <1>8 DEF Connect, Closed, Erase, TypeOK
  <1>9. ASSUME NEW c \in Conn, NEW i \in Sid, Close(c, i) \/ Binary(c, i)
        PROVE  ws_streams' \in [Key -> Entry \cup {None}]
    <2>1. << c, i >> \in Key  BY DEF Key
    <2>2. CASE Close(c, i)  BY <1>1, <2>2 DEF Close, Erase
    <2>3. CASE Binary(c, i)  BY <1>2, <2>1, <2>3 DEF Binary
    <2> QED  BY <1>9, <2>2, <2>3
  <1>10. ASSUME NEW k \in Key, Silence(k)
         PROVE  ws_streams' \in [Key -> Entry \cup {None}]
    BY <1>2, <1>10 DEF Silence
  <1>11. CASE UNCHANGED vars  BY <1>11 DEF vars, wall, TypeOK
  <1> QED
    BY <1>3, <1>4, <1>5, <1>6, <1>7, <1>8, <1>9, <1>10, <1>11 DEF Next, Message

\* The browsers excluded from discovery are browsers.
LEMMA ExeTypes ==
    ASSUME TypeOK, ws_streams' \in [Key -> Entry \cup {None}], RebuildExes
    PROVE  ws_exes' \subseteq Browser
  <1>1. \A x \in Entry : x.exe \in Browser  BY DEF Entry
  <1> QED  BY <1>1 DEF RebuildExes

\* Every step keeps the types.
LEMMA TypeStep ==
    ASSUME TypeOK, RegisteredOnce, [Next]_vars
    PROVE  TypeOK'
  <1>1. ws_streams' \in [Key -> Entry \cup {None}]  BY StreamTypes
  <1>2. refs' \in [Source -> Nat]
    BY StepCounts DEF Registered, Source, Key
  <1>3. RebuildExes => ws_exes' \subseteq Browser  BY <1>1, ExeTypes
  <1>4. Listed \subseteq Source  BY DEF TypeOK, Listed, Streams, Source
  <1>5. CASE PollStep
    <2>1. CASE Wake \/ PollExit
      BY <2>1 DEF peers, Wake, PollExit, ofPoll, world, wall, dialog, TypeOK
    <2>2. ASSUME NEW e \in Exe, Check(e)  PROVE TypeOK'
      BY <2>2 DEF peers, Check, ofPoll, world, wall, dialog, TypeOK
    <2>3. CASE Publish
      <3>1. last' \subseteq SUBSET Exe /\ desired' \subseteq Exe /\ news' \in BOOLEAN
        BY <2>3 DEF peers, Publish, TypeOK
      <3> QED  BY <2>3, <3>1 DEF peers, Publish, ofPoll, world, wall, dialog, TypeOK
    <2> QED  BY <1>5, <2>1, <2>2, <2>3 DEF peers, PollStep
  <1>6. CASE TakeDesired
    BY <1>6 DEF peers, TakeDesired, ofTick, world, poller, wall, dialog, TypeOK
  <1>7. CASE Reconcile
    <2>1. props_dirty' \in BOOLEAN /\ children' \subseteq Exe
      BY <1>7, Zenon DEF peers, Reconcile, TypeOK
    <2> QED
      BY <1>1, <1>2, <1>7, <2>1 DEF peers, Reconcile, ofTick, world, poller, TypeOK
  <1>8. CASE Props
    <2>1. asked' \in BOOLEAN  BY <1>8, Zenon DEF peers, Props
    <2> QED  BY <1>8, <2>1 DEF peers, Props, ofTick, world, poller, wall, TypeOK
  <1>9. CASE Tail
    <2>1. props_dirty' \in BOOLEAN  BY <1>9, Zenon DEF peers, Tail
    <2> QED
      BY <1>1, <1>2, <1>3, <1>9, <2>1 DEF peers, Tail, AddAll, ofTick, world, poller, TypeOK
  <1>10. CASE ShowHide
    BY <1>1, <1>2, <1>10 DEF peers, ShowHide, AddAll, RemoveAll, poller, dialog, TypeOK
  <1>11. CASE Refresh
    BY <1>4, <1>11 DEF peers, Refresh, world, wall, poller, TypeOK
  <1>12. CASE SwitchOff \/ Stop \/ SwitchOn
    BY <1>12 DEF peers, SwitchOff, Stop, SwitchOn, ofLife, world, wall, poller, dialog, TypeOK
  <1>13. CASE Destroy
    BY <1>1, <1>2, <1>13 DEF peers, Destroy, RemoveAll, world, poller, dialog, TypeOK
  <1>14. CASE SetPlaying
    BY <1>14 DEF peers, SetPlaying, wall, poller, dialog, TypeOK
  <1>15. CASE SetShowing \/ SetExclude
    <2>1. showing' \in BOOLEAN
      BY <1>15, Zenon DEF peers, SetShowing, SetExclude, TypeOK
    <2> QED  BY <1>15, <2>1 DEF peers, SetShowing, SetExclude, wall, poller, dialog, TypeOK
  <1>16. ASSUME NEW c \in Conn, Connect(c)  PROVE TypeOK'
    BY <1>16 DEF peers, Connect, ofCallback, world, poller, TypeOK
  <1>17. ASSUME NEW gone, Erase(gone), RebuildExes, UNCHANGED ofCallback,
                conns' \subseteq Conn, missed' \subseteq Conn
         PROVE  TypeOK'
    <2>1. props_dirty' \in BOOLEAN  BY <1>17, Zenon DEF peers, Erase
    <2> QED  BY <1>1, <1>2, <1>3, <1>17, <2>1 DEF peers, ofCallback, world, poller, TypeOK
  <1>18. ASSUME NEW c \in Conn, Closed(c)  PROVE TypeOK'
    BY <1>17, <1>18 DEF peers, Closed, TypeOK
  <1>19. ASSUME NEW c \in Conn, NEW i \in Sid, Close(c, i)  PROVE TypeOK'
    BY <1>17, <1>19 DEF peers, Close, TypeOK
  <1>20. ASSUME NEW c \in Conn, NEW i \in Sid, Binary(c, i)  PROVE TypeOK'
    BY <1>1, <1>20 DEF peers, Binary, ofCallback, world, poller, TypeOK
  <1>21. ASSUME NEW c \in Conn, NEW i \in Sid, NEW e \in Browser, Meta(c, i, e)
         PROVE  TypeOK'
    <2>1. props_dirty' \in BOOLEAN  BY <1>21, Zenon DEF peers, Meta
    <2> QED
      BY <1>1, <1>2, <1>3, <1>21, <2>1 DEF peers, Meta, ofCallback, world, poller, TypeOK
  <1>22. ASSUME NEW k \in Key, Silence(k)  PROVE TypeOK'
    BY <1>1, <1>22 DEF peers, Silence, ofCallback, world, poller, TypeOK
  <1>23. CASE UNCHANGED vars
    BY <1>23 DEF peers, vars, world, wall, poller, dialog, TypeOK
  <1> QED
    BY <1>5, <1>6, <1>7, <1>8, <1>9, <1>10, <1>11, <1>12, <1>13, <1>14, <1>15, <1>16,
       <1>18, <1>19, <1>20, <1>21, <1>22, <1>23 DEF peers, Next, TickStep, Message

\* Types and counts hold together: each needs the other.
THEOREM SourcesRegisteredOnce == Spec => [](TypeOK /\ RegisteredOnce)
  <1>1. Init => TypeOK /\ RegisteredOnce
    <2> SUFFICES ASSUME Init  PROVE TypeOK /\ RegisteredOnce
      OBVIOUS
    <2>1. ws_streams \in [Key -> Entry \cup {None}] /\ refs \in [Source -> Nat]
      BY DEF Init
    <2>2. TypeOK  BY <2>1 DEF Init, TypeOK
    <2>3. RegisteredOnce  BY DEF Init, RegisteredOnce
    <2> QED  BY <2>2, <2>3
  <1>2. TypeOK /\ RegisteredOnce /\ [Next]_vars => (TypeOK /\ RegisteredOnce)'
    <2> SUFFICES ASSUME TypeOK, RegisteredOnce, [Next]_vars  PROVE (TypeOK /\ RegisteredOnce)'
      OBVIOUS
    <2>1. TypeOK'  BY TypeStep
    <2>2. refs' = Registered(OnList')  BY StepCounts
    <2>3. RegisteredOnce'  BY <2>2 DEF RegisteredOnce, Registered, OnList
    <2> QED  BY <2>1, <2>3
  <1> QED  BY <1>1, <1>2, PTL DEF Spec

\* ws_exes names exactly the browsers that stream: every handler that changes
\* the streams rebuilds it before it lets go of the mutex.
THEOREM ExclusionFollowsStreams == Spec => []ExclusionIsTrue
  <1>1. Init => ExclusionIsTrue
    BY DEF Init, ExclusionIsTrue, Streams
  <1>2. TypeOK /\ ExclusionIsTrue /\ [Next]_vars => ExclusionIsTrue'
    <2> SUFFICES ASSUME TypeOK, ExclusionIsTrue, [Next]_vars  PROVE ExclusionIsTrue'
      OBVIOUS
    <2>1. RebuildExes => ExclusionIsTrue'
      BY DEF RebuildExes, ExclusionIsTrue, Streams
    <2>2. UNCHANGED << ws_streams, ws_exes >> => ExclusionIsTrue'
      BY DEF ExclusionIsTrue, Streams
    <2>3. ASSUME NEW k \in Key, NEW b \in BOOLEAN, k \in Streams, UNCHANGED ws_exes,
                 ws_streams' = [ws_streams EXCEPT ![k].fresh = b]
          PROVE  ExclusionIsTrue'
      <3>1. ws_streams[k] \in Entry  BY <2>3 DEF TypeOK, Streams
      <3>2. /\ ws_streams'[k] = [ws_streams[k] EXCEPT !.fresh = b]
            /\ \A j \in Key : j # k => ws_streams'[j] = ws_streams[j]
        BY <2>3 DEF TypeOK
      <3>3. ws_streams'[k] \in Entry /\ ws_streams'[k].exe = ws_streams[k].exe
        BY <3>1, <3>2 DEF Entry
      <3>4. Streams' = Streams  BY <3>1, <3>2, <3>3, EntryIsNoNone DEF Streams
      <3>5. \A j \in Streams : ws_streams'[j].exe = ws_streams[j].exe
        BY <3>2, <3>3 DEF Streams
      <3> QED  BY <2>3, <3>4, <3>5 DEF ExclusionIsTrue
    <2>4. CASE PollStep \/ TakeDesired \/ Reconcile \/ Props \/ ShowHide
      BY <2>2, <2>4 DEF PollStep, Wake, Check, Publish, PollExit, ofPoll, wall,
                        TakeDesired, Reconcile, Props, ShowHide
    <2>5. CASE Tail
      <3>1. CASE TimedOut = {}
        <4>1. ws_streams' = ws_streams /\ ws_exes' = ws_exes
          BY <2>5, <3>1 DEF Tail, Without, TypeOK
        <4> QED  BY <2>2, <4>1
      <3>2. CASE TimedOut # {}  BY <2>1, <2>5, <3>2 DEF Tail
      <3> QED  BY <3>1, <3>2
    <2>6. CASE Refresh \/ SwitchOff \/ Stop \/ SwitchOn \/ SetPlaying \/ SetShowing \/ SetExclude
      BY <2>2, <2>6 DEF Refresh, SwitchOff, Stop, SwitchOn, SetPlaying, SetShowing, SetExclude,
                        ofLife, wall
    <2>7. CASE Destroy
      <3>1. ws_streams' = [k \in Key |-> None] /\ ws_exes' = {}
        BY <2>7 DEF Destroy, Without
      <3> QED  BY <3>1 DEF ExclusionIsTrue, Streams
    <2>8. ASSUME NEW c \in Conn, Connect(c) \/ Closed(c)  PROVE ExclusionIsTrue'
      BY <2>1, <2>2, <2>8 DEF Connect, Closed
    <2>9. ASSUME NEW c \in Conn, Message(c)  PROVE ExclusionIsTrue'
      <3>1. ASSUME NEW i \in Sid, Binary(c, i)  PROVE ExclusionIsTrue'
        BY <2>3, <3>1 DEF Binary, Key
      <3>2. ASSUME NEW i \in Sid, Close(c, i) \/ \E e \in Browser : Meta(c, i, e)
            PROVE  ExclusionIsTrue'
        BY <2>1, <3>2 DEF Close, Meta
      <3> QED  BY <2>9, <3>1, <3>2 DEF Message
    <2>10. ASSUME NEW k \in Key, Silence(k)  PROVE ExclusionIsTrue'
      BY <2>3, <2>10 DEF Silence
    <2>11. CASE UNCHANGED vars  BY <2>2, <2>11 DEF vars, wall
    <2> QED
      BY <2>4, <2>5, <2>6, <2>7, <2>8, <2>9, <2>10, <2>11 DEF Next, TickStep
  <1> QED  BY <1>1, <1>2, SourcesRegisteredOnce, PTL DEF Spec
=============================================================================
