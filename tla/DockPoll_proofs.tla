--------------------------- MODULE DockPoll_proofs ---------------------------
(***************************************************************************)
(* Proofs about DockPoll, and through it about RemoteMirror and            *)
(* DockOutputs, for any number of phones, threads, values, endpoints and   *)
(* windows, in histories where every aspect of the host, or both outputs,  *)
(* move.                                                                   *)
(***************************************************************************)
EXTENDS DockPoll, TLAPS

USE Parameters, Outputs, OnePhone

Frames == States \cup Cfgs

-----------------------------------------------------------------------------
(* Frames and pages                                                        *)

LEMMA OvertakenState ==
    ASSUME NEW f \in States, NEW g \in States
    PROVE  /\ Overtaken(f, g) \in States /\ Overtaken(f, g).edit = f.edit
           /\ f.doubt \subseteq Overtaken(f, g).doubt
           /\ f.edit # g.edit => "edit" \in Overtaken(f, g).doubt
<1> DEFINE d == f.doubt \cup Differs(f, g)
<1>1. f.kind = "state" /\ g.kind = "state"
  BY DEF States
<1>2. Overtaken(f, g) = [f EXCEPT !.doubt = d]
  BY <1>1 DEF Overtaken
<1>3. d \in SUBSET Aspect /\ f.doubt \subseteq d
  BY DEF States, Differs
<1>4. f.edit # g.edit => "edit" \in d
  BY DEF States, Differs, Aspect
<1> HIDE DEF d
<1>5. Overtaken(f, g) \in States
  BY <1>2, <1>3 DEF States
<1>6. Overtaken(f, g).edit = f.edit
  BY <1>2 DEF States
<1>7. Overtaken(f, g).doubt = d
  BY <1>2 DEF States
<1> QED BY <1>3, <1>4, <1>5, <1>6, <1>7

LEMMA OvertakenCfg ==
    ASSUME NEW f \in Cfgs, NEW g \in Cfgs
    PROVE  /\ Overtaken(f, g) \in Cfgs /\ Overtaken(f, g).cfg = f.cfg
           /\ f.doubt \subseteq Overtaken(f, g).doubt
           /\ f.cfg # g.cfg => "cfg" \in Overtaken(f, g).doubt
<1> DEFINE d == f.doubt \cup Differs(f, g)
<1>1. f.kind = "cfg" /\ g.kind = "cfg"
  BY DEF Cfgs
<1>2. Overtaken(f, g) = [f EXCEPT !.doubt = d]
  BY <1>1 DEF Overtaken
<1>3. d \in SUBSET Aspect /\ f.doubt \subseteq d
  BY DEF Cfgs, Differs
<1>4. f.cfg # g.cfg => "cfg" \in d
  BY DEF Cfgs, Differs, Aspect
<1> HIDE DEF d
<1>5. Overtaken(f, g) \in Cfgs
  BY <1>2, <1>3 DEF Cfgs
<1>6. Overtaken(f, g).cfg = f.cfg
  BY <1>2 DEF Cfgs
<1>7. Overtaken(f, g).doubt = d
  BY <1>2 DEF Cfgs
<1> QED BY <1>3, <1>4, <1>5, <1>6, <1>7

LEMMA OvertakenOther ==
    ASSUME NEW f, NEW g, f.kind # g.kind
    PROVE  Overtaken(f, g) = f
  BY DEF Overtaken

\* A frame stays what it is when another one is read.
LEMMA OvertakenKeeps ==
    ASSUME NEW f \in Frames \cup {NoFrame}, NEW g \in Frames
    PROVE  LET o == Overtaken(f, g) IN
           /\ o.kind = f.kind
           /\ f \in States => /\ o \in States /\ o.edit = f.edit /\ f.doubt \subseteq o.doubt
           /\ f \in Cfgs => /\ o \in Cfgs /\ o.cfg = f.cfg /\ f.doubt \subseteq o.doubt
           /\ f = NoFrame => o = NoFrame
<1>1. CASE f \in States /\ g \in States
  BY <1>1, OvertakenState DEF States, Cfgs, NoFrame
<1>2. CASE f \in Cfgs /\ g \in Cfgs
  BY <1>2, OvertakenCfg DEF States, Cfgs, NoFrame
<1>3. CASE f.kind # g.kind
  BY <1>3, OvertakenOther
<1> QED BY <1>1, <1>2, <1>3 DEF Frames, States, Cfgs, NoFrame

LEMMA ShowType ==
    ASSUME NEW page \in Pages, NEW f \in Frames
    PROVE  /\ Show(page, f) \in Pages
           /\ f \in States => /\ Show(page, f).edit = f.edit /\ Show(page, f).cfg = page.cfg
                              /\ "edit" \in f.doubt => "edit" \in Show(page, f).doubt
                              /\ "cfg" \in page.doubt => "cfg" \in Show(page, f).doubt
           /\ f \in Cfgs => /\ Show(page, f).cfg = f.cfg /\ Show(page, f).edit = page.edit
                            /\ "cfg" \in f.doubt => "cfg" \in Show(page, f).doubt
                            /\ "edit" \in page.doubt => "edit" \in Show(page, f).doubt
<1>1. CASE f \in States
  <2> DEFINE d == (page.doubt \ {"dist", "edit"}) \cup f.doubt
  <2>1. Show(page, f) = [page EXCEPT !.dist = f.dist, !.edit = f.edit, !.doubt = d]
    BY <1>1 DEF Show, States
  <2>2. d \in SUBSET Aspect /\ ("edit" \in f.doubt => "edit" \in d)
        /\ ("cfg" \in page.doubt => "cfg" \in d)
    BY <1>1 DEF States, Pages
  <2>3. f.dist \in Known /\ f.edit \in BOOLEAN /\ f \notin Cfgs
    BY <1>1 DEF States, Cfgs, Known
  <2> HIDE DEF d
  <2>4. Show(page, f) \in Pages
    BY <2>1, <2>2, <2>3 DEF Pages
  <2>5. Show(page, f).edit = f.edit
    BY <2>1 DEF Pages
  <2>6. Show(page, f).cfg = page.cfg
    BY <2>1 DEF Pages
  <2>7. Show(page, f).doubt = d
    BY <2>1 DEF Pages
  <2> QED BY <2>2, <2>3, <2>4, <2>5, <2>6, <2>7
<1>2. CASE f \in Cfgs
  <2> DEFINE d == (page.doubt \ {"cfg"}) \cup f.doubt
  <2>1. Show(page, f) = [page EXCEPT !.cfg = f.cfg, !.doubt = d]
    BY <1>2 DEF Show, Cfgs
  <2>2. d \in SUBSET Aspect /\ ("cfg" \in f.doubt => "cfg" \in d)
        /\ ("edit" \in page.doubt => "edit" \in d)
    BY <1>2 DEF Cfgs, Pages
  <2>3. f.cfg \in Known /\ f \notin States
    BY <1>2 DEF States, Cfgs, Known
  <2> HIDE DEF d
  <2>4. Show(page, f) \in Pages
    BY <2>1, <2>2, <2>3 DEF Pages
  <2>5. Show(page, f).edit = page.edit
    BY <2>1 DEF Pages
  <2>6. Show(page, f).cfg = f.cfg
    BY <2>1 DEF Pages
  <2>7. Show(page, f).doubt = d
    BY <2>1 DEF Pages
  <2> QED BY <2>2, <2>3, <2>4, <2>5, <2>6, <2>7
<1> QED BY <1>1, <1>2 DEF Frames

-----------------------------------------------------------------------------
(* The mirror's types                                                      *)

FrameShape ==
    \A t \in Thread : /\ at[t] \in {"idle", "compose"} => frame[t] = NoFrame
                      /\ at[t] \in {"list", "send"} => frame[t] \in Frames

Busy == {"list", "send"}

\* What Post does to every thread's frame; nobody's kind changes but t's.
LEMMA Posted ==
    ASSUME TypeOK, FrameShape, NEW t \in Thread, at[t] \notin Busy,
           NEW f \in Frames, NEW next \in Busy, NEW receivers \in SUBSET Conn,
           Post(t, f, next, receivers)
    PROVE  /\ frame' \in [Thread -> Frames \cup {NoFrame}]
           /\ at' \in [Thread -> {"idle", "compose", "list", "send"}]
           /\ to' \in [Thread -> SUBSET Conn]
           /\ FrameShape'
           /\ frame'[t] = f /\ at'[t] = next /\ to'[t] = receivers
           /\ frame[t] = NoFrame
           /\ \A u \in Thread \ {t} :
                 /\ at'[u] = at[u] /\ to'[u] = to[u]
                 /\ frame'[u] = Overtaken(frame[u], f)
                 /\ frame[u] = NoFrame => frame'[u] = NoFrame
                 /\ frame'[u].kind = frame[u].kind
                 /\ frame[u] \in States => /\ frame'[u] \in States /\ frame'[u].edit = frame[u].edit
                                           /\ frame[u].doubt \subseteq frame'[u].doubt
                 /\ frame[u] \in Cfgs => /\ frame'[u] \in Cfgs /\ frame'[u].cfg = frame[u].cfg
                                         /\ frame[u].doubt \subseteq frame'[u].doubt
<1>1. frame \in [Thread -> Frames \cup {NoFrame}]
  BY DEF TypeOK, Frames
<1>2. /\ frame' = [u \in Thread |-> IF u = t THEN f ELSE Overtaken(frame[u], f)]
      /\ at' = [at EXCEPT ![t] = next] /\ to' = [to EXCEPT ![t] = receivers]
  BY DEF Post
<1>3. ASSUME NEW u \in Thread \ {t}
      PROVE  /\ frame'[u] = Overtaken(frame[u], f)
             /\ frame[u] = NoFrame => frame'[u] = NoFrame
             /\ frame'[u].kind = frame[u].kind
             /\ frame[u] \in States => /\ frame'[u] \in States /\ frame'[u].edit = frame[u].edit
                                       /\ frame[u].doubt \subseteq frame'[u].doubt
             /\ frame[u] \in Cfgs => /\ frame'[u] \in Cfgs /\ frame'[u].cfg = frame[u].cfg
                                     /\ frame[u].doubt \subseteq frame'[u].doubt
  <2>1. frame'[u] = Overtaken(frame[u], f)
    BY <1>2
  <2> QED BY <1>1, <2>1, OvertakenKeeps
<1>4. /\ at' \in [Thread -> {"idle", "compose", "list", "send"}]
      /\ to' \in [Thread -> SUBSET Conn]
      /\ at'[t] = next /\ to'[t] = receivers /\ frame'[t] = f
      /\ \A u \in Thread \ {t} : at'[u] = at[u] /\ to'[u] = to[u]
  BY <1>2 DEF TypeOK, Busy
<1>5. frame' \in [Thread -> Frames \cup {NoFrame}]
  <2>1. \A u \in Thread : frame'[u] \in Frames \cup {NoFrame}
    BY <1>1, <1>3, <1>4 DEF Frames
  <2> QED BY <1>2, <2>1
<1>6. FrameShape'
  BY <1>1, <1>3, <1>4 DEF FrameShape, Busy, Frames
<1>7. frame[t] = NoFrame
  BY DEF FrameShape, Busy, TypeOK
<1> QED BY <1>3, <1>4, <1>5, <1>6, <1>7

LEMMA StateFrameType ==
    ASSUME TypeOK
    PROVE  /\ StateFrame \in States /\ StateFrame.edit = edit_focused
           /\ StateFrame.kind = "state"
  BY DEF TypeOK, StateFrame, States, Aspect

LEMMA CfgFrameType ==
    ASSUME NEW v \in Value
    PROVE  CfgFrame(v) \in Cfgs /\ CfgFrame(v).cfg = v /\ CfgFrame(v).kind = "cfg"
  BY DEF CfgFrame, Cfgs

LEMMA BlankType == Blank \in Pages /\ Blank.cfg = NoValue
  BY DEF Blank, Pages, Known

LEMMA Threads == Ui \in Thread /\ Conn \subseteq Thread /\ Pool \subseteq Thread
                 /\ Ui \notin Conn /\ Ui \notin Pool
  BY DEF Thread

\* broadcast_state by a thread with nothing under way.
LEMMA Broadcasts ==
    ASSUME TypeOK, FrameShape, NEW t \in Thread, at[t] = "idle", at' = [at EXCEPT ![t] = "compose"],
           UNCHANGED << frame, to >>
    PROVE  /\ at' \in [Thread -> {"idle", "compose", "list", "send"}]
           /\ FrameShape' /\ at'[t] = "compose"
  BY DEF TypeOK, FrameShape

CacheBuilt == ui = "cache" => built \in Value
MirrorTypes == TypeOK /\ FrameShape /\ CacheBuilt

LEMMA MirrorTypesStart == Init => MirrorTypes
<1> SUFFICES ASSUME Init PROVE MirrorTypes
  OBVIOUS
<1>1. TypeOK
  BY BlankType DEF Init, TypeOK, Known
<1>2. FrameShape /\ CacheBuilt
  BY DEF Init, FrameShape, CacheBuilt
<1> QED BY <1>1, <1>2 DEF MirrorTypes

\* The steps of a broadcast.
LEMMA JobTypes ==
    ASSUME MirrorTypes, NEW t \in Thread, JobStep(t)
    PROVE  MirrorTypes'
<1>1. TypeOK /\ FrameShape /\ CacheBuilt
  BY DEF MirrorTypes
<1>2. CASE Compose(t)
  <2>1. Post(t, StateFrame, "list", {}) /\ at[t] \notin Busy
    BY <1>2 DEF Compose, Busy
  <2>2. /\ frame' \in [Thread -> Frames \cup {NoFrame}] /\ FrameShape'
        /\ at' \in [Thread -> {"idle", "compose", "list", "send"}]
        /\ to' \in [Thread -> SUBSET Conn]
    <3>1. StateFrame \in Frames /\ "list" \in Busy /\ {} \in SUBSET Conn
      BY <1>1, StateFrameType DEF Frames, Busy
    <3> HIDE DEF Frames
    <3> QED BY <1>1, <2>1, <3>1, Posted
  <2> QED BY <1>1, <1>2, <2>2
         DEF Compose, MirrorTypes, TypeOK, CacheBuilt, host, sync, Frames
<1>3. CASE List(t)
  BY <1>1, <1>3 DEF List, Receivers, conns, MirrorTypes, TypeOK, FrameShape, CacheBuilt, host, sync
<1>4. CASE Sent(t)
  BY <1>1, <1>4 DEF Sent, MirrorTypes, TypeOK, FrameShape, CacheBuilt, host, sync, NoFrame
<1>5. ASSUME NEW c \in Conn, Send(t, c) PROVE MirrorTypes'
  <2>1. frame[t] \in Frames /\ phone[c] \in Pages
    BY <1>1, <1>5 DEF Send, TypeOK, FrameShape
  <2>2. phone' \in [Conn -> Pages]
    BY <1>1, <1>5, <2>1, ShowType DEF Send, TypeOK
  <2> QED BY <1>1, <1>5, <2>2 DEF Send, MirrorTypes, TypeOK, FrameShape, CacheBuilt, host, sync
<1> QED BY <1>2, <1>3, <1>4, <1>5 DEF JobStep

\* The connection threads, the focus watcher and the host.
LEMMA ThreadTypes ==
    ASSUME MirrorTypes, ThreadStep
    PROVE  MirrorTypes'
<1>1. TypeOK /\ FrameShape /\ CacheBuilt
  BY DEF MirrorTypes
<1>2. CASE HostChanges
  BY <1>1, <1>2 DEF HostChanges, MirrorTypes, TypeOK, FrameShape, CacheBuilt, host, sync, job
<1>3. ASSUME NEW p \in Pool, FocusChanges(p) PROVE MirrorTypes'
  <2>1. /\ at' \in [Thread -> {"idle", "compose", "list", "send"}] /\ FrameShape'
    BY <1>1, <1>3, Broadcasts, Threads DEF FocusChanges, Broadcast
  <2> QED BY <1>1, <1>3, <2>1
         DEF FocusChanges, Broadcast, MirrorTypes, TypeOK, CacheBuilt, host, sync, Known
<1>4. ASSUME NEW c \in Conn, OpenBegins(c) PROVE MirrorTypes'
  BY <1>1, <1>4 DEF OpenBegins, Goes, MirrorTypes, TypeOK, FrameShape, CacheBuilt, host, sync, job
<1>5. ASSUME NEW c \in Conn, OpenState(c) PROVE MirrorTypes'
  <2>1. /\ frame' \in [Thread -> Frames \cup {NoFrame}] /\ FrameShape'
        /\ at' \in [Thread -> {"idle", "compose", "list", "send"}]
        /\ to' \in [Thread -> SUBSET Conn]
    <3>1. StateFrame \in Frames /\ "send" \in Busy /\ {c} \in SUBSET Conn /\ c \in Thread
      BY <1>1, StateFrameType, Threads DEF Frames, Busy
    <3>2. Post(c, StateFrame, "send", {c}) /\ at[c] \notin Busy
      BY <1>5 DEF OpenState, Goes, Busy
    <3> HIDE DEF Frames
    <3> QED BY <1>1, <3>1, <3>2, Posted
  <2> QED BY <1>1, <1>5, <2>1
         DEF OpenState, Goes, MirrorTypes, TypeOK, CacheBuilt, host, sync, Frames
<1>6. ASSUME NEW c \in Conn, OpenCfg(c) PROVE MirrorTypes'
  <2>1. CASE CfgKnown
    <3>1. cfg_cache \in Value
      BY <1>1, <2>1 DEF CfgKnown, TypeOK, Known
    <3>2. CfgFrame(cfg_cache) \in Frames /\ "send" \in Busy /\ {c} \in SUBSET Conn /\ c \in Thread
      BY <3>1, CfgFrameType, Threads DEF Frames, Busy
    <3>3. Post(c, CfgFrame(cfg_cache), "send", {c}) /\ at[c] \notin Busy
      BY <1>6, <2>1 DEF OpenCfg, Goes, Busy
    <3>4. /\ frame' \in [Thread -> Frames \cup {NoFrame}] /\ FrameShape'
          /\ at' \in [Thread -> {"idle", "compose", "list", "send"}]
          /\ to' \in [Thread -> SUBSET Conn]
      <4> HIDE DEF Frames
      <4> QED BY <1>1, <3>2, <3>3, Posted
    <3> QED BY <1>1, <1>6, <3>4
           DEF OpenCfg, Goes, MirrorTypes, TypeOK, CacheBuilt, host, sync, Frames
  <2>2. CASE ~CfgKnown
    BY <1>1, <1>6, <2>2
       DEF OpenCfg, Goes, MirrorTypes, TypeOK, FrameShape, CacheBuilt, host, sync, job
  <2> QED BY <2>1, <2>2
<1>7. ASSUME NEW c \in Conn, OpenEnds(c) PROVE MirrorTypes'
  BY <1>1, <1>7 DEF OpenEnds, Goes, MirrorTypes, TypeOK, FrameShape, CacheBuilt, host, sync, job
<1>8. ASSUME NEW c \in Conn, Dolly(c) PROVE MirrorTypes'
  <2>1. /\ at' \in [Thread -> {"idle", "compose", "list", "send"}] /\ FrameShape'
    BY <1>1, <1>8, Broadcasts, Threads DEF Dolly
  <2> QED BY <1>1, <1>8, <2>1 DEF Dolly, MirrorTypes, TypeOK, CacheBuilt, sync, Known
<1>9. ASSUME NEW c \in Conn, Close(c) PROVE MirrorTypes'
  <2>1. phone' \in [Conn -> Pages] /\ to' \in [Thread -> SUBSET Conn]
    BY <1>1, <1>9, BlankType DEF Close, TypeOK
  <2> QED BY <1>1, <1>9, <2>1 DEF Close, Goes, MirrorTypes, TypeOK, FrameShape, CacheBuilt, host, sync
<1> QED BY <1>2, <1>3, <1>4, <1>5, <1>6, <1>7, <1>8, <1>9, JobTypes DEF ThreadStep, OpenStep

LEMMA SyncTypes ==
    ASSUME MirrorTypes, SyncStep
    PROVE  MirrorTypes'
<1>1. TypeOK /\ FrameShape /\ CacheBuilt
  BY DEF MirrorTypes
<1>2. CASE SyncDistance
  <2>1. /\ at' \in [Thread -> {"idle", "compose", "list", "send"}] /\ FrameShape'
        /\ frame' = frame /\ to' = to
    BY <1>1, <1>2, Broadcasts, Threads
       DEF SyncDistance, Broadcast, UiGoes, job, TypeOK, FrameShape
  <2> QED BY <1>1, <1>2, <2>1
         DEF SyncDistance, Broadcast, UiGoes, MirrorTypes, TypeOK, CacheBuilt, host, Known
<1>3. CASE SyncWatch
  BY <1>1, <1>3 DEF SyncWatch, UiGoes, MirrorTypes, TypeOK, FrameShape, CacheBuilt, host, job
<1>4. CASE SyncUnwatch
  <2>1. /\ at' \in [Thread -> {"idle", "compose", "list", "send"}] /\ FrameShape'
        /\ frame' = frame /\ to' = to
    BY <1>1, <1>4, Broadcasts, Threads
       DEF SyncUnwatch, Broadcast, UiGoes, job, TypeOK, FrameShape
  <2> QED BY <1>1, <1>4, <2>1
         DEF SyncUnwatch, Broadcast, UiGoes, MirrorTypes, TypeOK, CacheBuilt, host, Known
<1>5. CASE SyncBuild
  BY <1>1, <1>5
     DEF SyncBuild, UiGoes, MirrorTypes, TypeOK, FrameShape, CacheBuilt, host, job, Known
<1>6. CASE SyncCache
  <2>1. built \in Value /\ at[Ui] \notin Busy
    BY <1>1, <1>6 DEF SyncCache, UiGoes, CacheBuilt, Busy
  <2>2. /\ frame' \in [Thread -> Frames \cup {NoFrame}] /\ FrameShape'
        /\ at' \in [Thread -> {"idle", "compose", "list", "send"}]
        /\ to' \in [Thread -> SUBSET Conn]
    <3>1. CASE built = cfg_cache
      BY <1>1, <1>6, <3>1 DEF SyncCache, job, TypeOK, FrameShape, Frames
    <3>2. CASE built # cfg_cache
      <4>1. CfgFrame(built) \in Frames /\ "list" \in Busy /\ {} \in SUBSET Conn /\ Ui \in Thread
        BY <2>1, CfgFrameType, Threads DEF Frames, Busy
      <4>2. Post(Ui, CfgFrame(built), "list", {})
        BY <1>6, <3>2 DEF SyncCache
      <4> HIDE DEF Frames
      <4> QED BY <1>1, <2>1, <4>1, <4>2, Posted
    <3> QED BY <3>1, <3>2
  <2> QED BY <1>1, <1>6, <2>2
         DEF SyncCache, UiGoes, MirrorTypes, TypeOK, CacheBuilt, host, Known, NoValue, Frames
<1> QED BY <1>2, <1>3, <1>4, <1>5, <1>6 DEF SyncStep

LEMMA MirrorTypesStep ==
    ASSUME MirrorTypes, [Next]_vars
    PROVE  MirrorTypes'
<1>1. CASE UNCHANGED vars
  BY <1>1 DEF vars, host, job, sync, MirrorTypes, TypeOK, FrameShape, CacheBuilt
<1> QED BY <1>1, SyncTypes, ThreadTypes DEF Next

-----------------------------------------------------------------------------
(* What every page shows, or is about to be sent                           *)

\* A frame of the kind is on its way to c.
Coming(t, kind, c) == frame[t].kind = kind /\ (at[t] = "list" \/ c \in to[t])

Quiet == \A t \in Thread : at[t] # "compose"

EditFrame(t) ==
    frame[t].kind = "state" => frame[t].edit = edit_focused \/ "edit" \in frame[t].doubt
EditPage(c) ==
    life[c] \in {"state", "cfg", "open"} =>
        \/ phone[c].edit = edit_focused \/ "edit" \in phone[c].doubt
        \/ \E t \in Thread : Coming(t, "state", c)
EditKept == Quiet => (\A t \in Thread : EditFrame(t)) /\ (\A c \in Conn : EditPage(c))

CfgFrameKept(t) ==
    frame[t].kind = "cfg" => frame[t].cfg = cfg_cache \/ "cfg" \in frame[t].doubt
CfgPage(c) ==
    life[c] \in {"cfg", "open"} =>
        \/ phone[c].cfg = cfg_cache \/ "cfg" \in phone[c].doubt
        \/ \E t \in Thread : Coming(t, "cfg", c)
NoCfgYet ==
    cfg_cache = NoValue => /\ \A t \in Thread : frame[t].kind # "cfg"
                           /\ \A c \in Conn : phone[c].cfg = NoValue
CfgKept ==
    /\ \A t \in Thread : CfgFrameKept(t)
    /\ \A c \in Conn : CfgPage(c)
    /\ NoCfgYet

MirrorInv == MirrorTypes /\ EditKept /\ CfgKept

LEMMA Kinds ==
    ASSUME TypeOK
    PROVE  /\ \A t \in Thread : /\ frame[t].kind = "state" <=> frame[t] \in States
                                /\ frame[t].kind = "cfg" <=> frame[t] \in Cfgs
           /\ NoFrame.kind = "none"
  BY DEF TypeOK, States, Cfgs, NoFrame

LEMMA MirrorStarts == Init => MirrorInv
<1> SUFFICES ASSUME Init PROVE MirrorInv
  OBVIOUS
<1>1. EditKept
  BY DEF Init, EditKept, EditFrame, EditPage, NoFrame
<1>2. CfgKept
  BY BlankType DEF Init, CfgKept, CfgFrameKept, CfgPage, NoCfgYet, NoFrame
<1> QED BY <1>1, <1>2, MirrorTypesStart DEF MirrorInv

\* A step that leaves these alone leaves the mirror as good as it was.
LEMMA Untouched ==
    ASSUME MirrorInv, frame' = frame, phone' = phone, edit_focused' = edit_focused,
           cfg_cache' = cfg_cache, Quiet' => Quiet,
           \A t \in Thread, c \in Conn : at[t] = "list" \/ c \in to[t] =>
               at'[t] = "list" \/ c \in to'[t] \/ life'[c] = "none",
           \A c \in Conn : \/ life'[c] = life[c] \/ life'[c] \in {"none", "on_open"}
                           \/ life[c] = "cfg" /\ life'[c] = "open"
    PROVE  EditKept' /\ CfgKept'
<1>1. \A t \in Thread, c \in Conn, kind \in {"state", "cfg"} :
          Coming(t, kind, c) => Coming(t, kind, c)' \/ life'[c] = "none"
  BY DEF Coming
<1>2. EditKept'
  <2> SUFFICES ASSUME Quiet' PROVE (\A t \in Thread : EditFrame(t)') /\ (\A c \in Conn : EditPage(c)')
    BY DEF EditKept
  <2>1. \A t \in Thread : EditFrame(t)'
    BY DEF MirrorInv, EditKept, EditFrame
  <2>2. ASSUME NEW c \in Conn PROVE EditPage(c)'
    <3>1. EditPage(c)
      BY DEF MirrorInv, EditKept
    <3> QED BY <1>1, <3>1 DEF EditPage
  <2> QED BY <2>1, <2>2
<1>3. CfgKept'
  <2>1. (\A t \in Thread : CfgFrameKept(t)') /\ NoCfgYet'
    BY DEF MirrorInv, CfgKept, CfgFrameKept, NoCfgYet
  <2>2. ASSUME NEW c \in Conn PROVE CfgPage(c)'
    <3>1. CfgPage(c)
      BY DEF MirrorInv, CfgKept
    <3> QED BY <1>1, <3>1 DEF CfgPage
  <2> QED BY <2>1, <2>2 DEF CfgKept
<1> QED BY <1>2, <1>3

\* A frame is posted: it is fresh, and it overtakes whatever it differs from.
LEMMA PostedEdit ==
    ASSUME MirrorInv, NEW t \in Thread, at[t] \notin Busy,
           NEW f \in Frames, NEW next \in Busy, NEW receivers \in SUBSET Conn,
           Post(t, f, next, receivers), edit_focused' = edit_focused, phone' = phone,
           f \in States => f.edit = edit_focused,
           at[t] = "compose" => f \in States /\ next = "list",
           \A c \in Conn : life'[c] \in {"state", "cfg", "open"} =>
               life[c] \in {"state", "cfg", "open"} \/ (f \in States /\ c \in receivers)
    PROVE  EditKept'
<1> USE DEF MirrorInv, MirrorTypes
<1>1. /\ frame'[t] = f /\ at'[t] = next /\ to'[t] = receivers /\ frame[t] = NoFrame
      /\ \A u \in Thread \ {t} :
            /\ at'[u] = at[u] /\ to'[u] = to[u]
            /\ frame'[u] = Overtaken(frame[u], f)
            /\ frame'[u].kind = frame[u].kind
            /\ frame[u] \in States => /\ frame'[u].edit = frame[u].edit
                                      /\ frame[u].doubt \subseteq frame'[u].doubt
  <2> HIDE DEF Frames
  <2> QED BY Posted
<1>2. /\ \A u \in Thread : frame[u].kind = "state" <=> frame[u] \in States
      /\ f.kind = "state" <=> f \in States
      /\ NoFrame.kind = "none"
  BY Kinds DEF Frames, States, Cfgs
<1>3. next # "compose"
  BY DEF Busy
<1> SUFFICES ASSUME Quiet'
             PROVE  (\A u \in Thread : EditFrame(u)') /\ (\A c \in Conn : EditPage(c)')
  BY DEF EditKept
<1>4. CASE at[t] # "compose"
  <2>1. Quiet
    BY <1>1, <1>4 DEF Quiet
  <2>2. (\A u \in Thread : EditFrame(u)) /\ (\A c \in Conn : EditPage(c))
    BY <2>1 DEF EditKept
  <2>3. ASSUME NEW u \in Thread PROVE EditFrame(u)'
    <3>1. CASE u = t
      BY <1>1, <1>2, <3>1 DEF EditFrame
    <3>2. CASE u # t
      BY <1>1, <1>2, <2>2, <3>2 DEF EditFrame
    <3> QED BY <3>1, <3>2
  <2>4. ASSUME NEW c \in Conn PROVE EditPage(c)'
    <3>1. CASE f \in States /\ c \in receivers
      BY <1>1, <1>2, <3>1 DEF EditPage, Coming
    <3>2. CASE life[c] \in {"state", "cfg", "open"}
      <4>1. ASSUME NEW u \in Thread, Coming(u, "state", c) PROVE Coming(u, "state", c)'
        BY <1>1, <1>2, <4>1 DEF Coming
      <4> QED BY <2>2, <3>2, <4>1 DEF EditPage
    <3> QED BY <3>1, <3>2 DEF EditPage
  <2> QED BY <2>3, <2>4
<1>5. CASE at[t] = "compose"
  <2>1. f \in States /\ next = "list" /\ f.edit = edit_focused'
    BY <1>5
  <2>2. ASSUME NEW u \in Thread PROVE EditFrame(u)'
    <3>1. CASE u = t
      BY <1>1, <2>1, <3>1 DEF EditFrame
    <3>2. CASE u # t /\ frame[u] \in States
      BY <1>1, <2>1, <3>2, OvertakenState DEF EditFrame
    <3>3. CASE u # t /\ frame[u] \notin States
      BY <1>1, <1>2, <3>3 DEF EditFrame
    <3> QED BY <3>1, <3>2, <3>3
  <2>3. ASSUME NEW c \in Conn PROVE EditPage(c)'
    BY <1>1, <1>2, <2>1 DEF EditPage, Coming
  <2> QED BY <2>2, <2>3
<1> QED BY <1>4, <1>5

LEMMA PostedCfg ==
    ASSUME MirrorInv, NEW t \in Thread, at[t] \notin Busy,
           NEW f \in Frames, NEW next \in Busy, NEW receivers \in SUBSET Conn,
           Post(t, f, next, receivers), phone' = phone,
           f \in Cfgs => f.cfg = cfg_cache' /\ cfg_cache' # NoValue,
           cfg_cache' = cfg_cache \/ (f \in Cfgs /\ next = "list"),
           \A c \in Conn : life'[c] \in {"cfg", "open"} =>
               life[c] \in {"cfg", "open"} \/ (f \in Cfgs /\ c \in receivers)
    PROVE  CfgKept'
<1> USE DEF MirrorInv, MirrorTypes
<1>1. /\ frame'[t] = f /\ at'[t] = next /\ to'[t] = receivers /\ frame[t] = NoFrame
      /\ \A u \in Thread \ {t} :
            /\ at'[u] = at[u] /\ to'[u] = to[u]
            /\ frame'[u] = Overtaken(frame[u], f)
            /\ frame'[u].kind = frame[u].kind
            /\ frame[u] \in Cfgs => /\ frame'[u].cfg = frame[u].cfg
                                    /\ frame[u].doubt \subseteq frame'[u].doubt
  <2> HIDE DEF Frames
  <2> QED BY Posted
<1>2. /\ \A u \in Thread : frame[u].kind = "cfg" <=> frame[u] \in Cfgs
      /\ f.kind = "cfg" <=> f \in Cfgs
      /\ NoFrame.kind = "none"
  BY Kinds DEF Frames, States, Cfgs
<1>3. (\A u \in Thread : CfgFrameKept(u)) /\ (\A c \in Conn : CfgPage(c)) /\ NoCfgYet
  BY DEF CfgKept
<1>4. ASSUME NEW u \in Thread PROVE CfgFrameKept(u)'
  <2>1. CASE u = t
    BY <1>1, <1>2, <2>1 DEF CfgFrameKept
  <2>2. CASE u # t /\ frame[u] \notin Cfgs
    BY <1>1, <1>2, <2>2 DEF CfgFrameKept
  <2>3. CASE u # t /\ frame[u] \in Cfgs /\ cfg_cache' = cfg_cache
    BY <1>1, <1>2, <1>3, <2>3 DEF CfgFrameKept
  <2>4. CASE u # t /\ frame[u] \in Cfgs /\ f \in Cfgs
    BY <1>1, <2>4, OvertakenCfg DEF CfgFrameKept
  <2> QED BY <2>1, <2>2, <2>3, <2>4
<1>5. ASSUME NEW c \in Conn PROVE CfgPage(c)'
  <2>1. CASE f \in Cfgs /\ (c \in receivers \/ next = "list")
    BY <1>1, <1>2, <2>1 DEF CfgPage, Coming
  <2>2. CASE life[c] \in {"cfg", "open"} /\ cfg_cache' = cfg_cache
    <3>1. ASSUME NEW u \in Thread, Coming(u, "cfg", c) PROVE Coming(u, "cfg", c)'
      BY <1>1, <1>2, <3>1 DEF Coming
    <3> QED BY <1>3, <2>2, <3>1 DEF CfgPage
  <2> QED BY <2>1, <2>2 DEF CfgPage
<1>6. NoCfgYet'
  <2> SUFFICES ASSUME cfg_cache' = NoValue
               PROVE  /\ \A u \in Thread : frame'[u].kind # "cfg"
                      /\ \A c \in Conn : phone'[c].cfg = NoValue
    BY DEF NoCfgYet
  <2>1. f \notin Cfgs /\ cfg_cache = NoValue
    OBVIOUS
  <2> QED BY <1>1, <1>2, <1>3, <2>1 DEF NoCfgYet
<1> QED BY <1>4, <1>5, <1>6 DEF CfgKept

\* A page shows a frame that is as good as the page has to be.
LEMMA SendKeeps ==
    ASSUME MirrorInv, NEW t \in Thread, NEW c \in Conn, Send(t, c)
    PROVE  EditKept' /\ CfgKept'
<1> USE DEF MirrorInv, MirrorTypes
<1>1. /\ frame[t] \in Frames /\ phone[c] \in Pages
      /\ phone' = [phone EXCEPT ![c] = Show(phone[c], frame[t])]
      /\ to' = [to EXCEPT ![t] = to[t] \ {c}] /\ at[t] = "send"
      /\ UNCHANGED << at, frame, life, edit_focused, cfg_cache >>
  BY DEF Send, TypeOK, FrameShape
<1>2. /\ \A u \in Thread : /\ frame[u].kind = "cfg" <=> frame[u] \in Cfgs
                           /\ frame[u].kind = "state" <=> frame[u] \in States
      /\ frame[t] \in States => frame[t] \notin Cfgs
  BY Kinds DEF States, Cfgs
<1>3. /\ phone'[c] = Show(phone[c], frame[t])
      /\ \A d \in Conn \ {c} : phone'[d] = phone[d]
  BY <1>1 DEF TypeOK
<1>4. \A u \in Thread, d \in Conn, kind \in {"state", "cfg"} :
          Coming(u, kind, d) => Coming(u, kind, d)' \/ (u = t /\ d = c)
  <2>1. to'[t] = to[t] \ {c} /\ \A u \in Thread \ {t} : to'[u] = to[u]
    BY <1>1 DEF TypeOK
  <2>2. \A u \in Thread, d \in Conn : d \in to[u] => d \in to'[u] \/ (u = t /\ d = c)
    BY <2>1
  <2>3. frame' = frame /\ at' = at
    BY <1>1
  <2> QED BY <2>2, <2>3 DEF Coming
<1>5. EditKept'
  <2> SUFFICES ASSUME Quiet'
               PROVE  (\A u \in Thread : EditFrame(u)') /\ (\A d \in Conn : EditPage(d)')
    BY DEF EditKept
  <2>1. (\A u \in Thread : EditFrame(u)) /\ (\A d \in Conn : EditPage(d))
    BY <1>1 DEF EditKept, Quiet
  <2>2. \A u \in Thread : EditFrame(u)'
    BY <1>1, <2>1 DEF EditFrame
  <2>3. ASSUME NEW d \in Conn PROVE EditPage(d)'
    <3>1. CASE d # c
      BY <1>1, <1>3, <1>4, <2>1, <3>1 DEF EditPage
    <3>2. CASE d = c /\ frame[t] \in States
      BY <1>1, <1>2, <1>3, <2>1, <3>2, ShowType DEF EditPage, EditFrame
    <3>3. CASE d = c /\ frame[t] \in Cfgs
      <4>1. /\ phone'[c].edit = phone[c].edit
            /\ "edit" \in phone[c].doubt => "edit" \in phone'[c].doubt
        BY <1>1, <1>3, <3>3, ShowType
      <4>2. ASSUME NEW u \in Thread, Coming(u, "state", c) PROVE Coming(u, "state", c)'
        BY <1>2, <1>4, <3>3, <4>2 DEF Coming
      <4> QED BY <1>1, <2>1, <3>3, <4>1, <4>2 DEF EditPage
    <3> QED BY <1>1, <3>1, <3>2, <3>3 DEF Frames
  <2> QED BY <2>2, <2>3
<1>6. CfgKept'
  <2>1. (\A u \in Thread : CfgFrameKept(u)) /\ (\A d \in Conn : CfgPage(d)) /\ NoCfgYet
    BY DEF CfgKept
  <2>2. \A u \in Thread : CfgFrameKept(u)'
    BY <1>1, <2>1 DEF CfgFrameKept
  <2>3. ASSUME NEW d \in Conn PROVE CfgPage(d)'
    <3>1. CASE d # c
      BY <1>1, <1>3, <1>4, <2>1, <3>1 DEF CfgPage
    <3>2. CASE d = c /\ frame[t] \in Cfgs
      BY <1>1, <1>2, <1>3, <2>1, <3>2, ShowType DEF CfgPage, CfgFrameKept
    <3>3. CASE d = c /\ frame[t] \in States
      <4>1. /\ phone'[c].cfg = phone[c].cfg
            /\ "cfg" \in phone[c].doubt => "cfg" \in phone'[c].doubt
        BY <1>1, <1>3, <3>3, ShowType
      <4>2. ASSUME NEW u \in Thread, Coming(u, "cfg", c) PROVE Coming(u, "cfg", c)'
        BY <1>2, <1>4, <3>3, <4>2 DEF Coming
      <4> QED BY <1>1, <2>1, <3>3, <4>1, <4>2 DEF CfgPage
    <3> QED BY <1>1, <3>1, <3>2, <3>3 DEF Frames
  <2>4. NoCfgYet'
    <3> SUFFICES ASSUME cfg_cache = NoValue
                 PROVE  \A d \in Conn : phone'[d].cfg = NoValue
      BY <1>1, <2>1 DEF NoCfgYet
    <3>1. frame[t] \in States
      BY <1>1, <1>2, <2>1 DEF NoCfgYet, Frames
    <3>2. phone'[c].cfg = phone[c].cfg
      BY <1>1, <1>3, <3>1, ShowType
    <3> QED BY <1>3, <2>1, <3>2 DEF NoCfgYet
  <2> QED BY <2>2, <2>3, <2>4 DEF CfgKept
<1> QED BY <1>5, <1>6

\* The steps of a thread that is not the poll's.
LEMMA JobKeeps ==
    ASSUME MirrorInv, NEW t \in Thread, JobStep(t)
    PROVE  EditKept' /\ CfgKept'
<1> USE DEF MirrorInv, MirrorTypes
<1>1. CASE Compose(t)
  <2>1. StateFrame \in Frames /\ "list" \in Busy /\ {} \in SUBSET Conn
        /\ StateFrame \in States \ Cfgs /\ StateFrame.edit = edit_focused
    BY StateFrameType DEF Frames, Busy, States, Cfgs
  <2>2. /\ Post(t, StateFrame, "list", {}) /\ at[t] \notin Busy
        /\ UNCHANGED << edit_focused, cfg_cache, life, phone >>
    BY <1>1 DEF Compose, Busy
  <2>3. EditKept'
    <3> HIDE DEF Frames, MirrorInv, MirrorTypes
    <3> QED BY <2>1, <2>2, PostedEdit
  <2>4. CfgKept'
    <3> HIDE DEF Frames, MirrorInv, MirrorTypes
    <3> QED BY <2>1, <2>2, PostedCfg
  <2> QED BY <2>3, <2>4
<1>2. CASE List(t)
  <2>1. \A u \in Thread, c \in Conn : at[u] = "list" \/ c \in to[u] =>
            at'[u] = "list" \/ c \in to'[u] \/ life'[c] = "none"
    BY <1>2 DEF List, Receivers, conns, TypeOK
  <2>2. Quiet' => Quiet
    BY <1>2 DEF List, Quiet, TypeOK
  <2>3. UNCHANGED << frame, phone, edit_focused, cfg_cache, life >>
    BY <1>2 DEF List
  <2> QED BY <2>1, <2>2, <2>3, Untouched
<1>3. CASE Sent(t)
  <2>1. /\ EditKept => EditKept'
        /\ CfgKept => CfgKept'
    <3>1. /\ UNCHANGED << phone, edit_focused, cfg_cache, life, to >>
          /\ frame'[t] = NoFrame /\ NoFrame.kind = "none" /\ to[t] = {} /\ at[t] = "send"
          /\ \A u \in Thread \ {t} : frame'[u] = frame[u] /\ at'[u] = at[u]
      BY <1>3, Kinds DEF Sent, TypeOK
    <3>2. \A c \in Conn, kind \in {"state", "cfg"}, u \in Thread :
              Coming(u, kind, c) => Coming(u, kind, c)'
      BY <3>1 DEF Coming
    <3>3. Quiet' => Quiet
      BY <3>1 DEF Quiet
    <3>4. ASSUME EditKept PROVE EditKept'
      BY <3>1, <3>2, <3>3, <3>4 DEF EditKept, EditFrame, EditPage
    <3>5. ASSUME CfgKept PROVE CfgKept'
      BY <3>1, <3>2, <3>5 DEF CfgKept, CfgFrameKept, CfgPage, NoCfgYet
    <3> QED BY <3>4, <3>5
  <2> QED BY <2>1
<1>4. ASSUME NEW c \in Conn, Send(t, c) PROVE EditKept' /\ CfgKept'
  BY <1>4, SendKeeps
<1> QED BY <1>1, <1>2, <1>3, <1>4 DEF JobStep

LEMMA ThreadKeeps ==
    ASSUME MirrorInv, ThreadStep
    PROVE  EditKept' /\ CfgKept'
<1> USE DEF MirrorInv, MirrorTypes
<1>1. CASE HostChanges
  BY <1>1, Untouched DEF HostChanges, job, Quiet
<1>2. ASSUME NEW t \in Thread, at'[t] = "compose", frame' = frame, to' = to,
             UNCHANGED << cfg_cache, life, phone >>,
             \A u \in Thread : at'[u] = at[u] \/ (u = t /\ at[u] = "idle")
      PROVE  EditKept' /\ CfgKept'
  \* A broadcast begins: what the pages show is open until it is composed.
  <2>1. EditKept'
    BY <1>2 DEF EditKept, Quiet
  <2>2. \A u \in Thread, c \in Conn : Coming(u, "cfg", c) => Coming(u, "cfg", c)'
    BY <1>2 DEF Coming
  <2> QED BY <1>2, <2>1, <2>2 DEF CfgKept, CfgFrameKept, CfgPage, NoCfgYet
<1>3. ASSUME NEW p \in Pool, FocusChanges(p) PROVE EditKept' /\ CfgKept'
  <2>1. /\ p \in Thread /\ at'[p] = "compose" /\ frame' = frame /\ to' = to
        /\ UNCHANGED << cfg_cache, life, phone >>
        /\ \A u \in Thread : at'[u] = at[u] \/ (u = p /\ at[u] = "idle")
    BY <1>3, Threads DEF FocusChanges, Broadcast, TypeOK
  <2> QED BY <1>2, <2>1
<1>4. ASSUME NEW c \in Conn, Dolly(c) PROVE EditKept' /\ CfgKept'
  <2>1. /\ c \in Thread /\ at'[c] = "compose" /\ frame' = frame /\ to' = to
        /\ UNCHANGED << cfg_cache, life, phone >>
        /\ \A u \in Thread : at'[u] = at[u] \/ (u = c /\ at[u] = "idle")
    BY <1>4, Threads DEF Dolly, TypeOK
  <2> QED BY <1>2, <2>1
<1>5. ASSUME NEW c \in Conn, OpenBegins(c) PROVE EditKept' /\ CfgKept'
  BY <1>5, Untouched DEF OpenBegins, Goes, job, Quiet, TypeOK
<1>6. ASSUME NEW c \in Conn, OpenState(c) PROVE EditKept' /\ CfgKept'
  <2>1. /\ StateFrame \in Frames /\ "send" \in Busy /\ {c} \in SUBSET Conn
        /\ StateFrame \in States \ Cfgs /\ StateFrame.edit = edit_focused /\ c \in Thread
    BY StateFrameType, Threads DEF Frames, Busy, States, Cfgs
  <2>2. /\ Post(c, StateFrame, "send", {c}) /\ at[c] = "idle" /\ at[c] \notin Busy
        /\ UNCHANGED << edit_focused, cfg_cache, phone >>
        /\ life[c] = "on_open" /\ life'[c] = "state"
        /\ \A d \in Conn \ {c} : life'[d] = life[d]
    BY <1>6 DEF OpenState, Goes, Busy, TypeOK
  <2>3. EditKept'
    <3> HIDE DEF Frames, MirrorInv, MirrorTypes
    <3> QED BY <2>1, <2>2, PostedEdit
  <2>4. CfgKept'
    <3> HIDE DEF Frames, MirrorInv, MirrorTypes
    <3> QED BY <2>1, <2>2, PostedCfg
  <2> QED BY <2>3, <2>4
<1>7. ASSUME NEW c \in Conn, OpenCfg(c) PROVE EditKept' /\ CfgKept'
  <2>1. /\ at[c] = "idle" /\ at[c] \notin Busy /\ c \in Thread
        /\ UNCHANGED << edit_focused, cfg_cache, phone >>
        /\ life[c] = "state" /\ life'[c] = "cfg"
        /\ \A d \in Conn \ {c} : life'[d] = life[d]
    BY <1>7, Threads DEF OpenCfg, Goes, Busy, TypeOK
  <2>2. CASE CfgKnown
    <3>1. cfg_cache \in Value /\ cfg_cache # NoValue
      BY <2>2 DEF CfgKnown, TypeOK, Known
    <3> DEFINE f == CfgFrame(cfg_cache)
    <3>2. /\ f \in Frames /\ "send" \in Busy /\ {c} \in SUBSET Conn
          /\ f \notin States /\ f \in Cfgs /\ f.cfg = cfg_cache
      BY <3>1, CfgFrameType DEF Frames, Busy, States, Cfgs
    <3>3. Post(c, f, "send", {c})
      BY <1>7, <2>2 DEF OpenCfg
    <3> HIDE DEF f, Frames, MirrorInv, MirrorTypes
    <3>4. EditKept'
      BY <2>1, <3>2, <3>3, PostedEdit
    <3>5. CfgKept'
      BY <2>1, <3>1, <3>2, <3>3, PostedCfg
    <3> QED BY <3>4, <3>5
  <2>3. CASE ~CfgKnown
    <3>1. UNCHANGED << at, frame, to >> /\ cfg_cache = NoValue
      BY <1>7, <2>3 DEF OpenCfg, job, CfgKnown
    <3>2. \A u \in Thread, d \in Conn, kind \in {"state", "cfg"} :
              Coming(u, kind, d) => Coming(u, kind, d)'
      BY <3>1 DEF Coming
    <3>3. EditKept'
      BY <2>1, <3>1, <3>2 DEF EditKept, EditFrame, EditPage, Quiet
    <3>4. CfgKept'
      BY <2>1, <3>1, <3>2 DEF CfgKept, CfgFrameKept, CfgPage, NoCfgYet
    <3> QED BY <3>3, <3>4
  <2> QED BY <2>2, <2>3
<1>8. ASSUME NEW c \in Conn, OpenEnds(c) PROVE EditKept' /\ CfgKept'
  BY <1>8, Untouched DEF OpenEnds, Goes, job, Quiet, TypeOK
<1>9. ASSUME NEW c \in Conn, Close(c) PROVE EditKept' /\ CfgKept'
  <2>1. /\ UNCHANGED << frame, at, edit_focused, cfg_cache >>
        /\ life'[c] = "none" /\ phone'[c] = Blank
        /\ \A d \in Conn \ {c} : life'[d] = life[d] /\ phone'[d] = phone[d]
        /\ \A u \in Thread : to'[u] = to[u] \ {c}
    BY <1>9 DEF Close, Goes, TypeOK
  <2>2. \A u \in Thread, d \in Conn \ {c}, kind \in {"state", "cfg"} :
            Coming(u, kind, d) => Coming(u, kind, d)'
    BY <2>1 DEF Coming
  <2>3. EditKept'
    BY <2>1, <2>2 DEF EditKept, EditFrame, EditPage, Quiet
  <2>4. CfgKept'
    BY <2>1, <2>2, BlankType DEF CfgKept, CfgFrameKept, CfgPage, NoCfgYet
  <2> QED BY <2>3, <2>4
<1> QED BY <1>1, <1>3, <1>4, <1>5, <1>6, <1>7, <1>8, <1>9, JobKeeps DEF ThreadStep, OpenStep

LEMMA SyncKeeps ==
    ASSUME MirrorInv, SyncStep
    PROVE  EditKept' /\ CfgKept'
<1> USE DEF MirrorInv, MirrorTypes
<1>1. ASSUME at'[Ui] = "compose", frame' = frame, to' = to,
             UNCHANGED << cfg_cache, life, phone >>,
             \A u \in Thread : at'[u] = at[u] \/ (u = Ui /\ at[u] = "idle")
      PROVE  EditKept' /\ CfgKept'
  <2>1. EditKept'
    BY <1>1, Threads DEF EditKept, Quiet
  <2>2. \A u \in Thread, c \in Conn : Coming(u, "cfg", c) => Coming(u, "cfg", c)'
    BY <1>1 DEF Coming
  <2> QED BY <1>1, <2>1, <2>2 DEF CfgKept, CfgFrameKept, CfgPage, NoCfgYet
<1>2. ASSUME UNCHANGED << edit_focused, cfg_cache, life, job, phone >>
      PROVE  EditKept' /\ CfgKept'
  BY <1>2, Untouched DEF job, Quiet
<1>3. CASE SyncDistance
  <2>1. CASE Drifted
    <3>1. /\ at'[Ui] = "compose" /\ frame' = frame /\ to' = to
          /\ UNCHANGED << cfg_cache, life, phone >>
          /\ \A u \in Thread : at'[u] = at[u] \/ (u = Ui /\ at[u] = "idle")
      BY <1>3, <2>1, Threads DEF SyncDistance, UiGoes, Broadcast, TypeOK
    <3> QED BY <1>1, <3>1
  <2>2. CASE ~Drifted
    BY <1>2, <1>3, <2>2 DEF SyncDistance
  <2> QED BY <2>1, <2>2
<1>4. CASE SyncWatch
  BY <1>2, <1>4 DEF SyncWatch
<1>5. CASE SyncUnwatch
  <2>1. CASE Clears
    <3>1. /\ at'[Ui] = "compose" /\ frame' = frame /\ to' = to
          /\ UNCHANGED << cfg_cache, life, phone >>
          /\ \A u \in Thread : at'[u] = at[u] \/ (u = Ui /\ at[u] = "idle")
      BY <1>5, <2>1, Threads DEF SyncUnwatch, UiGoes, Broadcast, TypeOK
    <3> QED BY <1>1, <3>1
  <2>2. CASE ~Clears
    BY <1>2, <1>5, <2>2 DEF SyncUnwatch, Clears, TypeOK
  <2> QED BY <2>1, <2>2
<1>6. CASE SyncBuild
  BY <1>2, <1>6 DEF SyncBuild
<1>7. CASE SyncCache
  <2>1. CASE built = cfg_cache
    BY <1>2, <1>7, <2>1 DEF SyncCache
  <2>2. CASE built # cfg_cache
    <3> DEFINE f == CfgFrame(built)
    <3>1. /\ built \in Value /\ at[Ui] = "idle" /\ at[Ui] \notin Busy
          /\ cfg_cache' = built /\ UNCHANGED << edit_focused, life, phone >>
          /\ Post(Ui, f, "list", {})
      BY <1>7, <2>2 DEF SyncCache, UiGoes, CacheBuilt, Busy
    <3>2. /\ f \in Frames /\ "list" \in Busy /\ {} \in SUBSET Conn /\ Ui \in Thread
          /\ f \notin States /\ f \in Cfgs /\ f.cfg = built /\ built # NoValue
      BY <3>1, CfgFrameType, Threads DEF Frames, Busy, States, Cfgs, Value, NoValue
    <3> HIDE DEF f, Frames, MirrorInv, MirrorTypes
    <3>3. EditKept'
      BY <3>1, <3>2, PostedEdit
    <3>4. CfgKept'
      BY <3>1, <3>2, PostedCfg
    <3> QED BY <3>3, <3>4
  <2> QED BY <2>1, <2>2
<1> QED BY <1>3, <1>4, <1>5, <1>6, <1>7 DEF SyncStep

LEMMA MirrorStep ==
    ASSUME MirrorInv, [Next]_vars
    PROVE  MirrorInv'
<1>1. CASE UNCHANGED vars
  <2>1. EditKept' /\ CfgKept'
    BY <1>1, Untouched DEF vars, job, Quiet
  <2> QED BY <1>1, <2>1, MirrorTypesStep DEF MirrorInv
<1>2. MirrorTypes'
  BY MirrorTypesStep DEF MirrorInv
<1> QED BY <1>1, <1>2, ThreadKeeps, SyncKeeps DEF Next, MirrorInv

\* The mirror's part of the dock's poll is the mirror.
LEMMA PollMirrors ==
    ASSUME [PollNext]_pollVars
    PROVE  [Next]_vars
  BY DEF PollNext, pollVars, UiStep, Syncs, PollEnds, Next

THEOREM PollIsTheMirror == PollSpec => Spec
<1>1. PollInit => Init
  BY DEF PollInit
<1> QED BY <1>1, PollMirrors, PTL DEF PollSpec, Spec

\* The mirror's state keeps its types.
THEOREM MirrorTypeCorrect == Spec => []TypeOK
<1>1. MirrorInv => TypeOK
  BY DEF MirrorInv, MirrorTypes
<1> QED BY <1>1, MirrorStarts, MirrorStep, PTL DEF Spec

\* With no frame under way, every page whose aspect is beyond doubt shows what
\* the host has: the focus flag as it is, the settings as they were last pushed.
THEOREM PagesStayInStep == Spec => []PagesInStep
<1>1. MirrorInv => PagesInStep
  <2> SUFFICES ASSUME MirrorInv, NoFrameOut
               PROVE  /\ \A c \in Sure("edit") : phone[c].edit = edit_focused
                      /\ \A c \in Sure("cfg") : phone[c].cfg = cfg_cache
    BY DEF PagesInStep
  <2>1. \A t \in Thread : frame[t].kind = "none"
    BY DEF MirrorInv, MirrorTypes, FrameShape, NoFrameOut, NoFrame
  <2>2. \A t \in Thread, c \in Conn, kind \in {"state", "cfg"} : ~Coming(t, kind, c)
    BY <2>1 DEF Coming
  <2>3. (\A c \in Conn : EditPage(c)) /\ (\A c \in Conn : CfgPage(c))
    BY DEF MirrorInv, EditKept, CfgKept, Quiet, NoFrameOut
  <2> QED BY <2>2, <2>3 DEF EditPage, CfgPage, Sure
<1> QED BY <1>1, MirrorStarts, MirrorStep, PTL DEF Spec

-----------------------------------------------------------------------------
(* The outputs: what a step of the poll's module does to them              *)

Steps == {"idle", "begin", "display", "request", "rearm", "mode", "find", "apply",
          "output", "remote", "sent"}
Seen == [detected : BOOLEAN, count : BOOLEAN, present : BOOLEAN, want : Endpoint \cup {None},
         found : BOOLEAN, mode : Mode]

SoundTypes ==
    /\ detected \in BOOLEAN /\ endpoints \subseteq Endpoint
    /\ monitoring \in Endpoint \cup {None} /\ alive \in BOOLEAN
    /\ monitor_out \in Mode /\ monitor_device_id \in Endpoint \cup {None}
    /\ monitor_rearm \in BOOLEAN
    /\ applied \subseteq Latch /\ missed \subseteq Latch
    /\ row \in [Phone -> {"none", "mode", "rearm"}]
PictureTypes ==
    /\ display \in BOOLEAN /\ screen \in BOOLEAN /\ sources \in BOOLEAN
    /\ where \in [Window -> Somewhere] /\ tracked \subseteq Window
    /\ auto_projector \in BOOLEAN /\ projector_request \in BOOLEAN
    /\ auto_projector_opened \in BOOLEAN /\ had_source \in BOOLEAN /\ occasion \in BOOLEAN
PollTypes ==
    /\ stirs \in Stirs /\ step \in Steps /\ seen \in Seen
    /\ step \in {"find", "apply"} => seen.mode \in Latch
DockTypeOK == SoundTypes /\ PictureTypes /\ PollTypes

\* The poll is at its last call: the mirror's turn, or nobody's.
Rests ==
    /\ step \in {"remote", "sent"} /\ UNCHANGED << stirs, sound, picture >>
    /\ \/ step' \in {step, "sent"} /\ seen' = seen
       \/ step' = "idle" /\ seen' = Nothing

DockStep ==
    \/ PollStep \/ WorldStep \/ Rests
    \/ \E p \in Phone : PhoneStep(p)

LEMMA PollDocks ==
    ASSUME [PollNext]_pollVars
    PROVE  DockStep \/ UNCHANGED dockVars
<1>1. ASSUME Syncs PROVE Rests
  BY <1>1 DEF Syncs, Rests
<1>2. ASSUME PollEnds PROVE Rests
  BY <1>2 DEF PollEnds, Rests
<1> QED BY <1>1, <1>2 DEF PollNext, pollVars, UiStep, DockStep

LEMMA NothingSeen ==
    /\ Nothing \in Seen /\ ~Nothing.present /\ ~Nothing.count /\ ~Nothing.found
    /\ Nothing.mode = "keep"
  BY DEF Nothing, Seen, Mode

\* The locals of refresh(), field by field.
LEMMA PollReads ==
    ASSUME SoundTypes, PictureTypes, PollTypes
    PROVE  /\ Begins => /\ seen' \in Seen /\ ~seen'.present /\ seen'.count = sources
                        /\ ~seen'.found /\ seen'.mode = "keep"
           /\ FindsDisplay => /\ seen' \in Seen /\ seen'.present = display
                              /\ seen'.count = seen.count
           /\ ReadsMode => /\ seen' \in Seen /\ seen'.present = seen.present
                           /\ seen'.count = seen.count /\ seen'.mode = monitor_out
                           /\ seen'.want = Wanted(monitor_out, monitor_device_id, seen.detected)
           /\ FindsEndpoint => /\ seen' \in Seen /\ seen'.present = seen.present
                               /\ seen'.count = seen.count /\ seen'.mode = seen.mode
                               /\ seen'.want = seen.want /\ seen'.found = (seen.want \in endpoints)
           /\ Applies => /\ seen' \in Seen /\ seen'.present = seen.present
                         /\ seen'.count = seen.count
           /\ TendsOutput => seen' \in Seen /\ seen'.present /\ ~seen'.count
<1>1. seen \in Seen /\ Nothing \in Seen
  BY NothingSeen DEF PollTypes
<1>2. detected \in BOOLEAN /\ sources \in BOOLEAN /\ display \in BOOLEAN
      /\ Wanted(monitor_out, monitor_device_id, seen.detected) \in Endpoint \cup {None}
      /\ monitor_out \in Mode /\ "keep" \in Mode
  BY DEF SoundTypes, PictureTypes, Wanted, Mode
<1>3. ASSUME Begins
      PROVE  /\ seen' \in Seen /\ ~seen'.present /\ seen'.count = sources
             /\ ~seen'.found /\ seen'.mode = "keep"
  BY <1>2, <1>3 DEF Begins, Nothing, Seen
<1>4. ASSUME FindsDisplay
      PROVE  seen' \in Seen /\ seen'.present = display /\ seen'.count = seen.count
  BY <1>1, <1>2, <1>4 DEF FindsDisplay, Seen
<1>5. ASSUME ReadsMode
      PROVE  /\ seen' \in Seen /\ seen'.present = seen.present
             /\ seen'.count = seen.count /\ seen'.mode = monitor_out
             /\ seen'.want = Wanted(monitor_out, monitor_device_id, seen.detected)
  <2> DEFINE w == Wanted(monitor_out, monitor_device_id, seen.detected)
  <2>1. seen' = [seen EXCEPT !.mode = monitor_out, !.want = w]
    BY <1>5 DEF ReadsMode
  <2> HIDE DEF w
  <2>2. w \in Endpoint \cup {None}
    BY <1>2 DEF w
  <2>3. seen' \in Seen
    BY <1>1, <1>2, <2>1, <2>2 DEF Seen
  <2>4. seen'.present = seen.present /\ seen'.count = seen.count
    BY <1>1, <2>1 DEF Seen
  <2>5. seen'.mode = monitor_out /\ seen'.want = w
    BY <1>1, <2>1 DEF Seen
  <2> QED BY <2>3, <2>4, <2>5 DEF w
<1>6. ASSUME FindsEndpoint
      PROVE  /\ seen' \in Seen /\ seen'.present = seen.present
             /\ seen'.count = seen.count /\ seen'.mode = seen.mode
             /\ seen'.want = seen.want /\ seen'.found = (seen.want \in endpoints)
  <2> DEFINE there == seen.want \in endpoints
  <2>1. seen' = [seen EXCEPT !.found = there] /\ there \in BOOLEAN
    BY <1>6 DEF FindsEndpoint
  <2> HIDE DEF there
  <2>2. /\ seen' \in Seen /\ seen'.present = seen.present
        /\ seen'.count = seen.count /\ seen'.mode = seen.mode
        /\ seen'.want = seen.want /\ seen'.found = there
    BY <1>1, <2>1 DEF Seen
  <2> QED BY <2>2 DEF there
<1>7. ASSUME Applies
      PROVE  /\ seen' \in Seen /\ seen'.present = seen.present
             /\ seen'.count = seen.count
  <2>1. seen' = [seen EXCEPT !.want = None, !.found = FALSE, !.mode = "keep"]
    BY <1>7 DEF Applies
  <2> QED BY <1>1, <1>2, <2>1 DEF Seen
<1>8. ASSUME TendsOutput
      PROVE  seen' \in Seen /\ seen'.present /\ ~seen'.count
  BY <1>1, <1>8 DEF TendsOutput, Nothing, Seen
<1> QED BY <1>3, <1>4, <1>5, <1>6, <1>7, <1>8

LEMMA DockTypesStart == DockInit => DockTypeOK
<1> SUFFICES ASSUME DockInit PROVE DockTypeOK
  OBVIOUS
<1>1. SoundTypes
  BY DEF DockInit, SoundTypes, Mode, Latch
<1>2. PictureTypes
  BY DEF DockInit, PictureTypes, Somewhere
<1>3. PollTypes
  BY NothingSeen DEF DockInit, PollTypes, Steps
<1> QED BY <1>1, <1>2, <1>3 DEF DockTypeOK

LEMMA PollTypesStep ==
    ASSUME DockTypeOK, DockStep
    PROVE  PollTypes'
<1> USE DEF DockTypeOK
<1>1. CASE Rests
  BY <1>1, NothingSeen DEF Rests, PollTypes, Steps
<1>2. CASE WorldStep
  <2>1. /\ stirs' = stirs /\ seen' = seen
        /\ step' = step \/ (step = "idle" /\ step' = "begin")
    BY <1>2
       DEF WorldStep, EndpointMoves, UserMonitors, Restored, DetectionMoves, DisplayMoves,
           SourcesMove, QtLearns, UserMovesWindow, DockChooses, ProjectorButton, PictureFlags,
           SoundStep, PictureStep, Between, poll
  <2> QED BY <2>1 DEF PollTypes, Steps
<1>3. ASSUME NEW p \in Phone, PhoneStep(p) PROVE PollTypes'
  BY <1>3 DEF PhoneStep, PhoneNames, PhoneChooses, PhoneRearms, SoundStep, poll, PollTypes
<1>4. CASE PollStep
  <2>1. CASE Begins
    BY <1>4, <2>1, PollReads DEF Begins, PollTypes, Steps
  <2>2. CASE FindsDisplay
    BY <2>2, PollReads DEF FindsDisplay, Reaches, PollTypes, Steps
  <2>3. CASE AnswersRequest
    BY <2>3 DEF AnswersRequest, Reaches, PollTypes, Steps
  <2>4. CASE Rearms
    BY <2>4 DEF Rearms, Reaches, PollTypes, Steps
  <2>5. CASE ReadsMode
    BY <2>5, PollReads DEF ReadsMode, Reaches, PollTypes, SoundTypes, Steps, Mode, Latch
  <2>6. CASE FindsEndpoint
    BY <2>6, PollReads DEF FindsEndpoint, Reaches, PollTypes, Steps
  <2>7. CASE Applies
    BY <2>7, PollReads DEF Applies, Reaches, PollTypes, Steps
  <2>8. CASE ClosesOutput
    BY <2>8, NothingSeen DEF ClosesOutput, Reaches, PollTypes, Steps
  <2>9. CASE TendsOutput
    BY <2>9, PollReads DEF TendsOutput, Reaches, PollTypes, Steps
  <2> QED BY <1>4, <2>1, <2>2, <2>3, <2>4, <2>5, <2>6, <2>7, <2>8, <2>9 DEF PollStep
<1> QED BY <1>1, <1>2, <1>3, <1>4 DEF DockStep

LEMMA SoundTypesStep ==
    ASSUME DockTypeOK, DockStep
    PROVE  SoundTypes'
<1> USE DEF DockTypeOK
<1>1. CASE UNCHANGED sound
  BY <1>1 DEF sound, monitors, chosen, SoundTypes
<1>2. ASSUME NEW e \in Endpoint, EndpointMoves(e) PROVE SoundTypes'
  BY <1>2 DEF EndpointMoves, chosen, SoundTypes
<1>3. ASSUME NEW e \in Endpoint, UserMonitors(e) PROVE SoundTypes'
  BY <1>3 DEF UserMonitors, chosen, SoundTypes
<1>4. CASE Restored
  <2>1. monitor_out' \in Mode /\ monitor_device_id' \in Endpoint \cup {None}
    BY <1>4 DEF Restored, Choice, Mode
  <2> QED BY <1>4, <2>1 DEF Restored, monitors, SoundTypes
<1>5. CASE DetectionMoves
  BY <1>5 DEF DetectionMoves, monitors, chosen, SoundTypes
<1>6. ASSUME NEW mode \in Mode, NEW e \in Endpoint, DockChooses(mode, e) PROVE SoundTypes'
  BY <1>6 DEF DockChooses, Chooses, monitors, SoundTypes
<1>7. ASSUME NEW p \in Phone, PhoneStep(p) PROVE SoundTypes'
  <2>1. ASSUME NEW e \in Endpoint, PhoneNames(p, e) PROVE SoundTypes'
    BY <2>1 DEF PhoneNames, monitors, SoundTypes
  <2>2. ASSUME NEW mode \in Mode, PhoneChooses(p, mode) PROVE SoundTypes'
    BY <2>2 DEF PhoneChooses, monitors, SoundTypes
  <2>3. CASE PhoneRearms(p)
    BY <2>3 DEF PhoneRearms, monitors, chosen, SoundTypes
  <2> QED BY <1>7, <2>1, <2>2, <2>3 DEF PhoneStep
<1>8. CASE Rearms
  BY <1>8 DEF Rearms, monitors, chosen, SoundTypes
<1>9. CASE Applies
  <2>1. seen.mode \in Latch /\ seen.want \in Endpoint \cup {None}
    BY <1>9 DEF Applies, Reaches, PollTypes, Seen
  <2>2. monitoring' \in Endpoint \cup {None} /\ alive' \in BOOLEAN /\ endpoints' = endpoints
    <3>1. UNCHANGED monitors \/ ApplyMonitoringDevice
      BY <1>9 DEF Applies
    <3>2. (seen.want \in endpoints) \in BOOLEAN
      OBVIOUS
    <3> QED BY <2>1, <3>1, <3>2 DEF ApplyMonitoringDevice, monitors, SoundTypes
  <2>3. applied' \subseteq Latch /\ missed' \subseteq Latch
    BY <1>9, <2>1 DEF Applies, SoundTypes
  <2> QED BY <1>9, <2>2, <2>3 DEF Applies, chosen, SoundTypes
<1>10. CASE PollStep /\ ~Rearms /\ ~Applies
  BY <1>1, <1>10
     DEF PollStep, Begins, FindsDisplay, AnswersRequest, ReadsMode, FindsEndpoint, ClosesOutput,
         TendsOutput
<1>11. ASSUME DisplayMoves \/ SourcesMove \/ QtLearns \/ (\E w \in Window : UserMovesWindow(w))
              \/ ProjectorButton \/ PictureFlags
       PROVE  UNCHANGED sound
  BY <1>11
     DEF DisplayMoves, SourcesMove, QtLearns, UserMovesWindow, ProjectorButton, PictureFlags,
         PictureStep
<1>12. CASE Rests
  BY <1>1, <1>12 DEF Rests
<1> QED BY <1>1, <1>2, <1>3, <1>4, <1>5, <1>6, <1>7, <1>8, <1>9, <1>10, <1>11, <1>12
       DEF DockStep, WorldStep

\* Opening a projector moves one window to the glasses and takes the others off.
LEMMA OpenTypes ==
    ASSUME PictureTypes
    PROVE  /\ Fresh \subseteq Window /\ OnGlasses \subseteq Window
           /\ \A ws : Placed(ws, "none") \in [Window -> Somewhere]
           /\ Opens => where' \in [Window -> Somewhere] /\ tracked' \subseteq Window
           /\ \A asked \in BOOLEAN : OpensIf(asked) =>
                 /\ where' \in [Window -> Somewhere] /\ tracked' \subseteq Window
                 /\ auto_projector_opened' \in BOOLEAN
<1>1. Fresh \subseteq Window /\ OnGlasses \subseteq Window
  BY DEF Fresh, On, OnGlasses
<1>2. \A ws : Placed(ws, "none") \in [Window -> Somewhere]
  BY DEF Placed, PictureTypes, Somewhere
<1>3. Opens => where' \in [Window -> Somewhere] /\ tracked' \subseteq Window
  BY <1>1, <1>2 DEF Opens, PictureTypes, Somewhere
<1> QED BY <1>1, <1>2, <1>3 DEF OpensIf, PictureTypes, windows

LEMMA PictureTypesStep ==
    ASSUME DockTypeOK, DockStep
    PROVE  PictureTypes'
<1> USE DEF DockTypeOK
<1>1. CASE UNCHANGED picture
  BY <1>1 DEF picture, glasses, windows, latches, PictureTypes
<1>2. CASE DisplayMoves
  <2>1. where' \in [Window -> Somewhere]
    BY <1>2 DEF DisplayMoves, Placed, PictureTypes, Somewhere
  <2> QED BY <1>2, <2>1 DEF DisplayMoves, PictureTypes
<1>3. CASE SourcesMove
  BY <1>3 DEF SourcesMove, windows, PictureTypes
<1>4. CASE QtLearns
  <2>1. where' \in [Window -> Somewhere]
    BY <1>4 DEF QtLearns, PictureTypes, Somewhere
  <2> QED BY <1>4, <2>1 DEF QtLearns, latches, PictureTypes
<1>5. ASSUME NEW w \in Window, UserMovesWindow(w) PROVE PictureTypes'
  <2>1. where' \in [Window -> Somewhere]
    BY <1>5 DEF UserMovesWindow, Placed, PictureTypes, Somewhere
  <2> QED BY <1>5, <2>1 DEF UserMovesWindow, glasses, latches, PictureTypes
<1>6. CASE ProjectorButton
  BY <1>6, OpenTypes DEF ProjectorButton, glasses, PictureTypes
<1>7. CASE PictureFlags
  BY <1>7 DEF PictureFlags, glasses, windows, latches, PictureTypes
<1>8. CASE Begins
  BY <1>8 DEF Begins, Appeared, glasses, windows, PictureTypes
<1>9. CASE AnswersRequest
  BY <1>9, OpenTypes DEF AnswersRequest, glasses, PictureTypes
<1>10. CASE ClosesOutput
  BY <1>10, OpenTypes DEF ClosesOutput, glasses, PictureTypes
<1>11. CASE TendsOutput
  <2>1. \A now \in [Window -> Somewhere] : Settled(now) \in [Window -> Somewhere]
    BY DEF Settled, Somewhere
  <2>2. where' \in [Window -> Somewhere] /\ Tracked(where') \subseteq Window
    <3>1. ASSUME NEW w \in Fresh
          PROVE  [Placed(OnGlasses, "none") EXCEPT ![w] = "new"] \in [Window -> Somewhere]
      BY OpenTypes DEF Somewhere
    <3>2. where' \in [Window -> Somewhere]
      <4>1. CASE AutoOpens /\ CanOpen
        <5>1. PICK w \in Fresh :
                  where' = Settled([Placed(OnGlasses, "none") EXCEPT ![w] = "new"])
          BY <1>11, <4>1 DEF TendsOutput
        <5> QED BY <2>1, <3>1, <5>1
      <4>2. CASE ~(AutoOpens /\ CanOpen)
        BY <1>11, <2>1, <4>2 DEF TendsOutput, PictureTypes
      <4> QED BY <4>1, <4>2
    <3> QED BY <3>2 DEF Tracked
  <2>3. auto_projector_opened' \in BOOLEAN /\ occasion' \in BOOLEAN
    BY <1>11 DEF TendsOutput, PictureTypes, Latches
  <2> QED BY <1>11, <2>2, <2>3 DEF TendsOutput, glasses, PictureTypes
<1>12. CASE UNCHANGED picture \/ Rests
  BY <1>1, <1>12 DEF Rests
<1>13. ASSUME FindsDisplay \/ Rearms \/ ReadsMode \/ FindsEndpoint \/ Applies
       PROVE  UNCHANGED picture
  BY <1>13 DEF FindsDisplay, Rearms, ReadsMode, FindsEndpoint, Applies
<1>14. ASSUME \/ \E p \in Phone : PhoneStep(p)
              \/ \E e \in Endpoint : EndpointMoves(e) \/ UserMonitors(e)
              \/ Restored \/ DetectionMoves
              \/ \E mode \in Mode, e \in Endpoint : DockChooses(mode, e)
       PROVE  UNCHANGED picture
  BY <1>14
     DEF PhoneStep, PhoneNames, PhoneChooses, PhoneRearms, EndpointMoves, UserMonitors, Restored,
         DetectionMoves, DockChooses, SoundStep
<1> QED BY <1>1, <1>2, <1>3, <1>4, <1>5, <1>6, <1>7, <1>8, <1>9, <1>10, <1>11, <1>12, <1>13, <1>14
       DEF DockStep, PollStep, WorldStep

LEMMA DockTypesStep ==
    ASSUME DockTypeOK, DockStep
    PROVE  DockTypeOK'
  BY PollTypesStep, SoundTypesStep, PictureTypesStep DEF DockTypeOK

-----------------------------------------------------------------------------
(* The monitoring device: a latch that nobody has gone past stands for what *)
(* OBS is doing                                                            *)

\* No phone is in the middle of a choice, or has one the poll has not seen.
Unclaimed == ~monitor_rearm /\ \A p \in Phone : row[p] = "none"
Target(l) == IF l = "auto" THEN GlassesAudio ELSE monitor_device_id

LatchTrue ==
    Unclaimed => \A l \in applied \ missed : l = monitor_out /\ monitoring = Target(l) /\ alive
ReadTrue ==
    Unclaimed /\ step \in {"find", "apply"} =>
        seen.mode = monitor_out /\ seen.want \in {None, Target(monitor_out)}
FoundTrue ==
    Unclaimed /\ step = "apply" /\ seen.found =>
        seen.want # None /\ (seen.want \in endpoints \/ seen.mode \in missed)
LatchKept == LatchTrue /\ ReadTrue /\ FoundTrue

LEMMA LatchStep ==
    ASSUME DockTypeOK, LatchKept, DockStep
    PROVE  LatchKept'
<1> USE DEF DockTypeOK
<1>1. ASSUME UNCHANGED << endpoints, monitoring, alive, monitor_out, monitor_device_id,
                          monitor_rearm, applied, missed, row >>,
             step' \notin {"find", "apply"} \/ (step' = step /\ seen' = seen)
      PROVE  LatchKept'
  BY <1>1 DEF LatchKept, LatchTrue, ReadTrue, FoundTrue, Unclaimed, Target
<1>2. ASSUME NEW e \in Endpoint, EndpointMoves(e) PROVE LatchKept'
  <2>1. UNCHANGED << monitoring, monitor_out, monitor_device_id, monitor_rearm, applied, row,
                     step, seen >>
    BY <1>2 DEF EndpointMoves, chosen, poll
  <2>2. CASE e \in endpoints
    <3>1. /\ endpoints' = endpoints \ {e} /\ alive' = (alive /\ monitoring # e)
          /\ missed' = missed \cup {l \in Latch : e = Target(l)}
      BY <1>2, <2>2 DEF EndpointMoves, Target
    <3>2. LatchTrue'
      BY <2>1, <3>1 DEF LatchKept, LatchTrue, Unclaimed, Target, SoundTypes
    <3>3. ReadTrue'
      BY <2>1 DEF LatchKept, ReadTrue, Unclaimed, Target
    <3>4. FoundTrue'
      BY <2>1, <3>1 DEF LatchKept, FoundTrue, ReadTrue, Unclaimed, Target, PollTypes
    <3> QED BY <3>2, <3>3, <3>4 DEF LatchKept
  <2>3. CASE e \notin endpoints
    BY <1>2, <2>1, <2>3
       DEF EndpointMoves, LatchKept, LatchTrue, ReadTrue, FoundTrue, Unclaimed, Target
  <2> QED BY <2>2, <2>3
<1>3. ASSUME missed' = Latch \/ applied' = {}, step' \in {"idle", "begin"},
             SoundTypes'
      PROVE  LatchKept'
  BY <1>3 DEF LatchKept, LatchTrue, ReadTrue, FoundTrue, SoundTypes
<1>4. SoundTypes'
  BY SoundTypesStep
<1>5. ASSUME \/ \E e \in Endpoint : UserMonitors(e)
             \/ Restored \/ \E mode \in Mode, e \in Endpoint : DockChooses(mode, e)
      PROVE  LatchKept'
  BY <1>3, <1>4, <1>5 DEF UserMonitors, Restored, DockChooses, Between
<1>6. CASE DetectionMoves
  BY <1>1, <1>6 DEF DetectionMoves, monitors, chosen, poll
<1>7. ASSUME NEW p \in Phone, PhoneStep(p) PROVE LatchKept'
  <2>1. ~Unclaimed'
    BY <1>7
       DEF PhoneStep, PhoneNames, PhoneChooses, PhoneRearms, Unclaimed, SoundTypes
  <2> QED BY <2>1 DEF LatchKept, LatchTrue, ReadTrue, FoundTrue
<1>8. ASSUME DisplayMoves \/ SourcesMove \/ QtLearns \/ (\E w \in Window : UserMovesWindow(w))
             \/ ProjectorButton \/ PictureFlags
      PROVE  LatchKept'
  BY <1>1, <1>8
     DEF DisplayMoves, SourcesMove, QtLearns, UserMovesWindow, ProjectorButton, PictureFlags,
         PictureStep, Between, poll, sound, monitors, chosen
<1>9. CASE Rests
  BY <1>1, <1>9 DEF Rests, sound, monitors, chosen
<1>10. CASE Begins \/ FindsDisplay \/ AnswersRequest \/ ClosesOutput \/ TendsOutput
  BY <1>1, <1>10
     DEF Begins, FindsDisplay, AnswersRequest, ClosesOutput, TendsOutput, Reaches, sound,
         monitors, chosen
<1>11. CASE Rearms
  <2>1. UNCHANGED << endpoints, monitoring, alive, monitor_out, monitor_device_id, row >>
        /\ step' = "mode"
    BY <1>11 DEF Rearms, Reaches, monitors, chosen
  <2>2. monitor_rearm => applied' = {}
    BY <1>11 DEF Rearms
  <2>3. ~monitor_rearm => UNCHANGED << applied, missed, monitor_rearm >>
    BY <1>11 DEF Rearms, SoundTypes
  <2> QED BY <2>1, <2>2, <2>3 DEF LatchKept, LatchTrue, ReadTrue, FoundTrue, Unclaimed, Target
<1>12. CASE ReadsMode
  <2>1. /\ UNCHANGED << endpoints, monitoring, alive, monitor_out, monitor_device_id,
                        monitor_rearm, applied, missed, row >>
        /\ step' \in {"output", "find"} /\ (step' = "find" => monitor_out \in Latch)
    BY <1>12 DEF ReadsMode, Reaches, sound, monitors, chosen, SoundTypes, Mode, Latch
  <2>2. seen'.mode = monitor_out
        /\ seen'.want = Wanted(monitor_out, monitor_device_id, seen.detected)
    BY <1>12, PollReads
  <2> QED BY <2>1, <2>2
         DEF LatchKept, LatchTrue, ReadTrue, FoundTrue, Unclaimed, Target, Wanted, Latch
<1>13. CASE FindsEndpoint
  <2>1. /\ UNCHANGED << endpoints, monitoring, alive, monitor_out, monitor_device_id,
                        monitor_rearm, applied, missed, row >>
        /\ step = "find" /\ step' = "apply"
    BY <1>13 DEF FindsEndpoint, Reaches, sound, monitors, chosen
  <2>2. seen'.mode = seen.mode /\ seen'.want = seen.want
        /\ seen'.found = (seen.want \in endpoints)
    BY <1>13, PollReads
  <2> QED BY <2>1, <2>2
         DEF LatchKept, LatchTrue, ReadTrue, FoundTrue, Unclaimed, Target, SoundTypes
<1>14. CASE Applies
  <2>1. /\ UNCHANGED << endpoints, monitor_out, monitor_device_id, monitor_rearm, row >>
        /\ step = "apply" /\ step' = "output"
    BY <1>14 DEF Applies, Reaches, ApplyMonitoringDevice, monitors, chosen
  <2> SUFFICES ASSUME Unclaimed, Unclaimed'
               PROVE  \A l \in applied' \ missed' :
                          l = monitor_out /\ monitoring' = Target(l)' /\ alive'
    BY <2>1 DEF LatchKept, LatchTrue, ReadTrue, FoundTrue, Unclaimed
  <2>2. seen.mode = monitor_out /\ \A l \in applied \ missed : l = monitor_out
        /\ monitoring = Target(l) /\ alive
    BY <2>1 DEF LatchKept, ReadTrue, LatchTrue
  <2>3. CASE ~seen.found
    <3>1. /\ missed' = missed \ {seen.mode} /\ applied' = applied \ {seen.mode}
          /\ UNCHANGED << monitoring, alive >>
      BY <1>14, <2>3 DEF Applies, Lapses, monitors
    <3> QED BY <2>1, <2>2, <3>1 DEF Target
  <2>4. CASE seen.found /\ seen.mode \notin applied
    <3>1. /\ missed' = missed
          /\ \/ /\ applied' = applied \cup {seen.mode}
                /\ monitoring' = seen.want /\ alive' = (seen.want \in endpoints)
             \/ UNCHANGED << monitoring, alive, applied >>
      BY <1>14, <2>4 DEF Applies, Lapses, ApplyMonitoringDevice, monitors
    <3>2. seen.want = Target(monitor_out) /\ (seen.want \in endpoints \/ seen.mode \in missed)
      BY <2>1, <2>4 DEF LatchKept, ReadTrue, FoundTrue
    <3>3. CASE UNCHANGED << monitoring, alive, applied >>
      BY <2>1, <2>2, <3>1, <3>3 DEF Target
    <3>4. CASE ~UNCHANGED << monitoring, alive, applied >>
      BY <2>1, <2>2, <2>4, <3>1, <3>2, <3>4 DEF Target
    <3> QED BY <3>3, <3>4
  <2>5. CASE seen.found /\ seen.mode \in applied
    <3>1. missed' = missed /\ UNCHANGED << monitoring, alive, applied >>
      BY <1>14, <2>5 DEF Applies, Lapses, monitors
    <3> QED BY <2>1, <2>2, <3>1 DEF Target
  <2> QED BY <2>3, <2>4, <2>5
<1> QED BY <1>2, <1>5, <1>6, <1>7, <1>8, <1>9, <1>10, <1>11, <1>12, <1>13, <1>14
       DEF DockStep, PollStep, WorldStep

-----------------------------------------------------------------------------
(* The projectors: every window an earlier poll saw on the glasses is       *)
(* tracked until it is closed                                              *)

AllTracked == On({"glasses", "left"}) \subseteq tracked
WindowsKept ==
    /\ AllTracked
    /\ ~screen => OnGlasses = {}
    /\ On({"left"}) # {} => ~display
    /\ seen.present => On({"left"}) = {}
    /\ step \in {"idle", "begin", "display"} => ~seen.present
    /\ NoneLeftOnDesk

\* The windows on the glasses make way for one of them, or for a free one.
LEMMA OpensOver ==
    ASSUME PictureTypes, AllTracked, NEW w \in Fresh,
           where' = [Placed(OnGlasses, "none") EXCEPT ![w] = "new"],
           tracked' = (tracked \ OnGlasses) \ {w}
    PROVE  AllTracked' /\ On({"left"})' \subseteq On({"left"})
<1>1. w \in Window /\ OnGlasses \subseteq Window
  BY OpenTypes
<1>2. \A v \in Window : where'[v] = IF v = w THEN "new"
                                    ELSE IF v \in OnGlasses THEN "none" ELSE where[v]
  BY <1>1, <1>1 DEF Placed
<1> QED BY <1>2 DEF AllTracked, On, OnGlasses

LEMMA WindowsStep ==
    ASSUME DockTypeOK, WindowsKept, DockStep
    PROVE  WindowsKept'
<1> USE DEF DockTypeOK
<1>1. ASSUME UNCHANGED << where, tracked, screen, display >>,
             seen'.present => seen.present \/ display,
             step' \in {"idle", "begin", "display"} => ~seen'.present,
             step' = "remote" /\ ~seen'.present => step = "remote" /\ ~seen.present
      PROVE  WindowsKept'
  BY <1>1 DEF WindowsKept, AllTracked, On, OnGlasses, NoneLeftOnDesk
<1>2. CASE UNCHANGED << where, tracked, screen, display, step, seen >>
  BY <1>1, <1>2 DEF WindowsKept
<1>3. ASSUME \/ \E e \in Endpoint : EndpointMoves(e) \/ UserMonitors(e)
             \/ Restored \/ DetectionMoves \/ SourcesMove \/ PictureFlags
             \/ \E mode \in Mode, e \in Endpoint : DockChooses(mode, e)
             \/ \E p \in Phone : PhoneStep(p)
      PROVE  WindowsKept'
  <2>1. /\ UNCHANGED << where, tracked, screen, display, seen >>
        /\ step' = step \/ (step = "idle" /\ step' = "begin")
    BY <1>3
       DEF EndpointMoves, UserMonitors, Restored, DetectionMoves, SourcesMove, PictureFlags,
           DockChooses, PhoneStep, PhoneNames, PhoneChooses, PhoneRearms, SoundStep, PictureStep,
           Between, poll, picture, glasses, windows
  <2> QED BY <1>1, <2>1 DEF WindowsKept
<1>4. CASE DisplayMoves
  <2>1. display' = ~display /\ UNCHANGED << screen, tracked, step, seen >>
    BY <1>4 DEF DisplayMoves, poll
  <2>2. CASE display
    <3>1. where' = where /\ ~display'
      BY <1>4, <2>1, <2>2 DEF DisplayMoves
    <3> QED BY <2>1, <3>1 DEF WindowsKept, AllTracked, On, OnGlasses, NoneLeftOnDesk
  <2>3. CASE ~display
    <3>1. \A w \in Window : where'[w] = IF where[w] = "left" THEN "desk" ELSE where[w]
      BY <1>4, <2>1, <2>3 DEF DisplayMoves, Placed, On
    <3> QED BY <2>1, <3>1 DEF WindowsKept, AllTracked, On, OnGlasses, NoneLeftOnDesk
  <2> QED BY <2>2, <2>3
<1>5. CASE QtLearns
  <2>1. /\ screen' = display /\ screen # display /\ step = "idle"
        /\ UNCHANGED << display, tracked, step, seen >>
    BY <1>5 DEF QtLearns, Between, windows
  <2>2. CASE display
    BY <1>5, <2>1, <2>2 DEF QtLearns, WindowsKept, AllTracked, On, OnGlasses, NoneLeftOnDesk
  <2>3. CASE ~display
    <3>1. \A w \in Window : where'[w] = CASE where[w] = "glasses" -> "left"
                                          [] where[w] = "new"     -> "desk"
                                          [] OTHER                -> where[w]
      BY <1>5, <2>3 DEF QtLearns
    <3>2. \A w \in Window : /\ where'[w] = "left" => where[w] \in {"glasses", "left"}
                            /\ where'[w] \notin {"glasses", "new"}
      BY <3>1
    <3> QED BY <2>1, <2>3, <3>2 DEF WindowsKept, AllTracked, On, OnGlasses, NoneLeftOnDesk
  <2> QED BY <2>2, <2>3
<1>6. ASSUME NEW w \in Window, UserMovesWindow(w) PROVE WindowsKept'
  <2>1. /\ tracked' = tracked \ {w} /\ step = "idle" /\ UNCHANGED << screen, display, step, seen >>
    BY <1>6 DEF UserMovesWindow, Between, glasses
  <2>2. /\ where'[w] \in {"none", "new"} /\ (where'[w] = "new" => screen)
        /\ \A v \in Window \ {w} : where'[v] = where[v]
    BY <1>6 DEF UserMovesWindow, Placed
  <2> QED BY <2>1, <2>2 DEF WindowsKept, AllTracked, On, OnGlasses, NoneLeftOnDesk
<1>7. ASSUME NEW asked, OpensIf(asked), UNCHANGED << screen, display, seen >>,
             step' \in {"idle", "rearm"}, step' = "idle" => step = "idle"
      PROVE  WindowsKept'
  <2>1. CASE asked /\ CanOpen
    <3>1. screen /\ Opens
      BY <1>7, <2>1 DEF OpensIf, CanOpen
    <3>2. PICK w \in Fresh : /\ where' = [Placed(OnGlasses, "none") EXCEPT ![w] = "new"]
                             /\ tracked' = (tracked \ OnGlasses) \ {w}
      BY <3>1 DEF Opens
    <3>3. AllTracked' /\ On({"left"})' \subseteq On({"left"})
      BY <3>2, OpensOver DEF WindowsKept
    <3> QED BY <1>7, <3>1, <3>3 DEF WindowsKept, NoneLeftOnDesk
  <2>2. CASE ~(asked /\ CanOpen)
    BY <1>7, <2>2 DEF OpensIf, windows, WindowsKept, AllTracked, On, OnGlasses, NoneLeftOnDesk
  <2> QED BY <2>1, <2>2
<1>8. CASE ProjectorButton
  BY <1>7, <1>8 DEF ProjectorButton, Between, glasses
<1>9. CASE AnswersRequest
  BY <1>7, <1>9 DEF AnswersRequest, Reaches, glasses
<1>10. CASE Begins
  BY <1>1, <1>10, PollReads DEF Begins, glasses, windows
<1>11. CASE FindsDisplay
  BY <1>1, <1>11, PollReads DEF FindsDisplay, Reaches, picture, glasses, windows
<1>12. CASE Rearms
  BY <1>1, <1>12 DEF Rearms, Reaches, picture, glasses, windows
<1>13. CASE ReadsMode \/ FindsEndpoint \/ Applies
  <2>1. seen'.present = seen.present
    BY <1>13, PollReads
  <2> QED BY <1>1, <1>13, <2>1
         DEF ReadsMode, FindsEndpoint, Applies, Reaches, picture, glasses, windows
<1>14. CASE ClosesOutput
  <2>1. /\ where' = Placed(tracked, "none") /\ UNCHANGED << screen, display >>
        /\ ~seen'.present /\ step' = "remote"
    BY <1>14, NothingSeen DEF ClosesOutput, Reaches, glasses
  <2>2. \A w \in Window : where'[w] = IF w \in tracked THEN "none" ELSE where[w]
    BY <2>1 DEF Placed
  <2>3. On({"glasses", "left"})' = {} /\ On({"left"})' = {}
    BY <2>2 DEF WindowsKept, AllTracked, On
  <2>4. OnGlasses' \subseteq OnGlasses
    BY <2>2 DEF OnGlasses, On
  <2> QED BY <2>1, <2>3, <2>4 DEF WindowsKept, AllTracked, NoneLeftOnDesk
<1>15. CASE TendsOutput
  <2>1. /\ UNCHANGED << screen, display >> /\ seen'.present /\ step' = "remote" /\ seen.present
        /\ tracked' = Tracked(where')
    BY <1>15, PollReads DEF TendsOutput, Reaches, glasses
  <2>2. /\ \A w \in Window : where'[w] # "left" /\ where'[w] # "new"
        /\ ~screen => \A w \in Window : where'[w] # "glasses"
    <3>1. ASSUME NEW now \in [Window -> Somewhere], \A w \in Window : now[w] # "left",
                 ~screen => \A w \in Window : now[w] \notin {"new", "glasses"},
                 where' = Settled(now)
          PROVE  /\ \A w \in Window : where'[w] # "left" /\ where'[w] # "new"
                 /\ ~screen => \A w \in Window : where'[w] # "glasses"
      BY <3>1 DEF Settled
    <3>2. (\A w \in Window : where[w] # "left")
          /\ (~screen => \A w \in Window : where[w] \notin {"new", "glasses"})
      BY <2>1 DEF WindowsKept, On, OnGlasses
    <3>3. CASE AutoOpens /\ CanOpen
      <4>1. PICK w \in Fresh : where' = Settled([Placed(OnGlasses, "none") EXCEPT ![w] = "new"])
        BY <1>15, <3>3 DEF TendsOutput
      <4> DEFINE now == [Placed(OnGlasses, "none") EXCEPT ![w] = "new"]
      <4>2. now \in [Window -> Somewhere] /\ w \in Window
        BY OpenTypes DEF Somewhere
      <4>3. \A v \in Window : now[v] # "left"
        BY <3>2, <4>2 DEF Placed
      <4>4. screen
        BY <3>3 DEF CanOpen
      <4> HIDE DEF now
      <4> QED BY <3>1, <4>1, <4>2, <4>3, <4>4 DEF now
    <3>4. CASE ~(AutoOpens /\ CanOpen)
      BY <1>15, <3>1, <3>2, <3>4 DEF TendsOutput, PictureTypes
    <3> QED BY <3>3, <3>4
  <2>3. AllTracked'
    BY <2>1, <2>2 DEF AllTracked, On, Tracked, Tracks
  <2> QED BY <2>1, <2>2, <2>3 DEF WindowsKept, On, OnGlasses, NoneLeftOnDesk
<1>16. CASE Rests
  BY <1>1, <1>16, NothingSeen DEF Rests, picture, glasses, windows
<1> QED BY <1>3, <1>4, <1>5, <1>6, <1>8, <1>9, <1>10, <1>11, <1>12, <1>13, <1>14, <1>15, <1>16
       DEF DockStep, PollStep, WorldStep

-----------------------------------------------------------------------------
(* The automatic opening: whatever re-arms it came after the last one      *)

OccasionKept ==
    /\ ~auto_projector_opened /\ display /\ sources => occasion
    /\ ~had_source /\ sources => occasion
    /\ seen.count => had_source
    /\ step \in {"request", "rearm", "mode", "find", "apply", "output"} /\ ~seen.present /\ display
          => occasion

LEMMA OccasionStep ==
    ASSUME DockTypeOK, OccasionKept, DockStep
    PROVE  OccasionKept'
<1> USE DEF DockTypeOK
<1>1. ASSUME UNCHANGED << display, sources, auto_projector_opened, had_source, occasion >>,
             seen'.count => seen.count,
             \/ step' \in {"idle", "begin", "display", "remote", "sent"}
             \/ /\ step \in {"request", "rearm", "mode", "find", "apply", "output"}
                /\ seen.present => seen'.present
      PROVE  OccasionKept'
  BY <1>1 DEF OccasionKept
<1>2. ASSUME \/ \E e \in Endpoint : EndpointMoves(e) \/ UserMonitors(e)
             \/ Restored \/ DetectionMoves \/ QtLearns \/ PictureFlags
             \/ \E w \in Window : UserMovesWindow(w)
             \/ \E mode \in Mode, e \in Endpoint : DockChooses(mode, e)
             \/ \E p \in Phone : PhoneStep(p)
      PROVE  OccasionKept'
  <2>1. /\ UNCHANGED << display, sources, auto_projector_opened, had_source, occasion, seen >>
        /\ step' = step \/ (step = "idle" /\ step' = "begin")
    BY <1>2
       DEF EndpointMoves, UserMonitors, Restored, DetectionMoves, QtLearns, PictureFlags,
           UserMovesWindow, DockChooses, PhoneStep, PhoneNames, PhoneChooses, PhoneRearms,
           SoundStep, PictureStep, Between, poll, picture, glasses, latches
  <2> QED BY <2>1 DEF OccasionKept
<1>3. CASE DisplayMoves \/ SourcesMove
  BY <1>3 DEF DisplayMoves, SourcesMove, poll, OccasionKept, PictureTypes
<1>4. CASE ProjectorButton
  BY <1>4 DEF ProjectorButton, OpensIf, Between, glasses, windows, OccasionKept
<1>5. CASE AnswersRequest
  <2>1. UNCHANGED << display, sources, had_source, occasion, seen >>
        /\ step = "request" /\ step' = "rearm"
    BY <1>5 DEF AnswersRequest, Reaches, glasses
  <2>2. auto_projector_opened => auto_projector_opened'
    BY <1>5 DEF AnswersRequest, OpensIf
  <2> QED BY <2>1, <2>2 DEF OccasionKept, PictureTypes
<1>6. CASE Begins
  <2>1. /\ UNCHANGED << display, sources, occasion >> /\ had_source' = sources
        /\ auto_projector_opened' = (auto_projector_opened /\ ~Appeared) /\ step' = "display"
    BY <1>6 DEF Begins, glasses
  <2>2. seen'.count = sources
    BY <1>6, PollReads
  <2> QED BY <2>1, <2>2 DEF OccasionKept, Appeared, PictureTypes
<1>7. CASE FindsDisplay
  <2>1. /\ UNCHANGED << display, sources, auto_projector_opened, had_source, occasion >>
        /\ step' = "request"
    BY <1>7 DEF FindsDisplay, Reaches, picture, glasses, latches
  <2>2. seen'.present = display /\ seen'.count = seen.count
    BY <1>7, PollReads
  <2> QED BY <2>1, <2>2 DEF OccasionKept
<1>8. CASE Rearms
  BY <1>1, <1>8 DEF Rearms, Reaches, picture, glasses, latches
<1>9. CASE ReadsMode \/ FindsEndpoint \/ Applies
  <2>1. seen'.present = seen.present /\ seen'.count = seen.count
    BY <1>9, PollReads
  <2> QED BY <1>1, <1>9, <2>1 DEF ReadsMode, FindsEndpoint, Applies, Reaches, picture, glasses, latches
<1>10. CASE ClosesOutput
  <2>1. /\ UNCHANGED << display, sources, had_source, occasion >> /\ ~seen'.count
        /\ step = "output" /\ step' = "remote" /\ ~seen.present
    BY <1>10, NothingSeen DEF ClosesOutput, Reaches, glasses
  <2> QED BY <2>1 DEF OccasionKept
<1>11. CASE TendsOutput
  <2>1. /\ UNCHANGED << display, sources, had_source >> /\ ~seen'.count /\ step' = "remote"
    BY <1>11, PollReads DEF TendsOutput, Reaches, glasses
  <2>2. CASE AutoOpens /\ CanOpen
    <3>1. auto_projector_opened' /\ seen.count
      BY <1>11, <2>2 DEF TendsOutput, Latches, AutoOpens
    <3> QED BY <2>1, <3>1 DEF OccasionKept
  <2>3. CASE ~(AutoOpens /\ CanOpen)
    <3>1. UNCHANGED << auto_projector_opened, occasion >>
      BY <1>11, <2>3 DEF TendsOutput
    <3> QED BY <2>1, <3>1 DEF OccasionKept
  <2> QED BY <2>2, <2>3
<1>12. CASE Rests
  BY <1>1, <1>12, NothingSeen DEF Rests, picture, glasses, latches
<1> QED BY <1>2, <1>3, <1>4, <1>5, <1>6, <1>7, <1>8, <1>9, <1>10, <1>11, <1>12
       DEF DockStep, PollStep, WorldStep

-----------------------------------------------------------------------------

DockInv == DockTypeOK /\ LatchKept /\ WindowsKept /\ OccasionKept

LEMMA DockStarts == PollInit => DockInv
<1> SUFFICES ASSUME DockInit PROVE DockInv
  BY DEF PollInit
<1>1. LatchKept
  BY DEF DockInit, LatchKept, LatchTrue, ReadTrue, FoundTrue
<1>2. WindowsKept
  BY NothingSeen DEF DockInit, WindowsKept, AllTracked, On, OnGlasses, NoneLeftOnDesk
<1>3. OccasionKept
  BY NothingSeen DEF DockInit, OccasionKept
<1> QED BY <1>1, <1>2, <1>3, DockTypesStart DEF DockInv

LEMMA DockKeeps == DockInv /\ [PollNext]_pollVars => DockInv'
<1> SUFFICES ASSUME DockInv, [PollNext]_pollVars PROVE DockInv'
  OBVIOUS
<1>1. CASE DockStep
  BY <1>1, DockTypesStep, LatchStep, WindowsStep, OccasionStep DEF DockInv
<1>2. CASE UNCHANGED dockVars
  <2> USE <1>2 DEF dockVars, sound, picture, poll, monitors, chosen, glasses, windows, latches
  <2>1. DockTypeOK'
    BY DEF DockInv, DockTypeOK, SoundTypes, PictureTypes, PollTypes
  <2>2. LatchKept'
    BY DEF DockInv, LatchKept, LatchTrue, ReadTrue, FoundTrue, Unclaimed, Target
  <2>3. WindowsKept'
    BY DEF DockInv, WindowsKept, AllTracked, On, OnGlasses, NoneLeftOnDesk
  <2>4. OccasionKept'
    BY DEF DockInv, OccasionKept
  <2> QED BY <2>1, <2>2, <2>3, <2>4 DEF DockInv
<1> QED BY <1>1, <1>2, PollDocks

\* The outputs' state keeps its types.
THEOREM DockTypeCorrect == PollSpec => []DockTypeOK
<1>1. DockInv => DockTypeOK
  BY DEF DockInv
<1> QED BY <1>1, DockStarts, DockKeeps, PTL DEF PollSpec

\* When a poll that missed the glasses' display is over, every window that an
\* earlier poll saw there is closed: none is left on the desktop.
THEOREM NoneIsLeftOnDesk == PollSpec => []NoneLeftOnDesk
<1>1. DockInv => NoneLeftOnDesk
  BY DEF DockInv, WindowsKept
<1> QED BY <1>1, DockStarts, DockKeeps, PTL DEF PollSpec

\* A poll that finds the chosen endpoint leaves OBS monitoring on it, alive,
\* whatever endpoints, phones and the dock's user did between its steps, unless
\* OBS refused the device.
THEOREM MonitoringIsFollowed == PollSpec => MonitoringFollows
<1> DEFINE Follows ==
      Applies /\ seen.found /\ seen.want \in endpoints /\ seen.mode \notin missed
          /\ ~monitor_rearm /\ (\A p \in Phone : row[p] = "none") /\ seen.mode \in applied'
      => monitoring' = seen.want /\ alive'
<1>1. DockInv => Follows
  <2> SUFFICES ASSUME DockInv, Applies, seen.found, seen.want \in endpoints,
                      seen.mode \notin missed, Unclaimed, seen.mode \in applied'
               PROVE  monitoring' = seen.want /\ alive'
    BY DEF Unclaimed
  <2>1. /\ seen.mode = monitor_out /\ seen.want = Target(monitor_out)
        /\ seen.mode \in applied => monitoring = Target(monitor_out) /\ alive
    BY DEF DockInv, LatchKept, ReadTrue, LatchTrue, FoundTrue, Applies, Reaches
  <2>2. CASE seen.mode \notin applied
    <3>1. applied' # applied
      BY <2>2
    <3> QED BY <2>2, <3>1 DEF Applies, Lapses, ApplyMonitoringDevice
  <2>3. CASE seen.mode \in applied
    <3>1. UNCHANGED << monitoring, alive >>
      BY <2>3 DEF Applies, Lapses, monitors
    <3> QED BY <2>1, <2>3, <3>1
  <2> QED BY <2>2, <2>3
<1>2. DockInv /\ [PollNext]_pollVars => [Follows]_dockVars
  BY <1>1
<1>3. MonitoringFollows <=> [][Follows]_dockVars
  BY DEF MonitoringFollows
<1> QED BY <1>2, <1>3, DockStarts, DockKeeps, PTL DEF PollSpec

\* An automatic opening answers a display, or a first source, that came since
\* the one before it.
THEOREM OpensOncePerOccasion == PollSpec => AutoOpensOnce
<1> DEFINE Answers == TendsOutput /\ AutoOpens /\ CanOpen => occasion
<1>1. DockInv => Answers
  BY DEF DockInv, OccasionKept, AutoOpens, CanOpen
<1>2. DockInv /\ [PollNext]_pollVars => [Answers]_dockVars
  BY <1>1
<1>3. AutoOpensOnce <=> [][Answers]_dockVars
  BY DEF AutoOpensOnce
<1> QED BY <1>2, <1>3, DockStarts, DockKeeps, PTL DEF PollSpec
=============================================================================
