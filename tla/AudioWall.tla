----------------------------- MODULE AudioWall -----------------------------
(***************************************************************************)
(* platform/obs/audio-wall-source.cpp: the audio wall of a Display Wall.   *)
(* A poll thread finds the applications that play audio, the graphics      *)
(* thread's tick turns the list into captures, the connection threads of   *)
(* its ws_server keep one push source per browser stream, and the UI       *)
(* thread shows the list in the properties.  A region one mutex guards is  *)
(* one step.  Bearings, formats and labels are left out; a server that     *)
(* stops first runs on_close for every connection (WsContract).            *)
(***************************************************************************)
EXTENDS Integers, FiniteSets

CONSTANTS Exe,       \* executables that may play audio from a window
          Browser,   \* those that run the extension
          Excludes,  \* the exclude lists the user may enter
          Conn, Sid  \* connections and the stream numbers used on each

ASSUME Parameters ==
    /\ Browser \subseteq Exe /\ Excludes \subseteq SUBSET Exe
    /\ Exe \cap (Conn \X Sid) = {}

Key == Conn \X Sid               \* conn << 32 | stream
Source == Exe \cup Key           \* captures and push sources
None == [exe |-> "none"]         \* no entry in ws_streams
Entry == [exe : Browser, src : BOOLEAN, fresh : BOOLEAN]

VARIABLES
    playing,    \* executables with an active audio session
    exclude,    \* wall->exclude
    showing,    \* obs_source_showing(wall->context)
    told,       \* what the last show or hide callback said
    life,       \* the engine: "on", "stopping", "joining", "off"
    conns,      \* open connections of wall->ws
    missed,     \* the one that ws.stop()'s shutdown loop did not find, if any
    ws_streams, \* wall->ws_streams; fresh: PCM or meta in the last 5 seconds
    ws_exes,    \* wall->ws_exes
    children,   \* executables of wall->children
    latch,      \* wall->active_children
    refs,       \* per source: add_active_child calls less remove_active_child
    poll, todo, apps, \* the poll thread and its locals
    last,       \* the list it published last, as a singleton; {} on the first pass
    desired, news,            \* wall->desired; desired_gen # applied_gen
    tick, want,               \* the graphics thread in wall_tick
    props_dirty, asked, shown \* the flag, OBS's request, the dialog's list

world == << playing, exclude, showing, told >>
peers == << conns, missed >>
wall == << ws_streams, ws_exes, children, latch, refs >>
poller == << poll, todo, apps, last >>
dialog == << props_dirty, asked, shown >>
vars == << world, life, peers, wall, poller, desired, news, tick, want, dialog >>

Streams == { k \in Key : ws_streams[k] # None }
Live == children \cup { k \in Streams : ws_streams[k].src }
Listed == children \cup Streams      \* what wall_add_properties lists

TypeOK ==
    /\ playing \subseteq Exe /\ exclude \in Excludes /\ showing \in BOOLEAN /\ told \in BOOLEAN
    /\ life \in {"on", "stopping", "joining", "off"}
    /\ conns \subseteq Conn /\ missed \subseteq Conn
    /\ ws_streams \in [Key -> Entry \cup {None}] /\ ws_exes \subseteq Browser
    /\ children \subseteq Exe /\ latch \in BOOLEAN /\ refs \in [Source -> Nat]
    /\ poll \in {"wait", "check", "gone"}
    /\ todo \subseteq Exe /\ apps \subseteq Exe
    /\ last \subseteq SUBSET Exe
    /\ desired \subseteq Exe /\ news \in BOOLEAN
    /\ tick \in {"idle", "reconcile", "props", "tail"} /\ want \subseteq Exe
    /\ props_dirty \in BOOLEAN /\ asked \in BOOLEAN /\ shown \subseteq Source

Init ==
    /\ playing = {} /\ exclude \in Excludes /\ showing = FALSE /\ told = FALSE
    /\ life = "on" /\ conns = {} /\ missed = {}
    /\ ws_streams = [k \in Key |-> None] /\ ws_exes = {} /\ children = {}
    /\ latch = FALSE /\ refs = [s \in Source |-> 0]
    /\ poll = "wait" /\ todo = {} /\ apps = {} /\ last = {}
    /\ desired = {} /\ news = FALSE /\ tick = "idle" /\ want = {}
    /\ props_dirty = FALSE /\ asked = FALSE /\ shown = {}

-----------------------------------------------------------------------------
(* Adding to and taking from the active children                           *)

Counted_Leak(removed, added) ==               \* mutant: releases without removing
    [s \in Source |-> refs[s] + (IF s \in added THEN 1 ELSE 0)]
Counted(removed, added) ==
    [s \in Source |-> refs[s] - (IF s \in removed THEN 1 ELSE 0)
                              + (IF s \in added THEN 1 ELSE 0)]

\* Sources that go and come while the latch says whether they are registered.
Swapped(gone, new) == IF latch THEN refs' = Counted(gone, new) ELSE UNCHANGED refs


\* wall_add_active_children and wall_remove_active_children.
AddAll(live) ==
    IF latch \/ ~showing THEN UNCHANGED << latch, refs >>
    ELSE latch' = TRUE /\ refs' = Counted({}, live)
RemoveAll ==
    IF latch THEN latch' = FALSE /\ refs' = Counted(Live, {})
    ELSE UNCHANGED << latch, refs >>

-----------------------------------------------------------------------------
(* WebSocket callbacks, each under children_mutex                          *)

RebuildExes == ws_exes' = { ws_streams'[k].exe : k \in { j \in Key : ws_streams'[j] # None } }

Serving == life \in {"on", "stopping"}        \* the server's threads run

\* The streams in gone are released and erased.
Without(gone) == [k \in Key |-> IF k \in gone THEN None ELSE ws_streams[k]]
Sounding(gone) == { k \in gone : ws_streams[k].src }
Erase(gone) ==
    /\ ws_streams' = Without(gone)
    /\ Swapped(Sounding(gone), {})
    /\ props_dirty' = (props_dirty \/ gone # {})

ofCallback == << world, life, children, latch, poller, desired, news, tick, want, asked, shown >>

\* While the server stops, accept_loop may still enter one connection that
\* stop()'s shutdown loop does not find (WsServer).
Connect(c) ==
    /\ c \notin conns
    /\ conns' = conns \cup {c}
    /\ \/ life = "on" /\ UNCHANGED missed
       \/ life = "stopping" /\ missed = {} /\ missed' = {c}
    /\ UNCHANGED << ofCallback, ws_streams, ws_exes, refs, props_dirty >>

\* wall_ws_text, "meta": the entry is made or renewed, and its source if it
\* has none yet; a source that could not be created is tried again by the next meta.
Meta(c, i, e) ==
    LET k == << c, i >>
        had == k \in Streams
        src == had /\ ws_streams[k].src
    IN  /\ Serving /\ c \in conns
        /\ \E made \in BOOLEAN :
             /\ ws_streams' = [ws_streams EXCEPT ![k] =
                    [exe |-> e, src |-> src \/ made, fresh |-> TRUE]]
             /\ IF made /\ ~src THEN Swapped({}, {k}) ELSE UNCHANGED refs
             /\ props_dirty' = (props_dirty \/ ~had \/ (made /\ ~src))
        /\ RebuildExes
        /\ UNCHANGED << ofCallback, peers >>

\* wall_ws_text, "close".
Close(c, i) ==
    /\ Serving /\ c \in conns
    /\ << c, i >> \in Streams
    /\ Erase({<< c, i >>}) /\ RebuildExes
    /\ UNCHANGED << ofCallback, peers >>

\* wall_ws_binary: PCM for a stream that has a source.
Binary(c, i) ==
    LET k == << c, i >> IN
    /\ Serving /\ c \in conns
    /\ k \in Streams /\ ws_streams[k].src
    /\ ws_streams' = [ws_streams EXCEPT ![k].fresh = TRUE]
    /\ UNCHANGED << ofCallback, peers, ws_exes, refs, props_dirty >>

\* wall_ws_closed: the connection's last callback.
Closed(c) ==
    /\ Serving /\ c \in conns
    /\ conns' = conns \ {c}
    /\ Erase({ k \in Streams : k[1] = c }) /\ RebuildExes
    /\ UNCHANGED << ofCallback, missed >>

\* Five seconds without a message for the stream.
Silence(k) ==
    /\ Serving /\ k \in Streams /\ ws_streams[k].fresh
    /\ ws_streams' = [ws_streams EXCEPT ![k].fresh = FALSE]
    /\ UNCHANGED << ofCallback, peers, ws_exes, refs, props_dirty >>

-----------------------------------------------------------------------------
(* poll_thread_fn                                                          *)

ofPoll == << world, life, peers, wall, tick, want, dialog >>
Stopping_Unseen == FALSE                      \* mutant: the flag is not looked at
Stopping == life = "joining"                  \* wall->stop

\* The interval is over: active_audio_pids.
Wake ==
    /\ poll = "wait" /\ ~Stopping
    /\ poll' = "check" /\ todo' = playing /\ apps' = {}
    /\ UNCHANGED << ofPoll, last, desired, news >>

\* is_excluded, then the application's window.
IsExcluded_ListOnly(e) == e \in exclude       \* mutant: ws_exes not asked
IsExcluded(e) == e \in ws_exes \cup exclude

Check(e) ==
    /\ poll = "check" /\ e \in todo
    /\ todo' = todo \ {e}
    /\ apps' = IF IsExcluded(e) THEN apps ELSE apps \cup {e}
    /\ UNCHANGED << ofPoll, poll, last, desired, news >>

\* The list is published when it changed.
Publish ==
    /\ poll = "check" /\ todo = {}
    /\ poll' = "wait"
    /\ IF {apps} # last THEN last' = {apps} /\ desired' = apps /\ news' = TRUE
                      ELSE UNCHANGED << last, desired, news >>
    /\ UNCHANGED << ofPoll, todo, apps >>

PollExit ==
    /\ poll = "wait" /\ Stopping
    /\ poll' = "gone"
    /\ UNCHANGED << ofPoll, todo, apps, last, desired, news >>

PollStep == Wake \/ (\E e \in Exe : Check(e)) \/ Publish \/ PollExit

-----------------------------------------------------------------------------
(* The graphics thread: wall_tick, wall_show, wall_hide, wall_update       *)

ofTick == << world, life, peers, poller, desired >>

\* wall_reconcile takes the list under desired_mutex ...
TakeDesired ==
    /\ life = "on" /\ tick = "idle"
    /\ IF news THEN tick' = "reconcile" /\ want' = desired /\ news' = FALSE
               ELSE tick' = "props" /\ UNCHANGED << want, news >>
    /\ UNCHANGED << ofTick, wall, dialog >>

\* ... and applies it under children_mutex; a capture may fail to be created.
Reconcile ==
    /\ tick = "reconcile"
    /\ \E failed \in SUBSET (want \ children) :
         /\ children' = want \ failed
         /\ Swapped(children \ want, (want \ children) \ failed)
         /\ props_dirty' = (props_dirty \/ children' # children)
    /\ tick' = "props"
    /\ UNCHANGED << ofTick, want, news, ws_streams, ws_exes, latch, asked, shown >>

\* props_dirty.exchange(false): OBS is asked to rebuild an open dialog, also
\* when the wall became active or inactive since the last tick.
Props ==
    /\ tick = "props"
    /\ \E turned \in BOOLEAN : asked' = (asked \/ props_dirty \/ turned)
    /\ props_dirty' = FALSE
    /\ tick' = "tail"
    /\ UNCHANGED << ofTick, want, news, wall, shown >>

\* Silent streams are dropped, and the children activated once shown.
TimedOut_Never == {}                          \* mutant: no stream timeout
TimedOut == { k \in Streams : ~ws_streams[k].fresh }

Tail ==
    /\ tick = "tail"
    /\ ws_streams' = Without(TimedOut)
    /\ IF TimedOut = {} THEN UNCHANGED ws_exes ELSE RebuildExes
    /\ props_dirty' = (props_dirty \/ TimedOut # {})
    /\ IF latch THEN Swapped(Sounding(TimedOut), {}) /\ UNCHANGED latch
                ELSE AddAll(Live \ TimedOut)
    /\ tick' = "idle"
    /\ UNCHANGED << ofTick, want, news, children, asked, shown >>

\* display_wall_show and display_wall_hide, before the next tick.
ShowHide ==
    /\ life = "on" /\ tick = "idle" /\ told # showing
    /\ told' = showing
    /\ IF showing THEN AddAll(Live) ELSE RemoveAll
    /\ UNCHANGED << playing, exclude, showing, life, peers, ws_streams, ws_exes, children,
                    poller, desired, news, tick, want, dialog >>

TickStep == TakeDesired \/ Reconcile \/ Props \/ Tail

-----------------------------------------------------------------------------
(* wall_destroy and audio_wall_create: the group's check box               *)

ofLife == << world, wall, poller, desired, news, tick, want, dialog >>

\* ws.stop() is called; it returns when every connection has been closed.
SwitchOff ==
    /\ life = "on" /\ tick = "idle"
    /\ life' = "stopping"
    /\ UNCHANGED << ofLife, peers >>

\* wall->stop is set for the poll thread, which is joined.
Stop ==
    /\ life = "stopping" /\ conns = {}
    /\ life' = "joining" /\ missed' = {}
    /\ UNCHANGED << ofLife, conns >>

\* Joined: everything is unregistered and released, the engine deleted.
Destroy ==
    /\ life = "joining" /\ poll = "gone"
    /\ life' = "off"
    /\ RemoveAll
    /\ children' = {} /\ ws_streams' = Without(Key) /\ ws_exes' = {}
    /\ UNCHANGED << world, peers, poller, desired, news, tick, want, dialog >>

SwitchOn ==
    /\ life = "off" /\ life' = "on"
    /\ poll' = "wait" /\ todo' = {} /\ apps' = {} /\ last' = {}
    /\ desired' = {} /\ news' = FALSE /\ want' = {} /\ props_dirty' = FALSE
    /\ UNCHANGED << world, peers, wall, tick, asked, shown >>

-----------------------------------------------------------------------------
(* The rest of the world                                                   *)

\* An application starts or ends to play; the wall is shown or hidden; the
\* user edits the exclude list (wall_update).
SetPlaying ==
    /\ \E e \in Exe : playing' = (playing \ {e}) \cup ({e} \ playing)
    /\ UNCHANGED << exclude, showing, told, life, peers, wall, poller, desired, news, tick, want, dialog >>
SetShowing ==
    /\ showing' = ~showing
    /\ UNCHANGED << playing, exclude, told, life, peers, wall, poller, desired, news, tick, want, dialog >>
SetExclude ==
    /\ exclude' \in Excludes \ {exclude}
    /\ UNCHANGED << playing, showing, told, life, peers, wall, poller, desired, news, tick, want, dialog >>

\* The UI thread rebuilds the open dialog: wall_add_properties.
Refresh ==
    /\ asked /\ asked' = FALSE
    /\ shown' = IF life = "off" THEN {} ELSE Listed
    /\ UNCHANGED << world, life, peers, wall, poller, desired, news, tick, want, props_dirty >>

Message(c) == \E i \in Sid : Binary(c, i) \/ Close(c, i) \/ \E e \in Browser : Meta(c, i, e)

Next ==
    \/ PollStep \/ TickStep \/ ShowHide \/ Refresh
    \/ SwitchOff \/ Stop \/ Destroy \/ SwitchOn
    \/ SetPlaying \/ SetShowing \/ SetExclude
    \/ \E c \in Conn : Connect(c) \/ Closed(c) \/ Message(c)
    \/ \E k \in Key : Silence(k)

Spec == Init /\ [][Next]_vars

\* Every thread gets time, and the connections the server has shut down close.
Fair ==
    /\ WF_vars(PollStep) /\ WF_vars(TickStep) /\ WF_vars(Stop \/ Destroy)
    /\ WF_vars(life = "stopping" /\ \E c \in Conn \ missed : Closed(c))
FairSpec == Spec /\ Fair

-----------------------------------------------------------------------------
(* Properties                                                              *)

\* Every source is registered as an active child exactly while it lives and
\* the latch is set: none is released while OBS still counts it, none twice.
RegisteredOnce ==
    \A s \in Source : refs[s] = IF latch /\ s \in Live THEN 1 ELSE 0

\* Discovery excludes exactly the browsers that stream.
ExclusionIsTrue ==
    ws_exes = { ws_streams[k].exe : k \in Streams }

\* Switching the group off ends: the callbacks and the poll thread are over,
\* unless the peer of a connection the server's stop() missed stays for ever.
MissedByStop == missed \cap conns # {}
SwitchOffReturns == <>[]MissedByStop \/ ((life = "stopping") ~> (life = "off"))

\* An application that the user excludes, or that streams and would be heard
\* twice, is in the end not captured.
ExcludedNotCaptured ==
    \A e \in Exe :
        <>[](life = "on" /\ e \in exclude \cup ws_exes) => <>[](e \notin children)

\* The last list was applied but e's capture could not be created; the code
\* tries again when the list changes next.
NotCreated(e) == tick # "reconcile" /\ e \in want \ children

\* An application that plays on and nobody excludes is in the end captured,
\* also after its browser's streams died without a close, unless OBS cannot
\* create its capture.
AppsCaptured ==
    \A e \in Exe :
        <>[](/\ life = "on" /\ e \in playing \ exclude /\ ~NotCreated(e)
             /\ \A k \in Streams : ws_streams[k].exe = e => ~ws_streams[k].fresh)
            => <>[](e \in children)
=============================================================================
