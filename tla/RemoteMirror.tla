---------------------------- MODULE RemoteMirror ----------------------------
(***************************************************************************)
(* core/remote_control.cpp: what the phone shows.  Two frames mirror the   *)
(* host on the page: "state" (the effective distance, whether a text field *)
(* has the focus) and "cfg" (the settings snapshot).  Every thread that    *)
(* sends one reads the values first and sends them later: the UI poll,     *)
(* a connection thread (on_open, a "dist" message) and the threads UI      *)
(* Automation reports focus changes on.  Nothing orders their sends.       *)
(***************************************************************************)
EXTENDS Naturals

CONSTANTS Conn,       \* sessions
          Ui,         \* the thread remote_control_sync runs on
          Pool,       \* UI Automation's worker threads
          MaxValue,   \* distances, and settings snapshots, are 1..MaxValue
          Moves       \* bound: which aspects of the host may change in one history

ASSUME Parameters ==
    /\ Ui \notin Conn \cup Pool /\ Conn \cap Pool = {}
    /\ MaxValue \in Nat \ {0} /\ Moves \subseteq SUBSET {"dist", "edit", "cfg"}

Thread == Conn \cup Pool \cup {Ui}
NoValue == 0   \* not known yet
Value == 1..MaxValue
Known == Value \cup {NoValue}
Aspect == {"dist", "edit", "cfg"}

VARIABLES
    moves,          \* the aspects that change in this history
    dist, cfg,      \* effective_distance(); what build_cfg_json would return
    edit_focused,   \* g_remote.edit_focused
    sent_distance,  \* g_remote.sent_distance
    cfg_cache,      \* g_remote.cfg_cache
    life,           \* each session: "none", "on_open", "state", "cfg", "open"
    ui,             \* where remote_control_sync is
    built,          \* its local cfg
    watching,       \* focus_running
    at, frame, to,  \* per thread: progress of a broadcast, the frame, who is left
    phone           \* per session: what its page shows

(* A history: "doubt", in a frame and in what a page shows, are the aspects *)
(* that no later frame need correct, because                               *)
(*   - a frame read later, with another value, may be sent before this one  *)
(*     (nothing orders the threads' sends), or                             *)
(*   - the distance in it is not the one the poll compares with            *)
(*     (on_open does not record what it sends, and broadcast_state records  *)
(*     one value and then reads again).                                    *)

host == << moves, dist, cfg >>
job == << at, frame, to >>
sync == << ui, built, watching >>
vars == << host, edit_focused, sent_distance, cfg_cache, life, sync, job, phone >>

States == [kind : {"state"}, dist : Value, edit : BOOLEAN, doubt : SUBSET Aspect]
Cfgs == [kind : {"cfg"}, cfg : Value, doubt : SUBSET Aspect]
NoFrame == [kind |-> "none"]
Pages == [dist : Known, edit : BOOLEAN, cfg : Known, doubt : SUBSET Aspect]
Blank == [dist |-> NoValue, edit |-> FALSE, cfg |-> NoValue, doubt |-> {}]

TypeOK ==
    /\ moves \in Moves
    /\ dist \in Value /\ cfg \in Value /\ edit_focused \in BOOLEAN
    /\ sent_distance \in Known /\ cfg_cache \in Known /\ built \in Known
    /\ life \in [Conn -> {"none", "on_open", "state", "cfg", "open"}]
    /\ ui \in {"idle", "watch", "unwatch", "count", "cache"}
    /\ watching \in BOOLEAN
    /\ at \in [Thread -> {"idle", "compose", "list", "send"}]
    /\ frame \in [Thread -> States \cup Cfgs \cup {NoFrame}]
    /\ to \in [Thread -> SUBSET Conn]
    /\ phone \in [Conn -> Pages]

Init ==
    /\ moves \in Moves
    /\ dist \in Value /\ cfg \in Value /\ edit_focused = FALSE
    /\ sent_distance = NoValue /\ cfg_cache = NoValue /\ built = NoValue
    /\ life = [c \in Conn |-> "none"]
    /\ ui = "idle" /\ watching = FALSE
    /\ at = [t \in Thread |-> "idle"]
    /\ frame = [t \in Thread |-> NoFrame] /\ to = [t \in Thread |-> {}]
    /\ phone = [c \in Conn |-> Blank]

-----------------------------------------------------------------------------
(* broadcast_state, broadcast_text and send_text, run by thread t          *)

conns == {c \in Conn : life[c] # "none"}

\* broadcast_state begins: the distance it is about to send is remembered.
Broadcast(t) ==
    /\ sent_distance' = dist
    /\ at' = [at EXCEPT ![t] = "compose"]
    /\ UNCHANGED << frame, to >>

StateFrame == [kind |-> "state", dist |-> dist, edit |-> edit_focused,
               doubt |-> IF dist # sent_distance THEN {"dist"} ELSE {}]
CfgFrame(v) == [kind |-> "cfg", cfg |-> v, doubt |-> {}]

\* The aspects of an f sent after the newer frame g that are wrong for good
\* if g's value is the last one, or as doubtful as g's.
Differs(f, g) ==
    {a \in DOMAIN f \cap Aspect : f[a] # g[a] \/ a \in g.doubt}

Overtaken(f, g) ==
    IF f.kind = g.kind THEN [f EXCEPT !.doubt = @ \cup Differs(f, g)] ELSE f

\* A frame is read off the host's state; its receivers come next.
Post(t, f, next, receivers) ==
    /\ frame' = [u \in Thread |-> IF u = t THEN f ELSE Overtaken(frame[u], f)]
    /\ at' = [at EXCEPT ![t] = next]
    /\ to' = [to EXCEPT ![t] = receivers]

Compose(t) ==
    /\ at[t] = "compose"
    /\ Post(t, StateFrame, "list", {})
    /\ UNCHANGED << host, edit_focused, sent_distance, cfg_cache, life, sync, phone >>

Receivers_Open == {c \in Conn : life[c] = "open"}     \* mutant: only after on_open
Receivers == conns

\* broadcast_text copies the keys of conns.
List(t) ==
    /\ at[t] = "list"
    /\ at' = [at EXCEPT ![t] = "send"] /\ to' = [to EXCEPT ![t] = Receivers]
    /\ UNCHANGED << host, edit_focused, sent_distance, cfg_cache, life, sync, frame, phone >>

Show(page, f) ==
    IF f.kind = "state"
    THEN [page EXCEPT !.dist = f.dist, !.edit = f.edit,
                      !.doubt = (@ \ {"dist", "edit"}) \cup f.doubt]
    ELSE [page EXCEPT !.cfg = f.cfg, !.doubt = (@ \ {"cfg"}) \cup f.doubt]

Send(t, c) ==
    /\ at[t] = "send" /\ c \in to[t]
    /\ to' = [to EXCEPT ![t] = @ \ {c}]
    /\ phone' = [phone EXCEPT ![c] = Show(@, frame[t])]
    /\ UNCHANGED << host, edit_focused, sent_distance, cfg_cache, life, sync, at, frame >>

Sent(t) ==
    /\ at[t] = "send" /\ to[t] = {}
    /\ at' = [at EXCEPT ![t] = "idle"] /\ frame' = [frame EXCEPT ![t] = NoFrame]
    /\ UNCHANGED << host, edit_focused, sent_distance, cfg_cache, life, sync, to, phone >>

JobStep(t) == Compose(t) \/ List(t) \/ Sent(t) \/ \E c \in Conn : Send(t, c)

-----------------------------------------------------------------------------
(* Connection threads                                                      *)

Goes(c, from, next) ==
    /\ life[c] = from /\ at[c] = "idle"
    /\ life' = [life EXCEPT ![c] = next]

\* on_open enters the session into conns.
OpenBegins(c) ==
    /\ Goes(c, "none", "on_open")
    /\ UNCHANGED << host, edit_focused, sent_distance, cfg_cache, sync, job, phone >>

\* send_text(conn, state_json())
OpenState(c) ==
    /\ Goes(c, "on_open", "state")
    /\ Post(c, StateFrame, "send", {c})
    /\ UNCHANGED << host, edit_focused, sent_distance, cfg_cache, sync, phone >>

CfgKnown == cfg_cache # NoValue

\* The cached settings, if there are any.
OpenCfg(c) ==
    /\ Goes(c, "state", "cfg")
    /\ IF CfgKnown THEN Post(c, CfgFrame(cfg_cache), "send", {c}) ELSE UNCHANGED job
    /\ UNCHANGED << host, edit_focused, sent_distance, cfg_cache, sync, phone >>

OpenEnds(c) ==
    /\ Goes(c, "cfg", "open")
    /\ UNCHANGED << host, edit_focused, sent_distance, cfg_cache, sync, job, phone >>

\* handle_message, type "dist": the gaze dolly, then broadcast_state.
Dolly(c) ==
    /\ "dist" \in moves /\ life[c] = "open" /\ at[c] = "idle"
    /\ \E v \in Value : dist' = v /\ sent_distance' = v
    /\ at' = [at EXCEPT ![c] = "compose"]
    /\ UNCHANGED << moves, cfg, edit_focused, cfg_cache, life, sync, frame, to, phone >>

\* on_close; a session that opens later is another one, nobody's receiver yet.
Close(c) ==
    /\ Goes(c, "open", "none")
    /\ phone' = [phone EXCEPT ![c] = Blank]
    /\ to' = [t \in Thread |-> to[t] \ {c}]
    /\ UNCHANGED << host, edit_focused, sent_distance, cfg_cache, sync, at, frame >>

-----------------------------------------------------------------------------
(* Focus changes and the settings                                          *)

\* HandleFocusChangedEvent: update_edit_state sends only when the flag flips.
FocusChanges(p) ==
    /\ "edit" \in moves /\ watching /\ at[p] = "idle"
    /\ edit_focused' = ~edit_focused
    /\ Broadcast(p)
    /\ UNCHANGED << host, cfg_cache, life, sync, phone >>

\* The dock, a recenter, a settings load.
HostChanges ==
    /\ \/ "dist" \in moves /\ dist' \in Value /\ UNCHANGED cfg
       \/ "cfg" \in moves /\ cfg' \in Value /\ UNCHANGED dist
    /\ UNCHANGED << moves, edit_focused, sent_distance, cfg_cache, life, sync, job, phone >>

-----------------------------------------------------------------------------
(* remote_control_sync, from the distance check on                         *)

UiGoes(from, next) == ui = from /\ at[Ui] = "idle" /\ ui' = next

Drifted_Never == FALSE                       \* mutant: the poll never compares
Drifted == dist # sent_distance

SyncDistance ==
    /\ UiGoes("idle", "watch")
    /\ IF Drifted THEN Broadcast(Ui)
                  ELSE UNCHANGED << sent_distance, job >>
    /\ UNCHANGED << host, edit_focused, cfg_cache, life, built, watching, phone >>

\* focus_watch_start, or what focus_watch_stop has to do.
SyncWatch ==
    /\ UiGoes("watch", IF watching /\ conns = {} THEN "unwatch" ELSE "count")
    /\ watching' = (conns # {} \/ watching)
    /\ UNCHANGED << host, edit_focused, sent_distance, cfg_cache, life, built, job, phone >>

Clears == edit_focused

\* focus_watch_stop joins the watcher, whose last act is to clear the flag.
SyncUnwatch ==
    /\ UiGoes("unwatch", "count")
    /\ watching' = FALSE /\ edit_focused' = FALSE
    /\ IF Clears THEN Broadcast(Ui) ELSE UNCHANGED << sent_distance, job >>
    /\ UNCHANGED << host, cfg_cache, life, built, phone >>

\* The snapshot is built while somebody is connected.
SyncBuild ==
    /\ UiGoes("count", IF conns = {} THEN "idle" ELSE "cache")
    /\ built' = IF conns = {} THEN NoValue ELSE cfg
    /\ UNCHANGED << host, edit_focused, sent_distance, cfg_cache, life, watching, job, phone >>

SyncCache ==
    /\ UiGoes("cache", "idle")
    /\ cfg_cache' = built /\ built' = NoValue
    /\ IF built # cfg_cache THEN Post(Ui, CfgFrame(built), "list", {}) ELSE UNCHANGED job
    /\ UNCHANGED << host, edit_focused, sent_distance, life, watching, phone >>

SyncStep == SyncDistance \/ SyncWatch \/ SyncUnwatch \/ SyncBuild \/ SyncCache

-----------------------------------------------------------------------------

OpenStep(c) == OpenState(c) \/ OpenCfg(c) \/ OpenEnds(c)

ThreadStep ==
    \/ HostChanges
    \/ \E t \in Thread : JobStep(t)
    \/ \E p \in Pool : FocusChanges(p)
    \/ \E c \in Conn : OpenBegins(c) \/ OpenStep(c) \/ Dolly(c) \/ Close(c)

Next == SyncStep \/ ThreadStep

Spec == Init /\ [][Next]_vars

-----------------------------------------------------------------------------

NoFrameOut == \A t \in Thread : at[t] = "idle"

\* The open pages that have a frame coming, or nothing in doubt of the aspect.
Sure(aspect) == {c \in Conn : life[c] = "open" /\ aspect \notin phone[c].doubt}

\* "push a fresh state to the phones only when it flips" (update_edit_state),
\* "possibly one poll stale; the sync push corrects it" (on_open): with no frame
\* under way every page knows whether a text field has focus, and shows the
\* settings the next poll compares with (none, before the first), unless an
\* older frame overtook a push.
PagesInStep ==
    NoFrameOut =>
        /\ \A c \in Sure("edit") : phone[c].edit = edit_focused
        /\ \A c \in Sure("cfg") : phone[c].cfg = cfg_cache

\* "keep the phones' readout in sync" (remote_control_sync): once the distance
\* rests, the page of a session that stays shows it, unless what it was told
\* last is in doubt.
ReadoutCatchesUp ==
    \A c \in Conn, v \in Value :
        <>[](c \in Sure("dist") /\ dist = v) => <>[](phone[c].dist = v)
=============================================================================
