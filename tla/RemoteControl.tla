--------------------------- MODULE RemoteControl ---------------------------
(***************************************************************************)
(* core/remote_control.cpp: who may be connected.  The UI thread polls     *)
(* remote_control_sync(), rotates the token, loads and saves the settings  *)
(* and shuts down; connection threads run on_open / on_text / on_close.    *)
(* The server below is WsContract, the life cycle WsServer is shown to     *)
(* implement.                                                              *)
(*                                                                         *)
(* Time is two facts: which clients have been silent for more than         *)
(* REMOTE_IDLE_TIMEOUT_MS (quiet), and whether the last bind attempt is    *)
(* less than 3000 ms old (throttled).                                      *)
(***************************************************************************)
EXTENDS Naturals

CONSTANTS Conn,      \* connections one server run may accept
          MaxToken   \* bound: tokens the generator hands out

ASSUME Bounds == MaxToken \in Nat

NoToken == 0
Token == 1..MaxToken

VARIABLES
    up, life,      \* the server, as WsContract describes it
    want,          \* remote_enabled && connect_enabled
    moved,         \* the configured port is not the server's
    token,         \* g_device.remote_token; NoToken: empty
    last_token,    \* the last one generate_token made
    saved,         \* tokens some scene collection's settings hold
    server_token,  \* the token on_ws_accept of the running server compares with
    active_token,  \* g_remote.active_token
    throttled,     \* now - last_start_attempt_ms < 3000
    revoked,       \* tokens rotated away, and not brought back by a load since
    conns,         \* keys of g_remote.conns
    quiet,         \* of those, the ones silent past the timeout
    evict,         \* per on_open: older sessions it has still to close
    shut,          \* connections whose socket was shut down
    missed,        \* the connection stop()'s shutdown loop did not find, if any
    auth,          \* the token each connection was upgraded with
    ui, ui_evict   \* progress of the UI thread, its list of stale clients

settings == << want, moved, token, last_token, saved >>
server == << server_token, active_token, throttled, revoked >>
sessions == << conns, quiet, evict, shut, missed, auth >>
vars == << up, life, settings, server, sessions, ui, ui_evict >>

Ws == INSTANCE WsContract

TypeOK ==
    /\ up \in BOOLEAN /\ life \in [Conn -> Ws!Lives]
    /\ want \in BOOLEAN /\ moved \in BOOLEAN
    /\ {token, last_token, server_token, active_token} \subseteq Token \cup {NoToken}
    /\ throttled \in BOOLEAN
    /\ revoked \subseteq Token /\ saved \subseteq Token
    /\ quiet \subseteq conns /\ conns \subseteq Conn
    /\ evict \in [Conn -> SUBSET Conn]
    /\ shut \subseteq Conn /\ missed \subseteq Conn
    /\ auth \in [Conn -> Token \cup {NoToken}]
    /\ ui \in {"idle", "sync", "halt", "clear", "cleared", "stop", "bind",
              "evict", "unload", "unloaded"}
    /\ ui_evict \subseteq Conn

Init ==
    /\ Ws!Init
    /\ want = FALSE /\ moved = FALSE
    /\ token = NoToken /\ last_token = NoToken /\ saved = {}
    /\ server_token = NoToken /\ active_token = NoToken
    /\ throttled = FALSE /\ revoked = {}
    /\ conns = {} /\ quiet = {} /\ shut = {} /\ missed = {}
    /\ evict = [c \in Conn |-> {}]
    /\ auth = [c \in Conn |-> NoToken]
    /\ ui = "idle" /\ ui_evict = {}

-----------------------------------------------------------------------------
(* Connection threads                                                      *)

Live(c) == life[c] \in {"opening", "open", "reading", "closing"}

Stopping == ui \in {"halt", "stop", "unload"}

\* A server that is stopping has shut the socket down, unless accept_loop
\* pushed the connection after stop()'s loop had walked the list: one at most,
\* the next accept() finds the server stopping.
MeetsStop(c) ==
    \/ ~Stopping /\ UNCHANGED << shut, missed >>
    \/ Stopping /\ shut' = shut \cup {c} /\ UNCHANGED missed
    \/ Stopping /\ missed = {} /\ missed' = {c} /\ UNCHANGED shut

\* upgrade_target_ok let the client in and on_open starts: the lock_guard
\* block that lists the older sessions and enters this one.
OldSessions_None == {}                       \* mutant: nobody is evicted
OldSessions == conns

OpenBegins(c) ==
    /\ Ws!OnOpen(c)
    /\ server_token # NoToken
    /\ auth' = [auth EXCEPT ![c] = server_token]
    /\ evict' = [evict EXCEPT ![c] = OldSessions \ {c}]
    /\ conns' = conns \cup {c}
    /\ quiet' = quiet \ {c}
    /\ MeetsStop(c)
    /\ UNCHANGED << settings, server, ui, ui_evict >>

\* One turn of for (old : evict) close_conn(old).
OpenEvicts(c, old) ==
    /\ life[c] = "opening" /\ old \in evict[c]
    /\ evict' = [evict EXCEPT ![c] = @ \ {old}]
    /\ shut' = IF Live(old) THEN shut \cup {old} ELSE shut
    /\ UNCHANGED << up, life, settings, server, conns, quiet, missed, auth, ui, ui_evict >>

OpenEnds(c) ==
    /\ Ws!OpenDone(c) /\ evict[c] = {}
    /\ UNCHANGED << settings, server, sessions, ui, ui_evict >>

\* handle_message: every message is a liveness proof.
MessageBegins(c) ==
    /\ Ws!OnText(c) /\ c \notin shut
    /\ quiet' = quiet \ {c}
    /\ UNCHANGED << settings, server, conns, evict, shut, missed, auth, ui, ui_evict >>

MessageEnds(c) ==
    /\ Ws!TextDone(c)
    /\ UNCHANGED << settings, server, sessions, ui, ui_evict >>

\* The frame loop ended: the peer left, or the socket was shut down.
CloseBegins(c) ==
    /\ Ws!OnClose(c)
    /\ UNCHANGED << settings, server, sessions, ui, ui_evict >>

Forget_Nothing(c) == {}                      \* mutant: conns.erase is forgotten
Forget(c) == {c}

CloseEnds(c) ==
    /\ Ws!CloseDone(c)
    /\ conns' = conns \ Forget(c)
    /\ quiet' = quiet \ {c}
    /\ UNCHANGED << settings, server, evict, shut, missed, auth, ui, ui_evict >>

ConnStep(c) ==
    \/ \E old \in Conn : OpenEvicts(c, old)
    \/ OpenEnds(c) \/ MessageEnds(c) \/ CloseEnds(c)
    \/ CloseBegins(c) /\ c \in shut

GoesQuiet(c) ==
    /\ c \in conns \ quiet
    /\ quiet' = quiet \cup {c}
    /\ UNCHANGED << up, life, settings, server, conns, evict, shut, missed, auth, ui,
                    ui_evict >>

-----------------------------------------------------------------------------
(* The UI thread: remote_control_sync, remote_control_rotate_token         *)

Goes(from, next) == ui \in from /\ ui' = next

\* server.stop() begins: every connection is shut down.
StopBegins(next) ==
    /\ ui' = next
    /\ shut' = {c \in Conn : Live(c)} \cup shut

Wanted == want

Stale_None == {}                             \* mutant: nobody is timed out
Stale == quiet

\* The master enable or the toggle is off, or there is no token: the server
\* is stopped if it runs.
SyncOff ==
    /\ ui \in {"idle", "sync"} /\ ~Wanted
    /\ \/ up /\ StopBegins("halt")
       \/ ~up /\ ui' = "idle" /\ UNCHANGED shut
    /\ UNCHANGED << up, life, settings, server, conns, quiet, evict, missed, auth, ui_evict >>

\* ensure_token() could not make one: CryptGenRandom failed.
SyncNoToken ==
    /\ ui \in {"idle", "sync"} /\ Wanted
    /\ token = NoToken
    /\ \/ up /\ StopBegins("halt")
       \/ ~up /\ ui' = "idle" /\ UNCHANGED shut
    /\ UNCHANGED << up, life, settings, server, conns, quiet, evict, missed, auth, ui_evict >>

\* ensure_token() made one where there was none.
NewToken == /\ token = NoToken /\ last_token < MaxToken
            /\ token' = last_token + 1 /\ last_token' = last_token + 1
KnownToken == token # NoToken /\ UNCHANGED << token, last_token >>

\* Not running, another port or another token: (re)start, at most one
\* attempt in 3000 ms.
SyncRestart ==
    /\ ui \in {"idle", "sync"} /\ Wanted
    /\ NewToken \/ KnownToken
    /\ ~up \/ moved \/ active_token # token'
    /\ IF throttled THEN ui' = "idle" /\ UNCHANGED throttled
                    ELSE ui' = "clear" /\ throttled' = TRUE
    /\ UNCHANGED << up, life, want, moved, saved, server_token, active_token,
                    revoked, sessions, ui_evict >>

\* Running as configured: list the stale clients.
SyncEvict ==
    /\ Goes({"idle", "sync"}, "evict") /\ Wanted
    /\ KnownToken
    /\ up /\ ~moved /\ active_token = token
    /\ ui_evict' = Stale
    /\ UNCHANGED << up, life, want, moved, saved, server, sessions >>

EvictOne(c) ==
    /\ ui = "evict" /\ c \in ui_evict
    /\ ui_evict' = ui_evict \ {c}
    /\ shut' = IF Live(c) THEN shut \cup {c} ELSE shut
    /\ UNCHANGED << up, life, settings, server, conns, quiet, evict, missed, auth, ui >>

EvictEnds ==
    /\ Goes({"evict"}, "idle") /\ ui_evict = {}
    /\ UNCHANGED << up, life, settings, server, sessions, ui_evict >>

\* stop() returns on the switching-off paths; no callback runs any more when
\* conns is cleared.
Halted ==
    /\ Goes({"halt"}, "idle") \/ Goes({"unload"}, "unloaded")
    /\ Ws!Stopped
    /\ conns' = {} /\ quiet' = {} /\ shut' = {} /\ missed' = {}
    /\ UNCHANGED << settings, server, evict, auth, ui_evict >>

\* start_server clears conns, and only then does start() stop the old server:
\* a session that opens in between lists, and evicts, nobody.
ClearConns ==
    /\ Goes({"clear"}, "cleared")
    /\ conns' = {} /\ quiet' = {}
    /\ UNCHANGED << up, life, settings, server, evict, shut, missed, auth, ui_evict >>

StopOld ==
    /\ ui = "cleared"
    /\ \/ up /\ StopBegins("stop")
       \/ ~up /\ ui' = "bind" /\ UNCHANGED shut
    /\ UNCHANGED << up, life, settings, server, conns, quiet, evict, missed, auth, ui_evict >>

OldStopped ==
    /\ Goes({"stop"}, "bind")
    /\ Ws!Stopped
    /\ missed' = {}
    /\ UNCHANGED << settings, server, conns, quiet, evict, shut, auth, ui_evict >>

BindOk ==
    /\ Goes({"bind"}, "idle")
    /\ Ws!Start
    /\ server_token' = token /\ active_token' = token
    /\ moved' = FALSE
    /\ shut' = {}
    /\ auth' = [c \in Conn |-> NoToken]
    /\ UNCHANGED << want, token, last_token, saved, throttled, revoked, conns,
                    quiet, evict, missed, ui_evict >>

BindFails ==
    /\ Goes({"bind"}, "idle")
    /\ UNCHANGED << up, life, settings, server, sessions, ui_evict >>

SkipThrottle_No == throttled            \* mutant: the retry throttle is kept
SkipThrottle == FALSE

\* The token is cleared, the throttle skipped, then a sync runs at once.
RotateToken ==
    /\ Goes({"idle"}, "sync")
    /\ token # NoToken
    /\ revoked' = revoked \cup {token}
    /\ token' = NoToken
    /\ throttled' = SkipThrottle
    /\ UNCHANGED << up, life, want, moved, last_token, saved, server_token,
                    active_token, sessions, ui_evict >>

SyncStep ==
    \/ SyncOff \/ SyncNoToken \/ SyncRestart \/ SyncEvict \/ EvictEnds
    \/ \E c \in Conn : EvictOne(c)
    \/ Halted \/ ClearConns \/ StopOld \/ OldStopped \/ BindOk \/ BindFails

\* A new port matters only to a running server.
PortMoves == IF up THEN BOOLEAN ELSE {moved}

\* remote_enable_box: the toggle, and a sync at once.
Toggle ==
    /\ Goes({"idle"}, "sync")
    /\ want' = ~want
    /\ UNCHANGED << up, life, moved, token, last_token, saved, server, sessions, ui_evict >>

\* remote_port_spin: the next poll sees it.
SetPort ==
    /\ ui = "idle" /\ up
    /\ moved' = ~moved
    /\ UNCHANGED << up, life, want, token, last_token, saved, server, sessions, ui, ui_evict >>

\* manager_reset_defaults: remote off, default port, no token; no sync.
ResetDefaults ==
    /\ ui = "idle"
    /\ want' = FALSE /\ token' = NoToken
    /\ moved' \in PortMoves
    /\ UNCHANGED << up, life, last_token, saved, server, sessions, ui, ui_evict >>

\* manager_save_load, saving: into the scene collection at hand.
SaveSettings ==
    /\ ui = "idle"
    /\ saved' = saved \cup ({token} \ {NoToken})
    /\ UNCHANGED << up, life, want, moved, token, last_token, server, sessions, ui, ui_evict >>

\* manager_save_load, loading: a scene collection brings its own toggle, port
\* and token, then a sync runs.  A token rotated away may come back with it.
LoadSettings ==
    /\ Goes({"idle"}, "sync")
    /\ want' \in BOOLEAN /\ token' \in saved \cup {NoToken}
    /\ moved' \in PortMoves
    /\ revoked' = revoked \ {token'}
    /\ UNCHANGED << up, life, last_token, saved, server_token, active_token, throttled,
                    sessions, ui_evict >>

\* remote_control_shutdown (obs_module_unload): the dock is gone, so nothing
\* syncs afterwards.
Unload ==
    /\ ui = "idle"
    /\ \/ up /\ StopBegins("unload")
       \/ ~up /\ ui' = "unloaded" /\ UNCHANGED shut
    /\ UNCHANGED << up, life, settings, server, conns, quiet, evict, missed, auth, ui_evict >>

\* 3000 ms since the last attempt.
ThrottleExpires ==
    /\ throttled' = FALSE
    /\ UNCHANGED << up, life, settings, server_token, active_token, revoked,
                    sessions, ui, ui_evict >>

-----------------------------------------------------------------------------

Next ==
    \/ SyncStep \/ RotateToken \/ Toggle \/ SetPort \/ ResetDefaults
    \/ SaveSettings \/ LoadSettings \/ Unload \/ ThrottleExpires
    \/ \E c \in Conn :
          \/ OpenBegins(c) \/ MessageBegins(c) \/ CloseBegins(c) \/ GoesQuiet(c)
          \/ ConnStep(c)

Spec == Init /\ [][Next]_vars

\* The dock timer keeps polling, connection threads run, a shut-down socket
\* ends its frame loop, and 3000 ms pass.
FairSpec ==
    /\ Spec
    /\ WF_vars(SyncStep)
    /\ WF_vars(ThrottleExpires)
    /\ \A c \in Conn : WF_vars(ConnStep(c))

-----------------------------------------------------------------------------

\* The token of a rotation is dead once remote_control_rotate_token has
\* returned: no server accepts it, no client it let in is connected, until
\* a scene collection that still holds it is loaded.  "the old token dies
\* unconditionally" (remote_control_rotate_token).
RevokedTokenIsDead ==
    ui = "idle" => /\ up => server_token \notin revoked
                   /\ \A c \in Conn : Live(c) => auth[c] \notin revoked

\* "the newest authenticated session wins": of two sessions that are both
\* still usable, one is about to close the other, or the UI thread is between
\* clearing the client list and shutting both of them down.
Usable == {c \in Conn : life[c] \in {"opening", "open", "reading"}} \ shut

OneSessionSurvives ==
    ui # "cleared" =>
        \A c, d \in Usable : c = d \/ c \in evict[d] \/ d \in evict[c]

\* g_remote.conns is the truth the dock shows: every entry is a session, and
\* every session but the ones a restart is stopping has an entry.
ClientsAreSessions ==
    /\ conns \subseteq {c \in Conn : Live(c)}
    /\ ui = "idle" => \A c \in Conn : life[c] \in {"open", "reading"} => c \in conns

\* A client whose heartbeats stopped is evicted, or speaks up again, or the
\* server is stopped: it is not shown as connected for ever, unless it is the
\* one stop() missed (then stop() waits for it, see WsServer).
SilentClientLeaves == \A c \in Conn : (c \in quiet) ~> (c \notin quiet \/ c \in missed)
=============================================================================
