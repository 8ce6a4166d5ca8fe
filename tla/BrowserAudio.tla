--------------------------- MODULE BrowserAudio ---------------------------
(***************************************************************************)
(* tools/chrome-extension: the content script of each tab takes the tab's  *)
(* sound off the speakers and hands it to the service worker, which sends  *)
(* it over a WebSocket to the audio wall (AudioWall's ws_streams).  The    *)
(* service worker is one thread; every await and every event is a step.    *)
(* Port messages arrive in order; of the messages that tell a tab whether  *)
(* the wall is reached only the newest matters.  What is sent on an open   *)
(* socket reaches the wall at once.                                        *)
(***************************************************************************)
EXTENDS Naturals, FiniteSets

CONSTANTS Tab, Socket,
          MaxSid       \* bound: ports that are opened in all

ASSUME Parameters == MaxSid \in Nat \ {0}

NoSocket == "no socket"
Sid == 1..MaxSid
Timer == 0
Caller == Sid \cup {Timer}     \* whose "start" it is, or the timer

VARIABLES
    sid,       \* per tab: the stream number of its port, 0 without a port
    starts,    \* per tab: "start" messages on their way to the service worker
    hooked,    \* per tab: its media elements play through the graph
    local,     \* per tab: localGain is 1
    note,      \* per tab: the "ws" message on its way to it, if any
    next,      \* nextStreamId
    ws, wsReady, reconnectTimer,
    asking,    \* per caller: ensureWs calls that await chrome.storage
    due,       \* streams sendAllMeta has still to come to
    metas,     \* the sendMeta calls that await metaFor: socket and stream
    sock,      \* every socket: "unused", "connecting", "open", "closing"
    up,        \* the wall's server runs
    streams,   \* ws_streams, as pairs of socket and stream number
    stale,     \* those that have heard nothing for five seconds
    held       \* a history: streams whose page was held up for so long while it
               \* played, and that have sent no meta since

tabs == << sid, starts, hooked, local, note, next >>
worker == << ws, wsReady, reconnectTimer, asking, due, metas >>
plugin == << up, streams, stale, held >>
vars == << tabs, worker, sock, plugin >>

TypeOK ==
    /\ sid \in [Tab -> 0..MaxSid] /\ starts \in [Tab -> 0..2]
    /\ hooked \in [Tab -> BOOLEAN] /\ local \in [Tab -> BOOLEAN]
    /\ note \in [Tab -> SUBSET BOOLEAN]
    /\ next \in 1..MaxSid + 1
    /\ ws \in Socket \cup {NoSocket} /\ wsReady \in BOOLEAN /\ reconnectTimer \in BOOLEAN
    /\ asking \in [Caller -> Nat] /\ due \subseteq Sid /\ metas \subseteq Socket \X Sid
    /\ sock \in [Socket -> {"unused", "connecting", "open", "closing"}]
    /\ up \in BOOLEAN /\ streams \subseteq Socket \X Sid /\ stale \subseteq streams
    /\ held \subseteq Socket \X Sid

Init ==
    /\ sid = [t \in Tab |-> 0] /\ starts = [t \in Tab |-> 0]
    /\ hooked = [t \in Tab |-> FALSE] /\ local = [t \in Tab |-> TRUE]
    /\ note = [t \in Tab |-> {}] /\ next = 1
    /\ ws = NoSocket /\ wsReady = FALSE /\ reconnectTimer = FALSE
    /\ asking = [c \in Caller |-> 0] /\ due = {} /\ metas = {}
    /\ sock = [s \in Socket |-> "unused"]
    /\ up \in BOOLEAN /\ streams = {} /\ stale = {} /\ held = {}

Ported == { t \in Tab : sid[t] # 0 }          \* the service worker's streams map
Entries == { sid[t] : t \in Ported }
Sending == ws # NoSocket /\ sock[ws] = "open" \* ws.send does not throw
Current == ws # NoSocket /\ (wsReady \/ sock[ws] = "connecting")

\* Streams that end at the wall.
Gone(ks) == streams' = streams \ ks /\ stale' = stale \ ks

\* broadcastWsState.
Broadcast(connected) ==
    note' = [t \in Tab |-> IF t \in Ported THEN {connected} ELSE note[t]]

\* sendMeta(entry) returns at once unless wsReady; ws.send is evaluated before
\* its argument, so the socket is the one of now.  With no socket it fails.
SendMeta(i) ==
    metas' = IF wsReady /\ ws # NoSocket THEN metas \cup {<< ws, i >>} ELSE metas

-----------------------------------------------------------------------------
(* The content script                                                      *)

\* ensurePort, called with n starts to post: a new port, a new entry.
OpenPort(t, n) ==
    /\ next <= MaxSid
    /\ sid' = [sid EXCEPT ![t] = next] /\ next' = next + 1
    /\ starts' = [starts EXCEPT ![t] = n]

\* The first media element plays: ensureAudio.  ensurePort posts a start as
\* the context is there, ensureAudio posts another.
Play(t) ==
    /\ ~hooked[t] /\ hooked' = [hooked EXCEPT ![t] = TRUE]
    /\ local' = [local EXCEPT ![t] = TRUE]
    /\ OpenPort(t, 2)
    /\ UNCHANGED << note, worker, sock, plugin >>

\* After the service worker restarted, the next PCM or position opens a port.
Reopen(t) ==
    /\ hooked[t] /\ sid[t] = 0
    /\ OpenPort(t, 1)
    /\ UNCHANGED << hooked, local, note, worker, sock, plugin >>

\* The "ws" message: setLocalPlayback.
Told(t) ==
    /\ note[t] # {}
    /\ local' = [local EXCEPT ![t] = TRUE \notin note[t]] /\ note' = [note EXCEPT ![t] = {}]
    /\ UNCHANGED << sid, starts, hooked, next, worker, sock, plugin >>

\* The page goes away: onDisconnect deletes the entry and closes the stream.
Leave(t) ==
    /\ hooked[t] /\ hooked' = [hooked EXCEPT ![t] = FALSE]
    /\ sid' = [sid EXCEPT ![t] = 0] /\ starts' = [starts EXCEPT ![t] = 0]
    /\ note' = [note EXCEPT ![t] = {}] /\ local' = [local EXCEPT ![t] = TRUE]
    /\ LET gone == IF wsReady /\ Sending THEN {<< ws, sid[t] >>} ELSE {}
       IN  Gone(gone)
    /\ held' = { k \in held : k[2] # sid[t] }
    /\ UNCHANGED << next, worker, sock, up >>

-----------------------------------------------------------------------------
(* The service worker                                                      *)

\* ensureWs by caller c: it is done, or awaits the port number.
EnsureWs(c) == IF Current THEN UNCHANGED asking
               ELSE asking' = [asking EXCEPT ![c] = @ + 1]

\* "start": the tab is told the state, then ensureWs().then(sendMeta).
Start(t) ==
    /\ starts[t] > 0
    /\ starts' = [starts EXCEPT ![t] = @ - 1]
    /\ note' = [note EXCEPT ![t] = {wsReady}]
    /\ EnsureWs(sid[t])
    /\ IF Current THEN SendMeta(sid[t]) ELSE UNCHANGED metas
    /\ UNCHANGED << sid, hooked, local, next, ws, wsReady, reconnectTimer, due >>
    /\ UNCHANGED << sock, plugin >>

\* The window moves or the tab changes windows.
Moved(t) ==
    /\ t \in Ported
    /\ SendMeta(sid[t])
    /\ UNCHANGED << tabs, ws, wsReady, reconnectTimer, asking, due, sock, plugin >>

\* chrome.storage answers: the socket is made, whatever happened meanwhile.
Answer(c) ==
    /\ asking[c] > 0
    /\ asking' = [asking EXCEPT ![c] = @ - 1]
    /\ \E s \in Socket :
         /\ sock[s] = "unused" /\ sock' = [sock EXCEPT ![s] = "connecting"]
         /\ ws' = s
         /\ metas' = IF c \in Sid /\ wsReady THEN metas \cup {<< s, c >>} ELSE metas
    /\ UNCHANGED << tabs, wsReady, reconnectTimer, due, plugin >>

\* sendAllMeta, when a socket opens.
SendAllMeta_Not == UNCHANGED due              \* mutant: left to the next start
SendAllMeta == due' = due \cup Entries

\* onopen: every tab's meta is due and every tab is told.
Opened(s) ==
    /\ sock[s] = "connecting" /\ up
    /\ sock' = [sock EXCEPT ![s] = "open"]
    /\ wsReady' = TRUE /\ SendAllMeta /\ Broadcast(TRUE)
    /\ UNCHANGED << sid, starts, hooked, local, next, ws, reconnectTimer, asking, metas >>
    /\ UNCHANGED plugin

\* It comes to one stream; what has left the map is passed over.
NextMeta(i) ==
    /\ i \in due /\ due' = due \ {i}
    /\ IF i \in Entries THEN SendMeta(i) ELSE UNCHANGED metas
    /\ UNCHANGED << tabs, ws, wsReady, reconnectTimer, asking, sock, plugin >>

\* A meta for a socket that closes will be discarded when it is sent.
Discard(closed) == metas' = { m \in metas : m[1] \notin closed }

\* The reconnect is due in three seconds if anyone streams.
Retry_Never == UNCHANGED reconnectTimer       \* mutant: left to the next start
Retry == reconnectTimer' = (reconnectTimer \/ Ported # {})

\* onclose, also of a connection that failed: for any socket, not only ws.
Closed(s) ==
    /\ sock[s] = "closing" \/ (sock[s] = "connecting" /\ ~up)
    /\ sock' = [sock EXCEPT ![s] = "unused"]
    /\ ws' = NoSocket /\ wsReady' = FALSE
    /\ IF wsReady THEN Broadcast(FALSE) ELSE UNCHANGED note
    /\ Retry /\ Discard({s})
    /\ held' = { k \in held : k[1] # s }
    /\ UNCHANGED << sid, starts, hooked, local, next, asking, due, up, streams, stale >>

\* Three seconds later.
TimerFires ==
    /\ reconnectTimer /\ reconnectTimer' = FALSE
    /\ EnsureWs(Timer)
    /\ UNCHANGED << tabs, ws, wsReady, due, metas, sock, plugin >>

\* metaFor is back: the meta of m goes out if its socket is open; the stream is
\* made or renewed.  A tab that is gone fails, a page that is gone need not.
Meta(m) ==
    /\ m \in metas /\ metas' = metas \ {m}
    /\ \E found \in IF m[2] \in Entries THEN {TRUE} ELSE BOOLEAN :
         LET made == IF found /\ sock[m[1]] = "open" THEN {m} ELSE {}
         IN  /\ streams' = streams \cup made /\ stale' = stale \ made
             /\ held' = held \ made
    /\ UNCHANGED << tabs, ws, wsReady, reconnectTimer, asking, due, sock, up >>

\* sendPcm: what the wall has a stream for is heard.
Feeds(t) == starts[t] = 0 /\ wsReady /\ Sending /\ << ws, sid[t] >> \in streams
Pcm(t) ==
    /\ hooked[t] /\ sid[t] # 0 /\ Feeds(t) /\ << ws, sid[t] >> \in stale
    /\ stale' = stale \ {<< ws, sid[t] >>}
    /\ UNCHANGED << tabs, worker, sock, up, streams, held >>

\* The browser stops an idle service worker; its ports and sockets go with it.
Restart ==
    /\ Ported # {}
    /\ sid' = [t \in Tab |-> 0] /\ starts' = [t \in Tab |-> 0]
    /\ local' = [t \in Tab |-> TRUE] /\ note' = [t \in Tab |-> {}]
    /\ ws' = NoSocket /\ wsReady' = FALSE /\ reconnectTimer' = FALSE
    /\ asking' = [c \in Caller |-> 0] /\ due' = {} /\ metas' = {}
    /\ sock' = [s \in Socket |-> "unused"] /\ streams' = {} /\ stale' = {} /\ held' = {}
    /\ UNCHANGED << hooked, next, up >>

-----------------------------------------------------------------------------
(* The audio wall                                                          *)

\* The server stops (every connection is closed) or starts.
ServerStops ==
    /\ up /\ up' = FALSE
    /\ sock' = [s \in Socket |-> IF sock[s] = "open" THEN "closing" ELSE sock[s]]
    /\ streams' = {} /\ stale' = {} /\ held' = {}
    /\ Discard({ s \in Socket : sock[s] = "open" })
    /\ UNCHANGED << tabs, ws, wsReady, reconnectTimer, asking, due >>
ServerStarts == ~up /\ up' = TRUE /\ UNCHANGED << tabs, worker, sock, streams, stale, held >>

Fed(k) == \E t \in Ported : Feeds(t) /\ k = << ws, sid[t] >>

\* Five seconds without PCM; a stream that is fed falls silent so long only
\* when its page is held up (a modal dialog, a frozen tab, the machine asleep).
Silence(k) ==
    /\ k \in streams \ stale
    /\ stale' = stale \cup {k}
    /\ held' = IF Fed(k) THEN held \cup {k} ELSE held
    /\ UNCHANGED << tabs, worker, sock, up, streams >>

\* wall_tick drops it.
Timeout_Never(k) == FALSE /\ UNCHANGED vars   \* mutant: no timeout
Timeout(k) ==
    /\ k \in stale
    /\ Gone({k})
    /\ UNCHANGED << tabs, worker, sock, up, held >>

-----------------------------------------------------------------------------

TabStep(t) == Reopen(t) \/ Told(t) \/ Start(t) \/ Pcm(t)
WorkerStep ==
    \/ \E c \in Caller : Answer(c)
    \/ \E s \in Socket : Opened(s) \/ Closed(s)
    \/ \E i \in Sid : NextMeta(i)
    \/ \E m \in Socket \X Sid : Meta(m)
    \/ TimerFires

Next ==
    \/ \E t \in Tab : Play(t) \/ Moved(t) \/ Leave(t) \/ TabStep(t)
    \/ WorkerStep \/ Restart \/ ServerStops \/ ServerStarts
    \/ \E k \in Socket \X Sid : Silence(k) \/ Timeout(k)

Spec == Init /\ [][Next]_vars

\* Messages arrive, awaits end, the timer fires and the wall ticks.
Fair ==
    /\ \A t \in Tab : WF_vars(Reopen(t)) /\ WF_vars(Told(t)) /\ WF_vars(Start(t))
    /\ \A c \in Caller : WF_vars(Answer(c))
    /\ \A s \in Socket : WF_vars(Opened(s)) /\ WF_vars(Closed(s))
    /\ \A i \in Sid : WF_vars(NextMeta(i))
    /\ \A m \in Socket \X Sid : WF_vars(Meta(m))
    /\ WF_vars(TimerFires)
    /\ \A k \in Socket \X Sid : WF_vars(~Fed(k) /\ Silence(k)) /\ WF_vars(Timeout(k))
FairSpec == Spec /\ Fair

-----------------------------------------------------------------------------
(* Properties                                                              *)

Heard(t) == Sending /\ << ws, sid[t] >> \in streams

\* The tab's page was not held up until the wall forgot its stream: nothing but
\* the next meta brings such a stream back.
Flows(t) == hooked[t] /\ << ws, sid[t] >> \notin held

\* The sound of a tab does not stay away, and does not stay doubled: it comes
\* from its page or from the wall, unless the server comes and goes for ever.
HeardFromOnePlace ==
    \A t \in Tab : (<>[]up \/ <>[]~up) => ~<>[](Flows(t) /\ local[t] = Heard(t))

\* With the wall there to stay every tab that plays on ends up on it.
TabsReachTheWall ==
    \A t \in Tab : <>[](up /\ Flows(t) /\ sid[t] # 0) => <>[](Heard(t) /\ ~local[t])

\* A page that is gone leaves no stream.
StreamsEnd ==
    \A i \in Sid : <>[](i \notin Entries) => <>[](\A s \in Socket : << s, i >> \notin streams)
=============================================================================
