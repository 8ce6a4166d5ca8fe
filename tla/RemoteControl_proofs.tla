------------------------ MODULE RemoteControl_proofs ------------------------
(***************************************************************************)
(* Proofs about RemoteControl, for any number of connections and tokens.   *)
(***************************************************************************)
EXTENDS RemoteControl, TLAPS

\* Who is let in, and with which token.
ServerInv ==
    /\ \A c \in Conn : Live(c) => up /\ auth[c] = server_token
    /\ up => server_token = active_token
    /\ ui = "bind" => ~up

\* A revoked token is never handed out again; a server that still accepts one
\* is on its way down, and nothing throttles the sync that takes it there.
TokenInv ==
    /\ token <= last_token /\ \A k \in revoked \cup saved : k <= last_token
    /\ token \notin revoked
    /\ up /\ server_token \in revoked =>
          \/ ui \in {"clear", "cleared", "stop", "halt", "unload"}
          \/ ui = "sync" /\ ~throttled

\* A restart forgets the sessions it is about to stop; otherwise the client
\* list is the set of live sessions.
ListInv ==
    /\ conns \subseteq {c \in Conn : Live(c)}
    /\ ui \notin {"cleared", "stop"} => {c \in Conn : Live(c)} \subseteq conns

\* A session that is still usable is listed, so a newer one evicts it; a
\* restart has cleared the list, but then shuts down all but the missed one.
UsableInv ==
    /\ Stopping => Usable \subseteq missed
    /\ \A c, d \in missed : c = d
    /\ ui # "cleared" => Usable \subseteq conns
    /\ OneSessionSurvives

Inv == TypeOK /\ ServerInv /\ ListInv /\ UsableInv

USE Bounds DEF Inv, TypeOK, ServerInv, ListInv, UsableInv, OneSessionSurvives, Usable, Live,
    Stopping, Ws!Lives, Token, NoToken, settings, server, sessions

LEMMA InitInv == Init => Inv /\ TokenInv
<1> SUFFICES ASSUME Init PROVE Inv /\ TokenInv
  OBVIOUS
<1> USE DEF Init, Ws!Init
<1>1. TypeOK
  OBVIOUS
<1>2. ServerInv /\ ListInv
  OBVIOUS
<1>3. UsableInv
  OBVIOUS
<1>4. TokenInv
  BY DEF TokenInv
<1> QED
  BY <1>1, <1>2, <1>3, <1>4

LEMMA OpenBeginsPreserves == \A c \in Conn : Inv /\ OpenBegins(c) => Inv'
<1> SUFFICES ASSUME NEW c \in Conn, Inv, OpenBegins(c) PROVE Inv'
  OBVIOUS
<1> USE DEF OpenBegins, OldSessions, MeetsStop, Ws!OnOpen, Ws!Becomes
<1>1. TypeOK'
  OBVIOUS
<1>2. ServerInv' /\ ListInv'
  OBVIOUS
<1>3. Usable' \subseteq Usable \cup {c} /\ ui' = ui
  OBVIOUS
<1>4. ui # "cleared" => Usable' \subseteq conns'
  BY <1>3
<1>5. \A d, e \in missed' : d = e
  OBVIOUS
<1>6. Stopping => Usable' \subseteq missed'
  <2>1. ASSUME Stopping, c \in Usable' PROVE c \in missed'
    BY <2>1
  <2>2. missed \subseteq missed'
    OBVIOUS
  <2> QED
    BY <1>3, <2>1, <2>2
<1>7. CASE Stopping
  BY <1>1, <1>2, <1>3, <1>4, <1>5, <1>6, <1>7
<1>8. CASE ~Stopping
  <2>1. OneSessionSurvives'
    BY <1>3, <1>8
  <2> QED
    BY <1>1, <1>2, <1>3, <1>4, <1>5, <1>8, <2>1
<1> QED
  BY <1>7, <1>8

LEMMA OpenEvictsPreserves == \A c, old \in Conn : Inv /\ OpenEvicts(c, old) => Inv'
<1> SUFFICES ASSUME NEW c \in Conn, NEW old \in Conn, Inv, OpenEvicts(c, old) PROVE Inv'
  OBVIOUS
<1> USE DEF OpenEvicts
<1>1. TypeOK' /\ ServerInv' /\ ListInv'
  OBVIOUS
<1>2. Usable' \subseteq Usable \ {old}
  OBVIOUS
<1>3. \A d \in Conn : evict[d] \ {old} \subseteq evict'[d]
  OBVIOUS
<1> QED
  BY <1>1, <1>2, <1>3

LEMMA CallbackPreserves ==
  \A c \in Conn :
     Inv /\ (OpenEnds(c) \/ MessageBegins(c) \/ MessageEnds(c) \/ CloseBegins(c) \/ CloseEnds(c))
        => Inv'
<1> SUFFICES ASSUME NEW c \in Conn, Inv,
                    OpenEnds(c) \/ MessageBegins(c) \/ MessageEnds(c) \/ CloseBegins(c) \/ CloseEnds(c)
             PROVE  Inv'
  OBVIOUS
<1> USE DEF OpenEnds, MessageBegins, MessageEnds, CloseBegins, CloseEnds, Forget,
    Ws!OpenDone, Ws!OnText, Ws!TextDone, Ws!OnClose, Ws!CloseDone, Ws!Becomes
<1>1. TypeOK'
  <2>1. life' \in [Conn -> Ws!Lives] /\ up' = up
    OBVIOUS
  <2>2. /\ UNCHANGED << settings, server, evict, shut, missed, auth, ui, ui_evict >>
        /\ conns' \subseteq conns /\ quiet' \subseteq quiet \ (conns \ conns')
    OBVIOUS
  <2> HIDE DEF OpenEnds, MessageBegins, MessageEnds, CloseBegins, CloseEnds
  <2> QED
    BY <2>1, <2>2
<1>5. ServerInv'
  <2>1. \A d \in Conn : life'[d] \in {"opening", "open", "reading", "closing"} => Live(d)
    OBVIOUS
  <2> QED
    BY <2>1
<1>2. Usable' \subseteq Usable
  <2>1. \A d \in Conn : d # c => life'[d] = life[d]
    OBVIOUS
  <2>2. life'[c] \in {"opening", "open", "reading"} /\ c \notin shut' => c \in Usable
    OBVIOUS
  <2> QED
    BY <2>1, <2>2
<1>3. ListInv'
  OBVIOUS
<1>4. ui' = ui /\ (ui # "cleared" => Usable' \subseteq conns')
  BY <1>2
<1> QED
  BY <1>1, <1>2, <1>3, <1>4, <1>5

\* A step that touches neither connections nor the server, and starts no stop.
LEMMA BystanderPreserves ==
  ASSUME Inv, TypeOK',
         UNCHANGED << up, life, server_token, active_token, conns, evict, shut, missed, auth >>,
         \/ ui' = ui
         \/ ui' \in {"idle", "sync", "evict", "clear", "unloaded"} /\ ui \notin {"cleared", "stop"}
  PROVE  Inv'
<1>1. Usable' = Usable
  OBVIOUS
<1>2. ServerInv'
  OBVIOUS
<1>3. ListInv'
  OBVIOUS
<1>4. UsableInv'
  BY <1>1
<1> QED
  BY <1>2, <1>3, <1>4

LEMMA SettingsPreserve ==
  Inv /\ (\/ RotateToken \/ Toggle \/ SetPort \/ ResetDefaults \/ SaveSettings \/ LoadSettings
          \/ ThrottleExpires \/ \E c \in Conn : GoesQuiet(c)) => Inv'
<1> USE DEF Goes
<1>1. Inv /\ RotateToken => Inv'
  BY BystanderPreserves DEF RotateToken, SkipThrottle
<1>2. Inv /\ Toggle => Inv'
  BY BystanderPreserves DEF Toggle
<1>3. Inv /\ SetPort => Inv'
  BY BystanderPreserves DEF SetPort
<1>4. Inv /\ ResetDefaults => Inv'
  BY BystanderPreserves DEF ResetDefaults, PortMoves
<1>5. Inv /\ SaveSettings => Inv'
  BY BystanderPreserves DEF SaveSettings
<1>6. Inv /\ LoadSettings => Inv'
  BY BystanderPreserves DEF LoadSettings, PortMoves
<1>7. Inv /\ ThrottleExpires => Inv'
  BY BystanderPreserves DEF ThrottleExpires
<1>8. ASSUME NEW c \in Conn, Inv, GoesQuiet(c) PROVE Inv'
  BY <1>8, BystanderPreserves DEF GoesQuiet
<1> QED
  BY <1>1, <1>2, <1>3, <1>4, <1>5, <1>6, <1>7, <1>8

LEMMA SyncPreserves == Inv /\ (SyncRestart \/ SyncEvict \/ EvictEnds) => Inv'
<1> USE DEF Goes
<1>1. Inv /\ SyncRestart => Inv'
  <2> SUFFICES ASSUME Inv, SyncRestart PROVE Inv'
    OBVIOUS
  <2>1. token' \in Token \cup {NoToken} /\ last_token' \in Token \cup {NoToken}
    BY DEF SyncRestart, NewToken, KnownToken
  <2> QED
    BY <2>1, BystanderPreserves DEF SyncRestart
<1>2. Inv /\ SyncEvict => Inv'
  BY BystanderPreserves DEF SyncEvict, Stale, KnownToken
<1>3. Inv /\ EvictEnds => Inv'
  BY BystanderPreserves DEF EvictEnds
<1> QED
  BY <1>1, <1>2, <1>3

LEMMA EvictPreserves == \A c \in Conn : Inv /\ EvictOne(c) => Inv'
  BY DEF EvictOne

LEMMA StopPreserves ==
  Inv /\ (\/ SyncOff \/ SyncNoToken \/ ClearConns \/ StopOld \/ Halted \/ OldStopped \/ BindOk \/ BindFails
          \/ Unload) => Inv'
<1>1. Inv /\ (SyncOff \/ SyncNoToken \/ Unload) => Inv'
  <2> SUFFICES ASSUME Inv, SyncOff \/ SyncNoToken \/ Unload PROVE Inv'
    OBVIOUS
  <2> USE DEF SyncOff, SyncNoToken, Unload, StopBegins
  <2>1. CASE ~up
    BY <2>1, BystanderPreserves
  <2>2. CASE up
    <3>1. /\ shut' = {c \in Conn : Live(c)} \cup shut /\ ui' \in {"halt", "unload"} /\ ui \notin {"cleared", "stop"}
          /\ UNCHANGED << up, life, settings, server, conns, quiet, evict, missed, auth, ui_evict >>
      BY <2>2
    <3> HIDE DEF SyncOff, SyncNoToken, Unload, StopBegins
    <3>2. Usable' = {}
      BY <3>1
    <3>3. TypeOK' /\ ServerInv' /\ ListInv'
      BY <3>1
    <3> QED
      BY <3>1, <3>2, <3>3
  <2> QED
    BY <2>1, <2>2
<1>2. Inv /\ (ClearConns \/ StopOld) => Inv'
  <2>1. Inv /\ ClearConns => Inv'
    BY DEF ClearConns, Goes
  <2>2. ASSUME Inv, StopOld PROVE Inv'
    <3> USE <2>2 DEF StopOld, StopBegins
    <3>1. TypeOK' /\ ServerInv' /\ ListInv'
      OBVIOUS
    <3>2. Usable' = {} /\ missed' = missed
      <4>1. CASE up
        BY <4>1
      <4>2. CASE ~up
        BY <4>2
      <4> QED
        BY <4>1, <4>2
    <3> QED
      BY <3>1, <3>2
  <2> QED
    BY <2>1, <2>2
<1>3. Inv /\ (Halted \/ OldStopped) => Inv'
  BY DEF Halted, OldStopped, Ws!Stopped, Goes
<1>4. Inv /\ BindOk => Inv'
  <2> SUFFICES ASSUME Inv, BindOk PROVE Inv'
    OBVIOUS
  <2>1. \A c \in Conn : life'[c] = "new"
    BY DEF BindOk, Ws!Start
  <2>2. conns = {}
    BY DEF BindOk, Ws!Start
  <2>3. TypeOK' /\ ServerInv'
    BY <2>1 DEF BindOk, Ws!Start, Goes
  <2>4. ListInv' /\ Usable' = {}
    BY <2>1, <2>2 DEF BindOk
  <2> QED
    BY <2>3, <2>4 DEF BindOk, Goes
<1>5. Inv /\ BindFails => Inv'
  BY BystanderPreserves DEF BindFails, Goes
<1> QED
  BY <1>1, <1>2, <1>3, <1>4, <1>5

LEMMA NextInv == Inv /\ [Next]_vars => Inv'
<1> SUFFICES ASSUME Inv, [Next]_vars PROVE Inv'
  OBVIOUS
<1>1. CASE UNCHANGED vars
  BY <1>1 DEF vars
<1>2. CASE SyncStep
  BY <1>2, SyncPreserves, EvictPreserves, StopPreserves DEF SyncStep
<1>3. CASE RotateToken \/ Toggle \/ SetPort \/ ResetDefaults \/ SaveSettings \/ LoadSettings
           \/ Unload \/ ThrottleExpires
  BY <1>3, SettingsPreserve, StopPreserves
<1>4. ASSUME NEW c \in Conn,
             OpenBegins(c) \/ MessageBegins(c) \/ CloseBegins(c) \/ GoesQuiet(c) \/ ConnStep(c)
      PROVE  Inv'
  BY <1>4, OpenBeginsPreserves, OpenEvictsPreserves, CallbackPreserves, SettingsPreserve
     DEF ConnStep
<1> QED
  BY <1>1, <1>2, <1>3, <1>4 DEF Next

THEOREM InvHolds == Spec => []Inv
<1>1. Init => Inv
  BY InitInv
<1> QED
  BY <1>1, NextInv, PTL DEF Spec

\* Every variable keeps its type.
THEOREM TypeCorrect == Spec => []TypeOK
  BY InvHolds, PTL

\* Two phones may connect at once, in any interleaving of their on_open
\* callbacks with evictions, restarts and closes: at most one survives, but for
\* the moment in which a restart is about to shut both of them down.
THEOREM NewestSessionWins == Spec => []OneSessionSurvives
  BY InvHolds, PTL

\* The dock's client list is the set of live sessions.
THEOREM ClientListIsTrue == Spec => []ClientsAreSessions
<1>1. Inv => ClientsAreSessions
  BY DEF ClientsAreSessions
<1> QED
  BY <1>1, InvHolds, PTL

-----------------------------------------------------------------------------
(* Revocation.  Tokens are made in ascending order, so a new one was never *)
(* revoked; a load that brings a revoked one back takes it out of revoked. *)

\* A step that changes no token and no throttle, and either stays where it
\* was, or was harmless there, or goes on towards a stopped server.
LEMMA BystanderToken ==
  ASSUME TokenInv, up' => up,
         UNCHANGED << token, last_token, saved, revoked, server_token, throttled >>,
         \/ ui' = ui \/ ui \in {"idle", "evict"} \/ ~up'
         \/ ui' \in {"clear", "cleared", "stop", "halt", "unload"}
  PROVE  TokenInv'
  BY DEF TokenInv

LEMMA ServerLifePreservesToken ==
  Inv /\ TokenInv /\ (\/ SyncOff \/ SyncNoToken \/ ClearConns \/ StopOld \/ Halted \/ OldStopped
                      \/ BindOk \/ BindFails \/ Unload) => TokenInv'
<1> SUFFICES ASSUME Inv, TokenInv PROVE
      (\/ SyncOff \/ SyncNoToken \/ ClearConns \/ StopOld \/ Halted \/ OldStopped \/ BindOk
       \/ BindFails \/ Unload)
         => TokenInv'
  OBVIOUS
<1>1. SyncOff => TokenInv'
  BY BystanderToken DEF SyncOff, StopBegins
<1>2. SyncNoToken => TokenInv'
  BY BystanderToken DEF SyncNoToken, StopBegins
<1>3. Unload => TokenInv'
  BY BystanderToken DEF Unload, StopBegins
<1>4. ClearConns \/ StopOld => TokenInv'
  BY BystanderToken DEF ClearConns, StopOld, StopBegins, Goes
<1>5. Halted => TokenInv'
  BY BystanderToken DEF Halted, Ws!Stopped
<1>6. OldStopped => TokenInv'
  BY BystanderToken DEF OldStopped, Ws!Stopped
<1>7. BindOk => TokenInv'
  BY DEF BindOk, TokenInv
<1>8. BindFails => TokenInv'
  BY BystanderToken DEF BindFails, Goes
<1> QED
  BY <1>1, <1>2, <1>3, <1>4, <1>5, <1>6, <1>7, <1>8

LEMMA SettingsPreserveToken ==
  Inv /\ TokenInv /\ (\/ RotateToken \/ Toggle \/ SetPort \/ ResetDefaults \/ SaveSettings
                      \/ LoadSettings \/ ThrottleExpires) => TokenInv'
<1>1. Inv /\ TokenInv /\ RotateToken => TokenInv'
  BY DEF TokenInv, RotateToken, SkipThrottle, Goes
<1>2. TokenInv /\ (Toggle \/ SetPort) => TokenInv'
  BY BystanderToken DEF Toggle, SetPort, Goes
<1>3. Inv /\ TokenInv /\ ResetDefaults => TokenInv'
  BY DEF TokenInv, ResetDefaults
<1>4. TokenInv /\ ThrottleExpires => TokenInv'
  BY DEF TokenInv, ThrottleExpires
<1>5. Inv /\ TokenInv /\ SaveSettings => TokenInv'
  BY DEF TokenInv, SaveSettings
<1>6. Inv /\ TokenInv /\ LoadSettings => TokenInv'
  BY DEF TokenInv, LoadSettings, Goes
<1> QED
  BY <1>1, <1>2, <1>3, <1>4, <1>5, <1>6

LEMMA SyncPreservesToken ==
  Inv /\ TokenInv /\ (SyncRestart \/ SyncEvict \/ EvictEnds \/ \E c \in Conn : EvictOne(c)) => TokenInv'
<1> USE DEF TokenInv, Goes
<1>1. Inv /\ TokenInv /\ SyncRestart => TokenInv'
  <2> SUFFICES ASSUME Inv, TokenInv, SyncRestart PROVE TokenInv'
    OBVIOUS
  <2>1. token' <= last_token' /\ last_token <= last_token' /\ token' \notin revoked
    BY DEF SyncRestart, NewToken, KnownToken
  <2>2. \A k \in revoked \cup saved : k <= last_token'
    BY <2>1 DEF SyncRestart, NewToken, KnownToken
  <2> QED
    BY <2>1, <2>2 DEF SyncRestart
<1>2. Inv /\ TokenInv /\ SyncEvict => TokenInv'
  BY DEF SyncEvict, KnownToken
<1>3. TokenInv /\ EvictEnds => TokenInv'
  BY BystanderToken DEF EvictEnds
<1>4. \A c \in Conn : TokenInv /\ EvictOne(c) => TokenInv'
  BY BystanderToken DEF EvictOne
<1> QED
  BY <1>1, <1>2, <1>3, <1>4

LEMMA CallbackPreservesToken ==
  TokenInv /\ (\E c \in Conn : OpenBegins(c) \/ MessageBegins(c) \/ CloseBegins(c) \/ GoesQuiet(c)
                               \/ ConnStep(c)) => TokenInv'
  BY DEF TokenInv, OpenBegins, MessageBegins, CloseBegins, GoesQuiet, ConnStep, OpenEvicts, OpenEnds,
         MessageEnds, CloseEnds, MeetsStop, Ws!OnOpen, Ws!OpenDone, Ws!OnText, Ws!TextDone, Ws!OnClose,
         Ws!CloseDone, Ws!Becomes

LEMMA NextToken == Inv /\ TokenInv /\ [Next]_vars => TokenInv'
<1> SUFFICES ASSUME Inv, TokenInv, [Next]_vars PROVE TokenInv'
  OBVIOUS
<1>1. CASE UNCHANGED vars
  BY <1>1 DEF vars, TokenInv
<1>2. CASE SyncStep
  BY <1>2, ServerLifePreservesToken, SyncPreservesToken DEF SyncStep
<1>3. CASE \/ RotateToken \/ Toggle \/ SetPort \/ ResetDefaults \/ SaveSettings \/ LoadSettings
           \/ Unload \/ ThrottleExpires
  BY <1>3, SettingsPreserveToken, ServerLifePreservesToken
<1> QED
  BY <1>1, <1>2, <1>3, CallbackPreservesToken DEF Next

\* Rotating the token revokes it: once remote_control_rotate_token is back, no
\* server accepts the old token and no session it admitted is left, whatever
\* the generator, the port, the throttle, the phones and the scene collections
\* did meanwhile, until a load brings that very token back.
THEOREM RevocationHolds == Spec => []RevokedTokenIsDead
<1>1. Init => Inv /\ TokenInv
  BY InitInv
<1>2. Inv /\ TokenInv /\ [Next]_vars => (Inv /\ TokenInv)'
  BY NextInv, NextToken
<1>3. Inv /\ TokenInv => RevokedTokenIsDead
  BY DEF TokenInv, RevokedTokenIsDead
<1> QED
  BY <1>1, <1>2, <1>3, PTL DEF Spec
=============================================================================
