---------------------------- MODULE WsContract ----------------------------
(***************************************************************************)
(* What ws_server.h promises the owner of a ws_server (the phone remote,   *)
(* the browser-audio ingest): the life of every connection as its          *)
(* callbacks see it, and what holds once stop() has returned.              *)
(***************************************************************************)

CONSTANT Conn          \* the connections one server run may accept

VARIABLES up,          \* the server is running (start() .. stop() returns)
          life         \* each connection as the callbacks see it

vars == << up, life >>

\* "opening" / "reading" / "closing": on_open / on_text / on_close is running.
Lives == {"new", "opening", "open", "reading", "closing", "closed"}
InCallback == {"opening", "reading", "closing"}

Init == up = FALSE /\ life = [c \in Conn |-> "new"]

Start == ~up /\ up' = TRUE /\ life' = [c \in Conn |-> "new"]

Becomes(c, from, to) ==
    /\ up
    /\ life[c] = from
    /\ life' = [life EXCEPT ![c] = to]
    /\ UNCHANGED up

OnOpen(c)      == Becomes(c, "new", "opening")
OpenDone(c)    == Becomes(c, "opening", "open")
OnText(c)      == Becomes(c, "open", "reading")
TextDone(c)    == Becomes(c, "reading", "open")
OnClose(c)     == Becomes(c, "open", "closing")
CloseDone(c)   == Becomes(c, "closing", "closed")

\* stop() returns: every connection that was opened has had its on_close.
Stopped ==
    /\ up
    /\ \A c \in Conn : life[c] \in {"new", "closed"}
    /\ up' = FALSE
    /\ UNCHANGED life

Next ==
    \/ Start \/ Stopped
    \/ \E c \in Conn : \/ OnOpen(c) \/ OpenDone(c) \/ OnText(c)
                       \/ TextDone(c) \/ OnClose(c) \/ CloseDone(c)

Spec == Init /\ [][Next]_vars
=============================================================================
