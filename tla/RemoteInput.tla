---------------------------- MODULE RemoteInput ----------------------------
(***************************************************************************)
(* core/remote_control.cpp: what handle_message injects, put together.  A  *)
(* session thread handles one message at a time, so it presses no button,  *)
(* and does not run its on_close, while it types a text; other sessions,   *)
(* and the threads that put the clipboard back, run meanwhile.             *)
(***************************************************************************)
EXTENDS RemoteButtons, RemoteClipboard

CONSTANT Histories  \* bound: the message types that may come in one history

VARIABLES
    types,          \* those of this history
    typist          \* the sessions whose thread is in inject_text

inputVars == << vars, clipVars, types, typist >>

InputInit == Init /\ ClipInit /\ types \in Histories /\ typist = {}

\* RemoteButtons moves; a thread that types stays where it is.
ButtonStep ==
    /\ Next
    /\ "btn" \in types \/ finger' \in [Conn -> {{}}]
    /\ \A c \in typist : at'[c] = at[c] /\ sess'[c] = sess[c]
    /\ UNCHANGED << clipVars, types, typist >>

\* A "text" message of an open session.
TextStep(c) ==
    /\ "text" \in types
    /\ sess[c] = "open" /\ c \notin shut /\ at[c] = "idle"
    /\ \E t \in Text : Receive(t)
    /\ typist' = {c}
    /\ UNCHANGED << vars, types >>

\* inject_text goes on, on its session's thread, and returns.
TypingStep ==
    /\ Save \/ Set \/ PressCtrlV \/ Spawn
    /\ typist' = IF typing' = "idle" THEN {} ELSE typist
    /\ UNCHANGED << vars, types >>

\* Other threads: the target application, the detached restores, the user.
ElsewhereStep ==
    /\ \/ TargetReads
       \/ \E r \in restores : SleepEnds(r) \/ Restore(r)
       \/ \E c \in Copy : UserCopies(c)
    /\ UNCHANGED << vars, types, typist >>

InputNext == ButtonStep \/ TypingStep \/ ElsewhereStep \/ \E c \in Conn : TextStep(c)

InputSpec == InputInit /\ [][InputNext]_inputVars
=============================================================================
