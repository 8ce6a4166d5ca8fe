--------------------------- MODULE RemoteButtons ---------------------------
(***************************************************************************)
(* core/remote_control.cpp: mouse buttons the phone holds down.            *)
(* inject_button stores button_down and then calls SendInput;              *)
(* release_held_buttons lifts what is still down when a session closes,    *)
(* and once more when the server was stopped.  Neither takes a lock: each  *)
(* atomic access and each SendInput is a step.  Who may connect is         *)
(* RemoteControl's subject; here a newer session evicts the older ones.    *)
(***************************************************************************)
EXTENDS Naturals

CONSTANTS Conn,     \* sessions one server run sees
          Ui,       \* the UI thread, which stops the server
          Count     \* buttons: left, right, middle

ASSUME Parameters == Ui \notin Conn /\ Count \in Nat \ {0}

Thread == Conn \cup {Ui}
Button == 0..Count - 1

VARIABLES
    sess,         \* each connection thread
    shut,         \* connections whose socket was shut down
    ui,           \* "running", "stopping" (in server.stop()), "lifting", "stopped"
    at, b, down,  \* per thread: where it is in inject_button, its arguments
    button_down,  \* g_remote.button_down
    os_down,      \* the buttons as the operating system sees them
    finger,       \* per session: what the phone's page has pressed
    crossed       \* a history: two sessions were there at once since every
                  \* button was up with nobody there

inject == << at, b, down >>
vars == << sess, shut, ui, inject, button_down, os_down, finger, crossed >>

Types ==
    /\ sess \in [Conn -> {"new", "open", "closing", "closed"}]
    /\ shut \subseteq Conn
    /\ ui \in {"running", "stopping", "lifting", "stopped"}
    /\ at \in [Thread -> {"idle", "load", "store", "send"}]
    /\ b \in [Thread -> Button] /\ down \in [Thread -> BOOLEAN]
    /\ button_down \in [Button -> BOOLEAN] /\ os_down \in [Button -> BOOLEAN]
    /\ finger \in [Conn -> SUBSET Button]

TypeOK == Types /\ crossed \in BOOLEAN

Init ==
    /\ sess = [c \in Conn |-> "new"] /\ shut = {} /\ ui = "running"
    /\ at = [t \in Thread |-> "idle"]
    /\ b = [t \in Thread |-> 0] /\ down = [t \in Thread |-> FALSE]
    /\ button_down = [i \in Button |-> FALSE]
    /\ os_down = [i \in Button |-> FALSE]
    /\ finger = [c \in Conn |-> {}] /\ crossed = FALSE

-----------------------------------------------------------------------------
(* inject_button and release_held_buttons, run by thread t                 *)

\* button_down[...].store(is_down), then SendInput is due.
Store(t, i, is_down) ==
    /\ button_down' = [button_down EXCEPT ![i] = is_down]
    /\ at' = [at EXCEPT ![t] = "send"]
    /\ b' = [b EXCEPT ![t] = i] /\ down' = [down EXCEPT ![t] = is_down]

Lifting(t) == IF t = Ui THEN ui = "lifting" ELSE sess[t] = "closing"

StartLifting(t) ==
    /\ at' = [at EXCEPT ![t] = "load"]
    /\ b' = [b EXCEPT ![t] = 0]
    /\ UNCHANGED down

Buttons_LeftOnly == 1                   \* mutant: only the left button is lifted
Buttons == Count

\* The next turn of release_held_buttons's loop, or its end.
NextButton(t) ==
    IF b[t] + 1 < Buttons
    THEN /\ at' = [at EXCEPT ![t] = "load"] /\ b' = [b EXCEPT ![t] = @ + 1]
         /\ UNCHANGED << sess, ui >>
    ELSE /\ at' = [at EXCEPT ![t] = "idle"] /\ UNCHANGED b
         /\ IF t = Ui THEN ui' = "stopped" /\ UNCHANGED sess
                      ELSE sess' = [sess EXCEPT ![t] = "closed"] /\ UNCHANGED ui

ReleaseLoad(t) ==
    /\ at[t] = "load"
    /\ IF button_down[b[t]]
       THEN at' = [at EXCEPT ![t] = "store"] /\ UNCHANGED << b, sess, ui >>
       ELSE NextButton(t)
    /\ UNCHANGED << down, shut, button_down, os_down, finger, crossed >>

ReleaseStore(t) ==
    /\ at[t] = "store"
    /\ Store(t, b[t], FALSE)
    /\ UNCHANGED << sess, shut, ui, os_down, finger, crossed >>

Sent(t) == down[t]

SendInput(t) ==
    /\ at[t] = "send"
    /\ os_down' = [os_down EXCEPT ![b[t]] = Sent(t)]
    /\ IF Lifting(t) THEN NextButton(t)
       ELSE at' = [at EXCEPT ![t] = "idle"] /\ UNCHANGED << b, sess, ui >>
    /\ UNCHANGED << down, shut, button_down, finger, crossed >>

-----------------------------------------------------------------------------
(* Sessions and the server's stop                                          *)

Gone(c) == sess[c] \in {"new", "closed"}
AllUp == \A i \in Button : ~button_down[i] /\ ~os_down[i]

\* on_open: every older session is closed.
Open(c) ==
    /\ sess[c] = "new" /\ ui = "running"
    /\ sess' = [sess EXCEPT ![c] = "open"]
    /\ shut' = shut \cup {d \in Conn : ~Gone(d)}
    /\ crossed' = ((\E d \in Conn : ~Gone(d)) \/ (crossed /\ ~AllUp))
    /\ UNCHANGED << ui, inject, button_down, os_down, finger >>

\* handle_message, type "btn".
Press(c, i) ==
    /\ sess[c] = "open" /\ c \notin shut /\ at[c] = "idle"
    /\ finger' = [finger EXCEPT ![c] = IF i \in @ THEN @ \ {i} ELSE @ \cup {i}]
    /\ Store(c, i, i \notin finger[c])
    /\ UNCHANGED << sess, shut, ui, os_down, crossed >>

\* on_close: the phone left, in whatever state its page was, or was evicted.
Close(c) ==
    /\ sess[c] = "open" /\ at[c] = "idle"
    /\ sess' = [sess EXCEPT ![c] = "closing"]
    /\ StartLifting(c)
    /\ finger' = [finger EXCEPT ![c] = {}]
    /\ UNCHANGED << shut, ui, button_down, os_down, crossed >>

StopBegins ==
    /\ ui = "running" /\ ui' = "stopping"
    /\ shut' = shut \cup {c \in Conn : ~Gone(c)}
    /\ UNCHANGED << sess, inject, button_down, os_down, finger, crossed >>

StopReturns ==
    /\ ui = "stopping" /\ ui' = "lifting"
    /\ \A c \in Conn : Gone(c)
    /\ StartLifting(Ui)
    /\ UNCHANGED << sess, shut, button_down, os_down, finger, crossed >>

Next ==
    \/ StopBegins \/ StopReturns
    \/ \E t \in Thread : ReleaseLoad(t) \/ ReleaseStore(t) \/ SendInput(t)
    \/ \E c \in Conn : Open(c) \/ Close(c) \/ \E i \in Button : Press(c, i)

Spec == Init /\ [][Next]_vars

-----------------------------------------------------------------------------

\* "A dropped connection would leave the OS button stuck otherwise; on_close
\* releases what is still down" (remote_state::button_down): with no session
\* left, no button is down, unless the sessions overlapped (an evicted session
\* lifts while the new one presses, and button_down has no owner).
NothingStuck ==
    ~crossed /\ (\A c \in Conn : Gone(c)) /\ ui \in {"running", "stopped"} =>
        \A i \in Button : ~os_down[i]

\* Between two messages of the one session there is, the operating system
\* holds exactly the buttons the phone holds: no drag is cut short, unless the
\* session evicted another one.
DragHolds ==
    \A c \in Conn :
        ~crossed /\ sess[c] = "open" /\ at[c] = "idle" =>
            finger[c] = {i \in Button : os_down[i]}
=============================================================================
