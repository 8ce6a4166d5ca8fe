------------------------------ MODULE DockPoll ------------------------------
(***************************************************************************)
(* The dock's timer runs refresh(), whose last call is remote_control_sync: *)
(* DockOutputs and RemoteMirror share the UI thread, and the phones whose   *)
(* rows DockOutputs sets are the sessions of RemoteMirror, each of them     *)
(* served by one connection thread.                                         *)
(***************************************************************************)
EXTENDS RemoteMirror, DockOutputs

ASSUME OnePhone == Phone = Conn

pollVars == << vars, dockVars >>

\* Bounds: in a history of the outputs the world begins to move when every
\* session is open, no session leaves, and the mirrored values rest; the
\* mirror's poll, which would find nothing to send, is passed over.
PollInit ==
    /\ Init /\ DockInit
    /\ (moves = {} <=> stirs # {})
    /\ (moves = {} => dist = 1 /\ cfg = 1)

OutputsMove == stirs # {} /\ \A c \in Conn : life[c] = "open"

\* The last call of refresh() is the mirror's poll; the thread is then free.
Syncs ==
    /\ step = "remote" /\ stirs = {} /\ SyncStep
    /\ step' = IF ui' = "idle" THEN "sent" ELSE step
    /\ UNCHANGED << stirs, sound, picture, seen >>

PollEnds ==
    /\ step = (IF stirs = {} THEN "sent" ELSE "remote") /\ at[Ui] = "idle"
    /\ step' = "idle" /\ seen' = Nothing
    /\ UNCHANGED << vars, stirs, sound, picture >>

UiStep == Syncs \/ PollEnds \/ (PollStep /\ UNCHANGED vars)

PollNext ==
    \/ UiStep
    \/ OutputsMove /\ WorldStep /\ UNCHANGED vars
    \/ \E c \in Conn : at[c] = "idle" /\ OutputsMove /\ PhoneStep(c) /\ UNCHANGED vars
    \/ /\ ThreadStep /\ UNCHANGED dockVars
       /\ stirs # {} => \A c \in Conn : life[c] = "open" => life'[c] = "open"

PollSpec == PollInit /\ [][PollNext]_pollVars

\* The timer keeps polling, and a send that has begun ends.
FairPollSpec ==
    /\ PollSpec
    /\ WF_pollVars(UiStep)
    /\ \A t \in Thread : WF_pollVars(JobStep(t) /\ UNCHANGED dockVars)
=============================================================================
