----------------------------- MODULE WsServer -----------------------------
(***************************************************************************)
(* core/ws_server.cpp: the accept thread, one thread per connection, the   *)
(* owner that starts and stops the server, and every thread that calls     *)
(* send_text / close_conn.  A behaviour is start(), connections, stop(),   *)
(* start() again with a fresh impl, and so on.                             *)
(*                                                                         *)
(* Data left out: the bytes of requests and frames.  What a peer sends is  *)
(* any of the cases the code tells apart.  A peer is "reading", "stalled"  *)
(* (its receive window is full, a blocking send to it does not return) or  *)
(* "gone".  Connection ids are the elements of Conn, each used once per    *)
(* server run.                                                             *)
(***************************************************************************)
EXTENDS Naturals

CONSTANTS Conn,            \* connections one server run may accept
          Caller,          \* threads outside the server that call send_text
          Owner,           \* the thread that calls start() and stop()
          None,
          PeerStalls,      \* may a peer stop reading?
          OwnerQuiesces,   \* does the owner end its Callers before stop()?
          CallsPerCallback \* bound: calls one callback makes into the server

ASSUME ThreadsDiffer ==
    /\ Owner \notin Conn \cup Caller \cup {None}
    /\ None \notin Conn \cup Caller
    /\ Conn \cap Caller = {}

ASSUME Parameters ==
    PeerStalls \in BOOLEAN /\ OwnerQuiesces \in BOOLEAN /\ CallsPerCallback \in Nat

Thread == Conn \cup Caller \cup {Owner}

VARIABLES
    owner,       \* progress of start() / stop()
    joining,     \* the connection stop() popped and is joining
    accepting,   \* progress of accept_loop
    acc,         \* the connection accept_loop is setting up
    conns,       \* impl::conns
    conns_mutex, \* impl::conns_mutex: its holder across a blocking call
    send_mutex,  \* connection::send_mutex, the same
    pc,          \* progress of run_connection; "exited": done is set
    sock,        \* connection::sock: "open", "shut" (after shutdown), "invalid"
    ws_ready,    \* connection::ws_ready
    peer,        \* the other end
    call,        \* each thread's call into send_text / close_conn
    calls_left   \* calls a running callback may still make

ownerVars == << owner, joining >>
acceptVars == << accepting, acc >>
listVars == << conns, conns_mutex >>
connVars == << send_mutex, pc, sock, ws_ready, peer >>
callVars == << call, calls_left >>
vars == << ownerVars, acceptVars, listVars, connVars, callVars >>

Callbacks == {"on_open", "on_text", "on_close"}
Sending == {"answering", "ponging", "byeing"}    \* this thread holds send_mutex
ConnStates == {"unborn", "request", "answer", "frames", "pong", "bye",
               "teardown", "exited"} \cup Callbacks \cup Sending

Idle == [at |-> "idle", op |-> "send", to |-> None]
Calls == [at : {"idle", "list", "conn", "send"}, op : {"send", "close"},
          to : Conn \cup {None}]

TypeOK ==
    /\ owner \in {"stopped", "running", "flagged", "closing", "join_accept",
                  "pop", "join"}
    /\ joining \in Conn \cup {None}
    /\ accepting \in {"accept", "accepted", "reap", "push", "spawn", "exited"}
    /\ acc \in Conn \cup {None}
    /\ conns \in SUBSET Conn
    /\ conns_mutex \in Thread \cup {None}
    /\ send_mutex \in [Conn -> Thread \cup {None}]
    /\ pc \in [Conn -> ConnStates]
    /\ sock \in [Conn -> {"open", "shut", "invalid"}]
    /\ ws_ready \in [Conn -> BOOLEAN]
    /\ peer \in [Conn -> {"reading", "stalled", "gone"}]
    /\ call \in [Thread -> Calls]
    /\ calls_left \in [Conn -> 0..CallsPerCallback]

Init ==
    /\ owner = "stopped" /\ joining = None
    /\ accepting = "exited" /\ acc = None
    /\ conns = {} /\ conns_mutex = None
    /\ send_mutex = [c \in Conn |-> None]
    /\ pc = [c \in Conn |-> "unborn"]
    /\ sock = [c \in Conn |-> "invalid"]
    /\ ws_ready = [c \in Conn |-> FALSE]
    /\ peer = [c \in Conn |-> "reading"]
    /\ call = [t \in Thread |-> Idle]
    /\ calls_left = [c \in Conn |-> 0]

-----------------------------------------------------------------------------
(* start() and stop()                                                      *)

\* impl::stopping, set first by stop().
stopping == owner \notin {"stopped", "running"}

\* The listening socket is open.
listener_LeftOpen == owner # "stopped"     \* mutant: stop() does not close it
listener == owner \in {"running", "flagged"}

\* focus_watch_stop() joins the outside caller before stop() when the remote
\* is switched off; OwnerQuiesces = FALSE is the restart on a new token.
CallersEnded == OwnerQuiesces => \A t \in Caller : call[t].at = "idle"

AcceptThreadEnded_No == TRUE               \* mutant: accept_thread is not joined
AcceptThreadEnded == accepting = "exited"

Start ==
    /\ owner = "stopped"
    /\ owner' = "running"
    /\ accepting' = "accept"
    /\ send_mutex' = [c \in Conn |-> None]
    /\ pc' = [c \in Conn |-> "unborn"]
    /\ sock' = [c \in Conn |-> "invalid"]
    /\ ws_ready' = [c \in Conn |-> FALSE]
    /\ peer' = [c \in Conn |-> "reading"]
    /\ UNCHANGED << joining, acc, listVars, callVars >>

\* stop() moves on and touches nothing else.
StopGoes(from, next) ==
    /\ owner = from
    /\ owner' = next
    /\ UNCHANGED << acceptVars, conns_mutex, send_mutex, pc, ws_ready, peer, callVars >>

StopFlag ==
    /\ StopGoes("running", "flagged")
    /\ call[Owner].at = "idle" /\ CallersEnded
    /\ UNCHANGED << joining, conns, sock >>

StopListener == StopGoes("flagged", "closing") /\ UNCHANGED << joining, conns, sock >>

\* The loop over conns: every connection listed now is shut down.
StopShutdown ==
    /\ StopGoes("closing", "join_accept")
    /\ conns_mutex = None
    /\ sock' = [c \in Conn |-> IF c \in conns /\ sock[c] = "open" THEN "shut"
                               ELSE sock[c]]
    /\ UNCHANGED << joining, conns >>

StopJoinAccept ==
    /\ StopGoes("join_accept", "pop")
    /\ AcceptThreadEnded
    /\ UNCHANGED << joining, conns, sock >>

\* conns.front() in the code; which one goes first makes no difference here.
StopPop(c) ==
    /\ StopGoes("pop", "join")
    /\ conns_mutex = None /\ c \in conns
    /\ conns' = conns \ {c}
    /\ joining' = c
    /\ UNCHANGED sock

StopJoin ==
    /\ StopGoes("join", "pop")
    /\ pc[joining] = "exited"
    /\ joining' = None
    /\ UNCHANGED << conns, sock >>

\* conns is empty: delete impl_, running_ = false.
StopDelete ==
    /\ StopGoes("pop", "stopped")
    /\ conns_mutex = None /\ conns = {}
    /\ UNCHANGED << joining, conns, sock >>

StopStep ==
    \/ StopListener \/ StopShutdown \/ StopJoinAccept \/ StopJoin \/ StopDelete
    \/ \E c \in Conn : StopPop(c)

-----------------------------------------------------------------------------
(* accept_loop                                                             *)

AcceptGoes(from, next) ==
    /\ accepting = from
    /\ accepting' = next
    /\ UNCHANGED << ownerVars, conns_mutex, send_mutex, ws_ready, peer, callVars >>

Accept(c) ==
    /\ AcceptGoes("accept", "accepted")
    /\ listener /\ pc[c] = "unborn"
    /\ sock' = [sock EXCEPT ![c] = "open"]
    /\ acc' = c
    /\ UNCHANGED << conns, pc >>

\* accept() fails once stop() has closed the listener; any other failure ends
\* the thread just so.
AcceptFails ==
    /\ AcceptGoes("accept", "exited")
    /\ UNCHANGED << acc, conns, sock, pc >>

\* if (stopping) { closesocket(s); return; }
AcceptDropped ==
    /\ AcceptGoes("accepted", "exited")
    /\ stopping
    /\ sock' = [sock EXCEPT ![acc] = "invalid"]
    /\ acc' = None
    /\ UNCHANGED << conns, pc >>

AcceptKept ==
    /\ AcceptGoes("accepted", "reap")
    /\ ~stopping
    /\ UNCHANGED << acc, conns, sock, pc >>

\* done is the thread's last store, so the join in the loop does not wait.
Reapable_BySocket(c) == sock[c] = "invalid"  \* mutant: goes by the closed socket
Reapable(c) == pc[c] = "exited"

ListFree == conns_mutex = None

ReapFinished ==
    /\ AcceptGoes("reap", "push")
    /\ ListFree
    /\ conns' = {c \in conns : ~Reapable(c)}
    /\ UNCHANGED << acc, sock, pc >>

PushConnection ==
    /\ AcceptGoes("push", "spawn")
    /\ conns_mutex = None
    /\ conns' = conns \cup {acc}
    /\ UNCHANGED << acc, sock, pc >>

SpawnThread ==
    /\ AcceptGoes("spawn", "accept")
    /\ pc' = [pc EXCEPT ![acc] = "request"]
    /\ acc' = None
    /\ UNCHANGED << conns, sock >>

AcceptStep ==
    \/ AcceptFails \/ AcceptDropped \/ AcceptKept \/ ReapFinished
    \/ PushConnection \/ SpawnThread

-----------------------------------------------------------------------------
(* run_connection: handle_request, frame_loop, teardown                    *)

Hears(c) == sock[c] = "open" /\ peer[c] # "gone"     \* recv_exact may succeed

Deaf(c) == sock[c] = "shut" \/ peer[c] = "gone"      \* recv_exact fails

Jammed(c) == sock[c] = "open" /\ peer[c] = "stalled" \* a send blocks

ConnGoes(c, from, next) ==
    /\ pc[c] = from
    /\ pc' = [pc EXCEPT ![c] = next]
    /\ UNCHANGED << ownerVars, acceptVars, listVars >>

Goto(c, from, next) ==
    ConnGoes(c, from, next) /\ UNCHANGED << send_mutex, sock, ws_ready, peer, callVars >>

\* A callback of the owner of the server starts, and returns.
Enter(c) == /\ calls_left' = [calls_left EXCEPT ![c] = CallsPerCallback]
            /\ UNCHANGED call
Leave(c) == /\ call[c].at = "idle"
            /\ calls_left' = [calls_left EXCEPT ![c] = 0]
            /\ UNCHANGED call

RecvFails(c) ==
    /\ Goto(c, "request", "teardown") \/ Goto(c, "frames", "teardown")
    /\ Deaf(c)

\* The header block is complete (or too long).
RecvRequest(c) == Goto(c, "request", "answer") /\ Hears(c)

\* send_mutex is held over the answer, a pong, a closing frame.
SendBegins(c) ==
    /\ \/ ConnGoes(c, "answer", "answering")
       \/ ConnGoes(c, "pong", "ponging")
       \/ ConnGoes(c, "bye", "byeing")
    /\ send_mutex[c] = None
    /\ send_mutex' = [send_mutex EXCEPT ![c] = c]
    /\ UNCHANGED << sock, ws_ready, peer, callVars >>

\* "answering" ends here for 403, 404, 400, a served page or a failed send.
SendEnds(c) ==
    /\ \/ ConnGoes(c, "answering", "teardown")
       \/ ConnGoes(c, "ponging", "frames")
       \/ ConnGoes(c, "byeing", "teardown")
    /\ ~Jammed(c)
    /\ send_mutex' = [send_mutex EXCEPT ![c] = None]
    /\ UNCHANGED << sock, ws_ready, peer, callVars >>

\* 101 is out; ws_ready = true and on_open is called.
Upgraded(c) ==
    /\ ConnGoes(c, "answering", "on_open")
    /\ Hears(c) /\ ~Jammed(c)
    /\ send_mutex' = [send_mutex EXCEPT ![c] = None]
    /\ ws_ready' = [ws_ready EXCEPT ![c] = TRUE]
    /\ Enter(c)
    /\ UNCHANGED << sock, peer >>

\* A whole text or binary message: its callback runs on this thread.
RecvMessage(c) ==
    /\ ConnGoes(c, "frames", "on_text")
    /\ Hears(c)
    /\ Enter(c)
    /\ UNCHANGED << send_mutex, sock, ws_ready, peer >>

CallbackReturns(c) ==
    /\ ConnGoes(c, "on_open", "frames") \/ ConnGoes(c, "on_text", "frames")
    /\ Leave(c)
    /\ UNCHANGED << send_mutex, sock, ws_ready, peer >>

\* A ping, a close frame, or a frame that breaks the protocol.
RecvControl(c) ==
    /\ \E next \in {"pong", "bye", "teardown"} : Goto(c, "frames", next)
    /\ Hears(c)

SendFree_No(c) == TRUE              \* mutant: closesocket without send_mutex
SendFree(c) == send_mutex[c] = None

AfterTeardown_Always(c) == "on_close"     \* mutant: was_ws is not asked
AfterTeardown(c) == IF ws_ready[c] THEN "on_close" ELSE "exited"

\* shutdown, closesocket and INVALID_SOCKET under send_mutex.
Teardown(c) ==
    /\ ConnGoes(c, "teardown", AfterTeardown(c))
    /\ SendFree(c)
    /\ sock' = [sock EXCEPT ![c] = "invalid"]
    /\ peer' = [peer EXCEPT ![c] = "gone"]
    /\ UNCHANGED << send_mutex, ws_ready, callVars >>

\* No on_close of this code calls back into the server.
OnCloseReturns(c) == Goto(c, "on_close", "exited")

\* What the thread does without waiting for its peer to speak.
ConnStep(c) ==
    \/ RecvFails(c) \/ SendBegins(c) \/ SendEnds(c) \/ Upgraded(c)
    \/ CallbackReturns(c) \/ Teardown(c) \/ OnCloseReturns(c)

PeerSpeaks(c) == RecvRequest(c) \/ RecvMessage(c) \/ RecvControl(c)

PeerTurns(c) ==
    /\ pc[c] \notin {"unborn", "exited"}
    /\ peer[c] # "gone"
    /\ \E p \in {"reading", "gone"} \cup (IF PeerStalls THEN {"stalled"} ELSE {}) :
          peer' = [peer EXCEPT ![c] = p]
    /\ UNCHANGED << ownerVars, acceptVars, listVars, send_mutex, pc, sock,
                    ws_ready, callVars >>

-----------------------------------------------------------------------------
(* send_text and close_conn                                                *)

\* Who is in a position to call: a callback, the owner between start() and
\* stop(), an outside thread that finds impl_ set.
CallsLeft(t) == calls_left[t] > 0

MayCall(t) ==
    \/ t \in Conn /\ pc[t] \in {"on_open", "on_text"} /\ CallsLeft(t)
    \/ t = Owner /\ owner = "running"
    \/ t \in Caller /\ (owner = "running" \/ (~OwnerQuiesces /\ owner # "stopped"))

\* Ids reach callers through on_open: the target was established once.
Call(t, o, c) ==
    /\ MayCall(t)
    /\ call[t].at = "idle"
    /\ ws_ready[c]
    /\ call' = [call EXCEPT ![t] = [at |-> "list", op |-> o, to |-> c]]
    /\ calls_left' = IF t \in Conn THEN [calls_left EXCEPT ![t] = @ - 1]
                     ELSE calls_left
    /\ UNCHANGED << ownerVars, acceptVars, listVars, connVars >>

CallReturns(t) == call' = [call EXCEPT ![t] = Idle] /\ UNCHANGED calls_left
CallGoes(t, next) == /\ call' = [call EXCEPT ![t] = [@ EXCEPT !.at = next]]
                     /\ UNCHANGED calls_left

\* conns_mutex is taken and the connection looked up.
CallFind(t) ==
    /\ call[t].at = "list"
    /\ conns_mutex = None
    /\ \/ call[t].to \in conns /\ CallGoes(t, "conn") /\ conns_mutex' = t
       \/ call[t].to \notin conns /\ CallReturns(t) /\ UNCHANGED conns_mutex
    /\ UNCHANGED << ownerVars, acceptVars, conns, connVars >>

CloseConn(t) ==
    LET c == call[t].to IN
    /\ call[t].at = "conn" /\ call[t].op = "close"
    /\ send_mutex[c] = None
    /\ sock' = [sock EXCEPT ![c] = IF @ = "open" THEN "shut" ELSE @]
    /\ conns_mutex' = None
    /\ CallReturns(t)
    /\ UNCHANGED << ownerVars, acceptVars, conns, send_mutex, pc, ws_ready, peer >>

\* locked_send_frame refuses a closed socket.
SendRefused(t) ==
    LET c == call[t].to IN
    /\ call[t].at = "conn" /\ call[t].op = "send"
    /\ send_mutex[c] = None /\ sock[c] = "invalid"
    /\ conns_mutex' = None
    /\ CallReturns(t)
    /\ UNCHANGED << ownerVars, acceptVars, conns, connVars >>

SendStarts(t) ==
    LET c == call[t].to IN
    /\ call[t].at = "conn" /\ call[t].op = "send"
    /\ send_mutex[c] = None /\ sock[c] # "invalid"
    /\ send_mutex' = [send_mutex EXCEPT ![c] = t]
    /\ CallGoes(t, "send")
    /\ UNCHANGED << ownerVars, acceptVars, listVars, pc, sock, ws_ready, peer >>

SendReturns(t) ==
    LET c == call[t].to IN
    /\ call[t].at = "send"
    /\ ~Jammed(c)
    /\ send_mutex' = [send_mutex EXCEPT ![c] = None]
    /\ conns_mutex' = None
    /\ CallReturns(t)
    /\ UNCHANGED << ownerVars, acceptVars, conns, pc, sock, ws_ready, peer >>

CallStep(t) ==
    CallFind(t) \/ CloseConn(t) \/ SendRefused(t) \/ SendStarts(t) \/ SendReturns(t)

-----------------------------------------------------------------------------

Next ==
    \/ Start \/ StopFlag \/ StopStep \/ AcceptStep
    \/ \E c \in Conn : Accept(c) \/ ConnStep(c) \/ PeerSpeaks(c) \/ PeerTurns(c)
    \/ \E t \in Thread :
          CallStep(t) \/ \E o \in {"send", "close"}, c \in Conn : Call(t, o, c)

Spec == Init /\ [][Next]_vars

\* Every thread that is again and again able to run does run, so no waiter
\* for a mutex starves.  A peer owes nothing, and nobody has to call start()
\* or stop().
FairSpec ==
    /\ Spec
    /\ SF_vars(StopStep \/ CallStep(Owner))
    /\ SF_vars(AcceptStep /\ (listener => accepting # "accept"))
    /\ \A c \in Conn : SF_vars(ConnStep(c) \/ CallStep(c))
    /\ \A t \in Caller : SF_vars(CallStep(t))

-----------------------------------------------------------------------------
(* What the server owes its owner                                          *)

\* "always called once per conn that reached on_open" and "After stop()
\* returns no callback is running or will run" (ws_server.h): the threads
\* implement the life cycle of WsContract.
LifeOf(c) ==
    CASE pc[c] = "on_open" -> "opening"
      [] pc[c] = "on_text" -> "reading"
      [] pc[c] = "on_close" -> "closing"
      [] pc[c] = "exited" /\ ws_ready[c] -> "closed"
      [] pc[c] \notin Callbacks \cup {"exited"} /\ ws_ready[c] -> "open"
      [] OTHER -> "new"

Contract == INSTANCE WsContract WITH up <- (owner # "stopped"),
                                     life <- [c \in Conn |-> LifeOf(c)]
ImplementsContract == Contract!Spec

\* When stop() has deleted impl_ every connection thread has ended, every
\* descriptor accept() handed out is closed, and no thread is inside
\* send_text or close_conn.
StopLeavesNothing ==
    owner = "stopped" =>
        /\ \A c \in Conn : pc[c] \in {"unborn", "exited"} /\ sock[c] = "invalid"
        /\ \A t \in Thread : call[t].at = "idle"

\* A send in progress never writes to a descriptor that teardown has closed
\* and the system may have given to someone else.
NoSendOnClosedSocket ==
    /\ \A t \in Thread : call[t].at = "send" => sock[call[t].to] # "invalid"
    /\ \A c \in Conn : pc[c] \in Sending => sock[c] # "invalid"

\* The connection object a caller looked up stays listed, so neither the
\* reaper nor stop() deletes it under the caller.
TargetStaysListed ==
    \A t \in Thread : call[t].at \in {"conn", "send"} => call[t].to \in conns

\* A std::thread is destroyed only after it was joined: a running connection
\* thread is in conns or in the hands of stop().
RunningThreadsAreHeld ==
    \A c \in Conn : pc[c] \notin {"unborn", "exited"} => c \in conns \cup {joining}

\* reap_finished and stop() delete a connection object only when no caller of
\* send_text or close_conn uses it and its own thread has ended.
NoUseAfterDelete == TargetStaysListed /\ RunningThreadsAreHeld

\* A connection stop() waits for and never shut down.
MissedByStop ==
    \E c \in Conn : /\ owner \in {"join_accept", "pop", "join"}
                    /\ c \in conns \cup {joining}
                    /\ sock[c] = "open"

\* stop() returns, unless a connection that missed its shutdown loop is kept
\* open by its peer for ever.
StopReturnsUnlessMissed ==
    <>[]MissedByStop \/ ((owner = "flagged") ~> (owner = "stopped"))

\* "Stops accepting, closes all connections, joins all threads."
StopReturns == (owner = "flagged") ~> (owner = "stopped")
=============================================================================
