-------------------------- MODULE WsServer_proofs --------------------------
(***************************************************************************)
(* Proofs about WsServer, for any number of connections and callers.       *)
(***************************************************************************)
EXTENDS WsServer, TLAPS

\* Who holds which mutex.
MutexInv ==
    /\ \A t \in Thread : call[t].at \in {"conn", "send"} <=> conns_mutex = t
    /\ \A t \in Thread, c \in Conn :
          send_mutex[c] = t <=> \/ call[t].at = "send" /\ call[t].to = c
                                \/ t = c /\ pc[c] \in Sending

\* A call has an established target, its caller is where calls are made
\* from, and the target stays listed from the lookup on.
CallInv ==
    /\ \A t \in Thread : call[t].at # "idle" => /\ call[t].to \in Conn
                                               /\ ws_ready[call[t].to]
    /\ \A c \in Conn : call[c].at # "idle" => pc[c] \in {"on_open", "on_text"}
    /\ \A t \in Caller \cup {Owner} : call[t].at # "idle" => owner = "running"
    /\ TargetStaysListed
    /\ NoSendOnClosedSocket

\* The connection accept_loop is setting up is nobody else's yet.
AcceptInv ==
    /\ acc # None <=> accepting \in {"accepted", "reap", "push", "spawn"}
    /\ acc # None => pc[acc] = "unborn" /\ sock[acc] # "invalid"
    /\ accepting = "spawn" <=> acc \in conns
    /\ \A c \in Conn : pc[c] = "unborn" /\ c # acc => sock[c] = "invalid" /\ c \notin conns

\* The connection's thread, its socket and ws_ready.
ConnInv ==
    /\ \A c \in Conn : pc[c] \in {"exited", "on_close"} => sock[c] = "invalid"
    /\ \A c \in Conn : pc[c] \notin {"unborn", "exited", "on_close"} => sock[c] # "invalid"
    /\ \A c \in Conn : ws_ready[c] => pc[c] \notin {"unborn", "request", "answer", "answering"}
    /\ \A c \in Conn : pc[c] \in {"on_open", "frames", "on_text", "pong", "ponging",
                                  "bye", "byeing", "on_close"} => ws_ready[c]
    /\ RunningThreadsAreHeld

\* stop() has the list to itself once the accept thread is joined.
OwnerInv ==
    /\ owner \in {"pop", "join", "stopped"} => accepting = "exited"
    /\ joining # None <=> owner = "join"
    /\ joining # None => joining \notin conns /\ pc[joining] # "unborn"
    /\ owner = "stopped" => conns = {}

Inv == TypeOK /\ MutexInv /\ CallInv /\ AcceptInv /\ ConnInv /\ OwnerInv

USE ThreadsDiffer, Parameters DEF Thread, Inv, TypeOK, MutexInv, CallInv, AcceptInv, ConnInv, OwnerInv,
    TargetStaysListed, NoSendOnClosedSocket, RunningThreadsAreHeld, Calls, Idle, ConnStates,
    Callbacks, Sending, ownerVars, acceptVars, listVars, callVars, connVars

LEMMA InitInv == Init => Inv
  BY DEF Init

\* Nothing of the old run is left when start() makes a new impl.
LEMMA StartPreserves == Inv /\ Start => Inv'
<1> SUFFICES ASSUME Inv, Start PROVE Inv'
  OBVIOUS
<1>1. \A c \in Conn : pc[c] \in {"unborn", "exited"}
  BY DEF Start
<1>2. \A t \in Thread : call[t].at = "idle"
  <2>1. \A t \in Conn : call[t].at = "idle"
    BY <1>1
  <2>2. \A t \in Caller \cup {Owner} : call[t].at = "idle"
    BY DEF Start
  <2> QED
    BY <2>1, <2>2
<1>3. conns = {} /\ conns_mutex = None /\ joining = None /\ acc = None
  BY <1>2 DEF Start
<1>4. TypeOK' /\ OwnerInv'
  BY <1>3 DEF Start
<1>5. MutexInv'
  BY <1>2, <1>3 DEF Start
<1>6. CallInv' /\ AcceptInv' /\ ConnInv'
  BY <1>2, <1>3 DEF Start
<1> QED
  BY <1>4, <1>5, <1>6

LEMMA StopFlagPreserves == OwnerQuiesces /\ Inv /\ StopFlag => Inv'
  BY DEF StopFlag, StopGoes, CallersEnded

LEMMA StopListenerPreserves == Inv /\ StopListener => Inv'
  BY DEF StopListener, StopGoes, stopping, AcceptThreadEnded

LEMMA StopShutdownPreserves == Inv /\ StopShutdown => Inv'
  BY DEF StopShutdown, StopGoes, stopping, AcceptThreadEnded

LEMMA StopJoinAcceptPreserves == Inv /\ StopJoinAccept => Inv'
  BY DEF StopJoinAccept, StopGoes, stopping, AcceptThreadEnded

LEMMA StopJoinPreserves == Inv /\ StopJoin => Inv'
  BY DEF StopJoin, StopGoes, stopping, AcceptThreadEnded

LEMMA StopDeletePreserves == Inv /\ StopDelete => Inv'
  BY DEF StopDelete, StopGoes, stopping, AcceptThreadEnded

LEMMA StopPopPreserves == ASSUME NEW c \in Conn, Inv, StopPop(c) PROVE Inv'
  BY DEF StopPop, StopGoes

LEMMA AcceptFailsPreserves == Inv /\ AcceptFails => Inv'
  BY DEF AcceptFails, AcceptGoes, stopping, listener, Reapable, ListFree

LEMMA AcceptDroppedPreserves == Inv /\ AcceptDropped => Inv'
  BY DEF AcceptDropped, AcceptGoes, stopping, listener, Reapable, ListFree

LEMMA AcceptKeptPreserves == Inv /\ AcceptKept => Inv'
  BY DEF AcceptKept, AcceptGoes, stopping, listener, Reapable, ListFree

LEMMA ReapFinishedPreserves == Inv /\ ReapFinished => Inv'
  BY DEF ReapFinished, AcceptGoes, stopping, listener, Reapable, ListFree

LEMMA PushConnectionPreserves == Inv /\ PushConnection => Inv'
  BY DEF PushConnection, AcceptGoes, stopping, listener, Reapable, ListFree

LEMMA SpawnThreadPreserves == Inv /\ SpawnThread => Inv'
  BY DEF SpawnThread, AcceptGoes, stopping, listener, Reapable, ListFree

LEMMA AcceptPreserves == ASSUME NEW c \in Conn, Inv, Accept(c) PROVE Inv'
<1>1. TypeOK'
  BY DEF Accept, AcceptGoes, listener
<1>2. MutexInv'
  BY DEF Accept, AcceptGoes, listener
<1>3. CallInv'
  BY DEF Accept, AcceptGoes, listener
<1>4. AcceptInv'
  BY DEF Accept, AcceptGoes, listener
<1>5. ConnInv' /\ OwnerInv'
  BY DEF Accept, AcceptGoes, listener
<1> QED
  BY <1>1, <1>2, <1>3, <1>4, <1>5

LEMMA RecvFailsPreserves == ASSUME NEW c \in Conn, Inv, RecvFails(c) PROVE Inv'
<1>1. CASE Goto(c, "request", "teardown")
  BY <1>1 DEF RecvFails, Goto, ConnGoes
<1>2. CASE Goto(c, "frames", "teardown")
  BY <1>2 DEF RecvFails, Goto, ConnGoes
<1> QED
  BY <1>1, <1>2 DEF RecvFails

LEMMA RecvRequestPreserves == ASSUME NEW c \in Conn, Inv, RecvRequest(c) PROVE Inv'
  BY DEF RecvRequest, AcceptGoes, ConnGoes, Goto, Enter, Leave, Hears, Deaf, SendFree, AfterTeardown, listener, stopping

LEMMA SendBeginsPreserves == ASSUME NEW c \in Conn, Inv, SendBegins(c) PROVE Inv'
<1>1. CASE ConnGoes(c, "answer", "answering")
  BY <1>1 DEF SendBegins, ConnGoes
<1>2. CASE ConnGoes(c, "pong", "ponging")
  BY <1>2 DEF SendBegins, ConnGoes
<1>3. CASE ConnGoes(c, "bye", "byeing")
  BY <1>3 DEF SendBegins, ConnGoes
<1> QED
  BY <1>1, <1>2, <1>3 DEF SendBegins

LEMMA SendEndsPreserves == ASSUME NEW c \in Conn, Inv, SendEnds(c) PROVE Inv'
<1>1. CASE ConnGoes(c, "answering", "teardown")
  BY <1>1 DEF SendEnds, ConnGoes
<1>2. CASE ConnGoes(c, "ponging", "frames")
  BY <1>2 DEF SendEnds, ConnGoes
<1>3. CASE ConnGoes(c, "byeing", "teardown")
  BY <1>3 DEF SendEnds, ConnGoes
<1> QED
  BY <1>1, <1>2, <1>3 DEF SendEnds

LEMMA UpgradedPreserves == ASSUME NEW c \in Conn, Inv, Upgraded(c) PROVE Inv'
  BY DEF Upgraded, AcceptGoes, ConnGoes, Goto, Enter, Leave, Hears, Deaf, SendFree, AfterTeardown, listener, stopping

LEMMA RecvMessagePreserves == ASSUME NEW c \in Conn, Inv, RecvMessage(c) PROVE Inv'
  BY DEF RecvMessage, AcceptGoes, ConnGoes, Goto, Enter, Leave, Hears, Deaf, SendFree, AfterTeardown, listener, stopping

LEMMA CallbackReturnsPreserves == ASSUME NEW c \in Conn, Inv, CallbackReturns(c) PROVE Inv'
<1>1. CASE ConnGoes(c, "on_open", "frames")
  BY <1>1 DEF CallbackReturns, ConnGoes, Leave
<1>2. CASE ConnGoes(c, "on_text", "frames")
  BY <1>2 DEF CallbackReturns, ConnGoes, Leave
<1> QED
  BY <1>1, <1>2 DEF CallbackReturns

LEMMA RecvControlPreserves == ASSUME NEW c \in Conn, Inv, RecvControl(c) PROVE Inv'
  BY DEF RecvControl, AcceptGoes, ConnGoes, Goto, Enter, Leave, Hears, Deaf, SendFree, AfterTeardown, listener, stopping

LEMMA TeardownPreserves == ASSUME NEW c \in Conn, Inv, Teardown(c) PROVE Inv'
  BY DEF Teardown, AcceptGoes, ConnGoes, Goto, Enter, Leave, Hears, Deaf, SendFree, AfterTeardown, listener, stopping

LEMMA OnCloseReturnsPreserves == ASSUME NEW c \in Conn, Inv, OnCloseReturns(c) PROVE Inv'
  BY DEF OnCloseReturns, AcceptGoes, ConnGoes, Goto, Enter, Leave, Hears, Deaf, SendFree, AfterTeardown, listener, stopping

LEMMA PeerTurnsPreserves == ASSUME NEW c \in Conn, Inv, PeerTurns(c) PROVE Inv'
  BY DEF PeerTurns, AcceptGoes, ConnGoes, Goto, Enter, Leave, Hears, Deaf, SendFree, AfterTeardown, listener, stopping

LEMMA CallFindPreserves == ASSUME NEW t \in Thread, Inv, CallFind(t) PROVE Inv'
<1>1. /\ call[t] \in Calls /\ call[t].at = "list" /\ conns_mutex = None
      /\ call[t].to \in Conn /\ ws_ready[call[t].to]
  BY DEF CallFind
<1>2. UNCHANGED << ownerVars, acceptVars, conns, connVars, calls_left >>
  BY DEF CallFind, CallReturns, CallGoes
<1>3. CASE call[t].to \in conns
  <2>1. /\ conns_mutex' = t
        /\ call' = [call EXCEPT ![t] = [at |-> "conn", op |-> call[t].op, to |-> call[t].to]]
    BY <1>1, <1>3 DEF CallFind, CallGoes
  <2> QED
    BY <1>1, <1>2, <1>3, <2>1
<1>4. CASE call[t].to \notin conns
  <2>1. conns_mutex' = None /\ call' = [call EXCEPT ![t] = Idle]
    BY <1>1, <1>4 DEF CallFind, CallReturns
  <2> QED
    BY <1>1, <1>2, <2>1
<1> QED
  BY <1>3, <1>4

LEMMA CloseConnPreserves == ASSUME NEW t \in Thread, Inv, CloseConn(t) PROVE Inv'
  BY DEF CloseConn, CallReturns, CallGoes

LEMMA SendRefusedPreserves == ASSUME NEW t \in Thread, Inv, SendRefused(t) PROVE Inv'
  BY DEF SendRefused, CallReturns, CallGoes

LEMMA SendStartsPreserves == ASSUME NEW t \in Thread, Inv, SendStarts(t) PROVE Inv'
  BY DEF SendStarts, CallReturns, CallGoes

LEMMA SendReturnsPreserves == ASSUME NEW t \in Thread, Inv, SendReturns(t) PROVE Inv'
<1> DEFINE c == call[t].to
<1>1. /\ call[t].at = "send" /\ c \in Conn
      /\ conns_mutex = t /\ send_mutex[c] = t
      /\ \A u \in Thread : u # t => call[u].at \in {"idle", "list"}
  BY DEF SendReturns
<1>2. /\ call' = [call EXCEPT ![t] = Idle] /\ conns_mutex' = None
      /\ send_mutex' = [send_mutex EXCEPT ![c] = None]
      /\ UNCHANGED << ownerVars, acceptVars, conns, pc, sock, ws_ready, peer, calls_left >>
  BY DEF SendReturns, CallReturns
<1>3. TypeOK' /\ CallInv'
  BY <1>1, <1>2
<1>4. MutexInv'
  BY <1>1, <1>2
<1>5. AcceptInv' /\ ConnInv' /\ OwnerInv'
  BY <1>2
<1> QED
  BY <1>3, <1>4, <1>5

LEMMA CallBeginsPreserves ==
  ASSUME OwnerQuiesces, Inv, NEW t \in Thread, NEW o \in {"send", "close"}, NEW c \in Conn,
         Call(t, o, c)
  PROVE  Inv'
<1>1. TypeOK'
  BY DEF Call, MayCall, CallsLeft
<1>2. MutexInv'
  BY DEF Call
<1>3. CallInv'
  BY DEF Call, MayCall
<1>4. AcceptInv' /\ ConnInv' /\ OwnerInv'
  BY DEF Call
<1> QED
  BY <1>1, <1>2, <1>3, <1>4

-----------------------------------------------------------------------------

HIDE DEF Thread, Inv, TypeOK, MutexInv, CallInv, AcceptInv, ConnInv, OwnerInv,
    TargetStaysListed, NoSendOnClosedSocket, RunningThreadsAreHeld, Calls, Idle, ConnStates,
    Callbacks, Sending, ownerVars, acceptVars, listVars, callVars, connVars

LEMMA NextPreserves == ASSUME OwnerQuiesces, Inv, [Next]_vars PROVE Inv'
<1>1. CASE Start \/ StopFlag
  BY <1>1, StartPreserves, StopFlagPreserves
<1>2. CASE StopStep
  BY <1>2, StopListenerPreserves, StopShutdownPreserves, StopJoinAcceptPreserves,
     StopJoinPreserves, StopDeletePreserves, StopPopPreserves DEF StopStep
<1>3. CASE AcceptStep
  BY <1>3, AcceptFailsPreserves, AcceptDroppedPreserves, AcceptKeptPreserves,
     ReapFinishedPreserves, PushConnectionPreserves, SpawnThreadPreserves DEF AcceptStep
<1>4. ASSUME NEW c \in Conn, Accept(c) \/ ConnStep(c) \/ PeerSpeaks(c) \/ PeerTurns(c)
      PROVE  Inv'
  BY <1>4, AcceptPreserves, RecvFailsPreserves, SendBeginsPreserves, SendEndsPreserves,
     UpgradedPreserves, CallbackReturnsPreserves, TeardownPreserves,
     OnCloseReturnsPreserves, RecvRequestPreserves, RecvMessagePreserves,
     RecvControlPreserves, PeerTurnsPreserves DEF ConnStep, PeerSpeaks
<1>5. ASSUME NEW t \in Thread, CallStep(t) PROVE Inv'
  BY <1>5, CallFindPreserves, CloseConnPreserves, SendRefusedPreserves,
     SendStartsPreserves, SendReturnsPreserves DEF CallStep
<1>6. ASSUME NEW t \in Thread, NEW o \in {"send", "close"}, NEW c \in Conn, Call(t, o, c)
      PROVE  Inv'
  BY <1>6, CallBeginsPreserves
<1>7. CASE UNCHANGED vars
  BY <1>7 DEF vars, Thread, Inv, TypeOK, MutexInv, CallInv, AcceptInv, ConnInv, OwnerInv,
     TargetStaysListed, NoSendOnClosedSocket, RunningThreadsAreHeld, ownerVars, acceptVars, listVars,
     callVars, connVars
<1> QED
  BY <1>1, <1>2, <1>3, <1>4, <1>5, <1>6, <1>7 DEF Next

\* The inductive invariant holds throughout, when the owner ends its outside
\* callers before stop().
THEOREM InvHolds == ASSUME OwnerQuiesces PROVE Spec => []Inv
  BY InitInv, NextPreserves, PTL DEF Spec

\* Every variable keeps its type.
THEOREM TypeCorrect == ASSUME OwnerQuiesces PROVE Spec => []TypeOK
<1>1. Inv => TypeOK
  BY DEF Inv
<1> QED
  BY <1>1, InvHolds, PTL

\* No thread writes to a descriptor after teardown closed it.
THEOREM NoSendAfterClose == ASSUME OwnerQuiesces PROVE Spec => []NoSendOnClosedSocket
<1>1. Inv => NoSendOnClosedSocket
  BY DEF Inv, CallInv
<1> QED
  BY <1>1, InvHolds, PTL

\* No connection object is deleted while a caller uses it or its thread runs.
THEOREM ObjectsOutliveTheirUse == ASSUME OwnerQuiesces PROVE Spec => []NoUseAfterDelete
<1>1. Inv => NoUseAfterDelete
  BY DEF Inv, CallInv, ConnInv, NoUseAfterDelete
<1> QED
  BY <1>1, InvHolds, PTL

\* After stop(): no thread, no open descriptor, no call into the server.
THEOREM StopIsComplete ==
  ASSUME OwnerQuiesces PROVE Spec => []StopLeavesNothing
<1>1. ASSUME Inv, owner = "stopped", NEW c \in Conn
      PROVE  pc[c] \in {"unborn", "exited"} /\ sock[c] = "invalid"
  <2>1. conns = {} /\ joining = None /\ acc = None
    BY <1>1 DEF Inv, OwnerInv, AcceptInv
  <2>2. pc[c] \in {"unborn", "exited"}
    BY <1>1, <2>1, ThreadsDiffer DEF Inv, ConnInv, RunningThreadsAreHeld
  <2> QED
    BY <1>1, <2>1, <2>2, ThreadsDiffer DEF Inv, ConnInv, AcceptInv
<1>2. ASSUME Inv, owner = "stopped", NEW t \in Thread PROVE call[t].at = "idle"
  <2>1. CASE t \in Conn
    BY <1>1, <1>2, <2>1 DEF Inv, CallInv
  <2>2. CASE t \in Caller \cup {Owner}
    BY <1>2, <2>2 DEF Inv, CallInv
  <2> QED
    BY <2>1, <2>2 DEF Thread
<1>3. Inv => StopLeavesNothing
  BY <1>1, <1>2 DEF StopLeavesNothing
<1> QED
  BY <1>3, InvHolds, PTL
-----------------------------------------------------------------------------
(* The threads implement WsContract.                                       *)

\* A step that leaves pc and ws_ready alone, and does not start or end the
\* server, is invisible.
LEMMA Invisible ==
  ASSUME UNCHANGED << pc, ws_ready >>, (owner # "stopped") <=> (owner # "stopped")'
  PROVE  UNCHANGED Contract!vars
  BY DEF Contract!vars, LifeOf

\* A connection thread exists only while the server is up.
LEMMA ThreadsNeedServer ==
  ASSUME Inv, NEW c \in Conn, pc[c] \notin {"unborn", "exited"} PROVE owner # "stopped"
  BY ThreadsDiffer DEF Inv, ConnInv, OwnerInv, RunningThreadsAreHeld

\* A step of connection c changes no other connection's life.
LEMMA OneLifeChanges ==
  ASSUME Inv, NEW c \in Conn, pc[c] \notin {"unborn", "exited"},
         pc' = [pc EXCEPT ![c] = pc'[c]], ws_ready' = [ws_ready EXCEPT ![c] = ws_ready'[c]],
         owner' = owner
  PROVE  /\ owner # "stopped" /\ (owner # "stopped")'
         /\ [d \in Conn |-> LifeOf(d)]' = [[d \in Conn |-> LifeOf(d)] EXCEPT ![c] = LifeOf(c)']
<1>1. owner # "stopped"
  BY ThreadsNeedServer
<1>2. \A d \in Conn \ {c} : pc'[d] = pc[d] /\ ws_ready'[d] = ws_ready[d]
  BY DEF Inv, TypeOK
<1>3. \A d \in Conn \ {c} : LifeOf(d)' = LifeOf(d)
  BY <1>2 DEF LifeOf
<1> QED
  BY <1>1, <1>3

LEMMA ConnStepRefines ==
  ASSUME Inv, NEW c \in Conn, ConnStep(c) \/ PeerSpeaks(c)
  PROVE  Contract!Next \/ UNCHANGED Contract!vars
<1> DEFINE life == [d \in Conn |-> LifeOf(d)]
<1>1. /\ pc[c] \notin {"unborn", "exited"} /\ owner' = owner
      /\ pc' = [pc EXCEPT ![c] = pc'[c]]
      /\ ws_ready' = [ws_ready EXCEPT ![c] = ws_ready'[c]]
  BY DEF Inv, TypeOK, ConnStep, PeerSpeaks, RecvFails, SendBegins, SendEnds, Upgraded,
     CallbackReturns, Teardown, OnCloseReturns, RecvRequest, RecvMessage, RecvControl,
     Goto, ConnGoes, ownerVars
<1>2. /\ owner # "stopped" /\ (owner # "stopped")'
      /\ life' = [life EXCEPT ![c] = LifeOf(c)']
  BY <1>1, OneLifeChanges
<1>3. \A from, next : LifeOf(c) = from /\ LifeOf(c)' = next
                       => Contract!Becomes(c, from, next)
  BY <1>2 DEF Contract!Becomes
<1>4. LifeOf(c)' = LifeOf(c) => UNCHANGED Contract!vars
  BY <1>2 DEF Contract!vars
<1>5. CASE Upgraded(c)
  <2>1. LifeOf(c) = "new" /\ LifeOf(c)' = "opening"
    BY <1>5 DEF Inv, TypeOK, ConnInv, Upgraded, ConnGoes, LifeOf, Callbacks
  <2> QED
    BY <1>3, <2>1 DEF Contract!Next, Contract!OnOpen
<1>6. CASE CallbackReturns(c) \/ RecvMessage(c) \/ OnCloseReturns(c)
  <2>1. ws_ready[c] /\ ws_ready'[c]
    BY <1>6 DEF Inv, ConnInv, CallbackReturns, RecvMessage, OnCloseReturns, Goto, ConnGoes
  <2>2. \/ LifeOf(c) = "opening" /\ LifeOf(c)' = "open"
        \/ LifeOf(c) = "reading" /\ LifeOf(c)' = "open"
        \/ LifeOf(c) = "open" /\ LifeOf(c)' = "reading"
        \/ LifeOf(c) = "closing" /\ LifeOf(c)' = "closed"
    BY <1>6, <2>1 DEF Inv, TypeOK, CallbackReturns, RecvMessage, OnCloseReturns,
       Goto, ConnGoes, LifeOf, Callbacks
  <2> QED
    BY <1>3, <2>2 DEF Contract!Next, Contract!OpenDone, Contract!TextDone,
       Contract!OnText, Contract!CloseDone
<1>7. CASE Teardown(c)
  <2>1. CASE ws_ready[c]
    <3>1. LifeOf(c) = "open" /\ LifeOf(c)' = "closing"
      BY <1>7, <2>1 DEF Inv, TypeOK, Teardown, AfterTeardown, ConnGoes, LifeOf, Callbacks
    <3> QED
      BY <1>3, <3>1 DEF Contract!Next, Contract!OnClose
  <2>2. CASE ~ws_ready[c]
    <3>1. LifeOf(c) = "new" /\ LifeOf(c)' = "new"
      BY <1>7, <2>2 DEF Inv, TypeOK, Teardown, AfterTeardown, ConnGoes, LifeOf, Callbacks
    <3> QED
      BY <1>4, <3>1
  <2> QED
    BY <2>1, <2>2
<1>8. CASE RecvFails(c) \/ SendBegins(c) \/ SendEnds(c) \/ RecvRequest(c) \/ RecvControl(c)
  <2>1. /\ pc[c] \notin Callbacks \cup {"exited"} /\ pc'[c] \notin Callbacks \cup {"exited"}
        /\ ws_ready'[c] = ws_ready[c]
    BY <1>8 DEF Inv, TypeOK, RecvFails, SendBegins, SendEnds, RecvRequest, RecvControl,
       Goto, ConnGoes, Callbacks
  <2>2. LifeOf(c)' = LifeOf(c)
    BY <2>1 DEF LifeOf, Callbacks
  <2> QED
    BY <1>4, <2>2
<1> QED
  BY <1>5, <1>6, <1>7, <1>8 DEF ConnStep, PeerSpeaks

LEMMA OwnerStepRefines ==
  ASSUME Inv, Start \/ StopFlag \/ StopStep
  PROVE  Contract!Next \/ UNCHANGED Contract!vars
<1>1. CASE Start
  <2>1. \A c \in Conn : LifeOf(c)' = "new"
    BY <1>1 DEF Start, LifeOf, Callbacks
  <2> QED
    BY <1>1, <2>1 DEF Start, Contract!Next, Contract!Start
<1>2. CASE StopDelete
  <2>1. \A c \in Conn : pc[c] \in {"unborn", "exited"}
    BY <1>2, ThreadsDiffer DEF StopDelete, StopGoes, Inv, OwnerInv, ConnInv, RunningThreadsAreHeld
  <2>2. \A c \in Conn : LifeOf(c) \in {"new", "closed"} /\ LifeOf(c)' = LifeOf(c)
    BY <1>2, <2>1 DEF StopDelete, StopGoes, LifeOf, Callbacks, Inv, ConnInv
  <2> QED
    BY <1>2, <2>2 DEF StopDelete, StopGoes, Contract!Next, Contract!Stopped
<1>3. CASE StopFlag \/ (StopStep /\ ~StopDelete)
  <2>1. UNCHANGED << pc, ws_ready >> /\ owner # "stopped" /\ owner' # "stopped"
    BY <1>3 DEF StopFlag, StopStep, StopListener, StopShutdown, StopJoinAccept, StopPop,
       StopJoin, StopGoes
  <2> QED
    BY <2>1, Invisible
<1> QED
  BY <1>1, <1>2, <1>3 DEF StopStep

LEMMA OtherStepRefines ==
  ASSUME Inv, \/ AcceptStep
              \/ \E c \in Conn : Accept(c) \/ PeerTurns(c)
              \/ \E t \in Thread :
                    CallStep(t) \/ \E o \in {"send", "close"}, c \in Conn : Call(t, o, c)
  PROVE  UNCHANGED Contract!vars
<1>1. CASE AcceptStep /\ SpawnThread
  <2>1. acc \in Conn /\ pc[acc] = "unborn" /\ ~ws_ready[acc]
    BY <1>1 DEF SpawnThread, AcceptGoes, Inv, TypeOK, AcceptInv, ConnInv
  <2>2. UNCHANGED << owner, ws_ready >> /\ pc' = [pc EXCEPT ![acc] = "request"]
    BY <1>1 DEF SpawnThread, AcceptGoes, ownerVars
  <2>3. \A c \in Conn : LifeOf(c)' = LifeOf(c)
    BY <2>1, <2>2 DEF LifeOf, Callbacks, Inv, TypeOK
  <2> QED
    BY <2>2, <2>3 DEF Contract!vars
<1>2. CASE ~(AcceptStep /\ SpawnThread)
  <2>1. UNCHANGED << pc, ws_ready, owner >>
    BY <1>2 DEF AcceptStep, AcceptFails, AcceptDropped, AcceptKept, ReapFinished,
       PushConnection, AcceptGoes, Accept, PeerTurns, CallStep, CallFind, CloseConn,
       SendRefused, SendStarts, SendReturns, Call, ownerVars, connVars
  <2> QED
    BY <2>1, Invisible
<1> QED
  BY <1>1, <1>2

\* ws_server.h's promise about callbacks holds of every interleaving of the
\* threads: on_close once per on_open, and none after stop() has returned.
THEOREM Refinement == ASSUME OwnerQuiesces PROVE Spec => ImplementsContract
<1>1. Init => Contract!Init
  BY DEF Init, Contract!Init, LifeOf, Callbacks
<1>2. ASSUME Inv, [Next]_vars PROVE [Contract!Next]_(Contract!vars)
  <2>1. CASE UNCHANGED vars
    BY <2>1, Invisible DEF vars, ownerVars, connVars
  <2> QED
    BY <1>2, <2>1, ConnStepRefines, OwnerStepRefines, OtherStepRefines DEF Next
<1> QED
  BY <1>1, <1>2, InvHolds, PTL DEF Spec, ImplementsContract, Contract!Spec

=============================================================================
