---------------------------- MODULE FrontendNet -----------------------------
(***************************************************************************)
(* The connections of the frontend_net filter                              *)
(* (src/src/filter_frontend_net.cpp): a ZAssocChild object for each client *)
(* connection, the requests it hands to the thread pool, and how the       *)
(* object goes away; and process(), the socket loop, with its two signals. *)
(* Everything here but a worker taking a message runs in the socket loop,  *)
(* one handler at a time.                                                  *)
(*                                                                         *)
(* The thread pool is used through its service (ThreadPoolService).  The   *)
(* socket layer (yazpp, external) calls recv_GDU, failNotify and           *)
(* timeoutNotify; close() makes it shut the connection down once pending   *)
(* output is written, and call failNotify then.                            *)
(***************************************************************************)
EXTENDS Naturals, Sequences, FiniteSets, SequencesExt

CONSTANTS
    Conns,         \* client connections, each used once
    Peers,         \* client addresses
    PeerOf,        \* [Conns -> Peers]
    Msgs,          \* ThreadPoolPackage objects
    ConnectTotal,  \* the value of connect-total
    LocalAnswers   \* stat-req or http-req-max is configured

ASSUME ConnsAssumption == PeerOf \in [Conns -> Peers]
ASSUME SomeConnAssumption == Conns # {}
ASSUME LimitAssumption == ConnectTotal \in Nat /\ LocalAnswers \in BOOLEAN

VARIABLES
    conn,      \* the TCP connection: "none", "open", "shut"
    closing,   \* close() was called, failNotify is due
    alive,     \* the ZAssocChild object exists
    closed,    \* m_session.is_closed()
    noReq,     \* m_no_requests
    peerStat,  \* m_peerStat
    owner,     \* m_assoc_child of each message that was put
    last,      \* messages whose package signals the end of the session
    queue, running, answered, dropped,  \* the thread pool
    told,      \* sessions whose end the filters have been told of
    cut,       \* connections answered and deleted by recv_GDU itself
    listening, \* the listening sockets are open
    loop       \* process(): "running", "returned" (SIGTERM, the pool is left
               \* as it is), "done" (the pool is destroyed)

pool == <<queue, running, answered, dropped>>
child == <<closing, alive, closed, noReq, peerStat>>
server == <<listening, loop>>
vars == <<conn, closing, alive, closed, noReq, peerStat, owner, last, queue,
          running, answered, dropped, told, cut, listening, loop>>

Pool == INSTANCE ThreadPoolService WITH closed <- loop = "done"

Pending == ToSet(queue) \cup running
MsgsOf(c) == {m \in Pending : owner[m] = c}
Unused == Msgs \ (Pending \cup answered \cup dropped)

\* new ThreadPoolPackage: which of the unused ones does not matter
NewMsg == CHOOSE m \in Unused : TRUE

TypeOK ==
    /\ conn \in [Conns -> {"none", "open", "shut"}]
    /\ closing \in [Conns -> BOOLEAN]
    /\ alive \in [Conns -> BOOLEAN]
    /\ closed \in [Conns -> BOOLEAN]
    /\ noReq \in [Conns -> Nat]
    /\ peerStat \in [Peers -> Nat]
    /\ owner \in [Msgs -> Conns]
    /\ last \subseteq Msgs
    /\ queue \in Seq(Msgs)
    /\ running \subseteq Msgs
    /\ answered \subseteq Msgs
    /\ dropped \subseteq Msgs
    /\ told \subseteq Conns
    /\ cut \subseteq Conns
    /\ listening \in BOOLEAN
    /\ loop \in {"running", "returned", "done"}

Init ==
    /\ conn = [c \in Conns |-> "none"]
    /\ closing = [c \in Conns |-> FALSE]
    /\ alive = [c \in Conns |-> FALSE]
    /\ closed = [c \in Conns |-> FALSE]
    /\ noReq = [c \in Conns |-> 0]
    /\ peerStat = [p \in Peers |-> 0]
    /\ owner = [m \in Msgs |-> CHOOSE c \in Conns : TRUE]
    /\ last = {}
    /\ listening = TRUE
    /\ loop = "running"
    /\ Pool!Init
    /\ told = {}
    /\ cut = {}

-----------------------------------------------------------------------------
\* PeerStat::add in the constructor, PeerStat::remove in the destructor
PeerAdd(c) == peerStat' = [peerStat EXCEPT ![PeerOf[c]] = @ + 1]
PeerRemove(c) == peerStat' = [peerStat EXCEPT ![PeerOf[c]] = @ - 1]

\* ZAssocServer::sessionNotify, with room under connect-total (connect-max only
\* refuses more connections).
RoomFor(c) == peerStat[PeerOf[c]] < ConnectTotal

\* new ZAssocChild
NewChild(c) ==
    /\ conn' = [conn EXCEPT ![c] = "open"]
    /\ alive' = [alive EXCEPT ![c] = TRUE]
    /\ PeerAdd(c)

SessionNotify(c) ==
    /\ loop = "running" /\ listening
    /\ conn[c] = "none"
    /\ RoomFor(c)
    /\ NewChild(c)
    /\ UNCHANGED <<closing, closed, noReq, owner, last, pool, told, cut,
                   server>>

\* A handler of connection c may be called.
Ready(c) == loop = "running" /\ conn[c] = "open" /\ alive[c]

\* ZAssocChild::recv_GDU: the request goes to the pool.
RecvGDU(c) ==
    /\ Ready(c)
    /\ Unused # {}
    /\ noReq' = [noReq EXCEPT ![c] = @ + 1]
    /\ owner' = [owner EXCEPT ![NewMsg] = c]
    /\ last' = IF closed[c] THEN last \cup {NewMsg} ELSE last
    /\ UNCHANGED <<conn, closing, alive, closed, peerStat, told, cut, server>>
    /\ Pool!Submit(NewMsg)

\* delete this
Delete(c) ==
    /\ alive' = [alive EXCEPT ![c] = FALSE]
    /\ conn' = [conn EXCEPT ![c] = "shut"]
    /\ closing' = [closing EXCEPT ![c] = FALSE]
    /\ PeerRemove(c)

\* recv_GDU answers by itself (the statistics report, or too many HTTP
\* requests) and deletes the object, whatever m_no_requests is.
RecvLocal(c) ==
    /\ LocalAnswers
    /\ Ready(c)
    /\ Delete(c)
    /\ cut' = cut \cup {c}
    /\ UNCHANGED <<closed, noReq, owner, last, pool, told, server>>

\* A worker takes the first message; handle() runs it through the filters.
Start == UNCHANGED <<conn, child, owner, last, told, cut, server>> /\ Pool!Start

\* ThreadPoolPackage::cleanup: which queued messages go, and how many are taken
\* off m_no_requests; a mutant that forgets that
Cleaned(c) == {m \in ToSet(queue) : owner[m] = c}
UncountedNone(c) == 0
Uncounted(c) == Cardinality(Cleaned(c))

\* failNotify.  A session that is already closed: the object is deleted once no
\* request is left.  A mutant does not wait for that
DeletableAlways(c) == TRUE
Deletable(c) == noReq[c] = 0

FailClosed(c, wire) ==
    /\ closed[c]
    /\ \/ Deletable(c) /\ Delete(c)
       \/ /\ ~Deletable(c)
          /\ conn' = [conn EXCEPT ![c] = wire]
          /\ closing' = [closing EXCEPT ![c] = @ /\ wire = "open"]
          /\ UNCHANGED <<alive, peerStat>>
    /\ UNCHANGED <<closed, noReq, owner, last, pool>>

\* Some positions of a queue, from the first to the last
InOrder(places) ==
    {f \in [1 .. Cardinality(places) -> places] :
        ToSet(f) = places /\ \A i, j \in DOMAIN f : i < j => f[i] < f[j]}

\* Otherwise the session is closed, its queued requests are dropped, and a last
\* package, without a request, is put to tell the filters.
FailOpen(c, wire) ==
    /\ ~closed[c]
    /\ closed' = [closed EXCEPT ![c] = TRUE]
    /\ noReq' = [noReq EXCEPT ![c] = @ + 1 - Uncounted(c)]
    /\ Unused # {}
    /\ owner' = [owner EXCEPT ![NewMsg] = c]
    /\ last' = last \cup {NewMsg}
    /\ \E f \in InOrder({i \in DOMAIN queue : queue[i] \notin Cleaned(c)}) :
           queue' = Append([i \in DOMAIN f |-> queue[f[i]]], NewMsg)
    /\ dropped' = dropped \cup Cleaned(c)
    /\ conn' = [conn EXCEPT ![c] = wire]
    /\ closing' = [closing EXCEPT ![c] = @ /\ wire = "open"]
    /\ UNCHANGED <<alive, peerStat, running, answered>>

FailNotify(c, wire) ==
    (FailClosed(c, wire) \/ FailOpen(c, wire)) /\ UNCHANGED <<told, cut, server>>

\* The three ways into failNotify: the connection fails; it times out, and stays
\* open; it was closed by result() and its output is written.
ConnFail(c) == Ready(c) /\ FailNotify(c, "shut")
TimeoutNotify(c) == Ready(c) /\ FailNotify(c, "open")
CloseDone(c) ==
    loop = "running" /\ closing[c] /\ alive[c] /\ FailNotify(c, "shut")

\* Whether result() calls close(): the last of the object's messages is back and
\* the session is over.  The mutant looks at m_no_requests before counting it
\* down.
CloseDueBeforeCount(c, over) == noReq[c] = 0 /\ over
CloseDue(c, over) == noReq[c] = 1 /\ over

\* ThreadPoolPackage::result.  over: the package's session is closed when the
\* package comes back, because it was to begin with or a filter closed it, or
\* is closed here since there is no response.
Result(m) ==
    /\ loop = "running"
    /\ alive[owner[m]]
    /\ LET c == owner[m]
       IN  \E over \in BOOLEAN :
            /\ m \in last => over
            /\ noReq' = [noReq EXCEPT ![c] = @ - 1]
            /\ closing' = [closing EXCEPT ![c] = @ \/ CloseDue(c, over)]
            /\ told' = IF m \in last THEN told \cup {c} ELSE told
    /\ UNCHANGED <<conn, alive, closed, peerStat, owner, last, cut, server>>
    /\ Pool!Answer(m)

\* result() of a message whose m_assoc_child was deleted: whatever it reads and
\* writes there, no object of the model changes.
ResultDangling(m) ==
    /\ loop = "running"
    /\ ~alive[owner[m]]
    /\ UNCHANGED <<conn, child, owner, last, told, cut, server>>
    /\ Pool!Answer(m)

\* process(): SIGTERM shuts the listeners and returns with the pool as it is;
\* SIGUSR1 shuts the listeners only.
Sigterm ==
    /\ loop = "running"
    /\ loop' = "returned"
    /\ listening' = FALSE
    /\ UNCHANGED <<conn, child, owner, last, pool, told, cut>>

Sigusr1 ==
    /\ loop = "running" /\ listening
    /\ listening' = FALSE
    /\ UNCHANGED <<conn, child, owner, last, pool, told, cut, loop>>

\* no <= 1: of all the observed descriptors only the pool's pipe is left.
NoObservers == ~listening /\ \A c \in Conns : conn[c] # "open"

\* The loop ends and the pool is destroyed.
LoopEnds ==
    /\ loop = "running"
    /\ NoObservers
    /\ loop' = "done"
    /\ UNCHANGED <<conn, child, owner, last, told, cut, listening>>
    /\ Pool!Close

Next ==
    \/ \E c \in Conns : \/ SessionNotify(c)
                        \/ RecvGDU(c)
                        \/ RecvLocal(c)
                        \/ ConnFail(c)
                        \/ TimeoutNotify(c)
                        \/ CloseDone(c)
    \/ Start
    \/ \E m \in Msgs : Result(m) \/ ResultDangling(m)
    \/ Sigterm
    \/ Sigusr1
    \/ LoopEnds

Spec == Init /\ [][Next]_vars

\* The pool runs what it is given (ThreadPool!EveryPutAnswered) and the socket
\* layer finishes the closing of a connection.
FairSpec ==
    /\ Spec
    /\ WF_vars(Start)
    /\ \A m \in Msgs : WF_vars(Result(m) \/ ResultDangling(m))
    /\ \A c \in Conns : WF_vars(CloseDone(c))

-----------------------------------------------------------------------------
\* m_no_requests is the number of this object's messages in the pool, through
\* put, cleanup and result in any order: the object's life depends on it.
RequestsCounted ==
    \A c \in Conns : alive[c] => noReq[c] = Cardinality(MsgsOf(c))

\* No message in the pool points to a deleted ZAssocChild, unless recv_GDU
\* deleted it after an answer of its own: there m_no_requests is not looked at.
NoDangling == \A m \in Pending : alive[owner[m]] \/ owner[m] \in cut

\* A ZAssocChild goes away only after the filters have processed a package with
\* its session closed, and so could release what they keep for the session;
\* again unless recv_GDU deleted it.
FiltersToldFirst ==
    \A c \in Conns : conn[c] = "shut" /\ ~alive[c] => c \in told \cup cut

\* m_peerStat, against which connect-total is checked, counts each peer's
\* ZAssocChild objects and stays within the limit.
PeersCounted ==
    \A p \in Peers :
        /\ peerStat[p] = Cardinality({c \in Conns : alive[c] /\ PeerOf[c] = p})
        /\ peerStat[p] <= ConnectTotal

\* The two counts that decide over connections are exact at every step: that of an
\* object's packages, on which its deletion depends, and that of a peer's objects,
\* on which the acceptance of the next connection depends.
CountsExact == TypeOK /\ RequestsCounted /\ PeersCounted

\* A ZAssocChild is deleted neither under a package that points to it nor before
\* the filters were told of the end of its session.
ToldThenDeleted == NoDangling /\ FiltersToldFirst

\* Only the package with which failNotify told the filters of the end of the
\* session, and others made after it, are still to come back.
OnlyLastLeft(c) == MsgsOf(c) # {} /\ MsgsOf(c) \subseteq last

\* After its connection is shut down, a ZAssocChild is deleted in the end,
\* provided no request that was taken before the connection failed comes back
\* later than the package of failNotify.  (The result() that brings
\* m_no_requests to 0 looks at its own package's copy of the session.)
ShutThenDeleted ==
    \A c \in Conns :
        conn[c] = "shut" /\ OnlyLastLeft(c) ~> ~alive[c] \/ loop # "running"

\* After its connection is shut down, a ZAssocChild is deleted in the end, and
\* connect-total counts TCP sessions that exist.
ShutSessionsForgotten ==
    \A c \in Conns : conn[c] = "shut" ~> ~alive[c] \/ loop # "running"
=============================================================================
