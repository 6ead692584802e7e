---------------------------- MODULE Z3950Client -----------------------------
(***************************************************************************)
(* The z3950_client filter (src/src/filter_z3950_client.cpp): an Assoc, a  *)
(* connection to a target, for each session, and the packages that use it. *)
(* Each package is processed by a thread of its own; packages of one       *)
(* session enter the filter in order but run at the same time.             *)
(*                                                                         *)
(* What happens under m_mutex between two waits is one action.  A package  *)
(* that is not Z39.50 and has no Assoc is moved on with the mutex held     *)
(* ("moving").  A wait for the target ("connect", "reply") ends by its     *)
(* answer, by its failure, or when timeoutNotify, called once a second,    *)
(* has counted to a limit: that may come at any moment of the wait.        *)
(***************************************************************************)
EXTENDS Naturals, Sequences, FiniteSets

CONSTANTS
    Sessions,
    Targets,
    TargetOf,     \* [Sessions -> Targets]: m_host
    MaxSockets,   \* max_sockets; 0 is no limit
    ForceClose,   \* m_force_close
    MaxPkgs       \* [Sessions -> Nat], a bound: packages of each session

ASSUME SessionsAssumption == TargetOf \in [Sessions -> Targets]
ASSUME LimitsAssumption ==
    MaxSockets \in Nat /\ ForceClose \in BOOLEAN /\ MaxPkgs \in [Sessions -> Nat]

VARIABLES
    clients,    \* the sessions in m_clients
    assoc,      \* the Assoc of each session
    wire,       \* requests sent to the target and not answered, oldest first
    next,       \* packages of each session that have entered the filter
    ended,      \* sessions whose end has been sent: no package comes after it
    kind,       \* the request of each package
    closed,     \* package.session().is_closed()
    resp,       \* package.response()
    pc,         \* where each package is
    overtaken   \* sessions whose end left the filter before another package

vars == <<clients, assoc, wire, next, ended, kind, closed, resp, pc, overtaken>>

P == UNION {{s} \X (1 .. MaxPkgs[s]) : s \in Sessions}
Ses(p) == p[1]

\* init; a request with a response; triggerResourceControl; Close; something that
\* is not Z39.50; and no request, the session being closed.
Kind == {"init", "request", "trigger", "close", "other", "end"}
IsZ3950(k) == k \in {"init", "request", "trigger", "close"}

\* pkg is m_package, or << >>.  The phases of m_connected differ only in the length
\* of the timeout and the reason given in the Close.
Assoc == [inUse : BOOLEAN, queueLen : Nat, destroyed : BOOLEAN,
          connected : BOOLEAN, hasClosed : BOOLEAN, pkg : P \cup {<< >>}]
NewAssoc == [inUse |-> TRUE, queueLen |-> 1, destroyed |-> FALSE,
             connected |-> FALSE, hasClosed |-> FALSE, pkg |-> << >>]

\* No response; one made here (a Close, or an Init response with a diagnostic);
\* the target's answer to the request of a package.
Resp == {<<"none">>, <<"made">>} \cup ({"answer"} \X P)

Holding == {"sending", "connect", "reply", "release"}
Queueing == {"queued", "queuedWoken"}
PC == Holding \cup Queueing
      \cup {"new", "sockets", "socketsWoken", "moving", "done"}

TypeOK ==
    /\ clients \subseteq Sessions
    /\ assoc \in [Sessions -> Assoc]
    /\ wire \in [Sessions -> Seq(P)]
    /\ next \in [Sessions -> Nat]
    /\ ended \subseteq Sessions
    /\ kind \in [P -> Kind]
    /\ closed \in [P -> BOOLEAN]
    /\ resp \in [P -> Resp]
    /\ pc \in [P -> PC]
    /\ overtaken \subseteq Sessions

Init ==
    /\ clients = {}
    /\ assoc = [s \in Sessions |-> NewAssoc]
    /\ wire = [s \in Sessions |-> << >>]
    /\ next = [s \in Sessions |-> 0]
    /\ ended = {}
    /\ kind = [p \in P |-> "other"]
    /\ closed = [p \in P |-> FALSE]
    /\ resp = [p \in P |-> <<"none">>]
    /\ pc = [p \in P |-> "new"]
    /\ overtaken = {}

-----------------------------------------------------------------------------
MutexFree == \A p \in P : pc[p] # "moving"

Go(p, where) == pc' = [pc EXCEPT ![p] = where]

\* The filter answers by itself and closes the session.
Refuse(p, where) ==
    /\ Go(p, where)
    /\ resp' = [resp EXCEPT ![p] = <<"made">>]
    /\ closed' = [closed EXCEPT ![p] = TRUE]

\* max-sockets: the Assocs of the same target
SameTarget(p) == {s \in clients : TargetOf[s] = TargetOf[Ses(p)]}
Room(p) == MaxSockets = 0 \/ Cardinality(SameTarget(p)) < MaxSockets
AllInUse(p) == \A s \in SameTarget(p) : assoc[s].inUse

\* The loop on max_sockets: a new Assoc; a refusal when all are in use; or a wait.
FindSocket(p) ==
    \/ /\ Room(p)
       /\ clients' = clients \cup {Ses(p)}
       /\ assoc' = [assoc EXCEPT ![Ses(p)] = NewAssoc]
       /\ wire' = [wire EXCEPT ![Ses(p)] = << >>]
       /\ Go(p, "sending")
       /\ UNCHANGED <<resp, closed>>
    \/ /\ ~Room(p) /\ AllInUse(p)
       /\ Refuse(p, "done")
       /\ UNCHANGED <<clients, assoc, wire>>
    \/ /\ ~Room(p) /\ ~AllInUse(p)
       /\ Go(p, "sockets")
       /\ UNCHANGED <<clients, assoc, wire, resp, closed>>

\* m_queue_len++
Queued(s) == assoc[s].queueLen + 1

\* get_assoc, the session has an Assoc: use it or queue for it.
Known(p, k) ==
    /\ Ses(p) \in clients
    /\ assoc' = [assoc EXCEPT ![Ses(p)].queueLen = Queued(Ses(p)),
                              ![Ses(p)].inUse = TRUE]
    /\ Go(p, IF assoc[Ses(p)].inUse THEN "queued" ELSE "sending")
    /\ closed' = [closed EXCEPT ![p] = k = "end"]
    /\ UNCHANGED <<clients, wire, resp>>

\* get_assoc, it has none: only an Init request that names one target goes on.
Unknown(p, k) ==
    /\ Ses(p) \notin clients
    /\ \/ /\ ~IsZ3950(k)
          /\ Go(p, "moving")
          /\ closed' = [closed EXCEPT ![p] = k = "end"]
          /\ UNCHANGED <<clients, assoc, wire, resp>>
       \/ /\ IsZ3950(k)        \* not an Init, or an Init with no or several targets
          /\ Refuse(p, "done")
          /\ UNCHANGED <<clients, assoc, wire>>
       \/ /\ k = "init"
          /\ FindSocket(p)

\* A client sends an Init once it has the answer to its last one.
OneInitAtATime(s, k) ==
    k = "init" => \A p \in P : Ses(p) = s => pc[p] \notin {"sockets", "socketsWoken"}

\* A package enters: process() and get_assoc().
Enter(s, k) ==
    /\ MutexFree
    /\ s \notin ended
    /\ next[s] < MaxPkgs[s]
    /\ OneInitAtATime(s, k)
    /\ next' = [next EXCEPT ![s] = @ + 1]
    /\ ended' = IF k = "end" THEN ended \cup {s} ELSE ended
    /\ kind' = [kind EXCEPT ![<<s, next[s] + 1>>] = k]
    /\ Known(<<s, next[s] + 1>>, k) \/ Unknown(<<s, next[s] + 1>>, k)
    /\ UNCHANGED overtaken

\* m_cond_session_ready, after notify_all or for no reason
Woken == [q \in P |-> CASE pc[q] = "queued" -> "queuedWoken"
                        [] pc[q] = "sockets" -> "socketsWoken"
                        [] OTHER -> pc[q]]

SpuriousWake(p) ==
    /\ pc[p] \in {"queued", "sockets"}
    /\ Go(p, Woken[p])
    /\ UNCHANGED <<clients, assoc, wire, next, ended, kind, closed, resp, overtaken>>

\* The queue's loop goes round: take the Assoc, or wait again.
QueuedAgain(p) ==
    /\ MutexFree
    /\ pc[p] = "queuedWoken"
    /\ assoc' = [assoc EXCEPT ![Ses(p)].inUse = TRUE]
    /\ Go(p, IF assoc[Ses(p)].inUse THEN "queued" ELSE "sending")
    /\ UNCHANGED <<clients, wire, next, ended, kind, closed, resp, overtaken>>

\* The loop on max_sockets goes round, or its time is up.
SocketsAgain(p) ==
    /\ MutexFree
    /\ pc[p] = "socketsWoken"
    /\ FindSocket(p)
    /\ UNCHANGED <<next, ended, kind, overtaken>>

SocketsTimeout(p) ==
    /\ MutexFree
    /\ pc[p] = "sockets"
    /\ Refuse(p, "done")
    /\ UNCHANGED <<clients, assoc, wire, next, ended, kind, overtaken>>

\* The end of a session has been dealt with; others of its packages have not.
Overtakes(p) ==
    kind[p] = "end" /\ \E q \in P : Ses(q) = Ses(p) /\ pc[q] \notin {"new", "done"} /\ q # p

\* package.move() returns and m_mutex is given back.
Moved(p) ==
    /\ pc[p] = "moving"
    /\ Go(p, "done")
    /\ overtaken' = IF Overtakes(p) THEN overtaken \cup {Ses(p)} ELSE overtaken
    /\ UNCHANGED <<clients, assoc, wire, next, ended, kind, closed, resp>>

-----------------------------------------------------------------------------
\* force_close: a Close of its own at the end of the session
Forced(p) ==
    /\ ForceClose
    /\ closed[p]
    /\ assoc[Ses(p)].connected
    /\ ~assoc[Ses(p)].hasClosed

Request(p) == IF Forced(p) THEN "close" ELSE kind[p]

\* send_GDU, and the wait for what answers it
Transmit(p, req) ==
    /\ wire' = [wire EXCEPT ![Ses(p)] = IF req = "trigger" THEN @ ELSE Append(@, p)]
    /\ Go(p, IF req = "trigger" THEN "release" ELSE "reply")
    /\ UNCHANGED <<resp, closed>>

\* A mutant that goes on with an Assoc meant to be destroyed
UsableAlways(p) == TRUE
Usable(p) == ~assoc[Ses(p)].destroyed

\* send_and_receive, up to its first wait
Send(p) ==
    /\ pc[p] = "sending"
    /\ IF ~Usable(p)
       THEN Go(p, "release") /\ UNCHANGED <<assoc, wire, resp, closed>>
       ELSE /\ assoc' = [assoc EXCEPT ![Ses(p)].pkg = IF Forced(p) THEN << >> ELSE p,
                                      ![Ses(p)].hasClosed = @ \/ Request(p) = "close"]
            /\ \/ /\ ~IsZ3950(Request(p))
                  /\ Go(p, "release")
                  /\ UNCHANGED <<wire, resp, closed>>
               \/ /\ IsZ3950(Request(p)) /\ ~assoc[Ses(p)].connected
                  /\ \/ Go(p, "connect") /\ UNCHANGED <<resp, closed>>
                     \/ Refuse(p, "release")     \* client() fails at once
                  /\ UNCHANGED wire
               \/ /\ IsZ3950(Request(p)) /\ assoc[Ses(p)].connected
                  /\ Transmit(p, Request(p))
    /\ UNCHANGED <<clients, next, ended, kind, overtaken>>

\* connectNotify, and the sending that follows
ConnectNotify(p) ==
    /\ pc[p] = "connect"
    /\ assoc' = [assoc EXCEPT ![Ses(p)].connected = TRUE]
    /\ Transmit(p, kind[p])
    /\ UNCHANGED <<clients, next, ended, kind, overtaken>>

\* recv_GDU: what comes is the answer to the oldest request on the wire.
RecvGDU(p) ==
    /\ pc[p] = "reply"
    /\ wire[Ses(p)] # << >>
    /\ wire' = [wire EXCEPT ![Ses(p)] = Tail(@)]
    /\ resp' = IF assoc[Ses(p)].pkg = << >> THEN resp
               ELSE [resp EXCEPT ![assoc[Ses(p)].pkg] = <<"answer", Head(wire[Ses(p)])>>]
    /\ Go(p, "release")
    /\ UNCHANGED <<clients, assoc, next, ended, kind, closed, overtaken>>

\* The package that waits is answered with a Close and its session closed.
GiveUp(p) ==
    IF assoc[Ses(p)].pkg = << >> THEN UNCHANGED <<resp, closed>>
    ELSE /\ resp' = [resp EXCEPT ![assoc[Ses(p)].pkg] = <<"made">>]
         /\ closed' = [closed EXCEPT ![assoc[Ses(p)].pkg] = TRUE]

FailNotify(p) ==
    /\ pc[p] \in {"connect", "reply"}
    /\ wire' = [wire EXCEPT ![Ses(p)] = << >>]
    /\ GiveUp(p)
    /\ Go(p, "release")
    /\ UNCHANGED <<clients, assoc, next, ended, kind, overtaken>>

\* timeoutNotify at its limit: the target may still answer, to nobody.
TimeoutNotify(p) ==
    /\ pc[p] \in {"connect", "reply"}
    /\ GiveUp(p)
    /\ Go(p, "release")
    /\ UNCHANGED <<clients, assoc, wire, next, ended, kind, overtaken>>

\* notify_all, and a mutant that forgets it
NotifyNone(p) == Go(p, "done")
NotifyAllAndGo(p) == pc' = [Woken EXCEPT ![p] = "done"]

\* What is left of the Assoc
Released(p) ==
    [assoc[Ses(p)] EXCEPT !.inUse = FALSE, !.queueLen = @ - 1, !.destroyed = @ \/ closed[p]]

\* Whether it is deleted, and two mutants: the queue is not looked at, or too early
DeletesAny(p) == closed[p]
DeletesEarly(p) == closed[p] /\ assoc[Ses(p)].queueLen = 0
Deletes(p) == closed[p] /\ Released(p).queueLen = 0

\* release_assoc
Release(p) ==
    /\ MutexFree
    /\ pc[p] = "release"
    /\ IF Ses(p) \in clients
       THEN /\ assoc' = [assoc EXCEPT ![Ses(p)] = Released(p)]
            /\ clients' = IF Deletes(p) THEN clients \ {Ses(p)} ELSE clients
            /\ NotifyAllAndGo(p)
       ELSE Go(p, "done") /\ UNCHANGED <<assoc, clients>>
    /\ overtaken' = IF Overtakes(p) THEN overtaken \cup {Ses(p)} ELSE overtaken
    /\ UNCHANGED <<wire, next, ended, kind, closed, resp>>

-----------------------------------------------------------------------------
Next ==
    \/ \E s \in Sessions, k \in Kind : Enter(s, k)
    \/ \E p \in P : \/ SpuriousWake(p)
                    \/ QueuedAgain(p)
                    \/ SocketsAgain(p)
                    \/ SocketsTimeout(p)
                    \/ Moved(p)
                    \/ Send(p)
                    \/ ConnectNotify(p)
                    \/ RecvGDU(p)
                    \/ FailNotify(p)
                    \/ TimeoutNotify(p)
                    \/ Release(p)

Spec == Init /\ [][Next]_vars

\* Threads run; the timers of the waits for the target go off; the wait for a socket
\* has a deadline that waking up does not move; the rest of the route answers.
FairSpec ==
    /\ Spec
    /\ \A p \in P : /\ WF_vars(QueuedAgain(p))
                    /\ WF_vars(SocketsAgain(p))
                    /\ SF_vars(SocketsTimeout(p))
                    /\ WF_vars(Moved(p))
                    /\ WF_vars(Send(p))
                    /\ WF_vars(TimeoutNotify(p))
                    /\ WF_vars(Release(p))

-----------------------------------------------------------------------------
Within(s, where) == {p \in P : Ses(p) = s /\ pc[p] \in where}

\* An Assoc is used by one thread at a time (its fields and its socket manager have
\* no lock of their own) and is never deleted under a package that holds or awaits it.
HeldByOne ==
    \A s \in Sessions :
        /\ Cardinality(Within(s, Holding)) <= 1
        /\ Within(s, Holding \cup Queueing) # {} => s \in clients
        /\ s \in clients => (assoc[s].inUse <=> Within(s, Holding) # {})

\* m_queue_len, on which the deletion depends, is the number of packages that hold or
\* await the Assoc, whatever the order in which they leave.
QueueCounted ==
    \A s \in clients : assoc[s].queueLen = Cardinality(Within(s, Holding \cup Queueing))

\* max-sockets: never more connections to a target than the limit.
SocketsBounded ==
    \A t \in Targets :
        MaxSockets > 0 => Cardinality({s \in clients : TargetOf[s] = t}) <= MaxSockets

\* The Assocs stay accounted for: one thread at a time in each, none deleted under a
\* package, the queue counted exactly, and the sockets of a target within max-sockets.
AssocsAccounted == TypeOK /\ HeldByOne /\ QueueCounted /\ SocketsBounded

\* A package gets the answer to its own request: the late answer to one that timed
\* out is never given to the next package of the session.
RightResponse ==
    \A p \in P : resp[p] \in {<<"none">>, <<"made">>, <<"answer", p>>}

\* When the end of a session is the last of its packages to leave the filter, nothing
\* of the session is left: its connection no longer counts for max-sockets.
EndedForgotten ==
    \A s \in ended :
        (Within(s, PC \ {"new", "done"}) = {} /\ s \notin overtaken) => s \notin clients

\* Every package that enters leaves, whatever the target does.
EveryPackageReturns == \A p \in P : pc[p] # "new" ~> pc[p] = "done"
=============================================================================
