--------------------------- MODULE SharedSessions ---------------------------
(***************************************************************************)
(* The clients and the class map of the session_shared filter              *)
(* (src/src/filter_session_shared.cpp): which BackendClass a client is     *)
(* given at Init, how long the class and its target sessions live, and the *)
(* thread that expires them.  BackendClass has the inside of one class; a  *)
(* class here has a number of sessions, idle or in use.                    *)
(*                                                                         *)
(* Us is a client session with the packages of Clients; the others send    *)
(* one package at a time.  Classes and sessions are shared pointers: what  *)
(* nobody refers to is deleted, and the sessions in it closed.             *)
(***************************************************************************)
EXTENDS Clients

CONSTANTS
    Us,          \* a client
    Others,      \* the other clients
    Auths,       \* idAuthentication of an Init request
    NoAuth,      \* absent
    OtherInfos,  \* otherInfo of an Init request: the virtual hosts
    IgnoreAuth,  \* m_ignore_auth
    SessionsPerClass,  \* m_session_max
    MaxClasses   \* bound: class objects at a time

ASSUME SharedSessionsAssumption ==
    /\ Us \notin Others
    /\ NoAuth \in Auths /\ OtherInfos # {}
    /\ IgnoreAuth \in BOOLEAN
    /\ SessionsPerClass \in Nat \ {0}
    /\ MaxClasses \in Nat \ {0}

VARIABLES
    map,      \* m_backend_map: a class object for a key, or 0
    class,    \* the class objects
    ref,      \* m_backend_class of each client's Frontend, or 0
    at,       \* where the client's request is
    cred      \* the Init request of the client

sharedVars == <<map, class, ref, at, cred>>
allVars == <<clientVars, sharedVars>>

Users == Others \cup {Us}
ClassIds == 1 .. MaxClasses
Request == [auth : Auths, other : OtherInfos]

\* out: no Frontend, or one that is not virtual; mapped: the class is found;
\* creating, opened: init makes the first session; creates: search or scan does
Place == {"out", "mapped", "creating", "opened", "respond", "ready", "creates", "using"}

\* m_init_request, the sessions in m_backend_list that are idle and in use, and
\* that a session was had: the Init response that is kept accepts
Class == [made : Request, idle : Nat, used : Nat,
          ok : BOOLEAN, alive : BOOLEAN]
NoClass == [made |-> CHOOSE r \in Request : TRUE, idle |-> 0, used |-> 0,
            ok |-> FALSE, alive |-> FALSE]

SharedTypeOK ==
    /\ ClientsTypeOK
    /\ map \in [Request -> 0 .. MaxClasses]
    /\ class \in [ClassIds -> Class]
    /\ ref \in [Users -> 0 .. MaxClasses]
    /\ at \in [Users -> Place]
    /\ cred \in [Users -> Request]

SharedInit ==
    /\ ClientsInit
    /\ map = [k \in Request |-> 0]
    /\ class = [c \in ClassIds |-> NoClass]
    /\ ref = [u \in Users |-> 0]
    /\ at = [u \in Users |-> "out"]
    /\ cred = [u \in Users |-> NoClass.made]

To(u, where) == at' = [at EXCEPT ![u] = where]

\* The destructors: classes that are neither in the map nor any client's are
\* deleted with the sessions they have.
Deleted(classes, m, r) ==
    [c \in ClassIds |->
        IF c \in {m[k] : k \in Request} \cup {r[u] : u \in Users} THEN classes[c] ELSE NoClass]

-----------------------------------------------------------------------------
(* Rep::init.                                                              *)

\* InitKey: the map tells authentication and otherInfo apart by their encodings,
\* which differ when they do; a mutant that leaves the first out.
KeyOfOther(req) == [req EXCEPT !.auth = NoAuth]
InitKey(req) == req

\* The request with which the class is made and looked up
Passed(req) == IF IgnoreAuth THEN [req EXCEPT !.auth = NoAuth] ELSE req

Unused == {c \in ClassIds : ~class[c].alive}

FindClass(u, req) ==
    LET key == InitKey(Passed(req))
        new == map[key] = 0
        c == IF new THEN CHOOSE n \in Unused : TRUE ELSE map[key]
    IN  /\ new => Unused # {}
        /\ map' = [map EXCEPT ![key] = c]
        /\ class' = IF new THEN [class EXCEPT ![c] = [NoClass EXCEPT !.made = Passed(req),
                                                                   !.alive = TRUE]]
                    ELSE class
        /\ ref' = [ref EXCEPT ![u] = c]
        /\ cred' = [cred EXCEPT ![u] = req]
        /\ To(u, "mapped")

\* create_first_one: unless a session was had before.  The loop that waits for
\* another client to make the first one is never entered.
CreateFirstOne(u) ==
    /\ at[u] = "mapped"
    /\ To(u, IF class[ref[u]].ok THEN "respond" ELSE "creating")
    /\ UNCHANGED <<map, class, ref, cred>>

\* create_backend: the target accepts, refuses, or does not answer.
Created(u) == class' = [class EXCEPT ![ref[u]].used = @ + 1, ![ref[u]].ok = TRUE]
NotCreated == UNCHANGED class

CreateBackend(u) ==
    /\ \/ at[u] = "creating" /\ Created(u) /\ To(u, "opened")
       \/ at[u] = "creating" /\ NotCreated /\ To(u, "respond")
       \/ at[u] = "creates" /\ Created(u) /\ To(u, "using")
       \/ at[u] = "creates" /\ NotCreated /\ To(u, "ready")
    /\ UNCHANGED <<map, ref, cred>>

\* release_backend
Release1(u) == class' = [class EXCEPT ![ref[u]].used = @ - 1, ![ref[u]].idle = @ + 1]

ReleaseFirst(u) ==
    /\ at[u] = "opened"
    /\ Release1(u)
    /\ To(u, "respond")
    /\ UNCHANGED <<map, ref, cred>>

-----------------------------------------------------------------------------
(* Requests: BackendClass has them in detail.                              *)

\* get_backend, for a scan, uses an idle session and makes one if there is none,
\* whatever the limit; get_set also makes one if the idle ones hold sets that it may
\* not override, and the limit allows.  Otherwise the request waits or is given a
\* diagnostic.
UseSession(u) ==
    /\ at[u] = "ready"
    /\ LET bc == class[ref[u]]
       IN  \/ /\ bc.idle > 0
              /\ class' = [class EXCEPT ![ref[u]].idle = @ - 1, ![ref[u]].used = @ + 1]
              /\ To(u, "using")
           \/ /\ bc.idle = 0 \/ bc.idle + bc.used < SessionsPerClass
              /\ To(u, "creates")
              /\ UNCHANGED class
    /\ UNCHANGED <<map, ref, cred>>

\* release_backend, or remove_backend if the target has closed the session; a
\* mutant that forgets the latter
FinishUnremoved(u) ==
    /\ at[u] = "using"
    /\ Release1(u) \/ UNCHANGED class
    /\ To(u, "ready")
    /\ UNCHANGED <<map, ref, cred>>
FinishSession(u) ==
    /\ at[u] = "using"
    /\ Release1(u) \/ class' = [class EXCEPT ![ref[u]].used = @ - 1]
    /\ To(u, "ready")
    /\ UNCHANGED <<map, ref, cred>>

\* m_clients.erase: the Frontend goes, and its class if nothing else has it.
Erase(u) ==
    /\ ref' = [ref EXCEPT ![u] = 0]
    /\ at' = [at EXCEPT ![u] = "out"]
    /\ class' = Deleted(class, map, ref')
    /\ cred' = [cred EXCEPT ![u] = NoClass.made]
    /\ UNCHANGED map

Work(u) == CreateFirstOne(u) \/ CreateBackend(u) \/ ReleaseFirst(u) \/ FinishSession(u)

-----------------------------------------------------------------------------
(* The expiry thread.                                                      *)

\* expire_instances, and expire_classes, for the class of one key: some idle
\* sessions are past their time; a class without sessions leaves the map.
ExpireClass(key) ==
    /\ map[key] # 0
    /\ \E left \in 0 .. class[map[key]].idle :
          /\ map' = IF left + class[map[key]].used = 0 THEN [map EXCEPT ![key] = 0] ELSE map
          /\ class' = Deleted([class EXCEPT ![map[key]].idle = left], map', ref)
    /\ UNCHANGED <<ref, at, cred>>

-----------------------------------------------------------------------------
(* The clients.                                                            *)

get_frontend(p) == Get(p) /\ UNCHANGED sharedVars

release_frontend(p) ==
    /\ Release(p)
    /\ IF closed[p] THEN Erase(Us) ELSE UNCHANGED sharedVars

InitResponse(p) ==
    /\ at[Us] = "respond"
    /\ Handled(p, ~class[ref[Us]].ok)
    /\ To(Us, "ready")
    /\ UNCHANGED <<map, class, ref, cred>>

\* process, for a package that has the Frontend.  A scan whose target closed
\* closes the client's session too.
process(p) ==
    \/ /\ at[Us] = "out"
       /\ \/ ~closed[p] /\ (\E req \in Request : FindClass(Us, req)) /\ UNCHANGED clientVars
          \/ (\E shut \in BOOLEAN : Handled(p, shut)) /\ UNCHANGED sharedVars
    \/ Work(Us) /\ UNCHANGED clientVars
    \/ InitResponse(p)
    \/ /\ at[Us] = "ready"
       /\ \/ ~closed[p] /\ UseSession(Us) /\ UNCHANGED clientVars
          \/ (\E shut \in BOOLEAN : Handled(p, shut)) /\ UNCHANGED sharedVars

Step(p) ==
    \/ get_frontend(p)
    \/ stage[p] = "held" /\ process(p)
    \/ release_frontend(p)

Other(u) ==
    /\ \/ at[u] = "out" /\ \E req \in Request : FindClass(u, req)
       \/ Work(u)
       \/ /\ at[u] = "respond" /\ class[ref[u]].ok
          /\ To(u, "ready")
          /\ UNCHANGED <<map, class, ref, cred>>
       \/ at[u] = "respond" /\ ~class[ref[u]].ok /\ Erase(u)
       \/ UseSession(u)
       \/ at[u] = "ready" /\ Erase(u)
    /\ UNCHANGED clientVars

Environment ==
    /\ \/ \E end \in BOOLEAN : Put(end)
       \/ \E p \in Pkgs : Result(p)
    /\ UNCHANGED sharedVars

Expire == (\E key \in Request : ExpireClass(key)) /\ UNCHANGED clientVars

SharedNext ==
    \/ Environment
    \/ Expire
    \/ \E p \in Pkgs : Step(p)
    \/ \E u \in Others : Other(u)

SharedSpec == SharedInit /\ [][SharedNext]_allVars

\* The worker wakes every m_session_ttl seconds, and then every session that was
\* idle before has passed its time: all idle sessions of a class go.
ExpireAll(key) == ExpireClass(key) /\ class'[map[key]].idle = 0

FairSharedSpec ==
    /\ SharedSpec
    /\ \A key \in Request : SF_allVars(ExpireAll(key) /\ UNCHANGED clientVars)

-----------------------------------------------------------------------------
\* A client is served by sessions only that were initialised with its own
\* authentication and otherInfo, or without authentication when that is ignored;
\* whichever clients share the class, and whenever it was dropped and made anew.
OwnCredentials ==
    \A u \in Users : ref[u] # 0 =>
        /\ class[ref[u]].alive
        /\ class[ref[u]].made = Passed(cred[u])

InMap(c) == \E key \in Request : map[key] = c

\* Target sessions are in a class that the map has, so that they can expire, or
\* in the class of a client that is still there: none outlives both.  The
\* sessions counted as in use are those that requests use.
NoStrandedSessions ==
    /\ SharedTypeOK
    /\ \A c \in ClassIds :
          /\ class[c].idle + class[c].used > 0 =>
                InMap(c) \/ \E u \in Others \cup (IF entry = "none" THEN {} ELSE {Us}) : ref[u] = c
          /\ class[c].used =
                Cardinality({u \in Users : ref[u] = c /\ at[u] \in {"opened", "using"}})

\* When a session is idle for more than its time, it is closed.
IdleSessionsClosed ==
    \A c \in ClassIds : class[c].idle > 0 ~> class[c].idle = 0
=============================================================================
