---------------------------- MODULE BackendClass ----------------------------
(***************************************************************************)
(* One BackendClass of the session_shared filter                           *)
(* (src/src/filter_session_shared.cpp): the target sessions ("backends")   *)
(* opened for one Init request, the result sets each of them holds, and    *)
(* the frontends that share them.  A frontend serves one request at a time *)
(* (Rep::get_frontend), so it is identified with the thread serving it.    *)
(*                                                                         *)
(* What a thread does under m_mutex_backend_class is one action; so is     *)
(* what follows the answer of the target up to the next lock or request.   *)
(* Requests to the target (package.move()) take any time: a thread whose   *)
(* pc is "creating", "searching", "presenting" or "scanning" waits for one.*)
(*                                                                         *)
(* Time is not kept: a result set or a backend may be past its TTL         *)
(* whenever the code compares clocks.  m_sequence_this only decides which  *)
(* of several idle backends a scan takes: any one here.                    *)
(***************************************************************************)
EXTENDS Integers, Sequences, FiniteSets, SequencesExt, FiniteSetsExt

CONSTANTS
    Threads,         \* frontends
    Backends,        \* identities of BackendInstance objects
    NoBackend,       \* the null BackendInstancePtr
    Queries,         \* a query with its databases
    NoQuery,         \* no query, no records
    Databases,       \* database lists
    DbOf,            \* [Queries -> Databases]
    SessionMax,      \* m_session_max
    SetMax,          \* m_backend_set_max
    NamedTarget,     \* the target offers named result sets
    OptimizeSearch,  \* m_optimize_search
    Restart,         \* m_restart
    MaxReqs,         \* bound: requests of one frontend
    MaxId            \* bound: result set names used with one backend

ASSUME ThreadsAssumption == IsFiniteSet(Threads)
ASSUME NullAssumption == NoBackend \notin Backends /\ NoQuery \notin Queries
ASSUME ParameterAssumption ==
    /\ DbOf \in [Queries -> Databases]
    /\ SessionMax \in Nat \ {0}
    /\ SetMax \in Nat \ {0}
    /\ MaxReqs \in Nat
    /\ MaxId \in Nat
    /\ NamedTarget \in BOOLEAN
    /\ OptimizeSearch \in BOOLEAN
    /\ Restart \in BOOLEAN

VARIABLES
    list,       \* m_backend_list
    bk,         \* the BackendInstance objects, and what each target holds
    named,      \* m_named_result_sets
    succeeded,  \* m_no_succeeded > 0
    initResp,   \* m_init_response
    pc,         \* where each thread is
    op,         \* the request it serves
    qry,        \* the query and databases of that request
    be,         \* found_backend (backend, in scan and init)
    rs,         \* found_set, by its result set name
    outOf,      \* out_of_sessions
    again,      \* session_restarted
    fset,       \* m_frontend_sets: the query of the frontend's result set
    answer,     \* the query whose records the last present returned
    reqs,       \* requests the frontend has made
    stranded    \* threads left asleep by a remove_backend()

classVars == <<list, bk, named, succeeded, initResp>>
thread == <<pc, op, qry, be, rs, outOf, again, fset, answer, reqs, stranded>>
vars == <<list, bk, named, succeeded, initResp, pc, op, qry, be, rs, outOf,
          again, fset, answer, reqs, stranded>>

\* Result set names: 0 is "default", n + 1 the decimal form of sequence n.
Default == 0
Ids == 0 .. MaxId
NoId == -1

QueryOrNone == Queries \cup {NoQuery}

\* A BackendSet; records is the query m_record_cache has records of.
Set == [id : Ids, q : Queries, records : QueryOrNone]

\* A BackendInstance: m_in_use, m_sets, m_result_set_sequence; and (external)
\* the query of each result set the target has for this session.
Backend == [inUse : BOOLEAN, sets : Seq(Set), sequence : Nat,
            target : [Ids -> QueryOrNone]]

Closed == [inUse |-> FALSE, sets |-> << >>, sequence |-> 0,
           target |-> [i \in Ids |-> NoQuery]]

PC == {"new", "creating", "initReply", "idle", "getset", "asleep", "woken",
       "naming", "searching", "presenting", "scanning", "replying",
       "nullBackend", "crashed"}

TypeOK ==
    /\ list \in Seq(Backends)
    /\ bk \in [Backends -> Backend]
    /\ named \in BOOLEAN
    /\ succeeded \in BOOLEAN
    /\ initResp \in {"none", "ok", "refused"}
    /\ pc \in [Threads -> PC]
    /\ op \in [Threads -> {"init", "search", "present", "scan"}]
    /\ qry \in [Threads -> QueryOrNone]
    /\ be \in [Threads -> Backends \cup {NoBackend}]
    /\ rs \in [Threads -> Ids \cup {NoId}]
    /\ outOf \in [Threads -> BOOLEAN]
    /\ again \in [Threads -> BOOLEAN]
    /\ fset \in [Threads -> QueryOrNone]
    /\ answer \in [Threads -> QueryOrNone]
    /\ reqs \in [Threads -> 0 .. MaxReqs]
    /\ stranded \subseteq Threads

Init ==
    /\ list = << >>
    /\ bk = [b \in Backends |-> Closed]
    /\ named = FALSE
    /\ succeeded = FALSE
    /\ initResp = "none"
    /\ pc = [t \in Threads |-> "new"]
    /\ op = [t \in Threads |-> "init"]
    /\ qry = [t \in Threads |-> NoQuery]
    /\ be = [t \in Threads |-> NoBackend]
    /\ rs = [t \in Threads |-> NoId]
    /\ outOf = [t \in Threads |-> FALSE]
    /\ again = [t \in Threads |-> FALSE]
    /\ fset = [t \in Threads |-> NoQuery]
    /\ answer = [t \in Threads |-> NoQuery]
    /\ reqs = [t \in Threads |-> 0]
    /\ stranded = {}

-----------------------------------------------------------------------------
(* Parts of the operations.                                                *)

GoTo(t, s) == pc' = [pc EXCEPT ![t] = s]

\* m_cond_set_ready.notify_all() while thread t goes on at s; and a mutant
NotifyForgotten(t, s) == GoTo(t, s) /\ UNCHANGED stranded
NotifyAllAndGo(t, s) ==
    /\ pc' = [u \in Threads |-> IF u = t THEN s
                                ELSE IF pc[u] = "asleep" THEN "woken" ELSE pc[u]]
    /\ stranded' = {}

\* release_backend(found_backend)
ReleaseBackend(t) == bk' = [bk EXCEPT ![be[t]].inUse = FALSE]

\* m_backend_list without b; the object is closed.
EraseBackend(b) ==
    /\ list' = RemoveAt(list, CHOOSE k \in DOMAIN list : list[k] = b)
    /\ bk' = [bk EXCEPT ![b] = Closed]

\* remove_backend(found_backend): m_cond_set_ready is not notified, so the
\* threads asleep stay so.
RemoveAndGo(t, s) ==
    /\ EraseBackend(be[t])
    /\ GoTo(t, s)
    /\ stranded' = {u \in Threads : pc[u] = "asleep"}

\* The locals of a request are gone.
Forget(t) ==
    /\ be' = [be EXCEPT ![t] = NoBackend]
    /\ rs' = [rs EXCEPT ![t] = NoId]
    /\ outOf' = [outOf EXCEPT ![t] = FALSE]
    /\ again' = [again EXCEPT ![t] = FALSE]

NewId(b) == IF named THEN bk[b].sequence + 1 ELSE Default
NextSequence(b) == bk[b].sequence + IF named THEN 1 ELSE 0

-----------------------------------------------------------------------------
(* Requests of the client: process().                                      *)

Begin(t, what, q, s) ==
    /\ reqs[t] < MaxReqs
    /\ reqs' = [reqs EXCEPT ![t] = @ + 1]
    /\ op' = [op EXCEPT ![t] = what]
    /\ qry' = [qry EXCEPT ![t] = q]
    /\ answer' = [answer EXCEPT ![t] = NoQuery]
    /\ GoTo(t, s)
    /\ UNCHANGED <<list, bk, named, succeeded, initResp, be, rs, outOf, again,
                   stranded>>

\* Rep::init: a backend is created unless one was created already.  (The loop
\* "wait for first one to finish" is entered with m_no_succeeded # 0 only, and
\* then its condition is false.)
StartInit(t) ==
    /\ pc[t] = "new"
    /\ Begin(t, "init", NoQuery, IF succeeded THEN "initReply" ELSE "creating")
    /\ UNCHANGED fset

\* Frontend::search up to get_set: an existing result set of that name is
\* dropped (with the replace indicator off it is kept and nothing happens).
StartSearch(t, q) ==
    /\ pc[t] = "idle"
    /\ Begin(t, "search", q, "getset")
    /\ fset' = [fset EXCEPT ![t] = NoQuery]

\* The query refers to a result set the frontend does not have: a diagnostic,
\* after the result set of the request's own name was dropped.
StartBadSearch(t) ==
    /\ pc[t] = "idle"
    /\ Begin(t, "search", NoQuery, "idle")
    /\ fset' = [fset EXCEPT ![t] = NoQuery]

\* Frontend::present up to get_set: the result set is looked up by name.
StartPresent(t) ==
    /\ pc[t] = "idle"
    /\ fset[t] # NoQuery
    /\ Begin(t, "present", fset[t], "getset")
    /\ UNCHANGED fset

\* Frontend::scan, get_backend: an idle backend is taken, or one is created.
IdleBackends == {b \in ToSet(list) : ~bk[b].inUse}

StartScanCreate(t) ==
    /\ pc[t] = "idle"
    /\ IdleBackends = {}
    /\ Begin(t, "scan", NoQuery, "creating")
    /\ UNCHANGED fset

StartScan(t) ==
    /\ pc[t] = "idle"
    /\ reqs[t] < MaxReqs
    /\ \E b \in IdleBackends :
        /\ bk' = [bk EXCEPT ![b].inUse = TRUE]
        /\ be' = [be EXCEPT ![t] = b]
    /\ reqs' = [reqs EXCEPT ![t] = @ + 1]
    /\ op' = [op EXCEPT ![t] = "scan"]
    /\ qry' = [qry EXCEPT ![t] = NoQuery]
    /\ answer' = [answer EXCEPT ![t] = NoQuery]
    /\ GoTo(t, "scanning")
    /\ UNCHANGED <<list, named, succeeded, initResp, rs, outOf, again, fset,
                   stranded>>

\* The client closes, or is closed: release_frontend erases the Frontend.
Disconnect(t) ==
    /\ fset' = [fset EXCEPT ![t] = NoQuery]
    /\ qry' = [qry EXCEPT ![t] = NoQuery]
    /\ answer' = [answer EXCEPT ![t] = NoQuery]

Leave(t) ==
    /\ pc[t] = "idle"
    /\ Disconnect(t)
    /\ GoTo(t, "new")
    /\ UNCHANGED <<classVars, op, be, rs, outOf, again, reqs, stranded>>

-----------------------------------------------------------------------------
(* create_backend, and what its callers do next.                           *)

\* init answers and releases, get_set goes on to search, scan scans.
AfterCreate(t) == CASE op[t] = "init" -> "replying"
                    [] op[t] = "scan" -> "scanning"
                    [] OTHER -> "naming"

\* The target accepts.
CreateOk(t) ==
    /\ pc[t] = "creating"
    /\ \E b \in Backends \ ToSet(list) :
        /\ list' = Append(list, b)
        /\ bk' = [bk EXCEPT ![b] = [Closed EXCEPT !.inUse = TRUE]]
        /\ be' = [be EXCEPT ![t] = b]
    /\ named' = NamedTarget
    /\ succeeded' = TRUE
    /\ initResp' = IF succeeded THEN initResp ELSE "ok"
    /\ GoTo(t, AfterCreate(t))
    /\ UNCHANGED <<op, qry, rs, outOf, again, fset, answer, reqs, stranded>>

\* get_set gives up with a diagnostic and found_set as it is: when that is the
\* set of a search that was restarted, search() or present() goes on and
\* dereferences the null found_backend.
GiveUp(t) == IF rs[t] = NoId THEN "idle" ELSE "nullBackend"

AfterNoBackend(t) == CASE op[t] = "init" -> "initReply"
                       [] op[t] = "scan" -> "idle"
                       [] OTHER -> GiveUp(t)

\* The target refuses (an Init response with result 0), or accepts on a session
\* that is closed, or closes without an answer; in the last case
\* m_named_result_sets stays reset.  What it answered is kept as the class's
\* Init response as long as no session was made.
CreateFail(t) ==
    /\ pc[t] = "creating"
    /\ \/ /\ named' = NamedTarget
          /\ \E r \in {"ok", "refused"} : initResp' = IF succeeded THEN initResp ELSE r
       \/ named' = FALSE /\ UNCHANGED initResp
    /\ NotifyAllAndGo(t, AfterNoBackend(t))
    /\ Forget(t)
    /\ UNCHANGED <<list, bk, succeeded, op, qry, fset, answer, reqs>>

\* Rep::init answers with the class's Init response, once it has released the
\* backend it created; a negative one closes the client's session.
InitReply(t) ==
    /\ pc[t] = "initReply"
    /\ GoTo(t, IF initResp = "ok" THEN "idle" ELSE "new")
    /\ UNCHANGED <<classVars, op, qry, be, rs, outOf, again, fset, answer, reqs,
                   stranded>>

-----------------------------------------------------------------------------
(* get_set.                                                                *)

\* The lock is held: at the top, or after a wait.  out_of_sessions is only
\* computed at the top.
InGetSet(t) == pc[t] \in {"getset", "woken"}
OutOfSessions(t) ==
    IF pc[t] = "getset" THEN Len(list) >= SessionMax ELSE outOf[t]

SetsOf(k) == bk[list[k]].sets

\* Positions in m_backend_list of the backends with a set for q; q stands for the
\* query and what is compared with it, additionalSearchInfo too
Matching(q) ==
    {k \in DOMAIN list : \E i \in DOMAIN SetsOf(k) : SetsOf(k)[i].q = q}

Match(t) == OptimizeSearch /\ Matching(qry[t]) # {}
FirstMatch(t) == list[Min(Matching(qry[t]))]

\* The first similar search is in use: wait for it.
WaitForSet(t) ==
    /\ InGetSet(t)
    /\ Match(t)
    /\ bk[FirstMatch(t)].inUse
    /\ outOf' = [outOf EXCEPT ![t] = OutOfSessions(t)]
    /\ GoTo(t, "asleep")
    /\ UNCHANGED <<classVars, op, qry, be, rs, again, fset, answer, reqs, stranded>>

\* boost::condition may return without a notification.
SpuriousWake(t) ==
    /\ pc[t] = "asleep"
    /\ GoTo(t, "woken")
    /\ stranded' = stranded \ {t}
    /\ UNCHANGED <<classVars, op, qry, be, rs, outOf, again, fset, answer, reqs>>

\* present(): the record cache of the set has the records, or the target is asked.
AnswerFromCache(t, s) ==
    /\ s.records # NoQuery
    /\ answer' = [answer EXCEPT ![t] = s.records]
    /\ GoTo(t, "replying")

AskTarget(t) == GoTo(t, "presenting") /\ UNCHANGED answer

\* ... is idle: take it.  search() answers from it.
FindSet(t) ==
    /\ InGetSet(t)
    /\ Match(t)
    /\ ~bk[FirstMatch(t)].inUse
    /\ LET b == FirstMatch(t)
           i == Min({j \in DOMAIN bk[b].sets : bk[b].sets[j].q = qry[t]})
           s == bk[b].sets[i]
       IN  /\ be' = [be EXCEPT ![t] = b]
           /\ rs' = [rs EXCEPT ![t] = s.id]
           /\ bk' = [bk EXCEPT ![b].inUse = TRUE]
           /\ \/ /\ op[t] = "search"
                 /\ fset' = [fset EXCEPT ![t] = qry[t]]
                 /\ GoTo(t, "replying")
                 /\ UNCHANGED answer
              \/ /\ op[t] = "present"
                 /\ AnswerFromCache(t, s) \/ AskTarget(t)
                 /\ UNCHANGED fset
    /\ UNCHANGED <<list, named, succeeded, initResp, op, qry, outOf, again, reqs,
                   stranded>>

\* override_set.  max_sets:
MaxSets == IF named THEN SetMax ELSE 1

\* First loop: the sets of idle backends that a search for q may replace once
\* they are past their TTL, or at once when there are no sessions left.
Reusable(q) ==
    {p \in (DOMAIN list) \X (1 .. MaxId + 1) :
        /\ ~bk[list[p[1]]].inUse
        /\ p[2] \in DOMAIN SetsOf(p[1])
        /\ MaxSets > 1 \/ DbOf[SetsOf(p[1])[p[2]].q] = DbOf[q]}

NotAfter(p, r) == p[1] < r[1] \/ (p[1] = r[1] /\ p[2] <= r[2])

\* Second loop: the idle backends with room for another set.
Roomy == {k \in DOMAIN list : ~bk[list[k]].inUse /\ Len(SetsOf(k)) < MaxSets}

\* The reused set leaves m_sets; its name goes to the new search.  A mutant
\* that leaves it there
DropKeepsSet(b, i) == bk[b].sets
DropSet(b, i) == RemoveAt(bk[b].sets, i)

OverrideSet(t) ==
    /\ InGetSet(t)
    /\ ~Match(t)
    /\ \E p \in Reusable(qry[t]) :
        /\ OutOfSessions(t) => \A r \in Reusable(qry[t]) : NotAfter(p, r)
        /\ LET b == list[p[1]]
           IN  /\ be' = [be EXCEPT ![t] = b]
               /\ rs' = [rs EXCEPT ![t] = bk[b].sets[p[2]].id]
               /\ bk' = [bk EXCEPT ![b].inUse = TRUE,
                                   ![b].sets = DropSet(b, p[2])]
    /\ GoTo(t, "searching")
    /\ UNCHANGED <<list, named, succeeded, initResp, op, qry, outOf, again, fset,
                   answer, reqs, stranded>>

NothingToReuse(t) == OutOfSessions(t) => Reusable(qry[t]) = {}

AddSet(t) ==
    /\ InGetSet(t)
    /\ ~Match(t)
    /\ NothingToReuse(t)
    /\ Roomy # {}
    /\ LET b == list[Min(Roomy)]
       IN  /\ NewId(b) \in Ids
           /\ be' = [be EXCEPT ![t] = b]
           /\ rs' = [rs EXCEPT ![t] = NewId(b)]
           /\ bk' = [bk EXCEPT ![b].inUse = TRUE,
                               ![b].sequence = NextSequence(b)]
    /\ GoTo(t, "searching")
    /\ UNCHANGED <<list, named, succeeded, initResp, op, qry, outOf, again, fset,
                   answer, reqs, stranded>>

\* No backend to use: create one, unless there are too many.
CreateForSet(t) ==
    /\ InGetSet(t)
    /\ ~Match(t)
    /\ NothingToReuse(t)
    /\ Roomy = {}
    /\ ~OutOfSessions(t)
    /\ GoTo(t, "creating")
    /\ UNCHANGED <<classVars, op, qry, be, rs, outOf, again, fset, answer, reqs,
                   stranded>>

AllInUse(t) ==
    /\ InGetSet(t)
    /\ ~Match(t)
    /\ NothingToReuse(t)
    /\ Roomy = {}
    /\ OutOfSessions(t)
    /\ GoTo(t, GiveUp(t))
    /\ Forget(t)
    /\ UNCHANGED <<classVars, op, qry, fset, answer, reqs, stranded>>

\* The name of the first set of a new backend, chosen without the lock.
NameSet(t) ==
    /\ pc[t] = "naming"
    /\ NewId(be[t]) \in Ids
    /\ rs' = [rs EXCEPT ![t] = NewId(be[t])]
    /\ bk' = [bk EXCEPT ![be[t]].sequence = NextSequence(be[t])]
    /\ GoTo(t, "searching")
    /\ UNCHANGED <<list, named, succeeded, initResp, op, qry, be, outOf, again,
                   fset, answer, reqs, stranded>>

\* (external) the target holds q, or nothing, under this name
Holds(b, id, q) == [bk EXCEPT ![b].target[id] = q]

\* The search succeeds: the set joins m_sets, without the lock; search() is
\* answered and present() goes on.
SearchOk(t) ==
    /\ pc[t] = "searching"
    /\ bk' = [Holds(be[t], rs[t], qry[t]) EXCEPT ![be[t]].sets =
                 Append(@, [id |-> rs[t], q |-> qry[t], records |-> NoQuery])]
    /\ fset' = IF op[t] = "search" THEN [fset EXCEPT ![t] = qry[t]] ELSE fset
    /\ GoTo(t, IF op[t] = "search" THEN "replying" ELSE "presenting")
    /\ UNCHANGED <<list, named, succeeded, initResp, op, qry, be, rs, outOf,
                   again, answer, reqs, stranded>>

\* A diagnostic: no set, the backend is released.  A mutant that caches the set
\* although the target has none
SearchDiagCached(t) ==
    /\ pc[t] = "searching"
    /\ bk' = [Holds(be[t], rs[t], NoQuery) EXCEPT ![be[t]].inUse = FALSE,
                 ![be[t]].sets =
                     Append(@, [id |-> rs[t], q |-> qry[t], records |-> NoQuery])]
    /\ NotifyAllAndGo(t, "idle")
    /\ Forget(t)
    /\ UNCHANGED <<list, named, succeeded, initResp, op, qry, fset, answer, reqs>>

SearchDiag(t) ==
    /\ pc[t] = "searching"
    /\ bk' = [Holds(be[t], rs[t], NoQuery) EXCEPT ![be[t]].inUse = FALSE]
    /\ NotifyAllAndGo(t, "idle")
    /\ Forget(t)
    /\ UNCHANGED <<list, named, succeeded, initResp, op, qry, fset, answer, reqs>>

\* Diagnostic 2, or a negative hit count: once, the backend is removed and
\* get_set begins again, with found_backend reset and found_set not.
SearchRestart(t) ==
    /\ pc[t] = "searching"
    /\ Restart /\ ~again[t]
    /\ RemoveAndGo(t, "getset")
    /\ be' = [be EXCEPT ![t] = NoBackend]
    /\ again' = [again EXCEPT ![t] = TRUE]
    /\ outOf' = [outOf EXCEPT ![t] = FALSE]
    /\ UNCHANGED <<named, succeeded, initResp, op, qry, rs, fset, answer, reqs>>

\* The target closed: the backend is removed.
SearchLost(t) ==
    /\ pc[t] = "searching"
    /\ RemoveAndGo(t, "idle")
    /\ Forget(t)
    /\ UNCHANGED <<named, succeeded, initResp, op, qry, fset, answer, reqs>>

-----------------------------------------------------------------------------
(* present, scan, and the end of a request.                                *)

\* Records arrive; they may be cached with the set; the backend is released.
PresentOk(t) ==
    /\ pc[t] = "presenting"
    /\ LET b == be[t]
           got == bk[b].target[rs[t]]
       IN  /\ answer' = [answer EXCEPT ![t] = got]
           /\ \E keep \in BOOLEAN :
                bk' = [bk EXCEPT
                    ![b].inUse = FALSE,
                    ![b].sets = [i \in DOMAIN @ |->
                        IF keep /\ @[i].id = rs[t] THEN [@[i] EXCEPT !.records = got]
                        ELSE @[i]]]
    /\ NotifyAllAndGo(t, "idle")
    /\ Forget(t)
    /\ UNCHANGED <<list, named, succeeded, initResp, op, qry, fset, reqs>>

PresentLost(t) ==
    /\ pc[t] = "presenting"
    /\ RemoveAndGo(t, "idle")
    /\ Forget(t)
    /\ UNCHANGED <<named, succeeded, initResp, op, qry, fset, answer, reqs>>

\* A scan that loses its target closes the client's session too.
ScanLost(t) ==
    /\ pc[t] = "scanning"
    /\ RemoveAndGo(t, "new")
    /\ Forget(t)
    /\ Disconnect(t)
    /\ UNCHANGED <<named, succeeded, initResp, op, reqs>>

\* release_backend at the end of search(), present(), scan() and init().
Reply(t) ==
    /\ pc[t] \in {"replying", "scanning"}
    /\ ReleaseBackend(t)
    /\ NotifyAllAndGo(t, IF op[t] = "init" THEN "initReply" ELSE "idle")
    /\ Forget(t)
    /\ UNCHANGED <<list, named, succeeded, initResp, op, qry, fset, answer, reqs>>

\* The null pointer is used: the process dies.
Crash(t) ==
    /\ pc[t] = "nullBackend"
    /\ pc' = [u \in Threads |-> "crashed"]
    /\ UNCHANGED <<classVars, op, qry, be, rs, outOf, again, fset, answer, reqs,
                   stranded>>

Crashed == \A t \in Threads : pc[t] = "crashed"

\* expire_instances: idle backends past their TTL.  A mutant that does not look
\* at m_in_use
ExpirableAny == ToSet(list)
Expirable == IdleBackends

ExpireIdle ==
    /\ ~Crashed
    /\ \E b \in Expirable : EraseBackend(b)
    /\ UNCHANGED <<named, succeeded, initResp, thread>>

-----------------------------------------------------------------------------
StartRequest(t) ==
    \/ StartInit(t) \/ StartBadSearch(t) \/ StartPresent(t)
    \/ StartScanCreate(t)
    \/ StartScan(t) \/ Leave(t)
    \/ \E q \in Queries : StartSearch(t, q)

GetSet(t) == WaitForSet(t) \/ FindSet(t) \/ OverrideSet(t) \/ AddSet(t)
             \/ CreateForSet(t) \/ AllInUse(t)

\* The target answers every request, one way or another (z3950_client and the
\* other backend filters answer a timeout themselves).
Answer(t) == CreateOk(t) \/ CreateFail(t)
             \/ SearchOk(t) \/ SearchDiag(t) \/ SearchRestart(t) \/ SearchLost(t)
             \/ PresentOk(t) \/ PresentLost(t) \/ ScanLost(t)

Finish(t) == NameSet(t) \/ InitReply(t) \/ Reply(t) \/ Crash(t)

Next == \/ \E t \in Threads : \/ StartRequest(t)
                              \/ GetSet(t)
                              \/ Answer(t)
                              \/ Finish(t)
                              \/ SpuriousWake(t)
        \/ ExpireIdle

Spec == Init /\ [][Next]_vars

\* A thread that can go on does.
FairSpec ==
    /\ Spec
    /\ \A t \in Threads : WF_vars(GetSet(t) \/ Answer(t) \/ Finish(t))

-----------------------------------------------------------------------------
(* Properties.                                                             *)

\* A backend in m_backend_list is in use exactly while one thread has it, and
\* never two: a Z39.50 session carries one request at a time.  No path through
\* get_set, create_backend, remove_backend and release_backend leaks an in-use
\* backend or works on one that was expired or removed under it.
OneHolder ==
    /\ \A t \in Threads : be[t] # NoBackend =>
        /\ be[t] \in ToSet(list)
        /\ bk[be[t]].inUse
        /\ \A u \in Threads : be[u] = be[t] => u = t
    /\ \A b \in ToSet(list) : bk[b].inUse => \E t \in Threads : be[t] = b

\* What m_sets says of a backend is what its target has: each set's name
\* designates, at the target, the result of that set's query; no two sets share
\* a name; cached records belong to the query; and there are no more sets than
\* the target and the configuration allow, although m_named_result_sets is
\* reset by every failed create_backend.
SetsMatchTarget ==
    \A b \in ToSet(list) :
        /\ \A i \in DOMAIN bk[b].sets :
            /\ bk[b].target[bk[b].sets[i].id] = bk[b].sets[i].q
            /\ bk[b].sets[i].records \in {NoQuery, bk[b].sets[i].q}
            /\ \A j \in DOMAIN bk[b].sets : bk[b].sets[i].id = bk[b].sets[j].id => i = j
        /\ Len(bk[b].sets) <= IF NamedTarget THEN SetMax ELSE 1

\* A client never receives the records of another query than the one its
\* result set stands for, whichever backend, set and cache served it.
RightRecords == \A t \in Threads : answer[t] \in {NoQuery, qry[t]}

\* The number of sessions to the target, the ones being opened included, passes
\* m_session_max by less than the number of threads: get_set compares the
\* length of m_backend_list with the limit before it drops the lock and creates,
\* and scan and init do not compare at all.
Creating == {t \in Threads : pc[t] = "creating"}
SessionsBounded ==
    Len(list) + Cardinality(Creating) < SessionMax + Cardinality(Threads)

\* The sessions of the class stay accounted for, whatever a target does: each is in
\* use by the one thread that has it and not deleted under it, and there are at most
\* as many beyond m_session_max as threads that could pass the test together.
SessionsAccounted == TypeOK /\ OneHolder /\ SessionsBounded

\* A thread asleep on m_cond_set_ready waits for a backend that some thread has
\* and will give back with a notification, unless that backend was removed:
\* remove_backend wakes nobody.
WaiterHasWaker ==
    \A t \in Threads : pc[t] = "asleep" /\ t \notin stranded =>
        \E k \in Matching(qry[t]) : bk[list[k]].inUse

\* Every request is answered in the end, unless it sleeps on after the removal
\* of the backend it waited for, or the process crashed.
EveryRequestAnswered ==
    \A t \in Threads : pc[t] \notin {"new", "idle"} ~>
                       pc[t] \in {"new", "idle"} \/ t \in stranded \/ Crashed

\* The restart of a failed search never reaches search() or present() with a set
\* but no backend.
NoNullBackend == \A t \in Threads : pc[t] # "nullBackend"
=============================================================================
