-------------------------------- MODULE Zoom --------------------------------
(***************************************************************************)
(* The zoom filter (src/src/filter_zoom.cpp): a Z39.50 client of it is     *)
(* served by ZOOM connections, one at a time (m_backend), to the target of *)
(* the database it names, possibly through one of a list of proxies.       *)
(*                                                                         *)
(* A search may go round several times (next_proxy): each call that waits  *)
(* for something outside is a step of its own.  Errors found before        *)
(* m_backend is reset are one alternative, LookupFails.                    *)
(***************************************************************************)
EXTENDS Clients, Sequences, FiniteSetsExt, Piggyback

CONSTANTS
    Dbs,         \* the databases a client names, with their arguments
    Info,        \* what is known of each: [proxies, cfProxy, retry,
                 \* content, explain]
    Proxies,     \* the proxies that are configured somewhere
    NoProxy,
    MaxHits,     \* bound: hits of a search
    PresentCap,  \* most records in a response; 10000 in the code
    PiggyBounds  \* piggyback bounds of search requests

ASSUME ZoomAssumption ==
    /\ \A d \in Dbs : Info[d].retry \in BOOLEAN /\ Info[d].explain \in BOOLEAN
                      /\ Info[d].proxies \in Seq(Proxies)
                      /\ Info[d].cfProxy \in Proxies \cup {NoProxy}
    /\ MaxHits \in Nat
    /\ PresentCap \in Nat
    /\ PiggyBounds \subseteq Bounds

VARIABLES
    virtual,     \* m_is_virtual
    backend,     \* m_backend: a ZOOM connection and its result set, or { }; set says
                 \* that it has one (m_resultset), search whose it is, 0 after a
                 \* search that failed
    cur,         \* the search under way: the local state of handle_search, or { }
    want,        \* the last search that the client was given a hit count for; 0 when
                 \* a later one has got as far as the target and not succeeded
    answer,      \* what the last response says
    shown        \* the records in it: of which search, and how many; or { }

zoomVars == <<virtual, backend, cur, want, answer, shown>>
vars == <<clientVars, zoomVars>>

NewBackend(d, proxy) ==
    [db |-> d, explain |-> FALSE, proxy |-> proxy, set |-> FALSE, search |-> 0, hits |-> 0]

TypeOK ==
    /\ ClientsTypeOK
    /\ virtual \in BOOLEAN
    /\ Cardinality(backend) <= 1
    /\ \A b \in backend : b.db \in Dbs /\ b.set \in BOOLEAN /\ b.search \in 0 .. MaxPkgs
                          /\ b.hits \in 0 .. MaxHits
    /\ Cardinality(cur) <= 1
    /\ \A c \in cur : c.db \in Dbs /\ c.at \in {"get", "query", "run", "failed"}
                      /\ c.step \in Nat /\ c.same \in Nat /\ c.retries \in Nat
    /\ want \in 0 .. MaxPkgs
    /\ answer \in {"none", "hits", "error", "proxyFailure", "records", "noSet", "init",
                 "close", "undefined"}

Init ==
    /\ ClientsInit
    /\ virtual = FALSE
    /\ backend = {}
    /\ cur = {}
    /\ want = 0
    /\ answer = "none"
    /\ shown = {}

-----------------------------------------------------------------------------
get_frontend(p) == Get(p) /\ UNCHANGED zoomVars

\* The Frontend that is erased takes its backend with it.
release_frontend(p) ==
    /\ Release(p)
    /\ IF closed[p]
       THEN virtual' = FALSE /\ backend' = {} /\ want' = 0
       ELSE UNCHANGED <<virtual, backend, want>>
    /\ answer' = "none"
    /\ shown' = {}
    /\ cur' = {}

\* The package p is given a response without records.
Respond(p, kind) ==
    /\ answer' = kind
    /\ shown' = {}
    /\ Handled(p, FALSE)

\* get_records, with what the connection gives of n records asked for: an error,
\* or those before the first one missing.  From which position they are asked for
\* makes no difference to whose they are.
Least(m, n) == IF m < n THEN m ELSE n
get_records(b, n) == 0 .. Least(Least(n, PresentCap), b.hits)
get_explain_records(b, n) == {Least(Least(n, PresentCap), b.hits)}

\* A connection that has not been searched: there is no set to ask, recs stays as it
\* was allocated, and what it holds is taken for records.
Unset(b) == ~b.explain /\ ~b.set
Garbage(n) == {[search |-> 0, of |-> 0, number |-> k] : k \in 1 .. Least(n, PresentCap)}

\* Records of b's set, in a response to a request for n of them
Records(b, k) == IF k = 0 THEN {} ELSE {[search |-> b.search, of |-> b.hits, number |-> k]}

-----------------------------------------------------------------------------
(* handle_search.                                                          *)

ProxyList(d) == Info[d].proxies

\* The search begins, unless it names more than one database.
BeginSearch(d) ==
    /\ cur = {}
    /\ cur' = {[db |-> d, at |-> "get", step |-> 0, same |-> 0, retries |-> 0,
                proxy |-> NoProxy, failed |-> {}, reused |-> FALSE]}
    /\ UNCHANGED <<clientVars, virtual, backend, want, answer, shown>>

TooManyDatabases(p) ==
    /\ cur = {}
    /\ Respond(p, "error")
    /\ UNCHANGED <<virtual, backend, cur, want>>

\* The connection of m_backend is used again.
Reusable(c) == \E b \in backend : ~b.explain /\ b.db = c.db

\* "find the step after our current proxy": 0 after the last one, or if there is
\* none; and the step after one that was guessed from the step
StepAfter(d, proxy) ==
    LET at == {i \in DOMAIN ProxyList(d) : ProxyList(d)[i] = proxy}
    IN  IF at = {} \/ Min(at) = Len(ProxyList(d)) THEN 0 ELSE Min(at)
NextStep(d, step) == IF step + 1 >= Len(ProxyList(d)) THEN 0 ELSE step + 1
Guessed(d, step) ==
    IF ProxyList(d) = << >> THEN Info[d].cfProxy ELSE ProxyList(d)[step + 1]

\* get_backend_from_databases, for the database of m_backend
Reuse(c) ==
    /\ Reusable(c)
    /\ \E b \in backend, ok \in BOOLEAN :
          cur' = {[c EXCEPT !.at = IF ok THEN "query" ELSE "failed",
                            !.step = StepAfter(c.db, b.proxy),
                            !.reused = @ \/ (c.retries = 0 /\ c.same = 0),
                            !.proxy = b.proxy]}
    /\ UNCHANGED <<clientVars, virtual, backend, want, answer, shown>>

\* ... which is not found: a bad argument, no target profile, or one that cannot
\* be used.  m_backend stays as it is.
LookupFails(p, c) ==
    /\ ~Reusable(c)
    /\ Respond(p, "error")
    /\ cur' = {}
    /\ UNCHANGED <<virtual, backend, want>>

\* ... by a new connection: m_backend goes first, and the new one takes its place
\* when it is connected and has its content session.
Replace(b, ok) == backend' = IF ok THEN {b} ELSE {}

\* create_content_session: what may come of it, for a target with a content
\* connector or without
create_content_session(d) == IF Info[d].content THEN {TRUE, FALSE} ELSE {TRUE}

Connect(c) ==
    /\ ~Reusable(c)
    /\ ~Info[c.db].explain
    /\ \E connected \in BOOLEAN, content \in create_content_session(c.db) :
          LET proxy == Guessed(c.db, c.step)
              ok == connected /\ content
          IN  /\ Replace(NewBackend(c.db, proxy), ok)
              /\ cur' = {[c EXCEPT !.at = IF ok THEN "query" ELSE "failed",
                                   !.step = NextStep(c.db, c.step),
                                   !.proxy = proxy]}
    /\ want' = 0
    /\ UNCHANGED <<clientVars, virtual, answer, shown>>

\* explain_search: m_backend is what the torus says of the targets.
explain_search(p, c) ==
    /\ Info[c.db].explain
    /\ ~Reusable(c)
    /\ \/ /\ Respond(p, "error")
          /\ backend' = {}
          /\ want' = 0
       \/ /\ \E n \in 0 .. MaxHits :
                backend' = {[NewBackend(c.db, NoProxy) EXCEPT !.explain = TRUE,
                                                              !.search = p, !.hits = n]}
          /\ Respond(p, "hits")
          /\ want' = p
    /\ cur' = {}
    /\ UNCHANGED virtual

get_backend_from_databases(p, c) ==
    /\ c.at = "get"
    /\ Reuse(c) \/ LookupFails(p, c) \/ Connect(c) \/ explain_search(p, c)

-----------------------------------------------------------------------------
\* retry, after the connection or the search failed: the proxy does not answer
\* (check_proxy), so that the next one is tried while there is one.
ProxyFails(p, c) ==
    /\ c.proxy # NoProxy
    /\ backend' = {}
    /\ IF c.step # 0
       THEN /\ cur' = {[c EXCEPT !.at = "get", !.retries = @ + 1,
                                 !.failed = @ \cup {c.proxy}]}
            /\ UNCHANGED <<clientVars, answer, shown>>
       ELSE /\ cur' = {[c EXCEPT !.at = "failed", !.failed = @ \cup {c.proxy}]}
            /\ Respond(p, "proxyFailure")

\* ... or it does, and a search is repeated once.
MayRepeat(c) == Info[c.db].retry /\ c.same = 0 /\ c.retries = 0

\* proxy_step = 0: from the first proxy; and a mutant that goes on from here
FromHere(c) == c.step
FromFirst(c) == 0

\* same_retries++; and a mutant that forgets it
Uncounted(c) == c.same
Counted(c) == c.same + 1

Repeat(c) ==
    /\ MayRepeat(c)
    /\ backend' = {}
    /\ cur' = {[c EXCEPT !.at = "get", !.same = Counted(c), !.step = FromFirst(c)]}
    /\ UNCHANGED <<clientVars, answer, shown>>

GiveUp(p, c) ==
    /\ ~MayRepeat(c)
    /\ Respond(p, "error")
    /\ cur' = {}
    /\ UNCHANGED backend

retry(p, c) ==
    /\ c.at = "failed"
    /\ ProxyFails(p, c) \/ Repeat(c) \/ GiveUp(p, c)
    /\ UNCHANGED <<virtual, want>>

-----------------------------------------------------------------------------
\* The query is converted for the target, or refused: m_backend stays as it is.
ConvertQuery(p, c) ==
    /\ c.at = "query"
    /\ \/ /\ cur' = {[c EXCEPT !.at = "run"]}
          /\ UNCHANGED <<clientVars, answer, shown>>
       \/ /\ cur' = {}
          /\ Respond(p, "error")
    /\ UNCHANGED <<virtual, backend, want>>

\* Backend::search: the result set of the connection is destroyed first; a mutant
\* that keeps it until there is a new one
KeepSet(b) == b
DestroySet(b) == [b EXCEPT !.set = TRUE, !.search = 0, !.hits = 0]

SearchFails(c) ==
    /\ backend' = {DestroySet(b) : b \in backend}
    /\ cur' = {[c EXCEPT !.at = "failed"]}
    /\ want' = 0
    /\ UNCHANGED <<clientVars, answer, shown>>

\* The response has the hit count and the records that piggyback asks for, or a
\* diagnostic in their place.
SearchWorks(p) ==
    \E b \in backend, n \in 0 .. MaxHits, bounds \in PiggyBounds :
        LET found == [b EXCEPT !.set = TRUE, !.search = p, !.hits = n]
        IN  /\ backend' = {found}
            /\ cur' = {}
            /\ want' = p
            /\ Handled(p, FALSE)
            /\ \/ /\ answer' = "hits"
                  /\ \E k \in get_records(found, piggyback(bounds, n)) :
                         shown' = Records(found, k)
               \/ /\ answer' = "error"
                  /\ piggyback(bounds, n) > 0
                  /\ shown' = {}

search(p, c) ==
    /\ c.at = "run"
    /\ SearchFails(c) \/ SearchWorks(p)
    /\ UNCHANGED virtual

handle_search(p) ==
    \/ \E d \in Dbs : BeginSearch(d)
    \/ TooManyDatabases(p)
    \/ \E c \in cur : get_backend_from_databases(p, c) \/ retry(p, c)
                      \/ ConvertQuery(p, c) \/ search(p, c)

-----------------------------------------------------------------------------
\* handle_present: n records of the set of m_backend, whatever its name
handle_present(p, n) ==
    /\ cur = {}
    /\ \/ backend = {} /\ Respond(p, "noSet")
       \/ backend # {} /\ Respond(p, "error")
       \/ \E b \in backend :
             /\ ~Unset(b) \/ n = 0
             /\ answer' = "records"
             /\ \E k \in IF b.explain THEN get_explain_records(b, n) ELSE get_records(b, n) :
                    shown' = Records(b, k)
             /\ Handled(p, FALSE)
       \/ \E b \in backend :
             /\ Unset(b) /\ n > 0
             /\ answer' = "undefined"
             /\ shown' = {} \/ \E r \in Garbage(n) : shown' = {r}
             /\ Handled(p, FALSE)
    /\ UNCHANGED <<virtual, backend, cur, want>>

\* A second Init is answered with Close, and the session stays open; other APDUs
\* and HTTP requests close it.
BadRequest(p, close) ==
    /\ cur = {}
    /\ answer' = "close"
    /\ shown' = {}
    /\ Handled(p, close)
    /\ UNCHANGED <<virtual, backend, cur, want>>

handle_package(p) ==
    \/ /\ closed[p]
       /\ Respond(p, "none")
       /\ UNCHANGED <<virtual, backend, cur, want>>
    \/ /\ ~closed[p]
       /\ \/ handle_search(p)
          \/ \E n \in 0 .. MaxHits + 1 : handle_present(p, n)
          \/ \E close \in BOOLEAN : BadRequest(p, close)

\* An Init that auth lets in makes the session virtual; one that it does not
\* closes it.
InitRequest(p) ==
    /\ ~closed[p]
    /\ \E ok \in BOOLEAN : virtual' = ok /\ Handled(p, ~ok)
    /\ answer' = "init"
    /\ shown' = {}
    /\ UNCHANGED <<backend, cur, want>>

PassOn(p) ==
    /\ \E shut \in BOOLEAN : Handled(p, shut)
    /\ UNCHANGED zoomVars

process(p) ==
    \/ virtual /\ handle_package(p)
    \/ ~virtual /\ (InitRequest(p) \/ PassOn(p))

Environment ==
    /\ \/ \E end \in BOOLEAN : Put(end)
       \/ \E p \in Pkgs : Result(p)
    /\ UNCHANGED zoomVars

Step(p) ==
    \/ get_frontend(p)
    \/ stage[p] = "held" /\ process(p)
    \/ release_frontend(p)

Next == Environment \/ \E p \in Pkgs : Step(p)

Spec == Init /\ [][Next]_vars

\* The pool has a thread for each package, ZOOM calls return (they have timeouts),
\* and release_frontend wakes every package that waits.
FairSpec ==
    /\ Spec
    /\ \A p \in Pkgs : SF_vars(Step(p)) /\ WF_vars(Result(p) /\ UNCHANGED zoomVars)

-----------------------------------------------------------------------------
\* The work on a search and the Frontend have one package at a time.
Consistent ==
    /\ TypeOK
    /\ HeldByOne
    /\ cur # {} => At("held") \cup At("handled") # {}
    /\ \A c \in cur : c.at \in {"query", "run"} => \E b \in backend : b.db = c.db

\* Records in a response are of the last search that the client was given a hit
\* count for, and no more than it found: never of an older one, once a search has
\* been sent to the target or its connection replaced, through any retries.  What a
\* connection that was never searched shows is undefined.
RightRecords ==
    answer # "undefined" =>
        \A r \in shown : r.search = want /\ r.number <= r.of /\ r.number <= PresentCap

\* A proxy failure is reported only when the proxies left to try have failed
\* their check: all of the list, unless the first attempt was on a connection
\* that used one of them already.
ProxiesTried ==
    answer = "proxyFailure" =>
        \A c \in cur :
            LET list == ProxyList(c.db)
            IN  list = << >> \/ \E i \in DOMAIN list :
                    /\ c.failed = {list[j] : j \in i .. Len(list)}
                    /\ i = 1 \/ c.reused
=============================================================================
