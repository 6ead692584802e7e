------------------------------- MODULE Gateway ------------------------------
(***************************************************************************)
(* The chain of Route with or without sru_z3950                            *)
(* (src/src/filter_sru_to_z3950.cpp, sru_util.cpp) above it.  That filter  *)
(* makes of one HTTP request an Init, a Search, Presents until it has the  *)
(* records, and a package without request whose session is closed, for the *)
(* filters below to forget the session.  Each has a copy of the session.   *)
(***************************************************************************)
EXTENDS Route

CONSTANTS
    HttpRequests,   \* startRecord and maximumRecords of a searchRetrieve
    MaxRecs         \* conf_max_recs, 0: none

ASSUME GatewayAssumption ==
    /\ HttpRequests \subseteq [start : Nat, max : Nat]
    /\ MaxRecs \in Nat

VARIABLES
    entry,     \* sru_z3950: the session in m_clients: "none", "idle" or "used"
    job,       \* the HTTP request of a package and how far it is
    unclosed   \* an Init was refused, and no closed package sent since (history)

sruVars == <<entry, job, unclosed>>
vars == <<routeVars, sruVars>>

\* end: how the requests went: no complaint so far, a diagnostic for the client, or a
\* response without records, with which it gets what there is
NoJob == [step |-> "none", start |-> 0, max |-> 0, recs |-> << >>, src |-> {}, end |-> "whole"]

Init ==
    /\ RouteInit
    /\ entry = "none"
    /\ job = [p \in Pkgs |-> NoJob]
    /\ unclosed = FALSE

TypeOK ==
    /\ RouteTypeOK
    /\ entry \in {"none", "idle", "used"}
    /\ \A p \in Pkgs : job[p].step \in {"none", "pass", "init", "search", "present", "close"}
    /\ unclosed \in BOOLEAN

unchangedBelow == UNCHANGED <<conf, reply, got, user, ses, front, target, passed, early, crossed,
                              late, ended>>

-----------------------------------------------------------------------------
\* get_frontend
GetFrontend(p) ==
    /\ pc[p] = "wait"
    /\ entry # "used"
    /\ entry' = "used"
    /\ Go(p, "sru")
    /\ UNCHANGED <<closed, req, job, unclosed>>
    /\ unchangedBelow

\* A package of the filter's own, with a copy of the session, goes down the chain.
Send(p, r, j) ==
    /\ req' = [req EXCEPT ![p] = r]
    /\ closed' = [closed EXCEPT ![p] = j.step = "close"]
    /\ job' = [job EXCEPT ![p] = j]
    /\ Go(p, "auth")
    /\ UNCHANGED entry

\* build_sru_response: by its headers the HTTP request may close the session.
Respond(p, j) ==
    /\ \E close \in BOOLEAN : closed' = [closed EXCEPT ![p] = close]
    /\ job' = [job EXCEPT ![p] = j]
    /\ Go(p, "release")
    /\ UNCHANGED <<entry, req>>

\* z3950_init_request
InitRequest(cred) ==
    [kind |-> "init", cred |-> cred, vhosts |-> Granted, named |-> TRUE]

\* z3950_search_request: a set called default, and no records with the response
SearchRequest ==
    [kind |-> "search", db |-> CHOOSE d \in Granted : TRUE, named |-> FALSE, replace |-> TRUE,
     piggy |-> 0, syntax |-> "xml"]

\* The records to fetch, when startRecord is not beyond the last; a mutant that
\* leaves out the last one
Most(j) == IF MaxRecs > 0 /\ j.max > MaxRecs THEN MaxRecs ELSE j.max
max_recs_short(j) == IF Most(j) > Hits - j.start THEN Hits - j.start ELSE Most(j)
max_recs(j) == IF Most(j) > Hits - j.start THEN Hits + 1 - j.start ELSE Most(j)

\* z3950_present_request: what is left to fetch
PresentRequest(j) ==
    [kind |-> "present", named |-> FALSE, syntax |-> "xml",
     start |-> j.start + Len(j.recs), number |-> max_recs(j) - Len(j.recs)]

\* z3950_close_request
SendClose(p, j) == Send(p, None, [j EXCEPT !.step = "close"])

\* sru, up to the first package sent.  Explain, scan and requests that cannot be
\* decoded or have no query are answered here.
Sru(p) ==
    /\ pc[p] = "sru"
    /\ \/ /\ closed[p]
          /\ job' = [job EXCEPT ![p] = [NoJob EXCEPT !.step = "pass"]]
          /\ Go(p, "auth")
          /\ UNCHANGED <<closed, req, entry>>
          /\ unclosed' = FALSE
       \/ ~closed[p] /\ Respond(p, NoJob) /\ UNCHANGED unclosed
       \/ /\ ~closed[p]
          /\ \E h \in HttpRequests, cred \in {"good", "bad"} :
                Send(p, InitRequest(cred), [NoJob EXCEPT !.step = "init", !.start = h.start,
                                                         !.max = h.max])
          /\ UNCHANGED unclosed
    /\ unchangedBelow

Failed(j) == [j EXCEPT !.end = "diag"]
Stopped(j) == [j EXCEPT !.end = "short"]

\* After z3950_init_request: a query that cannot be converted sends no search.
InitBack(p, j) ==
    IF reply[p].kind # "init" THEN Respond(p, Failed(j)) /\ unclosed' = TRUE
    ELSE /\ \/ Send(p, SearchRequest, [j EXCEPT !.step = "search"])
            \/ SendClose(p, Failed(j))
         /\ unclosed' = unclosed

\* After z3950_search_request; unsupported parameters and a startRecord that is
\* out of range are diagnostics.
SearchBack(p, j) ==
    \/ reply[p].kind # "search" /\ SendClose(p, Failed(j))
    \/ reply[p].kind = "search" /\ (Hits = 0 \/ j.max = 0) /\ SendClose(p, j)
    \/ reply[p].kind = "search" /\ Hits > 0 /\ j.max > 0 /\ SendClose(p, Failed(j))
    \/ /\ reply[p].kind = "search" /\ Hits > 0 /\ j.max > 0 /\ j.start <= Hits
       /\ Send(p, PresentRequest(j), [j EXCEPT !.step = "present"])

\* The loop of z3950_present_request
Collected(j, r) == [j EXCEPT !.recs = @ \o r.recs, !.src = @ \cup Orders(r)]
PresentBack(p, j) ==
    IF reply[p].kind = "empty" THEN SendClose(p, Stopped(j))
    ELSE IF reply[p].kind # "present" THEN SendClose(p, Failed(j))
    ELSE LET k == Collected(j, reply[p])
         IN  IF Len(k.recs) < max_recs(k) THEN Send(p, PresentRequest(k), k) ELSE SendClose(p, k)

\* A package has come back up the chain.
Back(p) ==
    /\ pc[p] = "back"
    /\ LET j == job[p]
       IN  \/ j.step = "pass" /\ Go(p, "release") /\ UNCHANGED <<closed, req, sruVars>>
           \/ j.step = "init" /\ InitBack(p, j)
           \/ j.step = "search" /\ SearchBack(p, j) /\ UNCHANGED unclosed
           \/ j.step = "present" /\ PresentBack(p, j) /\ UNCHANGED unclosed
           \/ j.step = "close" /\ Respond(p, j) /\ unclosed' = FALSE
    /\ unchangedBelow

\* release_frontend
ReleaseFrontend(p) ==
    /\ pc[p] = "release"
    /\ entry' = IF closed[p] THEN "none" ELSE "idle"
    /\ job' = [job EXCEPT ![p] = NoJob]
    /\ Go(p, "left")
    /\ UNCHANGED <<closed, req, unclosed>>
    /\ unchangedBelow

SruStep(p) == GetFrontend(p) \/ Sru(p) \/ Back(p) \/ ReleaseFrontend(p)

Next ==
    \/ RouteNext /\ UNCHANGED sruVars
    \/ \E p \in Pkgs : SruStep(p)

Spec == Init /\ [][Next]_vars

\* Threads of the pool run; the sleep of limit and the target's answer end; and a
\* target does not answer one request with an empty list for ever.
EmptyList(answer) == answer.kind = "present" /\ answer.recs = << >>
FairSpec ==
    /\ Spec
    /\ \A p \in Pkgs : /\ WF_vars((ChainStep(p) \/ Result(p)) /\ UNCHANGED sruVars)
                       /\ WF_vars(SruStep(p))
    /\ SF_vars(\E p \in Pkgs : Serve(p) /\ ~EmptyList(reply[p])' /\ UNCHANGED sruVars)

-----------------------------------------------------------------------------
\* recs are the records from position start on, each in an order that src names;
\* more than one order only when allowed.
InOrder(recs, src, start, mayMix) ==
    /\ Cardinality(src) > 1 => mayMix
    /\ \A i \in DOMAIN recs : \E o \in src :
          /\ start + i - 1 \in DOMAIN Order(o)
          /\ recs[i] = Order(o)[start + i - 1]

\* The records are of one search, and the last asked for is beyond sort's list.
PastList(src, last) ==
    \E o \in src : o[2] < last /\ src = {o, <<o[1], 0>>}

\* The positions a searchRetrieve asks for
Wanted(j) ==
    {i \in 1 .. Hits : /\ i >= j.start /\ i < j.start + j.max
                       /\ MaxRecs > 0 => i < j.start + MaxRecs}

\* Records reach the client from the position asked for, as many as asked for, in
\* one order of one search, however limit, present_chunk, sort and sru_z3950 cut
\* the request up.  When another package is served between two chunks, or a chunk
\* is beyond what sort has in its list, chunks may be in two orders, but each of
\* the positions asked for.  The records that come with a search response are the
\* first ones.  Only sru_z3950 gives fewer than there are, when the target's answer
\* has none.  And sort has no list of a search that another has replaced.
RightRecords ==
    /\ \A x \in front.sets : \A l \in x.lists : l.search = target.found[x.name]
    /\ \A p \in Pkgs :
        LET r == req[p]
            a == reply[p]
            j == job[p]
            out == pc[p] \in {"limitout", "left"}
        IN  /\ out /\ a.kind = "present" /\ r.kind = "present" /\ r.start > 0 =>
                  /\ InOrder(a.recs, a.src, r.start,
                             p \in crossed \/ PastList(a.src, r.start + r.number - 1))
                  /\ Chunked(p) \/ ~conf.faulty => Len(a.recs) = r.number
            /\ out /\ a.kind = "search" /\ r.kind = "search" =>
                  /\ InOrder(a.recs, a.src, 1, FALSE)
                  /\ Len(a.recs) <= r.piggy
                  /\ ~conf.faulty => Len(a.recs) = r.piggy
            /\ j.step = "close" /\ j.start > 0 =>
                  /\ InOrder(j.recs, j.src, j.start, PastList(j.src, j.start + max_recs(j) - 1))
                  /\ j.end = "whole" => Len(j.recs) = Cardinality(Wanted(j))

Clean == ~ses /\ front.entry = "none" /\ ~target.up

\* When a session is over, limit, sort and the target have forgotten it, unless a
\* package came down after a closed one or auth_simple closed it; and each HTTP
\* request leaves nothing behind below sru_z3950, unless its Init was refused.
Forgotten ==
    /\ TypeOK
    /\ conf.front = "z3950" /\ ended /\ InPool = {} => Clean \/ late
    /\ conf.front = "sru" /\ entry # "used" => Clean \/ unclosed

\* With a user register, a search of a database that is not the user's is answered
\* only if it overtook the Init at auth_simple; with a target register, only
\* targets of the user get past it.
Authorised ==
    \A p \in Pkgs :
        /\ conf.auth = "users" /\ req[p].kind = "search" /\ reply[p].kind = "search"
              => req[p].db \in Granted \/ p \in early
        /\ conf.auth = "targets" /\ req[p].kind = "init" /\ reply[p].kind = "init"
              => req[p].vhosts \subseteq Granted

\* Every package is answered: the loops of present_chunk and sru_z3950 end, and a
\* client that sends no more has all its answers.
EveryPackageAnswered == InPool # {} ~> InPool = {}
=============================================================================
