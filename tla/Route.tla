-------------------------------- MODULE Route -------------------------------
(***************************************************************************)
(* The packages of one client session on the chain of filters             *)
(*     auth_simple, limit, present_chunk, [sort,] backend_test or a target *)
(* (src/src/filter_auth_simple.cpp, filter_limit.cpp,                      *)
(* filter_present_chunk.cpp; SortedTarget has the rest).  Package::move    *)
(* calls the next filter and returns when everything below has answered,   *)
(* so that a package is at one filter, on its way down or up; packages of  *)
(* the session overtake each other between filters.                        *)
(*                                                                         *)
(* Gateway puts sru_z3950 above the chain: there a package of this module  *)
(* is one of the packages that the filter makes of an HTTP request.        *)
(***************************************************************************)
EXTENDS SortedTarget

CONSTANTS
    MaxPkgs,     \* bound: packages of the session
    InFlight,    \* bound: packages in the thread pool at a time
    Confs,       \* configurations of the chain
    Granted      \* databases (userRegister) or targets (targetRegister) of the user

Pkgs == 1 .. MaxPkgs
None == [kind |-> "none"]

\* What a client asks: found in the set named, or in the default one
IsAsk(r) ==
    CASE r.kind = "init" ->
            r = [kind |-> "init", cred |-> r.cred, vhosts |-> r.vhosts, named |-> r.named]
            /\ r.named \in BOOLEAN
      [] r.kind = "search" ->
            r = [kind |-> "search", db |-> r.db, named |-> r.named, replace |-> r.replace,
                 piggy |-> r.piggy, syntax |-> r.syntax]
            /\ r.named \in BOOLEAN /\ r.replace \in BOOLEAN /\ r.piggy \in Nat
      [] r.kind = "present" ->
            r = [kind |-> "present", named |-> r.named, start |-> r.start, number |-> r.number,
                 syntax |-> r.syntax]
            /\ r.named \in BOOLEAN /\ r.start \in Nat /\ r.number \in Nat
      [] OTHER -> r.kind \in {"scan", "close"}

\* front: "z3950", or "sru" with sru_z3950 above; auth: "none", "users"
\* (userRegister) or "targets"; retrieve: m_max_record_retrieve; chunk:
\* chunk_number; sort: there is a sort filter; faulty: the target is not
\* backend_test; discard: discardUnauthorisedTargets; asks: bound, what the client
\* may ask; pkgs: bound, in how many packages
ASSUME RouteAssumption ==
    /\ MaxPkgs \in Nat \ {0}
    /\ InFlight \in Nat \ {0}
    /\ \A c \in Confs : /\ c.front \in {"z3950", "sru"}
                        /\ c.auth \in {"none", "users", "targets"}
                        /\ c.retrieve \in Nat /\ c.chunk \in Nat
                        /\ c.sort \in BOOLEAN /\ c.faulty \in BOOLEAN /\ c.discard \in BOOLEAN
                        /\ c.pkgs \in 1 .. MaxPkgs
                        /\ \A r \in c.asks : IsAsk(r)

VARIABLES
    conf,      \* the configuration
    pc,        \* the filter a package is at
    req,       \* its request
    closed,    \* its session is closed
    reply,     \* its response
    got,       \* present_chunk: what it has of the response
    user,      \* userBySession has the session
    ses,       \* limit: m_sessions has the session
    front,     \* sort: the Frontend
    target,    \* backend_test
    ended,     \* frontend_net sends no more packages of the session
    passed,    \* an Init has passed auth_simple (history)
    early,     \* packages that passed auth_simple before an Init had (history)
    crossed,   \* presents with another package served between two chunks (history)
    late       \* a filter was not told last that the session is closed (history)

chainVars == <<req, reply, got, user, ses, front, target, passed, early, crossed, late>>
routeVars == <<conf, pc, closed, ended, chainVars>>

Place == {"new", "wait", "sru", "back", "release",
          "auth", "limit", "serve", "limitout", "left", "answered"}
At(where) == {p \in Pkgs : pc[p] = where}
InPool == {p \in Pkgs : pc[p] \notin {"new", "answered"}}

RouteTypeOK ==
    /\ conf \in Confs
    /\ pc \in [Pkgs -> Place]
    /\ closed \in [Pkgs -> BOOLEAN]
    /\ {user, ses, ended, late, passed} \subseteq BOOLEAN
    /\ front.entry \in {"none", "plain", "virtual"}
    /\ early \subseteq Pkgs /\ crossed \subseteq Pkgs
    /\ \A p \in Pkgs : Len(got[p].recs) <= Hits + 1

RouteInit ==
    /\ conf \in Confs
    /\ pc = [p \in Pkgs |-> "new"]
    /\ req = [p \in Pkgs |-> None]
    /\ closed = [p \in Pkgs |-> FALSE]
    /\ reply = [p \in Pkgs |-> Plain("none")]
    /\ got = [p \in Pkgs |-> Plain("present")]
    /\ user = FALSE /\ ses = FALSE /\ ended = FALSE /\ late = FALSE /\ passed = FALSE
    /\ front = NoFrontend
    /\ target = NoTarget
    /\ early = {} /\ crossed = {}

Go(p, where) == pc' = [pc EXCEPT ![p] = where]
Close(p) == closed' = [closed EXCEPT ![p] = TRUE]

\* The filter above the chain gets the package back.
Up(p) == Go(p, IF conf.front = "sru" THEN "back" ELSE "left")

-----------------------------------------------------------------------------
\* frontend_net puts a package into the pool, at the end one that is closed.
Put(end) ==
    /\ ~ended
    /\ Cardinality(InPool) < InFlight
    /\ \E p \in At("new") :
           /\ p <= conf.pkgs /\ \A q \in At("new") : p <= q
           /\ Go(p, IF conf.front = "sru" THEN "wait" ELSE "auth")
           /\ closed' = [closed EXCEPT ![p] = end]
    /\ ended' = end
    /\ UNCHANGED <<conf, chainVars>>

\* ThreadPoolPackage::result
Result(p) ==
    /\ pc[p] = "left"
    /\ Go(p, "answered")
    /\ ended' = (ended \/ (closed[p] /\ InPool = {p}))
    /\ req' = [req EXCEPT ![p] = None]
    /\ reply' = [reply EXCEPT ![p] = Plain("none")]
    /\ got' = [got EXCEPT ![p] = Plain("present")]
    /\ early' = early \ {p}
    /\ crossed' = crossed \ {p}
    /\ UNCHANGED <<conf, closed, user, ses, front, target, passed, late>>

\* A closed package has been past the filters before p gets there.
Late(p) == \/ late
           \/ /\ conf.front = "z3950"
              /\ \E q \in Pkgs \ {p} : closed[q] /\ pc[q] \in {"limitout", "left", "answered"}

-----------------------------------------------------------------------------
(* auth_simple: process and what it calls.                                 *)

Pass(p, r) ==
    /\ Go(p, "limit")
    /\ req' = [req EXCEPT ![p] = r]
    /\ passed' = (passed \/ r.kind = "init")
    /\ late' = late
    /\ UNCHANGED <<closed, reply>>

\* reject_init, and the rejection of a search or scan
Reject(p, r, kind) ==
    /\ Up(p)
    /\ req' = [req EXCEPT ![p] = r]
    /\ reply' = [reply EXCEPT ![p] = Plain(kind)]
    /\ Close(p)
    /\ late' = (conf.front = "z3950")
    /\ UNCHANGED passed

\* process_init; a mutant that does not remember the user
InitUnremembered(p, r) ==
    IF r.cred = "good" THEN Pass(p, r) /\ UNCHANGED user
    ELSE Reject(p, r, "refused") /\ UNCHANGED user
process_init(p, r) ==
    IF r.cred = "good" THEN Pass(p, r) /\ user' = TRUE
    ELSE Reject(p, r, "refused") /\ UNCHANGED user

\* process_search, process_scan: a session without a user is accepted
process_search(p, r) ==
    /\ IF ~user \/ r.db \in Granted THEN Pass(p, r) ELSE Reject(p, r, "diag")
    /\ UNCHANGED user

\* check_targets: the virtual hosts that the user may not have are refused, or
\* taken out of the request
check_targets(p, r) ==
    /\ LET allowed == IF r.cred = "good" THEN r.vhosts \cap Granted ELSE {}
       IN  IF allowed = {} \/ (allowed # r.vhosts /\ ~conf.discard)
           THEN Reject(p, r, "refused")
           ELSE Pass(p, [r EXCEPT !.vhosts = allowed])
    /\ UNCHANGED user

\* What the package asks is chosen here, unless it was made by sru_z3950.
Auth(p) ==
    /\ pc[p] = "auth"
    /\ \E r \in IF conf.front = "sru" \/ closed[p] THEN {req[p]} ELSE conf.asks :
          \/ conf.auth = "users" /\ r.kind = "init" /\ process_init(p, r)
          \/ conf.auth = "users" /\ r.kind \in {"search", "scan"} /\ process_search(p, r)
          \/ conf.auth = "targets" /\ r.kind = "init" /\ check_targets(p, r)
          \/ /\ \/ conf.auth = "none" \/ r.kind \notin {"init", "search", "scan"}
                \/ conf.auth = "targets" /\ r.kind # "init"
             /\ Pass(p, r)
             /\ UNCHANGED user
    /\ early' = IF passed THEN early ELSE early \cup {p}
    /\ UNCHANGED <<conf, got, ses, front, target, ended, crossed>>

-----------------------------------------------------------------------------
(* limit.                                                                  *)

Capped(r) ==
    IF r.kind = "present" /\ conf.retrieve > 0 /\ r.number > conf.retrieve
    THEN [r EXCEPT !.number = conf.retrieve]
    ELSE r

\* process up to package.move()
LimitIn(p) ==
    /\ pc[p] = "limit"
    /\ ses' = TRUE
    /\ req' = [req EXCEPT ![p] = Capped(req[p])]
    /\ got' = [got EXCEPT ![p] = Plain("present")]
    /\ late' = Late(p)
    /\ Go(p, "serve")
    /\ UNCHANGED <<conf, closed, reply, user, front, target, ended, passed, early, crossed>>

\* ... and after it, the statistics apart: how long the answer is held back; a
\* mutant that keeps a closed session
LimitKeeping(p) ==
    /\ pc[p] = "limitout"
    /\ ses' = TRUE
    /\ Up(p)
    /\ late' = Late(p)
    /\ UNCHANGED <<conf, closed, req, reply, got, user, front, target>>
    /\ UNCHANGED <<ended, passed, early, crossed>>
LimitOut(p) ==
    /\ pc[p] = "limitout"
    /\ ses' = ~closed[p]
    /\ Up(p)
    /\ late' = Late(p)
    /\ UNCHANGED <<conf, closed, req, reply, got, user, front, target>>
    /\ UNCHANGED <<ended, passed, early, crossed>>

-----------------------------------------------------------------------------
(* present_chunk and what is below.                                        *)

Chunked(p) == conf.chunk > 0 /\ req[p].kind = "present"
Offset(p) == Len(got[p].recs)

\* The request of the next round of the loop in chunk_it
Chunk(p) == [req[p] EXCEPT !.start = @ + Offset(p),
                           !.number = IF @ - Offset(p) > conf.chunk THEN conf.chunk
                                      ELSE @ - Offset(p)]

Sent(p) == IF Chunked(p) THEN Chunk(p) ELSE req[p]

\* offset += num_records; a mutant without it
NotAppended(p, a) == got[p]
Appended(p, a) == [got[p] EXCEPT !.recs = @ \o a.reply.recs, !.src = @ \cup Orders(a.reply)]

Return(p, answer) == reply' = [reply EXCEPT ![p] = answer] /\ Go(p, "limitout")

\* One request to the filters below, and what present_chunk makes of the answer
Serve(p) ==
    /\ pc[p] = "serve"
    /\ Chunked(p) => Offset(p) < req[p].number
    /\ \E a \in Answers(Sent(p), closed[p], front, target, conf.sort, conf.faulty) :
          /\ front' = a.sort
          /\ target' = a.target
          /\ closed' = [closed EXCEPT ![p] = a.closed]
          /\ IF ~Chunked(p) THEN Return(p, a.reply) /\ UNCHANGED got
             ELSE IF a.closed THEN Return(p, Plain("none")) /\ UNCHANGED got
             ELSE IF a.reply.kind = "present"
             THEN got' = [got EXCEPT ![p] = Appended(p, a)] /\ UNCHANGED <<pc, reply>>
             ELSE Return(p, a.reply) /\ UNCHANGED got
    /\ crossed' = crossed \cup {q \in At("serve") \ {p} : Offset(q) > 0}
    /\ late' = Late(p)
    /\ UNCHANGED <<conf, req, user, ses, ended, passed, early>>

\* The end of the loop: the response is built of what was collected.
ChunksDone(p) ==
    /\ pc[p] = "serve" /\ Chunked(p)
    /\ Offset(p) >= req[p].number
    /\ Return(p, got[p])
    /\ UNCHANGED <<conf, closed, req, got, user, ses, front, target, ended, passed, early,
                   crossed, late>>

\* An Init of another session may ask for named result sets.
OtherInit ==
    /\ ~target.named
    /\ target' = [target EXCEPT !.named = TRUE]
    /\ UNCHANGED <<conf, pc, req, closed, reply, got, user, ses, front, ended, passed, early,
                   crossed, late>>

ChainStep(p) == Auth(p) \/ LimitIn(p) \/ Serve(p) \/ ChunksDone(p) \/ LimitOut(p)

RouteNext ==
    \/ \E end \in BOOLEAN : Put(end)
    \/ OtherInit
    \/ \E p \in Pkgs : ChainStep(p) \/ Result(p)
=============================================================================
