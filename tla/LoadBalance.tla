---------------------------- MODULE LoadBalance -----------------------------
(***************************************************************************)
(* The load_balance filter (src/src/filter_load_balance.cpp): statistics   *)
(* on the targets, shared by all sessions, and the choice of the cheapest  *)
(* target for each Init request.                                           *)
(*                                                                         *)
(* Each package is processed by a thread of its own and m_mutex is held    *)
(* only while the statistics are read or changed: each of these sections   *)
(* is one action, with what its thread does alone before the next one.     *)
(* Targets are numbers, in the order in which an Init request names them.  *)
(* The first package of a session is its only Init request.                *)
(***************************************************************************)
EXTENDS Naturals, FiniteSets

CONSTANTS
    Sessions,
    Targets,     \* a set of positive numbers
    MaxPkgs      \* [Sessions -> Nat], a bound: packages of each session

ASSUME TargetsAssumption == Targets \subseteq Nat \ {0}
ASSUME MaxPkgsAssumption == MaxPkgs \in [Sessions -> Nat]

VARIABLES
    stat,        \* m_target_stat: no record or one, for each target
    target,      \* m_session_target: the target of each session, or 0
    next,        \* packages of each session that have entered the filter
    ended,       \* sessions whose end has been sent: no package comes after it
    kind,        \* the request of each package
    vhosts,      \* the targets an Init request has not tried
    pick,        \* the target it tries or has settled on, or 0
    pc,          \* where each package is
    overtaken    \* sessions whose end left the filter before another package

balanceVars == <<stat, target, next, ended, kind, vhosts, pick, pc, overtaken>>

P == UNION {{s} \X (1 .. MaxPkgs[s]) : s \in Sessions}
Ses(p) == p[1]

\* An Init; a Close; another Z39.50 request; something else; and no request, the
\* session being closed.
Kind == {"init", "close", "request", "other", "end"}
Counted == {"close", "request"}
ClosesFront == {"close", "end"}

\* TargetStat, or { } for a target not in the map
Stat == [sessions : Nat, packages : Nat, deads : Nat]
The(set) == CHOOSE r \in set : TRUE

PC == {"new", "start", "choose", "initMoving", "moving", "finish", "done"}

BalanceTypeOK ==
    /\ stat \in [Targets -> SUBSET Stat]
    /\ \A t \in Targets : \A q, r \in stat[t] : q = r
    /\ target \in [Sessions -> Targets \cup {0}]
    /\ next \in [Sessions -> Nat]
    /\ ended \subseteq Sessions
    /\ kind \in [P -> Kind]
    /\ vhosts \in [P -> SUBSET Targets]
    /\ pick \in [P -> Targets \cup {0}]
    /\ pc \in [P -> PC]
    /\ overtaken \subseteq Sessions

BalanceInit ==
    /\ stat = [t \in Targets |-> {}]
    /\ target = [s \in Sessions |-> 0]
    /\ next = [s \in Sessions |-> 0]
    /\ ended = {}
    /\ kind = [p \in P |-> "other"]
    /\ vhosts = [p \in P |-> {}]
    /\ pick = [p \in P |-> 0]
    /\ pc = [p \in P |-> "new"]
    /\ overtaken = {}

-----------------------------------------------------------------------------
Go(p, where) == pc' = [pc EXCEPT ![p] = where]

\* find_session_target: the target of a session, or none
TargetOf(s) == {target[s]} \ {0}

\* The statistics st with one number of the record of the target of s changed
AddDead(st, s) ==
    [t \in Targets |-> {IF t \in TargetOf(s) THEN [r EXCEPT !.deads = @ + 1] ELSE r : r \in st[t]}]
AddPackage(st, s) ==
    [t \in Targets |->
        {IF t \in TargetOf(s) THEN [r EXCEPT !.packages = @ + 1] ELSE r : r \in st[t]}]

\* packages is unsigned: the decrement has a guard.
OnePackageLess(r) == [r EXCEPT !.packages = IF @ > 0 THEN @ - 1 ELSE 0]
RemovePackage(st, s) ==
    [t \in Targets |-> {IF t \in TargetOf(s) THEN OnePackageLess(r) ELSE r : r \in st[t]}]

\* add_session: a session is mapped once and counted each time.
AddSession(s, t) ==
    /\ target' = IF target[s] = 0 THEN [target EXCEPT ![s] = t] ELSE target
    /\ stat' = [stat EXCEPT ![t] =
                   IF @ = {} THEN {[sessions |-> 1, packages |-> 0, deads |-> 0]}
                   ELSE {[r EXCEPT !.sessions = @ + 1] : r \in @}]

\* A record is erased when no session is left or nothing was marked dead; and a
\* mutant that keeps it while anything at all is counted.
ErasableWhenIdle(r) == r.sessions = 0 /\ r.deads = 0
Erasable(r) == r.sessions = 0 \/ r.deads = 0

\* What remove_session leaves of a record
OneLess(r) == [r EXCEPT !.sessions = IF @ > 0 THEN @ - 1 ELSE 0]
Without(set) == {r \in {OneLess(q) : q \in set} : ~Erasable(r)}

\* remove_session, and a mutant that leaves the session mapped
RemoveSessionKeep(st, s) ==
    /\ stat' = IF target[s] = 0 THEN st ELSE [st EXCEPT ![target[s]] = Without(@)]
    /\ UNCHANGED target
RemoveSession(st, s) ==
    /\ stat' = IF target[s] = 0 THEN st ELSE [st EXCEPT ![target[s]] = Without(@)]
    /\ target' = [target EXCEPT ![s] = 0]

Cost(t) ==
    IF stat[t] = {} THEN 0
    ELSE LET r == The(stat[t]) IN r.sessions + r.packages + r.deads

\* The first of the targets with the least cost
Cheapest(set) ==
    CHOOSE t \in set : \A u \in set : Cost(t) < Cost(u) \/ (Cost(t) = Cost(u) /\ t <= u)

-----------------------------------------------------------------------------
\* A package enters: process().  The first one of a session is its only Init.
Enter(s, k) ==
    /\ s \notin ended
    /\ next[s] < MaxPkgs[s]
    /\ (k = "init") <=> (next[s] = 0)
    /\ next' = [next EXCEPT ![s] = @ + 1]
    /\ ended' = IF k = "end" THEN ended \cup {s} ELSE ended
    /\ LET p == <<s, next[s] + 1>>
       IN  /\ kind' = [kind EXCEPT ![p] = k]
           /\ \E set \in IF k = "init" THEN SUBSET Targets ELSE {{}} :
                  vhosts' = [vhosts EXCEPT ![p] = set]
           /\ Go(p, CASE k = "init" -> "choose"
                      [] k \in Counted -> "start"
                      [] OTHER -> "moving")
    /\ UNCHANGED <<stat, target, pick, overtaken>>

\* The cheapest target is taken off the list; and a mutant that leaves it there.
TriedAgain(p) == vhosts[p]
Untried(p) == vhosts[p] \ {Cheapest(vhosts[p])}

\* One round of the loop over the targets of an Init request, up to its move()
Choose(p) ==
    /\ pc[p] = "choose"
    /\ vhosts[p] # {}
    /\ pick' = [pick EXCEPT ![p] = Cheapest(vhosts[p])]
    /\ vhosts' = [vhosts EXCEPT ![p] = Untried(p)]
    /\ Go(p, "initMoving")
    /\ UNCHANGED <<stat, target, next, ended, kind, overtaken>>

\* No target is left: a diagnostic.
NoTargets(p) ==
    /\ pc[p] = "choose"
    /\ vhosts[p] = {}
    /\ pick' = [pick EXCEPT ![p] = 0]
    /\ Go(p, "done")
    /\ UNCHANGED <<stat, target, next, ended, kind, vhosts, overtaken>>

\* move() returns with the session open: the target is this session's.
InitMoved(p) ==
    /\ pc[p] = "initMoving"
    /\ AddSession(Ses(p), pick[p])
    /\ Go(p, "done")
    /\ UNCHANGED <<next, ended, kind, vhosts, pick, overtaken>>

\* It returns with the session closed: the next target.
InitFailed(p) ==
    /\ pc[p] = "initMoving"
    /\ Go(p, "choose")
    /\ UNCHANGED <<stat, target, next, ended, kind, vhosts, pick, overtaken>>

\* A Z39.50 request is counted and moved on.
Count(p) ==
    /\ pc[p] = "start"
    /\ stat' = AddPackage(stat, Ses(p))
    /\ Go(p, "moving")
    /\ UNCHANGED <<target, next, ended, kind, vhosts, pick, overtaken>>

\* The end of a session has been dealt with; others of its packages have not.
Overtakes(p) ==
    kind[p] = "end" /\ \E q \in P : Ses(q) = Ses(p) /\ pc[q] \notin {"new", "done"} /\ q # p

\* move() returns, with no response, a Close or another one, and the session closed or
\* not.  A Z39.50 request may get a Z39.50 response, and it is taken off the count.
Moved(p, resp, isClosed) ==
    /\ pc[p] = "moving"
    /\ resp # "none" => kind[p] \in Counted
    /\ stat' = IF resp = "none" THEN stat ELSE RemovePackage(stat, Ses(p))
    /\ Go(p, IF isClosed \/ resp = "close" \/ kind[p] \in ClosesFront THEN "finish" ELSE "done")
    /\ UNCHANGED <<target, next, ended, kind, vhosts, pick, overtaken>>

\* The session is removed, its target marked dead when the client did not ask for it.
Finish(p) ==
    /\ pc[p] = "finish"
    /\ RemoveSession(IF kind[p] \in ClosesFront THEN stat ELSE AddDead(stat, Ses(p)), Ses(p))
    /\ Go(p, "done")
    /\ overtaken' = IF Overtakes(p) THEN overtaken \cup {Ses(p)} ELSE overtaken
    /\ UNCHANGED <<next, ended, kind, vhosts, pick>>

BalanceNext ==
    \/ \E s \in Sessions, k \in Kind : Enter(s, k)
    \/ \E p \in P : \/ Choose(p)
                    \/ NoTargets(p)
                    \/ InitMoved(p)
                    \/ InitFailed(p)
                    \/ Count(p)
                    \/ \E resp \in {"none", "close", "response"}, isClosed \in BOOLEAN :
                           Moved(p, resp, isClosed)
                    \/ Finish(p)

BalanceSpec == BalanceInit /\ [][BalanceNext]_balanceVars

\* Threads run and the rest of the route returns from move().
FairBalanceSpec ==
    /\ BalanceSpec
    /\ \A p \in P : WF_balanceVars(
                        \/ Choose(p) \/ NoTargets(p) \/ InitMoved(p) \/ InitFailed(p)
                        \/ Count(p) \/ Finish(p)
                        \/ \E resp \in {"none", "close", "response"}, isClosed \in BOOLEAN :
                               Moved(p, resp, isClosed))

-----------------------------------------------------------------------------
SessionsOf(t) == {s \in Sessions : target[s] = t}

\* A record stands for open sessions: it counts at least one and never more than there
\* are, so a target nobody uses costs nothing, its dead marks included.
NotOvercounted ==
    \A t \in Targets : \A r \in stat[t] :
        1 <= r.sessions /\ r.sessions <= Cardinality(SessionsOf(t))

\* A session marks its target dead at most once, by whichever of its packages finds
\* the target gone first; the marks are of sessions that are no longer there.
DeadOncePerSession ==
    \A t \in Targets : \A r \in stat[t] :
        r.deads <= Cardinality({s \in Sessions :
                       /\ target[s] = 0
                       /\ \E p \in P : Ses(p) = s /\ pick[p] = t /\ pc[p] = "done"})

\* When the end of a session is the last of its packages to leave the filter, the
\* session is forgotten.
EndedForgotten ==
    \A s \in ended :
        ((\A p \in P : Ses(p) = s => pc[p] \in {"new", "done"}) /\ s \notin overtaken)
            => target[s] = 0

\* The statistics never charge a target with more than it has, in any order in which
\* Init answers and ends of sessions arrive.
StatsBounded == BalanceTypeOK /\ NotOvercounted

\* However a session ends, it is taken off once: one dead mark at most, nothing left.
EndedOnce == DeadOncePerSession /\ EndedForgotten

\* Every Init request is answered: it tries each target at most once.
EveryInitAnswered ==
    \A p \in P : (kind[p] = "init" /\ pc[p] # "new") ~> pc[p] = "done"

\* doc/load_balance.xml: the load is balanced "based on statistics gathered on number
\* of open sessions": what is counted for a target is its open sessions.
SessionsCounted ==
    \A t \in Targets :
        Cardinality(SessionsOf(t)) = IF stat[t] = {} THEN 0 ELSE The(stat[t]).sessions
=============================================================================
