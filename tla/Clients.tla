------------------------------ MODULE Clients -------------------------------
(***************************************************************************)
(* The packages of one client session at a filter that keeps a Frontend    *)
(* for each session in a map m_clients: virt_db, multi, zoom and           *)
(* session_shared do, with the same get_frontend and release_frontend.     *)
(*                                                                         *)
(* frontend_net gives each package to the thread pool, so that packages of *)
(* one session reach the filter in any order, and the package that says    *)
(* that the session has ended may overtake others.  Session objects are    *)
(* copied into packages: is_closed() is a property of the package.         *)
(***************************************************************************)
EXTENDS Naturals, FiniteSets

CONSTANTS
    MaxPkgs,     \* bound: packages of the session
    InFlight     \* bound: packages in the thread pool at a time

ASSUME ClientsAssumption ==
    /\ MaxPkgs \in Nat \ {0}
    /\ InFlight \in Nat \ {0}

VARIABLES
    stage,       \* where each package is
    closed,      \* its session is closed
    entry,       \* the session in m_clients: "none", "idle" or "used" (m_in_use)
    ended,       \* frontend_net sends no more packages of the session
    remade       \* the Frontend was made after one of the same session was erased

clientVars == <<stage, closed, entry, ended, remade>>

Pkgs == 1 .. MaxPkgs

Stage == {"new", "wait", "held", "handled", "left", "answered"}

At(where) == {p \in Pkgs : stage[p] = where}
InPool == At("wait") \cup At("held") \cup At("handled") \cup At("left")

ClientsTypeOK ==
    /\ stage \in [Pkgs -> Stage]
    /\ closed \in [Pkgs -> BOOLEAN]
    /\ entry \in {"none", "idle", "used"}
    /\ ended \in BOOLEAN
    /\ remade \in BOOLEAN

ClientsInit ==
    /\ stage = [p \in Pkgs |-> "new"]
    /\ closed = [p \in Pkgs |-> FALSE]
    /\ entry = "none"
    /\ ended = FALSE
    /\ remade = FALSE

Go(p, where) == stage' = [stage EXCEPT ![p] = where]

-----------------------------------------------------------------------------
\* recv_GDU puts the next package into the pool; failNotify one that is closed.
\* What a package asks is chosen when the filter looks at it.  Requests that are
\* received on a session already closed, after a timeout, and what failNotify puts
\* after a filter has closed its copy of the session, are left out: such packages
\* find the Frontend as one that was overtaken by the end does.
Put(end) ==
    /\ ~ended
    /\ Cardinality(InPool) < InFlight
    /\ \E p \in At("new") :
           /\ \A q \in At("new") : p <= q
           /\ Go(p, "wait")
           /\ closed' = [closed EXCEPT ![p] = end]
    /\ ended' = end
    /\ UNCHANGED <<entry, remade>>

\* A Frontend of the session has been erased.
Erased == \E p \in At("left") \cup At("answered") : closed[p]

\* Waiting packages are alike, the closed one apart: what they ask is not chosen
\* yet.  The first of them stands for any.
FirstOfItsKind(p) == \A q \in At("wait") : q < p => closed[q] # closed[p]

\* get_frontend: waits while the Frontend is in use, and makes one if there is
\* none; a mutant that does not look at m_in_use
GetInUse(p) ==
    /\ stage[p] = "wait" /\ FirstOfItsKind(p)
    /\ entry' = "used"
    /\ Go(p, "held")
    /\ UNCHANGED <<closed, ended, remade>>
Get(p) ==
    /\ stage[p] = "wait" /\ FirstOfItsKind(p)
    /\ entry # "used"
    /\ entry' = "used"
    /\ remade' = IF entry = "none" THEN Erased ELSE remade
    /\ Go(p, "held")
    /\ UNCHANGED <<closed, ended>>

\* The filter's work on a package that holds the Frontend: the session of the
\* package is closed by it, or not.
Handled(p, close) ==
    /\ stage[p] = "held"
    /\ Go(p, "handled")
    /\ closed' = [closed EXCEPT ![p] = @ \/ close]
    /\ UNCHANGED <<entry, ended, remade>>

\* release_frontend: erases the Frontend of a closed session, and otherwise lets
\* the next package have it.
Release(p) ==
    /\ stage[p] = "handled"
    /\ entry' = IF closed[p] THEN "none" ELSE "idle"
    /\ remade' = (remade /\ ~closed[p])
    /\ Go(p, "left")
    /\ UNCHANGED <<closed, ended>>

\* ThreadPoolPackage::result: a closed package that is the last in the pool
\* closes the connection.
Result(p) ==
    /\ stage[p] = "left"
    /\ Go(p, "answered")
    /\ ended' = (ended \/ (closed[p] /\ InPool = {p}))
    /\ UNCHANGED <<closed, entry, remade>>

-----------------------------------------------------------------------------
\* The Frontend is used by one package at a time.
HeldByOne ==
    /\ Cardinality(At("held") \cup At("handled")) <= 1
    /\ entry = "used" <=> At("held") \cup At("handled") # {}

\* When the session is over and its packages have left, the filter has forgotten
\* it; unless a package that came after its end made a Frontend anew.
Forgotten == ended /\ InPool = {} => entry = "none" \/ remade

\* Every package that waits for the Frontend gets it, and is answered.
EveryPackageAnswered ==
    \A p \in Pkgs : stage[p] = "wait" ~> stage[p] = "answered"
=============================================================================
