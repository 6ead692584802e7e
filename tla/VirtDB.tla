------------------------------- MODULE VirtDB -------------------------------
(***************************************************************************)
(* The virt_db filter (src/src/filter_virt_db.cpp): a client that names    *)
(* virtual databases is given a backend session for each list of databases *)
(* it uses, and its result sets are sets of those backends.                *)
(*                                                                         *)
(* One client session, with the packages of Clients.  While a package      *)
(* holds the Frontend nobody else touches it or its backends: the work of  *)
(* a package, with the packages it sends down the route, is one action.    *)
(***************************************************************************)
EXTENDS Clients, Sequences, FiniteSetsExt, SequencesExt

CONSTANTS
    SetNames,    \* result set names, "default" one of them
    DbLists,     \* the lists of databases a client names
    Maps,        \* m_maps: [match: a set of databases, targets, route],
    PassVhosts   \* pass_vhosts

ASSUME VirtDBAssumption ==
    /\ "default" \in SetNames
    /\ \A dbs \in DbLists : dbs \in Seq(ToSet(dbs))
    /\ \A i \in DOMAIN Maps : DOMAIN Maps[i] = {"match", "targets", "route"}

VARIABLES
    virtual,     \* m_is_virtual
    list,        \* m_backend_list: backends in the order in which they were made
    sets,        \* m_sets: the backend and the set name there, or { }
    be,          \* every backend session that was made, and what it is at the target
    want,        \* the search whose records each of the client's sets stands for, or 0
    hijacked,    \* sets whose backend set a search overriding another set took over
    shown        \* the records in the last response: of which set, search, target
                 \* and under which database name; or { }

dbVars == <<virtual, list, sets, be, want, hijacked, shown>>
vars == <<clientVars, dbVars>>

NoSet == [n \in SetNames |-> {}]
NoSearch == [n \in SetNames |-> 0]

TypeOK ==
    /\ ClientsTypeOK
    /\ virtual \in BOOLEAN
    /\ list \subseteq DOMAIN be
    /\ \A n \in SetNames : \A s \in sets[n] : s.b \in list /\ s.name \in SetNames
    /\ \A b \in DOMAIN be : be[b].dbs \in DbLists \cup {<< >>} /\ be[b].named \in BOOLEAN
                            /\ be[b].open \in BOOLEAN
                            /\ be[b].sets \in [SetNames -> 0 .. MaxPkgs]
    /\ want \in [SetNames -> 0 .. MaxPkgs]
    /\ hijacked \subseteq SetNames

Init ==
    /\ ClientsInit
    /\ virtual = FALSE
    /\ list = {}
    /\ sets = NoSet
    /\ be = << >>
    /\ want = NoSearch
    /\ hijacked = {}
    /\ shown = {}

-----------------------------------------------------------------------------
\* get_frontend: the Frontend of an erased entry is not seen again, so that
\* release_frontend makes the state of a new one.
get_frontend(p) ==
    /\ Get(p)
    /\ UNCHANGED dbVars

\* A backend session that nobody refers to any more
Ended == [dbs |-> << >>, open |-> FALSE, named |-> FALSE, sets |-> NoSearch, targets |-> {}]

\* Frontend::close: each backend is told with a closed package.
close == [b \in DOMAIN be |-> IF b \in list THEN Ended ELSE be[b]]

release_frontend(p) ==
    /\ Release(p)
    /\ IF closed[p]
       THEN /\ be' = close
            /\ list' = {}
            /\ virtual' = FALSE
            /\ sets' = NoSet
            /\ want' = NoSearch
            /\ hijacked' = {}
       ELSE UNCHANGED <<virtual, list, sets, be, want, hijacked>>
    /\ shown' = {}

\* Map::match, and the map that a database falls under
match(db) == {i \in DOMAIN Maps : db \in Maps[i].match}
MapOf(db) == Maps[Min(match(db))]
Known(dbs) == \A i \in DOMAIN dbs : match(dbs[i]) # {}

\* create_backend_from_databases, for a list of databases that it accepts
create_backend_from_databases(dbs, open, named) ==
    [dbs |-> dbs, open |-> open, named |-> named, sets |-> NoSearch,
     targets |-> UNION {MapOf(dbs[i]).targets : i \in DOMAIN dbs}]
SameRoute(dbs) == \A i, j \in DOMAIN dbs : MapOf(dbs[i]).route = MapOf(dbs[j]).route
Creatable(dbs) == Known(dbs) /\ SameRoute(dbs)

\* What the backend's answer to init_backend leaves when it is not accepted: a
\* session that is closed, by the filter after a negative answer or by the target
\* without one; and a mutant that leaves it open
Abandoned(dbs) == create_backend_from_databases(dbs, TRUE, FALSE)
Refused(dbs) == create_backend_from_databases(dbs, FALSE, FALSE)

\* init_backend: the backends after it, the new one the last; and when it fails
init_backend(dbs, named) == Append(be, create_backend_from_databases(dbs, TRUE, named))
init_backend_fails(dbs) ==
    \/ ~Creatable(dbs) /\ UNCHANGED be
    \/ Creatable(dbs) /\ be' = Append(be, Refused(dbs))

\* fixup_npr_record: the database a record of a target is given under
fixup_npr_record(b, target) ==
    LET at == {i \in DOMAIN b.dbs : match(b.dbs[i]) # {} /\ target \in MapOf(b.dbs[i]).targets}
    IN  IF at = {} THEN b.dbs[1] ELSE b.dbs[Min(at)]

\* fixup_package: records of a backend's set, by one of its targets
fixup_package(n, b, id) ==
    {[set |-> n, search |-> id, dbs |-> b.dbs, target |-> t, db |-> fixup_npr_record(b, t)] :
        t \in b.targets}

NoRecords == shown' = {}

-----------------------------------------------------------------------------
(* Search.                                                                 *)

\* The backends that search may use for a set, when it is overridden or not (names
\* of databases are normalised ones); a mutant that takes one without named result
\* sets for any set
AnyBackend(dbs, override) == {b \in list : be[b].dbs = dbs}
Usable(dbs, override) == {b \in list : be[b].dbs = dbs /\ (be[b].named \/ override)}

\* The name a set gets at a backend
backend_setname(b, n) == IF b.named THEN n ELSE "default"

\* The other sets of the client that are the set of backend b which a search takes
\* when it overrides set n
Taken(b, name, n) ==
    {m \in SetNames \ {n} : sets[n] # {} /\ [b |-> b, name |-> name] \in sets[m]}

\* The search is sent to backend b of bes, and replaces the set there.
SearchAt(p, n, b, bes) ==
    LET name == backend_setname(bes[b], n)
    IN  \/ /\ bes[b].open                                   \* records, or none
           /\ be' = [bes EXCEPT ![b].sets[name] = p]
           /\ sets' = [sets EXCEPT ![n] = {[b |-> b, name |-> name]}]
           /\ want' = [want EXCEPT ![n] = p]
           /\ hijacked' = (hijacked \ {n}) \cup Taken(b, name, n)
           /\ shown' = fixup_package(n, bes[b], p)
           /\ Handled(p, FALSE)
        \/ /\ bes[b].open                                   \* a diagnostic
           /\ be' = [bes EXCEPT ![b].sets[name] = 0]
           /\ sets' = [sets EXCEPT ![n] = {}]
           /\ want' = [want EXCEPT ![n] = 0]
           /\ hijacked' = hijacked \ {n}
           /\ NoRecords
           /\ Handled(p, FALSE)
        \/ /\ be' = [bes EXCEPT ![b].open = FALSE]          \* the backend closes
           /\ sets' = [sets EXCEPT ![n] = {}]
           /\ want' = [want EXCEPT ![n] = 0]
           /\ NoRecords
           /\ Handled(p, TRUE)
           /\ UNCHANGED hijacked

Exists(n) == sets[n] # {}

\* replaceIndicator is off and the set exists
SearchRefused(p, n, replace) ==
    /\ Exists(n) /\ ~replace
    /\ NoRecords
    /\ Handled(p, FALSE)
    /\ UNCHANGED <<virtual, list, sets, be, want, hijacked>>

search(p, n, dbs, replace) ==
    LET usable == Usable(dbs, Exists(n))
    IN  /\ Exists(n) => replace
        /\ \/ /\ usable # {}
              /\ SearchAt(p, n, Min(usable), be)
              /\ UNCHANGED list
           \/ /\ usable = {}
              /\ init_backend_fails(dbs)
              /\ NoRecords
              /\ Handled(p, FALSE)
              /\ UNCHANGED <<list, sets, want, hijacked>>
           \/ /\ usable = {}
              /\ Creatable(dbs)
              /\ list' = list \cup {Len(be) + 1}
              /\ \E named \in BOOLEAN :
                     SearchAt(p, n, Len(be) + 1, init_backend(dbs, named))
        /\ UNCHANGED virtual

-----------------------------------------------------------------------------
(* The other requests.                                                     *)

\* present: the set of the backend that the client's set stands for
present(p, n) ==
    /\ \/ /\ ~Exists(n)
          /\ NoRecords
          /\ Handled(p, FALSE)
          /\ UNCHANGED be
       \/ \E s \in sets[n] :
             /\ be[s.b].open
             /\ shown' = IF be[s.b].sets[s.name] = 0 THEN {}
                         ELSE fixup_package(n, be[s.b], be[s.b].sets[s.name])
             /\ Handled(p, FALSE)
             /\ UNCHANGED be
       \/ \E s \in sets[n] :
             /\ be' = [be EXCEPT ![s.b].open = FALSE]
             /\ NoRecords
             /\ Handled(p, TRUE)
    /\ UNCHANGED <<virtual, list, sets, want, hijacked>>

\* A scan sent to backend b of bes
ScanAt(p, b, bes) ==
    \/ bes[b].open /\ be' = bes /\ Handled(p, FALSE)
    \/ be' = [bes EXCEPT ![b].open = FALSE] /\ Handled(p, TRUE)

scan(p, dbs) ==
    /\ LET there == {b \in list : be[b].dbs = dbs}
       IN  \/ there # {} /\ ScanAt(p, Min(there), be) /\ UNCHANGED list
           \/ there = {} /\ init_backend_fails(dbs) /\ Handled(p, FALSE) /\ UNCHANGED list
           \/ /\ there = {}
              /\ Creatable(dbs)
              /\ list' = list \cup {Len(be) + 1}
              /\ \E named \in BOOLEAN : ScanAt(p, Len(be) + 1, init_backend(dbs, named))
    /\ NoRecords
    /\ UNCHANGED <<virtual, sets, want, hijacked>>

\* relay_apdu: a Close goes to every backend, which then closes or not; without
\* backends the filter answers and closes.  Closed backends stay in the list.
relay_apdu(p) ==
    /\ \E shut \in SUBSET list :
           be' = [b \in DOMAIN be |-> IF b \in shut THEN [be[b] EXCEPT !.open = FALSE] ELSE be[b]]
    /\ Handled(p, list = {})
    /\ NoRecords
    /\ UNCHANGED <<virtual, list, sets, want, hijacked>>

\* An Init of a client: passed on with its virtual hosts, or answered
InitRequest(p, vhosts) ==
    /\ ~virtual
    /\ \/ /\ vhosts /\ PassVhosts
          /\ \E shut \in BOOLEAN : Handled(p, shut)
          /\ UNCHANGED virtual
       \/ /\ ~(vhosts /\ PassVhosts)
          /\ virtual' = TRUE
          /\ Handled(p, FALSE)
    /\ NoRecords
    /\ UNCHANGED <<list, sets, be, want, hijacked>>

\* package.move(): anything of a session that is not virtual is passed on.
PassOn(p) ==
    /\ ~virtual
    /\ \E shut \in BOOLEAN : Handled(p, shut)
    /\ NoRecords
    /\ UNCHANGED <<virtual, list, sets, be, want, hijacked>>

\* A second Init and an unknown APDU are answered with Close.
BadRequest(p) ==
    /\ Handled(p, TRUE)
    /\ NoRecords
    /\ UNCHANGED <<virtual, list, sets, be, want, hijacked>>

NoRequest(p) ==
    /\ Handled(p, FALSE)
    /\ NoRecords
    /\ UNCHANGED <<virtual, list, sets, be, want, hijacked>>

process(p) ==
    \/ /\ ~closed[p]
       /\ \/ \E vhosts \in BOOLEAN : InitRequest(p, vhosts)
          \/ virtual /\ \E n \in SetNames, dbs \in DbLists, replace \in BOOLEAN :
                           SearchRefused(p, n, replace) \/ search(p, n, dbs, replace)
          \/ virtual /\ \E n \in SetNames : present(p, n)
          \/ virtual /\ \E dbs \in DbLists : scan(p, dbs)
          \/ virtual /\ relay_apdu(p)
          \/ virtual /\ BadRequest(p)
    \/ ~virtual /\ PassOn(p)
    \/ virtual /\ closed[p] /\ NoRequest(p)

Environment ==
    /\ \/ \E end \in BOOLEAN : Put(end)
       \/ \E p \in Pkgs : Result(p)
    /\ UNCHANGED dbVars

Step(p) ==
    \/ get_frontend(p)
    \/ stage[p] = "held" /\ process(p)
    \/ release_frontend(p)

Next == Environment \/ \E p \in Pkgs : Step(p)

Spec == Init /\ [][Next]_vars

-----------------------------------------------------------------------------
\* A response to a client has the records of the last search that found its
\* result set, each under a database of that search whose targets include the
\* record's; unless a search that overrode another set took over the backend set.
RightRecords ==
    \A r \in shown :
        /\ r.set \notin hijacked => r.search = want[r.set]
        /\ r.db \in ToSet(r.dbs)
        /\ r.target \in MapOf(r.db).targets

\* A backend session that is open belongs to the Frontend of the client: none is
\* left behind by an Init that failed, a set replaced, or the end of the client,
\* whose entry goes with its last package.
NoBackendLeft ==
    /\ TypeOK /\ HeldByOne /\ Forgotten
    /\ \A b \in DOMAIN be : be[b].open => b \in list /\ entry # "none"
=============================================================================
