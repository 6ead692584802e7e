---------------------------- MODULE VirtDBProofs ----------------------------
(***************************************************************************)
(* Proofs about the virt_db filter, for any databases, maps, result set    *)
(* names and number of packages.                                           *)
(*                                                                         *)
(* ClientsInv is about the packages: one at a time has the Frontend, and   *)
(* a Frontend that was not made anew is there only while no closed package *)
(* has left.  DbInv is about the backends: a set of the client that no     *)
(* other search took over is, at its backend, the client's last search or  *)
(* nothing.  That needs to know under which name it is there: only a       *)
(* backend without named result sets gives two sets of the client one      *)
(* name, and search uses such a one only to override.                      *)
(***************************************************************************)
EXTENDS VirtDB, TLAPS, FiniteSetTheorems, WellFoundedInduction

Having == {"held", "handled"}
Gone == {"left", "answered"}

ClientsInv ==
    /\ ClientsTypeOK
    /\ \A p, q \in Pkgs : stage[p] \in Having /\ stage[q] \in Having => p = q
    /\ entry = "used" <=> \E p \in Pkgs : stage[p] \in Having
    /\ entry # "none" /\ ~remade => \A p \in Pkgs : stage[p] \in Gone => ~closed[p]
    /\ ended => \E p \in Pkgs : closed[p] /\ stage[p] # "new"

\* The targets of a list of databases
TargetsOf(dbs) == UNION {MapOf(dbs[i]).targets : i \in DOMAIN dbs}

Backend ==
    [dbs : DbLists \cup {<< >>}, open : BOOLEAN, named : BOOLEAN,
     sets : [SetNames -> 0 .. MaxPkgs],
     targets : {TargetsOf(d) : d \in {e \in DbLists : Known(e)}} \cup {{}}]

\* Records come only from a backend made for databases that are known.
BackendOK(x) ==
    x.targets # {} => x.dbs \in DbLists /\ Known(x.dbs) /\ x.targets = TargetsOf(x.dbs)

\* A set of the client, by the set of a backend that it is
SetOK(n) ==
    \A s \in sets[n] :
        /\ s = [b |-> s.b, name |-> s.name]
        /\ s.b \in list /\ s.name \in SetNames
        /\ be[s.b].named => s.name = n
        /\ n \notin hijacked => be[s.b].sets[s.name] \in {0, want[n]}

DbType ==
    /\ virtual \in BOOLEAN
    /\ be \in Seq(Backend)
    /\ list \subseteq DOMAIN be
    /\ DOMAIN sets = SetNames
    /\ want \in [SetNames -> 0 .. MaxPkgs]
    /\ hijacked \subseteq SetNames

DbInv ==
    /\ DbType
    /\ \A b \in DOMAIN be : BackendOK(be[b]) /\ (be[b].open => b \in list)
    /\ \A n \in SetNames : SetOK(n)
    /\ RightRecords

\* The inductive invariant
IInv ==
    /\ ClientsInv
    /\ DbInv
    /\ entry = "none" => list = {}

-----------------------------------------------------------------------------
(* The packages of the client.                                             *)

\* recv_GDU and failNotify put a package into the pool.
LEMMA PutStep ==
  ASSUME ClientsInv, NEW end \in BOOLEAN, Put(end)
  PROVE  ClientsInv' /\ entry' = entry
  <1>1. PICK p \in At("new") : /\ stage' = [stage EXCEPT ![p] = "wait"]
                               /\ closed' = [closed EXCEPT ![p] = end]
    BY DEF Put, Go
  <1>2. p \in Pkgs /\ stage[p] = "new" /\ UNCHANGED <<entry, remade>> /\ ended' = end /\ ~ended
    BY <1>1 DEF Put, At
  <1>3. /\ stage \in [Pkgs -> Stage] /\ closed \in [Pkgs -> BOOLEAN]
        /\ entry \in {"none", "idle", "used"} /\ remade \in BOOLEAN
    BY DEF ClientsInv, ClientsTypeOK
  <1>4. /\ stage'[p] = "wait" /\ closed'[p] = end
        /\ \A q \in Pkgs \ {p} : stage'[q] = stage[q] /\ closed'[q] = closed[q]
    BY <1>1, <1>2, <1>3
  <1>5. ClientsTypeOK'
    <2>1. stage' \in [Pkgs -> Stage]
      BY <1>1, <1>2, <1>3 DEF Stage
    <2>2. closed' \in [Pkgs -> BOOLEAN]
      BY <1>1, <1>2, <1>3
    <2> QED
      BY <1>2, <1>3, <2>1, <2>2 DEF ClientsTypeOK
  <1>6. \A q \in Pkgs : stage'[q] \in Having <=> stage[q] \in Having
    BY <1>2, <1>4 DEF Having
  <1>7. \A q \in Pkgs : stage'[q] \in Gone => stage[q] \in Gone /\ closed'[q] = closed[q]
    BY <1>2, <1>4 DEF Gone
  <1>8. ended' => closed'[p] /\ stage'[p] # "new"
    BY <1>2, <1>4
  <1> QED
    BY <1>2, <1>5, <1>6, <1>7, <1>8 DEF ClientsInv

\* get_frontend: nobody else has the Frontend.
LEMMA GetStep ==
  ASSUME ClientsInv, NEW p \in Pkgs, Get(p)
  PROVE  ClientsInv' /\ entry' = "used"
  <1>1. /\ stage[p] = "wait" /\ entry # "used" /\ entry' = "used"
        /\ remade' = IF entry = "none" THEN Erased ELSE remade
        /\ stage' = [stage EXCEPT ![p] = "held"] /\ UNCHANGED <<closed, ended>>
    BY DEF Get, Go
  <1>2. /\ stage \in [Pkgs -> Stage] /\ closed \in [Pkgs -> BOOLEAN]
        /\ entry \in {"none", "idle", "used"} /\ ended \in BOOLEAN /\ remade \in BOOLEAN
    BY DEF ClientsInv, ClientsTypeOK
  <1>3. stage'[p] = "held" /\ \A q \in Pkgs \ {p} : stage'[q] = stage[q]
    BY <1>1, <1>2
  <1>4. ClientsTypeOK'
    <2>1. stage' \in [Pkgs -> Stage]
      BY <1>1, <1>2 DEF Stage
    <2>2. Erased \in BOOLEAN
      BY DEF Erased
    <2>3. remade' \in BOOLEAN
      BY <1>1, <1>2, <2>2
    <2> QED
      BY <1>1, <1>2, <2>1, <2>3 DEF ClientsTypeOK
  <1>5. \A q \in Pkgs : stage'[q] \in Having <=> q = p
    BY <1>1, <1>3 DEF ClientsInv, Having
  <1>6. \A q \in Pkgs : stage'[q] \in Gone <=> stage[q] \in Gone
    BY <1>1, <1>3 DEF Gone
  <1>7. ~remade' => \A q \in Pkgs : stage'[q] \in Gone => ~closed'[q]
    <2>1. CASE entry = "none"
      <3>1. ~remade' => \A q \in Pkgs : stage[q] \in Gone => ~closed[q]
        BY <1>1, <2>1 DEF Erased, At, Gone
      <3> QED
        BY <1>1, <1>6, <3>1
    <2>2. CASE entry # "none"
      BY <1>1, <1>6, <2>2 DEF ClientsInv
    <2> QED
      BY <2>1, <2>2
  <1>8. ended' => \E q \in Pkgs : closed'[q] /\ stage'[q] # "new"
    BY <1>1, <1>3 DEF ClientsInv
  <1> QED
    BY <1>1, <1>4, <1>5, <1>7, <1>8 DEF ClientsInv

\* The filter's work on a package is done.
LEMMA HandledStep ==
  ASSUME ClientsInv, NEW p \in Pkgs, NEW shut \in BOOLEAN, Handled(p, shut)
  PROVE  ClientsInv' /\ entry = "used" /\ entry' = "used"
  <1>1. /\ stage[p] = "held" /\ stage' = [stage EXCEPT ![p] = "handled"]
        /\ closed' = [closed EXCEPT ![p] = @ \/ shut]
        /\ UNCHANGED <<entry, ended, remade>>
    BY DEF Handled, Go
  <1>2. /\ stage \in [Pkgs -> Stage] /\ closed \in [Pkgs -> BOOLEAN]
        /\ entry \in {"none", "idle", "used"} /\ ended \in BOOLEAN /\ remade \in BOOLEAN
    BY DEF ClientsInv, ClientsTypeOK
  <1>3. stage'[p] = "handled" /\ \A q \in Pkgs \ {p} : stage'[q] = stage[q]
    BY <1>1, <1>2
  <1>4. closed' \in [Pkgs -> BOOLEAN] /\ \A q \in Pkgs \ {p} : closed'[q] = closed[q]
    BY <1>1, <1>2
  <1>5. closed[p] => closed'[p]
    BY <1>1, <1>2
  <1>6. ClientsTypeOK'
    <2>1. stage' \in [Pkgs -> Stage]
      BY <1>1, <1>2 DEF Stage
    <2> QED
      BY <1>1, <1>2, <1>4, <2>1 DEF ClientsTypeOK
  <1>7. \A q \in Pkgs : stage'[q] \in Having <=> stage[q] \in Having
    BY <1>1, <1>3 DEF Having
  <1>8. \A q \in Pkgs : stage'[q] \in Gone => stage[q] \in Gone /\ closed'[q] = closed[q]
    BY <1>3, <1>4 DEF Gone
  <1>9. \A q \in Pkgs : closed[q] /\ stage[q] # "new" => closed'[q] /\ stage'[q] # "new"
    BY <1>3, <1>4, <1>5
  <1>10. entry = "used"
    BY <1>1 DEF ClientsInv, Having
  <1> QED
    BY <1>1, <1>6, <1>7, <1>8, <1>9, <1>10 DEF ClientsInv

\* release_frontend
LEMMA ReleaseStep ==
  ASSUME ClientsInv, NEW p \in Pkgs, Release(p)
  PROVE  ClientsInv' /\ (entry' = "none" <=> closed[p])
  <1>1. /\ stage[p] = "handled" /\ stage' = [stage EXCEPT ![p] = "left"]
        /\ entry' = IF closed[p] THEN "none" ELSE "idle"
        /\ remade' = (remade /\ ~closed[p]) /\ UNCHANGED <<closed, ended>>
    BY DEF Release, Go
  <1>2. /\ stage \in [Pkgs -> Stage] /\ closed \in [Pkgs -> BOOLEAN]
        /\ ended \in BOOLEAN /\ remade \in BOOLEAN
    BY DEF ClientsInv, ClientsTypeOK
  <1>3. stage'[p] = "left" /\ \A q \in Pkgs \ {p} : stage'[q] = stage[q]
    BY <1>1, <1>2
  <1>4. ClientsTypeOK'
    <2>1. stage' \in [Pkgs -> Stage]
      BY <1>1, <1>2 DEF Stage
    <2>2. remade' \in BOOLEAN
      BY <1>1, <1>2
    <2> QED
      BY <1>1, <1>2, <2>1, <2>2 DEF ClientsTypeOK
  <1>5. \A q \in Pkgs : stage'[q] \notin Having
    BY <1>1, <1>3 DEF ClientsInv, Having
  <1>6. entry' # "none" /\ ~remade' => \A q \in Pkgs : stage'[q] \in Gone => ~closed'[q]
    <2> SUFFICES ASSUME entry' # "none", ~remade', NEW q \in Pkgs, stage'[q] \in Gone
                 PROVE  ~closed'[q]
      OBVIOUS
    <2>1. ~closed[p] /\ ~remade
      BY <1>1, <1>2
    <2>2. entry = "used"
      BY <1>1 DEF ClientsInv, Having
    <2>3. q # p => stage[q] \in Gone
      BY <1>3
    <2> QED
      BY <1>1, <2>1, <2>2, <2>3 DEF ClientsInv
  <1>7. ended' => \E q \in Pkgs : closed'[q] /\ stage'[q] # "new"
    BY <1>1, <1>3 DEF ClientsInv
  <1> QED
    BY <1>1, <1>4, <1>5, <1>6, <1>7 DEF ClientsInv

\* ThreadPoolPackage::result
LEMMA ResultStep ==
  ASSUME ClientsInv, NEW p \in Pkgs, Result(p)
  PROVE  ClientsInv' /\ entry' = entry
  <1>1. /\ stage[p] = "left" /\ stage' = [stage EXCEPT ![p] = "answered"]
        /\ ended' = (ended \/ (closed[p] /\ InPool = {p}))
        /\ UNCHANGED <<closed, entry, remade>>
    BY DEF Result, Go
  <1>2. /\ stage \in [Pkgs -> Stage] /\ closed \in [Pkgs -> BOOLEAN]
        /\ entry \in {"none", "idle", "used"} /\ ended \in BOOLEAN /\ remade \in BOOLEAN
    BY DEF ClientsInv, ClientsTypeOK
  <1>3. stage'[p] = "answered" /\ \A q \in Pkgs \ {p} : stage'[q] = stage[q]
    BY <1>1, <1>2
  <1>4. ClientsTypeOK'
    <2>1. stage' \in [Pkgs -> Stage]
      BY <1>1, <1>2 DEF Stage
    <2>2. ended' \in BOOLEAN
      BY <1>1
    <2> QED
      BY <1>1, <1>2, <2>1, <2>2 DEF ClientsTypeOK
  <1>5. \A q \in Pkgs : stage'[q] \in Having <=> stage[q] \in Having
    BY <1>1, <1>3 DEF Having
  <1>6. \A q \in Pkgs : stage'[q] \in Gone <=> stage[q] \in Gone
    BY <1>1, <1>3 DEF Gone
  <1>7. ended' => \E q \in Pkgs : closed'[q] /\ stage'[q] # "new"
    BY <1>1, <1>2, <1>3 DEF ClientsInv
  <1> QED
    BY <1>1, <1>4, <1>5, <1>6, <1>7 DEF ClientsInv

\* What the runs check of the packages follows.
LEMMA ClientsFacts ==
  ASSUME ClientsInv
  PROVE  HeldByOne /\ Forgotten
  <1>1. PICK S : S = At("held") \cup At("handled")
    OBVIOUS
  <1>2. \A p : p \in S <=> p \in Pkgs /\ stage[p] \in Having
    BY <1>1 DEF At, Having
  <1>3. Cardinality(S) <= 1
    <2>1. CASE S = {}
      BY <2>1, FS_EmptySet
    <2>2. CASE S # {}
      <3>1. PICK p \in S : TRUE
        BY <2>2
      <3>2. S = {p}
        BY <1>2, <3>1 DEF ClientsInv
      <3> QED
        BY <3>2, FS_Singleton
    <2> QED
      BY <2>1, <2>2
  <1>4. HeldByOne
    BY <1>1, <1>2, <1>3 DEF HeldByOne, ClientsInv
  <1>5. ASSUME ended, InPool = {}
        PROVE  entry = "none" \/ remade
    <2>1. PICK p \in Pkgs : closed[p] /\ stage[p] # "new"
      BY <1>5 DEF ClientsInv
    <2>2. stage[p] \in Stage /\ p \notin InPool
      BY <1>5 DEF ClientsInv, ClientsTypeOK
    <2>3. stage[p] \in Gone
      BY <2>1, <2>2 DEF InPool, At, Stage, Gone
    <2> QED
      BY <2>1, <2>3 DEF ClientsInv
  <1> QED
    BY <1>4, <1>5 DEF Forgotten

-----------------------------------------------------------------------------
(* Facts about the operators of the model.                                 *)

\* Every non-empty set of numbers has a least one.
LEMMA MinIn ==
  ASSUME NEW S \in SUBSET Nat, S # {}
  PROVE  Min(S) \in S
  <1> DEFINE less == OpToRel(<, Nat)
  <1>1. \A x, y \in Nat : <<x, y>> \in less <=> x < y
    BY DEF OpToRel
  <1>2. IsWellFoundedOn(less, Nat)
    BY NatLessThanWellFounded
  <1> HIDE DEF less
  <1>3. PICK m \in S : \A y \in S : ~(<<y, m>> \in less)
    BY <1>2, WFMin
  <1>4. ASSUME NEW y \in S
        PROVE  m <= y
    <2>1. y \in Nat /\ m \in Nat
      OBVIOUS
    <2>2. ~(y < m)
      BY <1>1, <1>3, <2>1, Zenon
    <2> QED
      BY <2>1, <2>2
  <1>5. \E x \in S : \A y \in S : x <= y
    BY <1>4
  <1> QED
    BY <1>5 DEF Min

\* Backends as init_backend leaves them, and one whose session has ended
LEMMA NewBackends ==
  /\ Ended \in Backend /\ BackendOK(Ended) /\ ~Ended.open
  /\ \A dbs \in DbLists, open \in BOOLEAN, named \in BOOLEAN :
        Creatable(dbs) =>
            /\ create_backend_from_databases(dbs, open, named) \in Backend
            /\ BackendOK(create_backend_from_databases(dbs, open, named))
            /\ create_backend_from_databases(dbs, open, named).open = open
            /\ create_backend_from_databases(dbs, open, named).named = named
  <1>1. NoSearch \in [SetNames -> 0 .. MaxPkgs]
    BY ClientsAssumption DEF NoSearch
  <1>2. Ended \in Backend /\ BackendOK(Ended) /\ ~Ended.open
    BY <1>1 DEF Ended, Backend, BackendOK
  <1>3. ASSUME NEW dbs \in DbLists, NEW open \in BOOLEAN, NEW named \in BOOLEAN, Creatable(dbs)
        PROVE  /\ create_backend_from_databases(dbs, open, named) \in Backend
               /\ BackendOK(create_backend_from_databases(dbs, open, named))
               /\ create_backend_from_databases(dbs, open, named).open = open
               /\ create_backend_from_databases(dbs, open, named).named = named
    <2>1. Known(dbs) /\ TargetsOf(dbs) \in {TargetsOf(d) : d \in {e \in DbLists : Known(e)}}
      BY <1>3 DEF Creatable
    <2>2. create_backend_from_databases(dbs, open, named) =
              [dbs |-> dbs, open |-> open, named |-> named, sets |-> NoSearch,
               targets |-> TargetsOf(dbs)]
      BY DEF create_backend_from_databases, TargetsOf
    <2> HIDE DEF TargetsOf, Known
    <2> QED
      BY <1>1, <2>1, <2>2 DEF Backend, BackendOK
  <1> QED
    BY <1>2, <1>3

\* m_backend_list.push_back
LEMMA AppendFacts ==
  ASSUME NEW s \in Seq(Backend), NEW x \in Backend
  PROVE  /\ Append(s, x) \in Seq(Backend)
         /\ DOMAIN s = 1 .. Len(s) /\ Len(s) \in Nat
         /\ DOMAIN Append(s, x) = DOMAIN s \cup {Len(s) + 1}
         /\ Len(s) + 1 \notin DOMAIN s
         /\ Append(s, x)[Len(s) + 1] = x
         /\ \A b \in DOMAIN s : Append(s, x)[b] = s[b]
  <1>1. DOMAIN s = 1 .. Len(s) /\ Len(s) \in Nat
    OBVIOUS
  <1>2. DOMAIN Append(s, x) = 1 .. Len(s) + 1
    OBVIOUS
  <1>3. 1 .. Len(s) + 1 = (1 .. Len(s)) \cup {Len(s) + 1}
    BY <1>1
  <1>4. Append(s, x)[Len(s) + 1] = x /\ Append(s, x) \in Seq(Backend)
    OBVIOUS
  <1>5. ASSUME NEW b \in DOMAIN s
        PROVE  Append(s, x)[b] = s[b]
    BY <1>1
  <1> QED
    BY <1>1, <1>2, <1>3, <1>4, <1>5

\* fixup_npr_record finds a database of the backend whose targets have the record's.
LEMMA FixupFacts ==
  ASSUME NEW x \in Backend, BackendOK(x), NEW n, NEW id, NEW r \in fixup_package(n, x, id)
  PROVE  /\ r.set = n /\ r.search = id
         /\ r.db \in ToSet(r.dbs)
         /\ r.target \in MapOf(r.db).targets
  <1>1. PICK t \in x.targets :
            r = [set |-> n, search |-> id, dbs |-> x.dbs, target |-> t,
                 db |-> fixup_npr_record(x, t)]
    BY DEF fixup_package
  <1>2. x.dbs \in DbLists /\ Known(x.dbs) /\ x.targets = TargetsOf(x.dbs)
    BY <1>1 DEF BackendOK
  <1>3. PICK at : at = {i \in DOMAIN x.dbs : match(x.dbs[i]) # {} /\ t \in MapOf(x.dbs[i]).targets}
    OBVIOUS
  <1>4. at # {}
    <2>1. PICK i \in DOMAIN x.dbs : t \in MapOf(x.dbs[i]).targets
      BY <1>1, <1>2 DEF TargetsOf
    <2> QED
      BY <1>2, <1>3, <2>1 DEF Known
  <1>5. DOMAIN x.dbs \in SUBSET Nat
    <2>1. x.dbs \in Seq(ToSet(x.dbs))
      BY <1>2, VirtDBAssumption
    <2>2. DOMAIN x.dbs = 1 .. Len(x.dbs)
      BY <2>1
    <2> QED
      BY <2>2
  <1>6. Min(at) \in at
    BY <1>3, <1>4, <1>5, MinIn
  <1>7. fixup_npr_record(x, t) = x.dbs[Min(at)]
    BY <1>3, <1>4 DEF fixup_npr_record
  <1>8. Min(at) \in DOMAIN x.dbs /\ t \in MapOf(x.dbs[Min(at)]).targets
    BY <1>3, <1>6
  <1> QED
    BY <1>1, <1>7, <1>8 DEF ToSet

-----------------------------------------------------------------------------
(* The steps of the filter on its backends.                                *)

\* Backends are added to the list or shut, and no result set changes.
LEMMA BackendsStep ==
  ASSUME DbInv, virtual' \in BOOLEAN,
         be' \in Seq(Backend), list \subseteq list', list' \subseteq DOMAIN be',
         \A b \in DOMAIN be : be'[b].named = be[b].named /\ be'[b].sets = be[b].sets,
         \A b \in DOMAIN be' : BackendOK(be'[b]) /\ (be'[b].open => b \in list'),
         UNCHANGED <<sets, want, hijacked>>,
         shown' = {} \/ shown' = shown
  PROVE  DbInv'
  <1>1. DbType'
    BY DEF DbInv, DbType
  <1>2. ASSUME NEW n \in SetNames
        PROVE  SetOK(n)'
    <2>1. SetOK(n) /\ list \subseteq DOMAIN be
      BY DEF DbInv, DbType
    <2> SUFFICES ASSUME NEW s \in sets[n]
                 PROVE  /\ s = [b |-> s.b, name |-> s.name]
                        /\ s.b \in list' /\ s.name \in SetNames
                        /\ be'[s.b].named => s.name = n
                        /\ n \notin hijacked => be'[s.b].sets[s.name] \in {0, want[n]}
      BY DEF SetOK
    <2>2. /\ s = [b |-> s.b, name |-> s.name]
          /\ s.b \in list /\ s.name \in SetNames
          /\ be[s.b].named => s.name = n
          /\ n \notin hijacked => be[s.b].sets[s.name] \in {0, want[n]}
      BY <2>1 DEF SetOK
    <2>3. be'[s.b].named = be[s.b].named /\ be'[s.b].sets = be[s.b].sets
      BY <2>1, <2>2
    <2> QED
      BY <2>2, <2>3
  <1>3. RightRecords'
    BY DEF DbInv, RightRecords
  <1> QED
    BY <1>1, <1>2, <1>3 DEF DbInv

LEMMA DbKept ==
  ASSUME DbInv, UNCHANGED dbVars
  PROVE  DbInv' /\ list' = list
  <1>1. UNCHANGED <<virtual, list, sets, be, want, hijacked, shown>>
    BY DEF dbVars
  <1>2. virtual' \in BOOLEAN /\ be' \in Seq(Backend) /\ list' \subseteq DOMAIN be'
    BY <1>1 DEF DbInv, DbType
  <1>3. \A b \in DOMAIN be' : BackendOK(be'[b]) /\ (be'[b].open => b \in list')
    BY <1>1 DEF DbInv
  <1> QED
    BY <1>1, <1>2, <1>3, BackendsStep

\* A response without records, and no change of the backends
LEMMA PlainStep ==
  ASSUME DbInv, virtual' \in BOOLEAN, UNCHANGED <<list, sets, be, want, hijacked>>, NoRecords
  PROVE  DbInv'
  <1>1. be' \in Seq(Backend) /\ list' \subseteq DOMAIN be' /\ shown' = {}
    BY DEF DbInv, DbType, NoRecords
  <1>2. \A b \in DOMAIN be' : BackendOK(be'[b]) /\ (be'[b].open => b \in list')
    BY DEF DbInv
  <1> QED
    BY <1>1, <1>2, BackendsStep

\* Backends that are the present ones and one new at most
Grown(bes, lst) ==
    /\ bes \in Seq(Backend)
    /\ DOMAIN be \subseteq DOMAIN bes
    /\ \A b \in DOMAIN be : bes[b] = be[b]
    /\ list \subseteq lst /\ lst \subseteq DOMAIN bes
    /\ \A b \in DOMAIN bes : BackendOK(bes[b]) /\ (bes[b].open => b \in lst)

Shut(bes, b) == [bes EXCEPT ![b].open = FALSE]
SetAt(bes, b, name, id) == [bes EXCEPT ![b].sets[name] = id]

\* A backend that shuts stays what it was otherwise.
LEMMA ShutFacts ==
  ASSUME NEW bes \in Seq(Backend), NEW b \in DOMAIN bes,
         \A c \in DOMAIN bes : BackendOK(bes[c]),
         NEW after, after = Shut(bes, b)
  PROVE  /\ after \in Seq(Backend) /\ DOMAIN after = DOMAIN bes
         /\ \A c \in DOMAIN bes :
               /\ after[c].named = bes[c].named /\ after[c].sets = bes[c].sets
               /\ BackendOK(after[c]) /\ (after[c].open => bes[c].open)
  <1>1. PICK x : x = [bes[b] EXCEPT !.open = FALSE]
    OBVIOUS
  <1>2. bes[b] \in Backend /\ BackendOK(bes[b])
    OBVIOUS
  <1>3. /\ x \in Backend /\ x.named = bes[b].named /\ x.sets = bes[b].sets /\ ~x.open
        /\ x.dbs = bes[b].dbs /\ x.targets = bes[b].targets
    BY <1>1, <1>2 DEF Backend
  <1>4. BackendOK(x)
    BY <1>2, <1>3 DEF BackendOK
  <1>5. after = [bes EXCEPT ![b] = x]
    BY <1>1 DEF Shut
  <1>6. /\ after \in Seq(Backend) /\ DOMAIN after = DOMAIN bes /\ after[b] = x
        /\ \A c \in DOMAIN bes \ {b} : after[c] = bes[c]
    <2>1. bes \in [1 .. Len(bes) -> Backend] /\ Len(bes) \in Nat /\ DOMAIN bes = 1 .. Len(bes)
      OBVIOUS
    <2>2. x \in Backend
      BY <1>3
    <2>3. after \in [1 .. Len(bes) -> Backend]
      BY <1>5, <2>1, <2>2
    <2>4. after \in Seq(Backend)
      BY <2>1, <2>3
    <2> QED
      BY <1>5, <2>1, <2>4
  <1> QED
    BY <1>3, <1>4, <1>6

\* The set that a search makes or destroys at a backend is the only one that changes.
LEMMA SetAtFacts ==
  ASSUME NEW bes \in Seq(Backend), NEW b \in DOMAIN bes, NEW name \in SetNames,
         NEW id \in 0 .. MaxPkgs,
         \A c \in DOMAIN bes : BackendOK(bes[c]),
         NEW after, after = SetAt(bes, b, name, id)
  PROVE  /\ after \in Seq(Backend) /\ DOMAIN after = DOMAIN bes
         /\ after[b].sets[name] = id
         /\ \A c \in DOMAIN bes :
               /\ after[c].named = bes[c].named /\ after[c].open = bes[c].open
               /\ BackendOK(after[c])
               /\ \A m \in SetNames : c # b \/ m # name => after[c].sets[m] = bes[c].sets[m]
  <1>1. PICK x : x = [bes[b] EXCEPT !.sets[name] = id]
    OBVIOUS
  <1>2. bes[b] \in Backend /\ BackendOK(bes[b]) /\ bes[b].sets \in [SetNames -> 0 .. MaxPkgs]
    <2>1. bes[b] \in Backend /\ BackendOK(bes[b])
      OBVIOUS
    <2> QED
      BY <2>1 DEF Backend
  <1>3. [bes[b].sets EXCEPT ![name] = id] \in [SetNames -> 0 .. MaxPkgs]
    BY <1>2
  <1>4. /\ x \in Backend /\ x.named = bes[b].named /\ x.open = bes[b].open
        /\ x.dbs = bes[b].dbs /\ x.targets = bes[b].targets
        /\ x.sets = [bes[b].sets EXCEPT ![name] = id]
    BY <1>1, <1>2, <1>3 DEF Backend
  <1>5. BackendOK(x)
    BY <1>2, <1>4 DEF BackendOK
  <1>6. after = [bes EXCEPT ![b] = x]
    BY <1>1 DEF SetAt
  <1>7. /\ after \in Seq(Backend) /\ DOMAIN after = DOMAIN bes /\ after[b] = x
        /\ \A c \in DOMAIN bes \ {b} : after[c] = bes[c]
    <2>1. bes \in [1 .. Len(bes) -> Backend] /\ Len(bes) \in Nat /\ DOMAIN bes = 1 .. Len(bes)
      OBVIOUS
    <2>2. x \in Backend
      BY <1>4
    <2>3. after \in [1 .. Len(bes) -> Backend]
      BY <1>6, <2>1, <2>2
    <2>4. after \in Seq(Backend)
      BY <2>1, <2>3
    <2> QED
      BY <1>6, <2>1, <2>4
  <1>8. x.sets[name] = id /\ \A m \in SetNames \ {name} : x.sets[m] = bes[b].sets[m]
    BY <1>2, <1>4
  <1> QED
    BY <1>4, <1>5, <1>7, <1>8

\* A search sent to a backend of the list: the set of the client, and those that share
\* the backend's set with it, stay what the invariant says.
LEMMA SearchAtStep ==
  ASSUME DbInv, NEW p \in Pkgs, NEW n \in SetNames, NEW bes, Grown(bes, list'),
         NEW b \in list', SearchAt(p, n, b, bes), virtual' = virtual,
         b \notin list \/ sets[n] # {} \/ bes[b].named
  PROVE  DbInv' /\ \E shut \in BOOLEAN : Handled(p, shut)
  <1>1. PICK name : name = backend_setname(bes[b], n)
    OBVIOUS
  <1>2. /\ name \in SetNames
        /\ bes[b].named => name = n
    BY <1>1, VirtDBAssumption DEF backend_setname
  <1>3. /\ bes \in Seq(Backend) /\ DOMAIN be \subseteq DOMAIN bes
        /\ \A c \in DOMAIN be : bes[c] = be[c]
        /\ list \subseteq list' /\ list' \subseteq DOMAIN bes /\ b \in DOMAIN bes
        /\ \A c \in DOMAIN bes : BackendOK(bes[c]) /\ (bes[c].open => c \in list')
    BY DEF Grown
  <1>4. /\ virtual \in BOOLEAN /\ list \subseteq DOMAIN be /\ DOMAIN sets = SetNames
        /\ want \in [SetNames -> 0 .. MaxPkgs] /\ hijacked \subseteq SetNames
        /\ \A m \in SetNames : SetOK(m)
    BY DEF DbInv, DbType
  <1>5. p \in 0 .. MaxPkgs /\ 0 \in 0 .. MaxPkgs
    BY ClientsAssumption DEF Pkgs
  <1>6. \A m \in SetNames : \A s \in sets[m] :
            /\ s = [b |-> s.b, name |-> s.name]
            /\ s.b \in list /\ s.b \in DOMAIN be /\ s.name \in SetNames
            /\ bes[s.b].named => s.name = m
            /\ m \notin hijacked => bes[s.b].sets[s.name] \in {0, want[m]}
    <2> SUFFICES ASSUME NEW m \in SetNames, NEW s \in sets[m]
                 PROVE  /\ s = [b |-> s.b, name |-> s.name]
                        /\ s.b \in list /\ s.b \in DOMAIN be /\ s.name \in SetNames
                        /\ bes[s.b].named => s.name = m
                        /\ m \notin hijacked => bes[s.b].sets[s.name] \in {0, want[m]}
      OBVIOUS
    <2>1. /\ s = [b |-> s.b, name |-> s.name]
          /\ s.b \in list /\ s.name \in SetNames
          /\ be[s.b].named => s.name = m
          /\ m \notin hijacked => be[s.b].sets[s.name] \in {0, want[m]}
      BY <1>4 DEF SetOK
    <2>2. s.b \in DOMAIN be /\ bes[s.b] = be[s.b]
      BY <1>3, <1>4, <2>1
    <2> QED
      BY <2>1, <2>2
  <1>7. CASE /\ bes[b].open
             /\ be' = [bes EXCEPT ![b].sets[name] = p]
             /\ sets' = [sets EXCEPT ![n] = {[b |-> b, name |-> name]}]
             /\ want' = [want EXCEPT ![n] = p]
             /\ hijacked' = (hijacked \ {n}) \cup Taken(b, name, n)
             /\ shown' = fixup_package(n, bes[b], p)
             /\ Handled(p, FALSE)
    <2>1. /\ be' \in Seq(Backend) /\ DOMAIN be' = DOMAIN bes
          /\ be'[b].sets[name] = p
          /\ \A c \in DOMAIN bes :
                /\ be'[c].named = bes[c].named /\ be'[c].open = bes[c].open
                /\ BackendOK(be'[c])
                /\ \A m \in SetNames : c # b \/ m # name => be'[c].sets[m] = bes[c].sets[m]
      <3>1. be' = SetAt(bes, b, name, p)
        BY <1>7 DEF SetAt
      <3> QED
        BY <1>2, <1>3, <1>5, <3>1, SetAtFacts
    <2>2. want' \in [SetNames -> 0 .. MaxPkgs]
      BY <1>4, <1>5, <1>7
    <2>3. /\ sets'[n] = {[b |-> b, name |-> name]} /\ want'[n] = p /\ DOMAIN sets' = SetNames
          /\ \A m \in SetNames \ {n} : sets'[m] = sets[m] /\ want'[m] = want[m]
      BY <1>4, <1>7
    <2>4. DbType'
      <3>1. hijacked' \subseteq SetNames
        BY <1>4, <1>7 DEF Taken
      <3> QED
        BY <1>3, <1>4, <2>1, <2>2, <2>3, <3>1 DEF DbType
    <2>5. ASSUME NEW m \in SetNames \ {n}, NEW s \in sets[m], m \notin hijacked'
          PROVE  be'[s.b].sets[s.name] \in {0, want[m]}
      <3>1. m \notin hijacked /\ m \notin Taken(b, name, n)
        BY <1>7, <2>5
      <3>2. s.b # b \/ s.name # name
        <4> SUFFICES ASSUME s.b = b, s.name = name
                     PROVE  FALSE
          OBVIOUS
        <4>1. s = [b |-> b, name |-> name] /\ b \in list
          BY <1>6, <2>5
        <4>2. sets[n] = {}
          BY <2>5, <3>1, <4>1 DEF Taken
        <4>3. bes[b].named
          BY <4>1, <4>2
        <4>4. name = n /\ s.name = m
          BY <1>2, <1>6, <2>5, <4>3
        <4> QED
          BY <2>5, <4>4
      <3>3. bes[s.b].sets[s.name] \in {0, want[m]} /\ s.b \in DOMAIN bes /\ s.name \in SetNames
        BY <1>3, <1>6, <2>5, <3>1
      <3> QED
        BY <2>1, <3>2, <3>3
    <2>6. ASSUME NEW m \in SetNames
          PROVE  SetOK(m)'
      <3>1. CASE m = n
        <4>1. [b |-> b, name |-> name].b = b /\ [b |-> b, name |-> name].name = name
          OBVIOUS
        <4>2. be'[b].named => name = n
          BY <1>2, <1>3, <2>1
        <4> QED
          BY <1>2, <2>1, <2>3, <3>1, <4>1, <4>2 DEF SetOK
      <3>2. CASE m # n
        <4> SUFFICES ASSUME NEW s \in sets[m]
                     PROVE  /\ s = [b |-> s.b, name |-> s.name]
                            /\ s.b \in list' /\ s.name \in SetNames
                            /\ be'[s.b].named => s.name = m
                            /\ m \notin hijacked' => be'[s.b].sets[s.name] \in {0, want'[m]}
          BY <2>3, <3>2 DEF SetOK
        <4>1. be'[s.b].named = bes[s.b].named
          BY <1>3, <1>6, <2>1
        <4> QED
          BY <1>3, <1>6, <2>3, <2>5, <3>2, <4>1
      <3> QED
        BY <3>1, <3>2
    <2>7. RightRecords'
      <3> SUFFICES ASSUME NEW r \in shown'
                   PROVE  /\ r.set \notin hijacked' => r.search = want'[r.set]
                          /\ r.db \in ToSet(r.dbs)
                          /\ r.target \in MapOf(r.db).targets
        BY DEF RightRecords
      <3>1. bes[b] \in Backend /\ BackendOK(bes[b]) /\ r \in fixup_package(n, bes[b], p)
        BY <1>3, <1>7
      <3>2. r.set = n /\ r.search = p /\ r.db \in ToSet(r.dbs) /\ r.target \in MapOf(r.db).targets
        BY <3>1, FixupFacts
      <3> QED
        BY <2>3, <3>2
    <2>8. \A c \in DOMAIN be' : BackendOK(be'[c]) /\ (be'[c].open => c \in list')
      BY <1>3, <2>1
    <2> QED
      BY <1>7, <2>4, <2>6, <2>7, <2>8 DEF DbInv
  <1>8. CASE /\ sets' = [sets EXCEPT ![n] = {}]
             /\ want' = [want EXCEPT ![n] = 0]
             /\ NoRecords
             /\ \/ /\ be' = [bes EXCEPT ![b].sets[name] = 0]
                   /\ hijacked' = hijacked \ {n}
                   /\ Handled(p, FALSE)
                \/ /\ be' = [bes EXCEPT ![b].open = FALSE]
                   /\ Handled(p, TRUE)
                   /\ UNCHANGED hijacked
    <2>1. /\ be' \in Seq(Backend) /\ DOMAIN be' = DOMAIN bes
          /\ \A c \in DOMAIN bes :
                /\ be'[c].named = bes[c].named /\ (be'[c].open => bes[c].open)
                /\ BackendOK(be'[c])
                /\ \A m \in SetNames : be'[c].sets[m] \in {0, bes[c].sets[m]}
      <3>1. CASE be' = [bes EXCEPT ![b].sets[name] = 0]
        <4>1. /\ be' \in Seq(Backend) /\ DOMAIN be' = DOMAIN bes
              /\ be'[b].sets[name] = 0
              /\ \A c \in DOMAIN bes :
                    /\ be'[c].named = bes[c].named /\ be'[c].open = bes[c].open
                    /\ BackendOK(be'[c])
                    /\ \A m \in SetNames : c # b \/ m # name => be'[c].sets[m] = bes[c].sets[m]
          <5>1. be' = SetAt(bes, b, name, 0)
            BY <3>1 DEF SetAt
          <5> QED
            BY <1>2, <1>3, <1>5, <5>1, SetAtFacts
        <4> QED
          BY <4>1
      <3>2. CASE be' = [bes EXCEPT ![b].open = FALSE]
        <4>1. /\ be' \in Seq(Backend) /\ DOMAIN be' = DOMAIN bes
              /\ \A c \in DOMAIN bes :
                    /\ be'[c].named = bes[c].named /\ be'[c].sets = bes[c].sets
                    /\ BackendOK(be'[c]) /\ (be'[c].open => bes[c].open)
          <5>1. be' = Shut(bes, b)
            BY <3>2 DEF Shut
          <5> QED
            BY <1>3, <5>1, ShutFacts
        <4> QED
          BY <4>1
      <3> QED
        BY <1>8, <3>1, <3>2
    <2>2. /\ sets'[n] = {} /\ DOMAIN sets' = SetNames
          /\ \A m \in SetNames \ {n} : sets'[m] = sets[m] /\ want'[m] = want[m]
          /\ want' \in [SetNames -> 0 .. MaxPkgs]
      BY <1>4, <1>5, <1>8
    <2>3. hijacked' \subseteq SetNames /\ \A m \in SetNames \ {n} : m \in hijacked' <=> m \in hijacked
      BY <1>4, <1>8
    <2>4. DbType'
      BY <1>3, <1>4, <2>1, <2>2, <2>3 DEF DbType
    <2>5. ASSUME NEW m \in SetNames
          PROVE  SetOK(m)'
      <3>1. CASE m = n
        BY <2>2, <3>1 DEF SetOK
      <3>2. CASE m # n
        <4> SUFFICES ASSUME NEW s \in sets[m]
                     PROVE  /\ s = [b |-> s.b, name |-> s.name]
                            /\ s.b \in list' /\ s.name \in SetNames
                            /\ be'[s.b].named => s.name = m
                            /\ m \notin hijacked' => be'[s.b].sets[s.name] \in {0, want'[m]}
          BY <2>2, <3>2 DEF SetOK
        <4>1. s.b \in DOMAIN bes /\ s.name \in SetNames /\ s.b \in list'
          BY <1>3, <1>6
        <4>2. /\ be'[s.b].named = bes[s.b].named
              /\ be'[s.b].sets[s.name] \in {0, bes[s.b].sets[s.name]}
          BY <2>1, <4>1
        <4> QED
          BY <1>6, <2>2, <2>3, <3>2, <4>1, <4>2
      <3> QED
        BY <3>1, <3>2
    <2>6. RightRecords'
      BY <1>8 DEF RightRecords, NoRecords
    <2>7. \A c \in DOMAIN be' : BackendOK(be'[c]) /\ (be'[c].open => c \in list')
      BY <1>3, <2>1
    <2> QED
      BY <1>8, <2>4, <2>5, <2>6, <2>7 DEF DbInv
  <1> QED
    BY <1>1, <1>7, <1>8 DEF SearchAt

LEMMA GrownSame ==
  ASSUME DbInv
  PROVE  Grown(be, list)
  BY DEF DbInv, DbType, Grown

\* init_backend succeeds.
LEMMA GrownNew ==
  ASSUME DbInv, NEW dbs \in DbLists, Creatable(dbs), NEW named \in BOOLEAN
  PROVE  /\ Grown(init_backend(dbs, named), list \cup {Len(be) + 1})
         /\ Len(be) + 1 \notin list
  <1>1. PICK x : x = create_backend_from_databases(dbs, TRUE, named)
    OBVIOUS
  <1>2. x \in Backend /\ BackendOK(x)
    BY <1>1, NewBackends
  <1>3. be \in Seq(Backend) /\ list \subseteq DOMAIN be
    BY DEF DbInv, DbType
  <1>4. PICK bes : bes = Append(be, x)
    OBVIOUS
  <1>5. /\ bes \in Seq(Backend)
        /\ DOMAIN bes = DOMAIN be \cup {Len(be) + 1}
        /\ Len(be) + 1 \notin DOMAIN be
        /\ bes[Len(be) + 1] = x
        /\ \A b \in DOMAIN be : bes[b] = be[b]
    BY <1>2, <1>3, <1>4, AppendFacts
  <1>6. ASSUME NEW b \in DOMAIN bes
        PROVE  BackendOK(bes[b]) /\ (bes[b].open => b \in list \cup {Len(be) + 1})
    BY <1>2, <1>5 DEF DbInv
  <1>7. Grown(bes, list \cup {Len(be) + 1})
    BY <1>3, <1>5, <1>6 DEF Grown
  <1> QED
    BY <1>1, <1>3, <1>4, <1>5, <1>7 DEF init_backend

\* init_backend fails: the session it made, if any, is shut and in no list.
LEMMA FailsStep ==
  ASSUME DbInv, NEW dbs \in DbLists, init_backend_fails(dbs),
         UNCHANGED <<virtual, list, sets, want, hijacked>>, NoRecords
  PROVE  DbInv'
  <1>1. virtual \in BOOLEAN /\ be \in Seq(Backend) /\ list \subseteq DOMAIN be
    BY DEF DbInv, DbType
  <1>2. CASE UNCHANGED be
    BY <1>1, <1>2, PlainStep
  <1>3. CASE Creatable(dbs) /\ be' = Append(be, Refused(dbs))
    <2>1. PICK x : x = Refused(dbs)
      OBVIOUS
    <2>2. x \in Backend /\ BackendOK(x) /\ ~x.open
      BY <1>3, <2>1, NewBackends DEF Refused
    <2>3. be' = Append(be, x)
      BY <1>3, <2>1
    <2>4. /\ be' \in Seq(Backend)
          /\ DOMAIN be' = DOMAIN be \cup {Len(be) + 1}
          /\ be'[Len(be) + 1] = x
          /\ \A b \in DOMAIN be : be'[b] = be[b]
      BY <1>1, <2>2, <2>3, AppendFacts
    <2>5. \A b \in DOMAIN be' : BackendOK(be'[b]) /\ (be'[b].open => b \in list')
      BY <2>2, <2>4 DEF DbInv
    <2> QED
      BY <1>1, <2>4, <2>5, BackendsStep DEF NoRecords
  <1> QED
    BY <1>2, <1>3 DEF init_backend_fails

LEMMA SearchStep ==
  ASSUME DbInv, NEW p \in Pkgs, NEW n \in SetNames, NEW dbs \in DbLists,
         NEW replace \in BOOLEAN, search(p, n, dbs, replace)
  PROVE  DbInv' /\ \E shut \in BOOLEAN : Handled(p, shut)
  <1>1. PICK usable : usable = Usable(dbs, Exists(n))
    OBVIOUS
  <1>2. virtual' = virtual
    BY DEF search
  <1>3. be \in Seq(Backend) /\ list \subseteq DOMAIN be
    BY DEF DbInv, DbType
  <1>4. CASE usable # {} /\ SearchAt(p, n, Min(usable), be) /\ UNCHANGED list
    <2>1. usable \subseteq list /\ \A b \in usable : be[b].named \/ sets[n] # {}
      BY <1>1 DEF Usable, Exists
    <2>2. usable \in SUBSET Nat
      <3>1. DOMAIN be = 1 .. Len(be)
        BY <1>3
      <3> QED
        BY <1>3, <2>1, <3>1
    <2>3. PICK b : b = Min(usable)
      OBVIOUS
    <2>4. b \in usable
      BY <1>4, <2>2, <2>3, MinIn
    <2>5. /\ b \in list' /\ (sets[n] # {} \/ be[b].named)
          /\ Grown(be, list') /\ SearchAt(p, n, b, be)
      BY <1>4, <2>1, <2>3, <2>4, GrownSame
    <2> QED
      BY <1>2, <2>5, SearchAtStep
  <1>5. CASE /\ init_backend_fails(dbs) /\ NoRecords /\ Handled(p, FALSE)
             /\ UNCHANGED <<list, sets, want, hijacked>>
    BY <1>2, <1>5, FailsStep
  <1>6. CASE /\ Creatable(dbs) /\ list' = list \cup {Len(be) + 1}
             /\ \E named \in BOOLEAN : SearchAt(p, n, Len(be) + 1, init_backend(dbs, named))
    <2>1. PICK named \in BOOLEAN : SearchAt(p, n, Len(be) + 1, init_backend(dbs, named))
      BY <1>6
    <2>2. PICK bes : bes = init_backend(dbs, named)
      OBVIOUS
    <2>3. PICK b : b = Len(be) + 1
      OBVIOUS
    <2>4. Grown(bes, list') /\ b \notin list /\ b \in list' /\ SearchAt(p, n, b, bes)
      BY <1>6, <2>1, <2>2, <2>3, GrownNew
    <2> QED
      BY <1>2, <2>4, SearchAtStep
  <1> QED
    BY <1>1, <1>4, <1>5, <1>6 DEF search

LEMMA PresentStep ==
  ASSUME DbInv, NEW p \in Pkgs, NEW n \in SetNames, present(p, n)
  PROVE  DbInv' /\ \E shut \in BOOLEAN : Handled(p, shut)
  <1>1. UNCHANGED <<virtual, list, sets, want, hijacked>>
    BY DEF present
  <1>2. /\ virtual \in BOOLEAN /\ be \in Seq(Backend) /\ list \subseteq DOMAIN be
        /\ \A b \in DOMAIN be : BackendOK(be[b]) /\ (be[b].open => b \in list)
        /\ SetOK(n)
    BY DEF DbInv, DbType
  <1>3. CASE NoRecords /\ Handled(p, FALSE) /\ UNCHANGED be
    BY <1>1, <1>2, <1>3, PlainStep
  <1>4. ASSUME NEW s \in sets[n],
               shown' = IF be[s.b].sets[s.name] = 0 THEN {}
                        ELSE fixup_package(n, be[s.b], be[s.b].sets[s.name]),
               Handled(p, FALSE), UNCHANGED be
        PROVE  DbInv' /\ \E shut \in BOOLEAN : Handled(p, shut)
    <2>1. RightRecords'
      <3> SUFFICES ASSUME NEW r \in shown'
                   PROVE  /\ r.set \notin hijacked' => r.search = want'[r.set]
                          /\ r.db \in ToSet(r.dbs)
                          /\ r.target \in MapOf(r.db).targets
        BY DEF RightRecords
      <3>1. PICK id : id = be[s.b].sets[s.name]
        OBVIOUS
      <3>2. id # 0 /\ r \in fixup_package(n, be[s.b], id)
        BY <1>4, <3>1
      <3>3. s.b \in DOMAIN be /\ (n \notin hijacked => id \in {0, want[n]})
        BY <1>2, <1>4, <3>1 DEF SetOK
      <3>4. be[s.b] \in Backend /\ BackendOK(be[s.b])
        BY <1>2, <3>3
      <3>5. /\ r.set = n /\ r.search = id /\ r.db \in ToSet(r.dbs)
            /\ r.target \in MapOf(r.db).targets
        BY <3>2, <3>4, FixupFacts
      <3> QED
        BY <1>1, <3>2, <3>3, <3>5
    <2>2. DbType' /\ \A m \in SetNames : SetOK(m)'
      BY <1>1, <1>4 DEF DbInv, DbType, SetOK
    <2> QED
      BY <1>1, <1>2, <1>4, <2>1, <2>2 DEF DbInv
  <1>5. ASSUME NEW s \in sets[n], be' = [be EXCEPT ![s.b].open = FALSE], NoRecords,
               Handled(p, TRUE)
        PROVE  DbInv' /\ \E shut \in BOOLEAN : Handled(p, shut)
    <2>1. PICK b \in DOMAIN be : b = s.b
      BY <1>2, <1>5 DEF SetOK
    <2>2. be' = Shut(be, b)
      BY <1>5, <2>1 DEF Shut
    <2>3. /\ be' \in Seq(Backend) /\ DOMAIN be' = DOMAIN be
          /\ \A c \in DOMAIN be :
                /\ be'[c].named = be[c].named /\ be'[c].sets = be[c].sets
                /\ BackendOK(be'[c]) /\ (be'[c].open => be[c].open)
      BY <1>2, <2>2, ShutFacts
    <2> QED
      BY <1>1, <1>2, <1>5, <2>3, BackendsStep DEF NoRecords
  <1> QED
    BY <1>3, <1>4, <1>5 DEF present

LEMMA ScanAtStep ==
  ASSUME DbInv, NEW p \in Pkgs, NEW bes, Grown(bes, list'), NEW b \in list', ScanAt(p, b, bes),
         UNCHANGED <<virtual, sets, want, hijacked>>, NoRecords
  PROVE  DbInv' /\ \E shut \in BOOLEAN : Handled(p, shut)
  <1>1. /\ bes \in Seq(Backend) /\ DOMAIN be \subseteq DOMAIN bes
        /\ \A c \in DOMAIN be : bes[c] = be[c]
        /\ list \subseteq list' /\ list' \subseteq DOMAIN bes /\ b \in DOMAIN bes
        /\ \A c \in DOMAIN bes : BackendOK(bes[c]) /\ (bes[c].open => c \in list')
    BY DEF Grown
  <1>2. /\ be' \in Seq(Backend) /\ DOMAIN be' = DOMAIN bes
        /\ \A c \in DOMAIN bes :
              /\ be'[c].named = bes[c].named /\ be'[c].sets = bes[c].sets
              /\ BackendOK(be'[c]) /\ (be'[c].open => bes[c].open)
    <2>1. CASE be' = bes
      BY <1>1, <2>1
    <2>2. CASE be' = [bes EXCEPT ![b].open = FALSE]
      <3>1. be' = Shut(bes, b)
        BY <2>2 DEF Shut
      <3> QED
        BY <1>1, <3>1, ShutFacts
    <2> QED
      BY <2>1, <2>2 DEF ScanAt
  <1>3. \A c \in DOMAIN be : be'[c].named = be[c].named /\ be'[c].sets = be[c].sets
    BY <1>1, <1>2
  <1>4. \A c \in DOMAIN be' : BackendOK(be'[c]) /\ (be'[c].open => c \in list')
    BY <1>1, <1>2
  <1>5. virtual' \in BOOLEAN /\ shown' = {}
    BY DEF DbInv, DbType, NoRecords
  <1> QED
    BY <1>1, <1>2, <1>3, <1>4, <1>5, BackendsStep DEF ScanAt

LEMMA ScanStep ==
  ASSUME DbInv, NEW p \in Pkgs, NEW dbs \in DbLists, scan(p, dbs)
  PROVE  DbInv' /\ \E shut \in BOOLEAN : Handled(p, shut)
  <1>1. PICK there : there = {b \in list : be[b].dbs = dbs}
    OBVIOUS
  <1>2. UNCHANGED <<virtual, sets, want, hijacked>> /\ NoRecords
    BY DEF scan
  <1>3. be \in Seq(Backend) /\ list \subseteq DOMAIN be
    BY DEF DbInv, DbType
  <1>4. CASE there # {} /\ ScanAt(p, Min(there), be) /\ UNCHANGED list
    <2>1. there \in SUBSET Nat
      <3>1. DOMAIN be = 1 .. Len(be)
        BY <1>3
      <3> QED
        BY <1>1, <1>3, <3>1
    <2>2. PICK b : b = Min(there)
      OBVIOUS
    <2>3. b \in there
      BY <1>4, <2>1, <2>2, MinIn
    <2>4. b \in list' /\ Grown(be, list') /\ ScanAt(p, b, be)
      BY <1>1, <1>4, <2>2, <2>3, GrownSame
    <2> QED
      BY <1>2, <2>4, ScanAtStep
  <1>5. CASE init_backend_fails(dbs) /\ Handled(p, FALSE) /\ UNCHANGED list
    BY <1>2, <1>5, FailsStep
  <1>6. CASE /\ Creatable(dbs) /\ list' = list \cup {Len(be) + 1}
             /\ \E named \in BOOLEAN : ScanAt(p, Len(be) + 1, init_backend(dbs, named))
    <2>1. PICK named \in BOOLEAN : ScanAt(p, Len(be) + 1, init_backend(dbs, named))
      BY <1>6
    <2>2. PICK bes : bes = init_backend(dbs, named)
      OBVIOUS
    <2>3. PICK b : b = Len(be) + 1
      OBVIOUS
    <2>4. Grown(bes, list') /\ b \in list' /\ ScanAt(p, b, bes)
      BY <1>6, <2>1, <2>2, <2>3, GrownNew
    <2> QED
      BY <1>2, <2>4, ScanAtStep
  <1> QED
    BY <1>1, <1>4, <1>5, <1>6 DEF scan

LEMMA RelayStep ==
  ASSUME DbInv, NEW p \in Pkgs, relay_apdu(p)
  PROVE  DbInv' /\ \E shut \in BOOLEAN : Handled(p, shut)
  <1>1. PICK shut \in SUBSET list :
            be' = [b \in DOMAIN be |-> IF b \in shut THEN [be[b] EXCEPT !.open = FALSE] ELSE be[b]]
    BY DEF relay_apdu
  <1>2. /\ virtual \in BOOLEAN /\ be \in Seq(Backend) /\ list \subseteq DOMAIN be
        /\ \A b \in DOMAIN be : BackendOK(be[b]) /\ (be[b].open => b \in list)
    BY DEF DbInv, DbType
  <1>3. ASSUME NEW b \in DOMAIN be
        PROVE  /\ be'[b] \in Backend /\ BackendOK(be'[b]) /\ (be'[b].open => be[b].open)
               /\ be'[b].named = be[b].named /\ be'[b].sets = be[b].sets
    <2>1. be[b] \in Backend /\ BackendOK(be[b])
      BY <1>2
    <2>2. CASE b \in shut
      <3>1. be'[b] = [be[b] EXCEPT !.open = FALSE]
        BY <1>1, <2>2
      <3>2. /\ be'[b] \in Backend /\ ~be'[b].open /\ be'[b].named = be[b].named
            /\ be'[b].sets = be[b].sets /\ be'[b].dbs = be[b].dbs
            /\ be'[b].targets = be[b].targets
        BY <2>1, <3>1 DEF Backend
      <3> QED
        BY <2>1, <3>2 DEF BackendOK
    <2>3. CASE b \notin shut
      BY <1>1, <2>1, <2>3
    <2> QED
      BY <2>2, <2>3
  <1>4. be' \in Seq(Backend) /\ DOMAIN be' = DOMAIN be
    <2>1. DOMAIN be = 1 .. Len(be) /\ Len(be) \in Nat
      BY <1>2
    <2>2. be' \in [1 .. Len(be) -> Backend]
      BY <1>1, <1>3, <2>1
    <2> QED
      BY <2>1, <2>2
  <1>5. UNCHANGED <<virtual, list, sets, want, hijacked>> /\ shown' = {}
    BY DEF relay_apdu, NoRecords
  <1>6. DbInv'
    BY <1>2, <1>3, <1>4, <1>5, BackendsStep
  <1>7. PICK none \in BOOLEAN : none = (list = {})
    OBVIOUS
  <1> QED
    BY <1>6, <1>7 DEF relay_apdu

\* Frontend::close: no backend session of the client stays open.
LEMMA ForgetStep ==
  ASSUME DbInv, be' = close, list' = {}, virtual' = FALSE, sets' = NoSet, want' = NoSearch,
         hijacked' = {}, shown' = {}
  PROVE  DbInv'
  <1>1. /\ be \in Seq(Backend)
        /\ \A b \in DOMAIN be : BackendOK(be[b]) /\ (be[b].open => b \in list)
    BY DEF DbInv, DbType
  <1>2. ASSUME NEW b \in DOMAIN be
        PROVE  be'[b] \in Backend /\ BackendOK(be'[b]) /\ ~be'[b].open
    <2>1. CASE b \in list
      BY <2>1, NewBackends DEF close
    <2>2. CASE b \notin list
      <3>1. be'[b] = be[b] /\ be[b] \in Backend
        BY <1>1, <2>2 DEF close
      <3> QED
        BY <1>1, <2>2, <3>1
    <2> QED
      BY <2>1, <2>2
  <1>3. be' \in Seq(Backend) /\ DOMAIN be' = DOMAIN be
    <2>1. DOMAIN be = 1 .. Len(be) /\ Len(be) \in Nat
      BY <1>1
    <2>2. be' \in [1 .. Len(be) -> Backend]
      BY <1>2, <2>1 DEF close
    <2> QED
      BY <2>1, <2>2
  <1>4. DbType'
    <2>1. NoSearch \in [SetNames -> 0 .. MaxPkgs]
      BY ClientsAssumption DEF NoSearch
    <2>2. DOMAIN NoSet = SetNames
      BY DEF NoSet
    <2> QED
      BY <1>3, <2>1, <2>2 DEF DbType
  <1>5. (\A n \in SetNames : SetOK(n)') /\ RightRecords'
    BY DEF SetOK, NoSet, RightRecords
  <1> QED
    BY <1>2, <1>3, <1>4, <1>5 DEF DbInv

-----------------------------------------------------------------------------
(* The steps of the specification.                                         *)

LEMMA ProcessInv ==
  ASSUME IInv, NEW p \in Pkgs, process(p)
  PROVE  IInv'
  <1>1. ClientsInv /\ DbInv /\ virtual \in BOOLEAN
    BY DEF IInv, DbInv, DbType
  <1>2. DbInv' /\ \E shut \in BOOLEAN : Handled(p, shut)
    <2>1. ASSUME NEW vhosts \in BOOLEAN, InitRequest(p, vhosts)
          PROVE  DbInv' /\ \E shut \in BOOLEAN : Handled(p, shut)
      <3>1. UNCHANGED <<list, sets, be, want, hijacked>> /\ NoRecords /\ virtual' \in BOOLEAN
        BY <1>1, <2>1 DEF InitRequest
      <3>2. \E shut \in BOOLEAN : Handled(p, shut)
        BY <2>1 DEF InitRequest
      <3> QED
        BY <1>1, <3>1, <3>2, PlainStep
    <2>2. ASSUME NEW n \in SetNames, NEW replace \in BOOLEAN, SearchRefused(p, n, replace)
          PROVE  DbInv' /\ \E shut \in BOOLEAN : Handled(p, shut)
      BY <1>1, <2>2, PlainStep DEF SearchRefused
    <2>3. CASE PassOn(p) \/ BadRequest(p) \/ NoRequest(p)
      <3>1. UNCHANGED <<virtual, list, sets, be, want, hijacked>> /\ NoRecords
        BY <2>3 DEF PassOn, BadRequest, NoRequest
      <3>2. \E shut \in BOOLEAN : Handled(p, shut)
        BY <2>3 DEF PassOn, BadRequest, NoRequest
      <3> QED
        BY <1>1, <3>1, <3>2, PlainStep
    <2> QED
      BY <1>1, <2>1, <2>2, <2>3, SearchStep, PresentStep, ScanStep, RelayStep DEF process
  <1>3. ClientsInv' /\ entry' = "used"
    BY <1>1, <1>2, HandledStep
  <1> QED
    BY <1>2, <1>3 DEF IInv

LEMMA StepInv ==
  ASSUME IInv, NEW p \in Pkgs, Step(p)
  PROVE  IInv'
  <1>1. ClientsInv /\ DbInv
    BY DEF IInv
  <1>2. CASE get_frontend(p)
    BY <1>1, <1>2, GetStep, DbKept DEF get_frontend, IInv
  <1>3. CASE release_frontend(p)
    <2>1. ClientsInv' /\ (entry' = "none" <=> closed[p])
      BY <1>1, <1>3, ReleaseStep DEF release_frontend
    <2>2. CASE closed[p]
      <3>1. DbInv' /\ list' = {}
        BY <1>1, <1>3, <2>2, ForgetStep DEF release_frontend
      <3> QED
        BY <2>1, <3>1 DEF IInv
    <2>3. CASE ~closed[p]
      <3>1. UNCHANGED <<virtual, list, sets, be, want, hijacked>> /\ NoRecords
        BY <1>3, <2>3 DEF release_frontend, NoRecords
      <3>2. virtual' \in BOOLEAN
        BY <1>1, <3>1 DEF DbInv, DbType
      <3> QED
        BY <1>1, <2>1, <2>3, <3>1, <3>2, PlainStep DEF IInv
    <2> QED
      BY <2>2, <2>3
  <1> QED
    BY <1>2, <1>3, ProcessInv DEF Step

LEMMA EnvironmentInv ==
  ASSUME IInv, Environment
  PROVE  IInv'
  <1>1. ClientsInv /\ DbInv /\ DbInv' /\ list' = list
    BY DbKept DEF IInv, Environment
  <1>2. ClientsInv' /\ entry' = entry
    BY <1>1, PutStep, ResultStep DEF Environment
  <1> QED
    BY <1>1, <1>2 DEF IInv

LEMMA InitInv == Init => IInv
  <1> SUFFICES ASSUME Init
               PROVE  IInv
    OBVIOUS
  <1>1. ClientsInv
    BY DEF Init, ClientsInit, ClientsInv, ClientsTypeOK, Stage, Having, Gone
  <1>2. DbType
    <2>1. NoSearch \in [SetNames -> 0 .. MaxPkgs]
      BY ClientsAssumption DEF NoSearch
    <2>2. DOMAIN NoSet = SetNames
      BY DEF NoSet
    <2>3. << >> \in Seq(Backend)
      OBVIOUS
    <2> QED
      BY <2>1, <2>2, <2>3 DEF Init, DbType
  <1>3. DbInv
    BY <1>2 DEF Init, DbInv, SetOK, NoSet, RightRecords
  <1> QED
    BY <1>1, <1>3 DEF IInv, Init

LEMMA NextInv == IInv /\ [Next]_vars => IInv'
  <1> SUFFICES ASSUME IInv, [Next]_vars
               PROVE  IInv'
    OBVIOUS
  <1>1. CASE UNCHANGED vars
    <2>1. DbInv' /\ list' = list
      BY <1>1, DbKept DEF IInv, vars
    <2>2. UNCHANGED <<stage, closed, entry, ended, remade>>
      BY <1>1 DEF vars, clientVars
    <2>3. ClientsInv'
      BY <2>2 DEF IInv, ClientsInv, ClientsTypeOK
    <2> QED
      BY <2>1, <2>2, <2>3 DEF IInv
  <1> QED
    BY <1>1, EnvironmentInv, StepInv DEF Next

-----------------------------------------------------------------------------
(* The theorems.                                                           *)

\* The inductive invariant holds in every reachable state.
THEOREM Invariance == Spec => []IInv
  BY InitInv, NextInv, PTL DEF Spec

\* Whatever backends a client's sets are spread over, replaced at or shut by, a response
\* to a search or a present has the records of the last search of its set, each given
\* under a database whose targets include the record's.
THEOREM RecordsAreRight == Spec => []RightRecords
  <1>1. IInv => RightRecords
    BY DEF IInv, DbInv
  <1> QED
    BY <1>1, Invariance, PTL

\* A backend session that is open is in m_backend_list of a Frontend that exists, one
\* package at a time has the Frontend, and it goes with the last package of its session.
THEOREM BackendsAreClosed == Spec => []NoBackendLeft
  <1>1. IInv => NoBackendLeft
    <2> SUFFICES ASSUME IInv
                 PROVE  NoBackendLeft
      OBVIOUS
    <2>1. HeldByOne /\ Forgotten
      BY ClientsFacts DEF IInv
    <2>2. /\ virtual \in BOOLEAN /\ be \in Seq(Backend) /\ list \subseteq DOMAIN be
          /\ want \in [SetNames -> 0 .. MaxPkgs] /\ hijacked \subseteq SetNames
          /\ \A n \in SetNames : SetOK(n)
      BY DEF IInv, DbInv, DbType
    <2>3. ASSUME NEW b \in DOMAIN be
          PROVE  /\ be[b].dbs \in DbLists \cup {<< >>} /\ be[b].named \in BOOLEAN
                 /\ be[b].open \in BOOLEAN /\ be[b].sets \in [SetNames -> 0 .. MaxPkgs]
      <3>1. be[b] \in Backend
        BY <2>2
      <3> QED
        BY <3>1 DEF Backend
    <2>4. TypeOK
      BY <2>2, <2>3 DEF TypeOK, IInv, ClientsInv, SetOK
    <2>5. \A b \in DOMAIN be : be[b].open => b \in list /\ entry # "none"
      BY DEF IInv, DbInv
    <2> QED
      BY <2>1, <2>4, <2>5 DEF NoBackendLeft
  <1> QED
    BY <1>1, Invariance, PTL
=============================================================================
