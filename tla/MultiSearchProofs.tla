-------------------------- MODULE MultiSearchProofs -------------------------
(***************************************************************************)
(* Proofs about the multi filter, for any lists of targets, result set     *)
(* names, hit counts and number of packages.                               *)
(*                                                                         *)
(* ClientsInv is about the packages: one at a time has the Frontend, and a *)
(* Frontend that was not made anew is there only while no closed package   *)
(* has left.  Match is about the targets: what is at a target with hits    *)
(* agrees with m_sets and the client's last search, but for a search that  *)
(* ends the session before it is stored (Shutting).                        *)
(***************************************************************************)
EXTENDS MultiSearch, TLAPS, FiniteSetTheorems

Having == {"held", "handled"}
Gone == {"left", "answered"}

ClientsInv ==
    /\ ClientsTypeOK
    /\ \A p, q \in Pkgs : stage[p] \in Having /\ stage[q] \in Having => p = q
    /\ entry = "used" <=> \E p \in Pkgs : stage[p] \in Having
    /\ entry # "none" /\ ~remade => \A p \in Pkgs : stage[p] \in Gone => ~closed[p]
    /\ ended => \E p \in Pkgs : closed[p] /\ stage[p] # "new"

\* A session with a target
Be == [target : Targets, open : BOOLEAN, sets : [SetNames -> 0 .. MaxPkgs]]

MultiType ==
    /\ hide \in [unavailable : BOOLEAN, errors : BOOLEAN]
    /\ multi \in BOOLEAN
    /\ be \in Seq(Be)
    /\ list \subseteq DOMAIN be
    /\ DOMAIN sets = SetNames
    /\ \A n \in SetNames : DOMAIN sets[n] \subseteq list
    /\ want \in [SetNames -> 0 .. MaxPkgs]

\* Sessions in use are in the list of a Frontend that is multi; records shown are of
\* the client's last search of their set.
MultiOK ==
    /\ MultiType
    /\ \A b \in DOMAIN be : be[b].open => b \in list
    /\ ~multi => list = {} /\ want = NoSearch
    /\ \A r \in shown : r.search = want[r.set] /\ r.search # 0

\* What is at a target under the name of a set, and in m_sets of its hits
MatchAt(n, b) ==
    /\ be[b].open => (b \in DOMAIN sets[n] <=> want[n] # 0)
    /\ b \in DOMAIN sets[n] /\ sets[n][b] > 0 => be[b].sets[n] = want[n] /\ want[n] # 0

Match == \A n \in SetNames, b \in list : MatchAt(n, b)

\* The client's session is about to end: its last search may not have been stored.
Shutting == \E p \in Pkgs : stage[p] = "handled" /\ closed[p]

\* The inductive invariant
IInv ==
    /\ ClientsInv
    /\ MultiOK
    /\ Shutting \/ Match
    /\ entry = "none" => list = {}
    /\ shown # {} => \E p \in Pkgs : stage[p] = "handled"

-----------------------------------------------------------------------------
(* The packages of the client.                                             *)

\* recv_GDU and failNotify put a package into the pool.
LEMMA PutStep ==
  ASSUME ClientsInv, NEW end \in BOOLEAN, Put(end)
  PROVE  ClientsInv' /\ entry' = entry
  <1>1. PICK p \in At("new") : /\ stage' = [stage EXCEPT ![p] = "wait"]
                               /\ closed' = [closed EXCEPT ![p] = end]
    BY DEF Put, Go
  <1>2. p \in Pkgs /\ stage[p] = "new" /\ UNCHANGED <<entry, remade>> /\ ended' = end /\ ~ended
    BY <1>1 DEF Put, At
  <1>3. /\ stage \in [Pkgs -> Stage] /\ closed \in [Pkgs -> BOOLEAN]
        /\ entry \in {"none", "idle", "used"} /\ remade \in BOOLEAN
    BY DEF ClientsInv, ClientsTypeOK
  <1>4. /\ stage'[p] = "wait" /\ closed'[p] = end
        /\ \A q \in Pkgs \ {p} : stage'[q] = stage[q] /\ closed'[q] = closed[q]
    BY <1>1, <1>2, <1>3
  <1>5. ClientsTypeOK'
    <2>1. stage' \in [Pkgs -> Stage]
      BY <1>1, <1>2, <1>3 DEF Stage
    <2>2. closed' \in [Pkgs -> BOOLEAN]
      BY <1>1, <1>2, <1>3
    <2> QED
      BY <1>2, <1>3, <2>1, <2>2 DEF ClientsTypeOK
  <1>6. \A q \in Pkgs : stage'[q] \in Having <=> stage[q] \in Having
    BY <1>2, <1>4 DEF Having
  <1>7. \A q \in Pkgs : stage'[q] \in Gone => stage[q] \in Gone /\ closed'[q] = closed[q]
    BY <1>2, <1>4 DEF Gone
  <1>8. ended' => closed'[p] /\ stage'[p] # "new"
    BY <1>2, <1>4
  <1> QED
    BY <1>2, <1>5, <1>6, <1>7, <1>8 DEF ClientsInv

\* get_frontend: nobody else has the Frontend.
LEMMA GetStep ==
  ASSUME ClientsInv, NEW p \in Pkgs, Get(p)
  PROVE  ClientsInv' /\ entry' = "used"
  <1>1. /\ stage[p] = "wait" /\ entry # "used" /\ entry' = "used"
        /\ remade' = IF entry = "none" THEN Erased ELSE remade
        /\ stage' = [stage EXCEPT ![p] = "held"] /\ UNCHANGED <<closed, ended>>
    BY DEF Get, Go
  <1>2. /\ stage \in [Pkgs -> Stage] /\ closed \in [Pkgs -> BOOLEAN]
        /\ entry \in {"none", "idle", "used"} /\ ended \in BOOLEAN /\ remade \in BOOLEAN
    BY DEF ClientsInv, ClientsTypeOK
  <1>3. stage'[p] = "held" /\ \A q \in Pkgs \ {p} : stage'[q] = stage[q]
    BY <1>1, <1>2
  <1>4. ClientsTypeOK'
    <2>1. stage' \in [Pkgs -> Stage]
      BY <1>1, <1>2 DEF Stage
    <2>2. Erased \in BOOLEAN
      BY DEF Erased
    <2>3. remade' \in BOOLEAN
      BY <1>1, <1>2, <2>2
    <2> QED
      BY <1>1, <1>2, <2>1, <2>3 DEF ClientsTypeOK
  <1>5. \A q \in Pkgs : stage'[q] \in Having <=> q = p
    BY <1>1, <1>3 DEF ClientsInv, Having
  <1>6. \A q \in Pkgs : stage'[q] \in Gone <=> stage[q] \in Gone
    BY <1>1, <1>3 DEF Gone
  <1>7. ~remade' => \A q \in Pkgs : stage'[q] \in Gone => ~closed'[q]
    <2>1. CASE entry = "none"
      <3>1. ~remade' => \A q \in Pkgs : stage[q] \in Gone => ~closed[q]
        BY <1>1, <2>1 DEF Erased, At, Gone
      <3> QED
        BY <1>1, <1>6, <3>1
    <2>2. CASE entry # "none"
      BY <1>1, <1>6, <2>2 DEF ClientsInv
    <2> QED
      BY <2>1, <2>2
  <1>8. ended' => \E q \in Pkgs : closed'[q] /\ stage'[q] # "new"
    BY <1>1, <1>3 DEF ClientsInv
  <1> QED
    BY <1>1, <1>4, <1>5, <1>7, <1>8 DEF ClientsInv

\* The filter's work on a package is done.
LEMMA HandledStep ==
  ASSUME ClientsInv, NEW p \in Pkgs, NEW shut \in BOOLEAN, Handled(p, shut)
  PROVE  ClientsInv' /\ entry = "used" /\ entry' = "used"
  <1>1. /\ stage[p] = "held" /\ stage' = [stage EXCEPT ![p] = "handled"]
        /\ closed' = [closed EXCEPT ![p] = @ \/ shut]
        /\ UNCHANGED <<entry, ended, remade>>
    BY DEF Handled, Go
  <1>2. /\ stage \in [Pkgs -> Stage] /\ closed \in [Pkgs -> BOOLEAN]
        /\ entry \in {"none", "idle", "used"} /\ ended \in BOOLEAN /\ remade \in BOOLEAN
    BY DEF ClientsInv, ClientsTypeOK
  <1>3. stage'[p] = "handled" /\ \A q \in Pkgs \ {p} : stage'[q] = stage[q]
    BY <1>1, <1>2
  <1>4. closed' \in [Pkgs -> BOOLEAN] /\ \A q \in Pkgs \ {p} : closed'[q] = closed[q]
    BY <1>1, <1>2
  <1>5. closed[p] => closed'[p]
    BY <1>1, <1>2
  <1>6. ClientsTypeOK'
    <2>1. stage' \in [Pkgs -> Stage]
      BY <1>1, <1>2 DEF Stage
    <2> QED
      BY <1>1, <1>2, <1>4, <2>1 DEF ClientsTypeOK
  <1>7. \A q \in Pkgs : stage'[q] \in Having <=> stage[q] \in Having
    BY <1>1, <1>3 DEF Having
  <1>8. \A q \in Pkgs : stage'[q] \in Gone => stage[q] \in Gone /\ closed'[q] = closed[q]
    BY <1>3, <1>4 DEF Gone
  <1>9. \A q \in Pkgs : closed[q] /\ stage[q] # "new" => closed'[q] /\ stage'[q] # "new"
    BY <1>3, <1>4, <1>5
  <1>10. entry = "used"
    BY <1>1 DEF ClientsInv, Having
  <1> QED
    BY <1>1, <1>6, <1>7, <1>8, <1>9, <1>10 DEF ClientsInv

\* release_frontend
LEMMA ReleaseStep ==
  ASSUME ClientsInv, NEW p \in Pkgs, Release(p)
  PROVE  ClientsInv' /\ (entry' = "none" <=> closed[p])
  <1>1. /\ stage[p] = "handled" /\ stage' = [stage EXCEPT ![p] = "left"]
        /\ entry' = IF closed[p] THEN "none" ELSE "idle"
        /\ remade' = (remade /\ ~closed[p]) /\ UNCHANGED <<closed, ended>>
    BY DEF Release, Go
  <1>2. /\ stage \in [Pkgs -> Stage] /\ closed \in [Pkgs -> BOOLEAN]
        /\ ended \in BOOLEAN /\ remade \in BOOLEAN
    BY DEF ClientsInv, ClientsTypeOK
  <1>3. stage'[p] = "left" /\ \A q \in Pkgs \ {p} : stage'[q] = stage[q]
    BY <1>1, <1>2
  <1>4. ClientsTypeOK'
    <2>1. stage' \in [Pkgs -> Stage]
      BY <1>1, <1>2 DEF Stage
    <2>2. remade' \in BOOLEAN
      BY <1>1, <1>2
    <2> QED
      BY <1>1, <1>2, <2>1, <2>2 DEF ClientsTypeOK
  <1>5. \A q \in Pkgs : stage'[q] \notin Having
    BY <1>1, <1>3 DEF ClientsInv, Having
  <1>6. entry' # "none" /\ ~remade' => \A q \in Pkgs : stage'[q] \in Gone => ~closed'[q]
    <2> SUFFICES ASSUME entry' # "none", ~remade', NEW q \in Pkgs, stage'[q] \in Gone
                 PROVE  ~closed'[q]
      OBVIOUS
    <2>1. ~closed[p] /\ ~remade
      BY <1>1, <1>2
    <2>2. entry = "used"
      BY <1>1 DEF ClientsInv, Having
    <2>3. q # p => stage[q] \in Gone
      BY <1>3
    <2> QED
      BY <1>1, <2>1, <2>2, <2>3 DEF ClientsInv
  <1>7. ended' => \E q \in Pkgs : closed'[q] /\ stage'[q] # "new"
    BY <1>1, <1>3 DEF ClientsInv
  <1> QED
    BY <1>1, <1>4, <1>5, <1>6, <1>7 DEF ClientsInv

\* ThreadPoolPackage::result
LEMMA ResultStep ==
  ASSUME ClientsInv, NEW p \in Pkgs, Result(p)
  PROVE  ClientsInv' /\ entry' = entry
  <1>1. /\ stage[p] = "left" /\ stage' = [stage EXCEPT ![p] = "answered"]
        /\ ended' = (ended \/ (closed[p] /\ InPool = {p}))
        /\ UNCHANGED <<closed, entry, remade>>
    BY DEF Result, Go
  <1>2. /\ stage \in [Pkgs -> Stage] /\ closed \in [Pkgs -> BOOLEAN]
        /\ entry \in {"none", "idle", "used"} /\ ended \in BOOLEAN /\ remade \in BOOLEAN
    BY DEF ClientsInv, ClientsTypeOK
  <1>3. stage'[p] = "answered" /\ \A q \in Pkgs \ {p} : stage'[q] = stage[q]
    BY <1>1, <1>2
  <1>4. ClientsTypeOK'
    <2>1. stage' \in [Pkgs -> Stage]
      BY <1>1, <1>2 DEF Stage
    <2>2. ended' \in BOOLEAN
      BY <1>1
    <2> QED
      BY <1>1, <1>2, <2>1, <2>2 DEF ClientsTypeOK
  <1>5. \A q \in Pkgs : stage'[q] \in Having <=> stage[q] \in Having
    BY <1>1, <1>3 DEF Having
  <1>6. \A q \in Pkgs : stage'[q] \in Gone <=> stage[q] \in Gone
    BY <1>1, <1>3 DEF Gone
  <1>7. ended' => \E q \in Pkgs : closed'[q] /\ stage'[q] # "new"
    BY <1>1, <1>2, <1>3 DEF ClientsInv
  <1> QED
    BY <1>1, <1>4, <1>5, <1>6, <1>7 DEF ClientsInv

\* What the runs check of the packages follows.
LEMMA ClientsFacts ==
  ASSUME ClientsInv
  PROVE  HeldByOne /\ Forgotten
  <1>1. PICK S : S = At("held") \cup At("handled")
    OBVIOUS
  <1>2. \A p : p \in S <=> p \in Pkgs /\ stage[p] \in Having
    BY <1>1 DEF At, Having
  <1>3. Cardinality(S) <= 1
    <2>1. CASE S = {}
      BY <2>1, FS_EmptySet
    <2>2. CASE S # {}
      <3>1. PICK p \in S : TRUE
        BY <2>2
      <3>2. S = {p}
        BY <1>2, <3>1 DEF ClientsInv
      <3> QED
        BY <3>2, FS_Singleton
    <2> QED
      BY <2>1, <2>2
  <1>4. HeldByOne
    BY <1>1, <1>2, <1>3 DEF HeldByOne, ClientsInv
  <1>5. ASSUME ended, InPool = {}
        PROVE  entry = "none" \/ remade
    <2>1. PICK p \in Pkgs : closed[p] /\ stage[p] # "new"
      BY <1>5 DEF ClientsInv
    <2>2. stage[p] \in Stage /\ p \notin InPool
      BY <1>5 DEF ClientsInv, ClientsTypeOK
    <2>3. stage[p] \in Gone
      BY <2>1, <2>2 DEF InPool, At, Stage, Gone
    <2> QED
      BY <2>1, <2>3 DEF ClientsInv
  <1> QED
    BY <1>4, <1>5 DEF Forgotten

-----------------------------------------------------------------------------
(* The sessions with the targets.                                          *)

LEMMA BeFacts ==
  ASSUME NEW bes \in Seq(Be), NEW b \in DOMAIN bes
  PROVE  /\ bes[b] \in Be /\ bes[b].open \in BOOLEAN /\ bes[b].target \in Targets
         /\ bes[b].sets \in [SetNames -> 0 .. MaxPkgs]
  <1>1. bes[b] \in Be
    OBVIOUS
  <1> QED
    BY <1>1 DEF Be

\* A function over the places of a sequence is a sequence.
LEMMA Mapped ==
  ASSUME NEW S, NEW T, NEW s \in Seq(S), NEW f, f \in [DOMAIN s -> T]
  PROVE  f \in Seq(T) /\ DOMAIN f = DOMAIN s /\ Len(f) = Len(s)
  <1>1. DOMAIN s = 1 .. Len(s) /\ Len(s) \in Nat
    OBVIOUS
  <1>2. f \in [1 .. Len(s) -> T]
    BY <1>1
  <1> QED
    BY <1>1, <1>2

\* Ending sessions changes nothing else about them.
LEMMA EndInFacts ==
  ASSUME NEW bes \in Seq(Be), NEW bs
  PROVE  /\ EndIn(bes, bs) \in Seq(Be) /\ DOMAIN EndIn(bes, bs) = DOMAIN bes
         /\ \A b \in DOMAIN bes : /\ EndIn(bes, bs)[b].sets = bes[b].sets
                                  /\ EndIn(bes, bs)[b].open <=> bes[b].open /\ b \notin bs
  <1>1. ASSUME NEW b \in DOMAIN bes
        PROVE  /\ EndIn(bes, bs)[b] \in Be
               /\ EndIn(bes, bs)[b].sets = bes[b].sets
               /\ EndIn(bes, bs)[b].open <=> bes[b].open /\ b \notin bs
    <2>1. EndIn(bes, bs)[b] = [bes[b] EXCEPT !.open = bes[b].open /\ b \notin bs]
      BY DEF EndIn
    <2>2. (bes[b].open /\ b \notin bs) \in BOOLEAN
      OBVIOUS
    <2>3. bes[b] \in Be
      BY BeFacts
    <2> QED
      BY <2>1, <2>2, <2>3 DEF Be
  <1>2. EndIn(bes, bs) \in [DOMAIN bes -> Be]
    <2>1. EndIn(bes, bs) = [b \in DOMAIN bes |-> EndIn(bes, bs)[b]]
      BY DEF EndIn
    <2> QED
      BY <1>1, <2>1
  <1> QED
    BY <1>1, <1>2, Mapped

\* Some sessions may end and the client is shown records of its sets: what the sets
\* are at the targets stays.
LEMMA KeepStep ==
  ASSUME MultiOK, NEW bs, be' = EndIn(be, bs) \/ be' = be,
         UNCHANGED <<hide, multi, list, sets, want>>,
         \A r \in shown' : r.search = want[r.set] /\ r.search # 0
  PROVE  MultiOK' /\ (Match => Match')
  <1>1. be \in Seq(Be) /\ list \subseteq DOMAIN be
    BY DEF MultiOK, MultiType
  <1>2. /\ be' \in Seq(Be) /\ DOMAIN be' = DOMAIN be
        /\ \A b \in DOMAIN be : be'[b].sets = be[b].sets /\ (be'[b].open => be[b].open)
    BY <1>1, EndInFacts
  <1>3. MultiOK'
    BY <1>2 DEF MultiOK, MultiType
  <1>4. ASSUME Match, NEW n \in SetNames, NEW b \in list
        PROVE  MatchAt(n, b)'
    <2>1. MatchAt(n, b) /\ be'[b].sets[n] = be[b].sets[n] /\ (be'[b].open => be[b].open)
      BY <1>1, <1>2, <1>4 DEF Match
    <2> QED
      BY <2>1 DEF MatchAt
  <1> QED
    BY <1>3, <1>4 DEF Match

\* Targets with hits of a set hold the set of search w.
HitsAt(hits, bes, n, w) ==
    \A b \in DOMAIN hits : hits[b] > 0 => bes[b].sets[n] = w /\ w # 0

\* present: the records are those of the set at the targets asked.
LEMMA PresentAtFacts ==
  ASSUME NEW p \in Pkgs, NEW n \in SetNames, NEW hits, NEW bes, NEW w,
         HitsAt(hits, bes, n, w),
         PresentAt(p, n, hits, bes)
  PROVE  /\ \E bs : be' = EndIn(bes, bs)
         /\ \A r \in shown' : r.set = n /\ r.search = w /\ w # 0
         /\ \E shut \in BOOLEAN : Handled(p, shut)
  <1>0. PICK asked \in SUBSET {b \in DOMAIN hits : hits[b] > 0} :
            \E answer \in [asked -> {"records", "diag", "closed"}] :
                LET ok == Of(answer, "records")
                    failed == Told(Of(answer, "diag"), hide.errors, ok)
                    shut == Told(Of(answer, "closed"), hide.errors, ok)
                IN  /\ be' = EndIn(bes, Of(answer, "closed"))
                    /\ shown' = IF shut \/ failed THEN {} ELSE RecordsOf(n, ok, bes)
                    /\ Handled(p, shut)
    BY DEF PresentAt
  <1>1. PICK answer \in [asked -> {"records", "diag", "closed"}] :
            LET ok == Of(answer, "records")
                failed == Told(Of(answer, "diag"), hide.errors, ok)
                shut == Told(Of(answer, "closed"), hide.errors, ok)
            IN  /\ be' = EndIn(bes, Of(answer, "closed"))
                /\ shown' = IF shut \/ failed THEN {} ELSE RecordsOf(n, ok, bes)
                /\ Handled(p, shut)
    BY <1>0
  <1>2. Told(Of(answer, "closed"), hide.errors, Of(answer, "records")) \in BOOLEAN
    BY DEF Told
  <1>3. \A b \in Of(answer, "records") : bes[b].sets[n] = w /\ w # 0
    BY DEF Of, HitsAt
  <1>4. \A r \in RecordsOf(n, Of(answer, "records"), bes) : r.set = n /\ r.search = w /\ w # 0
    BY <1>3 DEF RecordsOf
  <1>5. \A r \in shown' : r \in RecordsOf(n, Of(answer, "records"), bes)
    BY <1>1
  <1> QED
    BY <1>1, <1>2, <1>4, <1>5

\* The sets at the targets after a search
LEMMA SearchedFacts ==
  ASSUME be \in Seq(Be), NEW p \in 0 .. MaxPkgs, NEW n \in SetNames,
         NEW found, NEW failed, NEW gone, NEW bes, bes = Searched(p, n, found, failed, gone)
  PROVE  /\ bes \in Seq(Be) /\ DOMAIN bes = DOMAIN be
         /\ \A b \in DOMAIN be :
               /\ \A m \in SetNames \ {n} : bes[b].sets[m] = be[b].sets[m]
               /\ bes[b].sets[n] = IF b \in found THEN p ELSE IF b \in failed THEN 0
                                   ELSE be[b].sets[n]
               /\ bes[b].open => be[b].open /\ (b \in gone => b \in found \cup failed)
  <1>1. ASSUME NEW b \in DOMAIN be
        PROVE  /\ bes[b] \in Be
               /\ \A m \in SetNames \ {n} : bes[b].sets[m] = be[b].sets[m]
               /\ bes[b].sets[n] = IF b \in found THEN p ELSE IF b \in failed THEN 0
                                   ELSE be[b].sets[n]
               /\ bes[b].open => be[b].open /\ (b \in gone => b \in found \cup failed)
    <2>1. /\ be[b] \in Be /\ be[b].sets \in [SetNames -> 0 .. MaxPkgs] /\ be[b].open \in BOOLEAN
          /\ 0 \in 0 .. MaxPkgs
      BY BeFacts, ClientsAssumption
    <2>2. bes[b] = IF b \in found THEN [be[b] EXCEPT !.sets = [be[b].sets EXCEPT ![n] = p]]
                   ELSE IF b \in failed THEN [be[b] EXCEPT !.sets = [be[b].sets EXCEPT ![n] = 0]]
                   ELSE [be[b] EXCEPT !.open = be[b].open /\ b \notin gone]
      BY <2>1 DEF Searched, Be
    <2>3. CASE b \in found \cup failed
      <3>1. PICK k \in 0 .. MaxPkgs : k = IF b \in found THEN p ELSE 0
        BY <2>1
      <3>2. bes[b] = [be[b] EXCEPT !.sets = [be[b].sets EXCEPT ![n] = k]]
        BY <2>2, <2>3, <3>1
      <3>3. PICK g : g = [be[b].sets EXCEPT ![n] = k]
        OBVIOUS
      <3>4. /\ g \in [SetNames -> 0 .. MaxPkgs] /\ g[n] = k
            /\ \A m \in SetNames \ {n} : g[m] = be[b].sets[m]
        BY <2>1, <3>3
      <3>5. bes[b] \in Be /\ bes[b].sets = g /\ bes[b].open = be[b].open
        BY <2>1, <3>2, <3>3, <3>4 DEF Be
      <3> QED
        BY <2>3, <3>1, <3>4, <3>5
    <2>4. CASE b \notin found \cup failed
      <3>1. (be[b].open /\ b \notin gone) \in BOOLEAN
        OBVIOUS
      <3>2. bes[b] = [be[b] EXCEPT !.open = be[b].open /\ b \notin gone]
        BY <2>2, <2>4
      <3>3. bes[b] \in Be /\ bes[b].sets = be[b].sets /\ (bes[b].open => be[b].open /\ b \notin gone)
        BY <2>1, <3>1, <3>2 DEF Be
      <3> QED
        BY <2>4, <3>3
    <2> QED
      BY <2>3, <2>4
  <1>2. bes \in [DOMAIN be -> Be]
    <2>1. bes = [b \in DOMAIN be |-> bes[b]]
      BY DEF Searched
    <2> QED
      BY <1>1, <2>1
  <1> QED
    BY <1>1, <1>2, Mapped

-----------------------------------------------------------------------------
(* The work on a package: whether it shuts the client's session or not;    *)
(* the sets match afterwards in the second case.                           *)

Worked(p) == MultiOK' /\ \E shut \in BOOLEAN : Handled(p, shut) /\ (Match' \/ shut)

\* A session for each target, with nothing in it
LEMMA MadeFacts ==
  ASSUME be \in Seq(Be), NEW targets \in TargetLists, NEW made,
         made = be \o [i \in DOMAIN targets |->
                          [target |-> targets[i], open |-> TRUE, sets |-> NoSearch]]
  PROVE  /\ made \in Seq(Be) /\ Len(made) = Len(be) + Len(targets)
         /\ DOMAIN made = 1 .. Len(be) + Len(targets)
         /\ DOMAIN be = 1 .. Len(be) /\ DOMAIN targets = 1 .. Len(targets)
         /\ Len(be) \in Nat /\ Len(targets) \in Nat
         /\ \A b \in 1 .. Len(be) : made[b] = be[b]
         /\ \A b \in DOMAIN made : b > Len(be) => made[b].sets = NoSearch
  <1>1. targets \in Seq(Targets)
    BY MultiSearchAssumption DEF Targets
  <1> DEFINE fresh == [i \in DOMAIN targets |->
                          [target |-> targets[i], open |-> TRUE, sets |-> NoSearch]]
  <1>2. NoSearch \in [SetNames -> 0 .. MaxPkgs]
    BY ClientsAssumption DEF NoSearch
  <1>3. \A i \in DOMAIN targets : fresh[i] \in Be /\ fresh[i].sets = NoSearch
    BY <1>1, <1>2 DEF Be
  <1>4. fresh \in [DOMAIN targets -> Be]
    BY <1>3
  <1>5. made = be \o fresh
    OBVIOUS
  <1> HIDE DEF fresh
  <1>6. fresh \in Seq(Be) /\ DOMAIN fresh = DOMAIN targets /\ Len(fresh) = Len(targets)
    BY <1>1, <1>4, Mapped
  <1>7. /\ Len(be) \in Nat /\ Len(targets) \in Nat
        /\ DOMAIN be = 1 .. Len(be) /\ DOMAIN targets = 1 .. Len(targets)
    BY <1>1
  <1>8. /\ made \in Seq(Be) /\ Len(made) = Len(be) + Len(targets)
        /\ DOMAIN made = 1 .. Len(be) + Len(targets)
        /\ \A b \in 1 .. Len(be) : made[b] = be[b]
    BY <1>5, <1>6, <1>7
  <1>9. ASSUME NEW b \in DOMAIN made, b > Len(be)
        PROVE  made[b].sets = NoSearch
    <2>1. b - Len(be) \in DOMAIN targets /\ made[b] = fresh[b - Len(be)]
      BY <1>5, <1>6, <1>7, <1>8, <1>9
    <2> QED
      BY <1>3, <2>1
  <1> QED
    BY <1>7, <1>8, <1>9

\* init: all sessions that were there have ended.
LEMMA InitStep ==
  ASSUME MultiOK, NEW p \in Pkgs, ~multi, NEW targets \in TargetLists, init(p, targets),
         UNCHANGED <<hide, sets, want, shown>>
  PROVE  Worked(p)
  <1> DEFINE new == {Len(be) + i : i \in DOMAIN targets}
             made == be \o [i \in DOMAIN targets |->
                          [target |-> targets[i], open |-> TRUE, sets |-> NoSearch]]
  <1>1. PICK answer \in [new -> {"accepted", "rejected", "closed"}] :
           /\ multi' = TRUE
           /\ be' = EndIn(made, Of(answer, "closed"))
           /\ list' = Kept(new, answer)
           /\ Handled(p, Told(new \ Of(answer, "accepted"), hide.unavailable,
                              Of(answer, "accepted")))
    BY DEF init
  <1>2. Told(new \ Of(answer, "accepted"), hide.unavailable, Of(answer, "accepted")) \in BOOLEAN
    BY DEF Told
  <1>3. be \in Seq(Be) /\ list = {} /\ \A n \in SetNames : DOMAIN sets[n] = {}
    BY DEF MultiOK, MultiType
  <1>4. /\ made \in Seq(Be) /\ DOMAIN made = 1 .. Len(be) + Len(targets)
        /\ DOMAIN be = 1 .. Len(be) /\ DOMAIN targets = 1 .. Len(targets)
        /\ Len(be) \in Nat /\ Len(targets) \in Nat
        /\ \A b \in 1 .. Len(be) : made[b] = be[b]
        /\ \A b \in DOMAIN made : b > Len(be) => made[b].sets = NoSearch
    BY <1>3, MadeFacts
  <1>5. \A b : b \in new <=> b \in DOMAIN made /\ b > Len(be)
    <2>1. ASSUME NEW b \in new
          PROVE  b \in DOMAIN made /\ b > Len(be)
      <3>1. PICK i \in DOMAIN targets : b = Len(be) + i
        OBVIOUS
      <3> QED
        BY <1>4, <3>1
    <2>2. ASSUME NEW b \in DOMAIN made, b > Len(be)
          PROVE  b \in new
      <3>1. b - Len(be) \in DOMAIN targets /\ b = Len(be) + (b - Len(be))
        BY <1>4, <2>2
      <3> QED
        BY <3>1
    <2> QED
      BY <2>1, <2>2
  <1> HIDE DEF new, made
  <1>6. /\ be' \in Seq(Be) /\ DOMAIN be' = DOMAIN made
        /\ \A b \in DOMAIN made :
              be'[b].sets = made[b].sets /\ (be'[b].open <=> made[b].open /\ b \notin Of(answer, "closed"))
    BY <1>1, <1>4, EndInFacts
  <1>7. \A b : b \in list' <=> b \in new /\ b \notin Of(answer, "closed")
    BY <1>1 DEF Kept
  <1>8. ASSUME NEW b \in DOMAIN be', be'[b].open
        PROVE  b \in list'
    <2>1. b \in DOMAIN made /\ made[b].open /\ b \notin Of(answer, "closed")
      BY <1>6, <1>8
    <2>2. ~(b \in DOMAIN be)
      BY <1>3, <1>4, <2>1 DEF MultiOK
    <2>3. b > Len(be)
      BY <1>4, <2>1, <2>2
    <2> QED
      BY <1>5, <1>7, <2>1, <2>3
  <1>9. MultiType'
    BY <1>1, <1>3, <1>5, <1>6, <1>7 DEF MultiOK, MultiType
  <1>10. MultiOK'
    BY <1>1, <1>8, <1>9 DEF MultiOK
  <1>11. Match'
    <2> SUFFICES ASSUME NEW n \in SetNames, NEW b \in list'
                 PROVE  MatchAt(n, b)'
      BY DEF Match
    <2>1. be'[b].sets = NoSearch
      BY <1>4, <1>5, <1>6, <1>7
    <2>2. be'[b].sets[n] = 0 /\ DOMAIN sets'[n] = {}
      BY <1>3, <2>1 DEF NoSearch
    <2>3. want'[n] = 0
      BY <1>1 DEF MultiOK, NoSearch
    <2> QED
      BY <2>2, <2>3 DEF MatchAt
  <1> QED
    BY <1>1, <1>2, <1>10, <1>11 DEF Worked

\* present
LEMMA PresentStep ==
  ASSUME MultiOK, Match, NEW p \in Pkgs, NEW n \in SetNames, present(p, n)
  PROVE  Worked(p)
  <1>1. UNCHANGED <<hide, multi, list, sets, want>>
    BY DEF present
  <1>2. CASE Handled(p, FALSE) /\ UNCHANGED <<be, shown>>
    <2>1. \A r \in shown' : r.search = want[r.set] /\ r.search # 0
      BY <1>2 DEF MultiOK
    <2> QED
      BY <1>1, <1>2, <2>1, KeepStep DEF Worked
  <1>3. CASE PresentAt(p, n, sets[n], be)
    <2>1. \A b \in DOMAIN sets[n] : b \in list
      BY DEF MultiOK, MultiType
    <2>2. \A b \in DOMAIN sets[n] : sets[n][b] > 0 => be[b].sets[n] = want[n] /\ want[n] # 0
      BY <2>1 DEF Match, MatchAt
    <2>3. PICK h, w : h = sets[n] /\ w = want[n]
      OBVIOUS
    <2>4. PresentAt(p, n, h, be) /\ HitsAt(h, be, n, w)
      BY <1>3, <2>2, <2>3 DEF HitsAt
    <2>5. /\ \E bs : be' = EndIn(be, bs)
          /\ \A r \in shown' : r.set = n /\ r.search = w /\ w # 0
          /\ \E shut \in BOOLEAN : Handled(p, shut)
      BY <2>4, PresentAtFacts
    <2>6. \A r \in shown' : r.search = want[r.set] /\ r.search # 0
      BY <2>3, <2>5
    <2>7. MultiOK' /\ Match'
      BY <1>1, <2>5, <2>6, KeepStep
    <2> QED
      BY <2>5, <2>7 DEF Worked
  <1> QED
    BY <1>2, <1>3 DEF present

\* search
LEMMA SearchStep ==
  ASSUME MultiOK, Match, NEW p \in Pkgs, NEW n \in SetNames, NEW bounds \in PiggyBounds,
         search(p, n, bounds), shown = {}, multi
  PROVE  Worked(p)
  <1>1. PICK answer \in multi_move(list, {"found", "diag", "closed"}) :
          LET found == Of(answer, "found")
              failed == Of(answer, "diag")
              gone == Of(answer, "closed")
              shut == Told(gone, hide.unavailable, found)
          IN  \E hits \in [found \cup failed -> 0 .. MaxHits], lost \in SUBSET failed :
                 LET bes == Searched(p, n, found \cup {b \in failed : hits[b] > 0}, lost, gone)
                 IN  \/ /\ shut
                        /\ be' = bes
                        /\ Handled(p, TRUE)
                        /\ UNCHANGED <<sets, want, shown>>
                     \/ /\ ~shut
                        /\ sets' = Stored(n, hits, failed)
                        /\ want' = [want EXCEPT ![n] = p]
                        /\ \/ PresentAt(p, n, hits, bes)
                           \/ be' = bes /\ Handled(p, FALSE) /\ UNCHANGED shown
    BY DEF search
  <1> DEFINE found == Of(answer, "found")
             failed == Of(answer, "diag")
             gone == Of(answer, "closed")
  <1>2. \A b \in list : b \in found \/ b \in failed \/ b \in gone
    BY DEF multi_move, Of
  <1>3. /\ found \subseteq list /\ failed \subseteq list
        /\ \A b \in gone : b \notin found /\ b \notin failed
        /\ \A b \in failed : b \notin found
    BY DEF multi_move, Of
  <1> DEFINE holding(hits) == found \cup {b \in failed : hits[b] > 0}
  <1>4. PICK hits \in [found \cup failed -> 0 .. MaxHits], lost \in SUBSET failed :
            \E bes :
                /\ bes = Searched(p, n, holding(hits), lost, gone)
                /\ \/ be' = bes /\ Handled(p, TRUE) /\ UNCHANGED <<sets, want, shown>>
                   \/ /\ sets' = Stored(n, hits, failed)
                      /\ want' = [want EXCEPT ![n] = p]
                      /\ \/ PresentAt(p, n, hits, bes)
                         \/ be' = bes /\ Handled(p, FALSE) /\ UNCHANGED shown
    BY <1>1
  <1>5. PICK bes :
            /\ bes = Searched(p, n, holding(hits), lost, gone)
            /\ \/ be' = bes /\ Handled(p, TRUE) /\ UNCHANGED <<sets, want, shown>>
               \/ /\ sets' = Stored(n, hits, failed)
                  /\ want' = [want EXCEPT ![n] = p]
                  /\ \/ PresentAt(p, n, hits, bes)
                     \/ be' = bes /\ Handled(p, FALSE) /\ UNCHANGED shown
    BY <1>4
  <1>5a. PICK hold : hold = holding(hits)
    OBVIOUS
  <1> HIDE DEF found, failed, gone
  <1>6. /\ be \in Seq(Be) /\ list \subseteq DOMAIN be /\ want \in [SetNames -> 0 .. MaxPkgs]
        /\ DOMAIN sets = SetNames /\ p \in 0 .. MaxPkgs /\ p # 0
        /\ \A m \in SetNames : DOMAIN sets[m] \subseteq list
    BY ClientsAssumption DEF MultiOK, MultiType, Pkgs
  <1>7. UNCHANGED <<hide, multi, list>>
    BY DEF search
  <1>8. /\ bes \in Seq(Be) /\ DOMAIN bes = DOMAIN be
        /\ \A b \in DOMAIN be :
              /\ \A m \in SetNames \ {n} : bes[b].sets[m] = be[b].sets[m]
              /\ b \in hold => bes[b].sets[n] = p
              /\ bes[b].open => be[b].open /\ (b \in gone => b \in hold \cup lost)
    BY <1>5a, <1>5, <1>6, SearchedFacts
  <1>9. CASE be' = bes /\ Handled(p, TRUE) /\ UNCHANGED <<sets, want, shown>>
    <2>1. MultiOK'
      BY <1>6, <1>7, <1>8, <1>9 DEF MultiOK, MultiType
    <2> QED
      BY <1>9, <2>1 DEF Worked
  <1>10. CASE /\ sets' = Stored(n, hits, failed)
              /\ want' = [want EXCEPT ![n] = p]
              /\ \/ PresentAt(p, n, hits, bes)
                 \/ be' = bes /\ Handled(p, FALSE) /\ UNCHANGED shown
    <2>1. /\ want' \in [SetNames -> 0 .. MaxPkgs] /\ want'[n] = p
          /\ \A m \in SetNames \ {n} : want'[m] = want[m]
      BY <1>6, <1>10
    <2>2. /\ DOMAIN sets' = SetNames /\ sets'[n] = hits
          /\ \A m \in SetNames \ {n} : sets'[m] = sets[m]
      BY <1>6, <1>10 DEF Stored
    <2>3. HitsAt(hits, bes, n, p)
      <3> SUFFICES ASSUME NEW b \in DOMAIN hits, hits[b] > 0
                   PROVE  bes[b].sets[n] = p
        BY <1>6 DEF HitsAt
      <3>1. b \in hold /\ b \in DOMAIN be
        BY <1>3, <1>5a, <1>5, <1>6
      <3> QED
        BY <1>8, <3>1
    <2>4. /\ \A r \in shown' : r.set = n /\ r.search = p /\ p # 0
          /\ be' = bes \/ \E bs : be' = EndIn(bes, bs)
          /\ \E shut \in BOOLEAN : Handled(p, shut)
      <3>1. CASE PresentAt(p, n, hits, bes)
        BY <2>3, <3>1, PresentAtFacts
      <3>2. CASE be' = bes /\ Handled(p, FALSE) /\ UNCHANGED shown
        BY <3>2
      <3> QED
        BY <1>10, <3>1, <3>2
    <2>5. /\ be' \in Seq(Be) /\ DOMAIN be' = DOMAIN bes
          /\ \A b \in DOMAIN bes : be'[b].sets = bes[b].sets /\ (be'[b].open => bes[b].open)
      BY <1>8, <2>4, EndInFacts
    <2>6. MultiType'
      <3>1. DOMAIN hits \subseteq list
        BY <1>3
      <3> QED
        BY <1>6, <1>7, <1>8, <2>1, <2>2, <2>5, <3>1 DEF MultiOK, MultiType
    <2>7. MultiOK'
      BY <1>7, <1>8, <2>1, <2>4, <2>5, <2>6 DEF MultiOK
    <2>8. Match'
      <3> SUFFICES ASSUME NEW m \in SetNames, NEW b \in list
                   PROVE  MatchAt(m, b)'
        BY <1>7 DEF Match
      <3>1. b \in DOMAIN be /\ be'[b].sets[m] = bes[b].sets[m] /\ (be'[b].open => bes[b].open)
        BY <1>6, <1>8, <2>5
      <3>2. CASE m # n
        <4>1. /\ MatchAt(m, b) /\ be'[b].sets[m] = be[b].sets[m] /\ (be'[b].open => be[b].open)
              /\ sets'[m] = sets[m] /\ want'[m] = want[m]
          BY <1>8, <2>1, <2>2, <3>1, <3>2 DEF Match
        <4> QED
          BY <4>1 DEF MatchAt
      <3>3. CASE m = n
        <4>1. CASE b \in found \cup failed
          <5>1. b \in DOMAIN sets'[n] /\ sets'[n][b] = hits[b]
            BY <2>2, <4>1
          <5>2. hits[b] > 0 => be'[b].sets[n] = p
            BY <2>3, <3>1, <3>3, <4>1 DEF HitsAt
          <5> QED
            BY <1>6, <2>1, <3>3, <5>1, <5>2 DEF MatchAt
        <4>2. CASE b \in gone
          <5>1. b \notin hold \cup lost
            BY <1>3, <1>5a, <4>2
          <5>2. ~be'[b].open /\ b \notin DOMAIN sets'[n]
            BY <1>3, <1>8, <2>2, <3>1, <4>2, <5>1
          <5> QED
            BY <3>3, <5>2 DEF MatchAt
        <4> QED
          BY <1>2, <4>1, <4>2
      <3> QED
        BY <3>2, <3>3
    <2> QED
      BY <2>4, <2>7, <2>8 DEF Worked
  <1> QED
    BY <1>5, <1>9, <1>10

\* Nothing but ends of sessions with targets: scan, relay_apdu, and the requests that
\* the filter answers or passes on.
LEMMA OtherStep ==
  ASSUME MultiOK, Match, NEW p \in Pkgs, shown = {},
         \/ \E args \in ScanArgs : scan(p, args)
         \/ relay_apdu(p) \/ PassOn(p) \/ BadRequest(p) \/ NoRequest(p)
         \/ /\ \E shut \in BOOLEAN : Handled(p, shut) /\ UNCHANGED <<multi, list, be>>
            /\ UNCHANGED <<hide, sets, want, shown>>
  PROVE  Worked(p)
  <1>1. UNCHANGED <<hide, multi, list, sets, want, shown>>
    BY DEF scan, relay_apdu, PassOn, BadRequest, NoRequest, Untouched, multiVars
  <1>2. be' = be \/ \E bs : be' = EndIn(be, bs)
    BY DEF scan, relay_apdu, PassOn, BadRequest, NoRequest, Untouched, multiVars
  <1>3. \E shut \in BOOLEAN : Handled(p, shut)
    <2>1. CASE \E args \in ScanArgs : scan(p, args)
      <3>1. PICK answer : Handled(p, list \ Of(answer, "entries") # {}
                                     /\ answer[Min(list \ Of(answer, "entries"))] = "closed")
        BY <2>1 DEF scan
      <3> QED
        BY <3>1
    <2>2. CASE relay_apdu(p)
      <3>1. PICK answer : Handled(p, Of(answer, "closed") # {})
        BY <2>2 DEF relay_apdu
      <3> QED
        BY <3>1
    <2> QED
      BY <2>1, <2>2 DEF PassOn, BadRequest, NoRequest
  <1>4. \A r \in shown' : r.search = want[r.set] /\ r.search # 0
    BY <1>1
  <1>5. MultiOK' /\ Match'
    BY <1>1, <1>2, <1>4, KeepStep
  <1> QED
    BY <1>3, <1>5 DEF Worked

LEMMA ProcessStep ==
  ASSUME MultiOK, Match, NEW p \in Pkgs, shown = {}, process(p)
  PROVE  Worked(p)
  <1>1. CASE ~multi /\ InitRequest(p)
    <2>1. CASE \E targets \in TargetLists : init(p, targets)
      BY <1>1, <2>1, InitStep DEF InitRequest
    <2>2. CASE \E shut \in BOOLEAN : Handled(p, shut) /\ UNCHANGED <<multi, list, be>>
      BY <1>1, <2>2, OtherStep DEF InitRequest
    <2> QED
      BY <1>1, <2>1, <2>2 DEF InitRequest
  <1>2. CASE multi /\ \E n \in SetNames, bounds \in PiggyBounds : search(p, n, bounds)
    BY <1>2, SearchStep
  <1>3. CASE \E n \in SetNames : present(p, n)
    BY <1>3, PresentStep
  <1>4. CASE \/ \E args \in ScanArgs : scan(p, args)
             \/ relay_apdu(p) \/ PassOn(p) \/ BadRequest(p) \/ NoRequest(p)
    BY <1>4, OtherStep
  <1> QED
    BY <1>1, <1>2, <1>3, <1>4 DEF process

-----------------------------------------------------------------------------
(* The steps of a package.                                                 *)

\* Who has handled its package, and whether the session is about to end, is changed by
\* the work on a package and by release_frontend only.
LEMMA SameHandled ==
  ASSUME ClientsInv,
         \/ \E end \in BOOLEAN : Put(end)
         \/ \E p \in Pkgs : Get(p) \/ Result(p)
         \/ UNCHANGED clientVars
  PROVE  /\ \A q \in Pkgs : stage'[q] = "handled" <=> stage[q] = "handled"
         /\ \A q \in Pkgs : stage[q] = "handled" => closed'[q] = closed[q]
  <1>1. stage \in [Pkgs -> Stage] /\ closed \in [Pkgs -> BOOLEAN]
    BY DEF ClientsInv, ClientsTypeOK
  <1>2. CASE \E end \in BOOLEAN : Put(end)
    <2>1. PICK end \in BOOLEAN, p \in At("new") :
              stage' = [stage EXCEPT ![p] = "wait"] /\ closed' = [closed EXCEPT ![p] = end]
      BY <1>2 DEF Put, Go
    <2>2. p \in Pkgs /\ stage[p] = "new"
      BY <2>1 DEF At
    <2> QED
      BY <1>1, <2>1, <2>2
  <1>3. ASSUME NEW p \in Pkgs, Get(p) \/ Result(p)
        PROVE  /\ \A q \in Pkgs : stage'[q] = "handled" <=> stage[q] = "handled"
               /\ \A q \in Pkgs : stage[q] = "handled" => closed'[q] = closed[q]
    BY <1>1, <1>3 DEF Get, Result, Go
  <1>4. CASE UNCHANGED clientVars
    BY <1>4 DEF clientVars
  <1> QED
    BY <1>2, <1>3, <1>4

\* Steps of the packages outside the filter, and get_frontend
LEMMA QuietInv ==
  ASSUME IInv, ClientsInv', entry' = "none" => entry = "none", UNCHANGED multiVars,
         \/ \E end \in BOOLEAN : Put(end)
         \/ \E p \in Pkgs : Get(p) \/ Result(p)
         \/ UNCHANGED clientVars
  PROVE  IInv'
  <1>1. UNCHANGED <<hide, multi, list, sets, be, want, shown>>
    BY DEF multiVars
  <1>2. /\ \A q \in Pkgs : stage'[q] = "handled" <=> stage[q] = "handled"
        /\ \A q \in Pkgs : stage[q] = "handled" => closed'[q] = closed[q]
    BY SameHandled DEF IInv
  <1>3. Shutting => Shutting'
    BY <1>2 DEF Shutting
  <1>4. MultiOK'
    BY <1>1 DEF IInv, MultiOK, MultiType
  <1>5. Match => Match'
    BY <1>1 DEF Match, MatchAt
  <1> QED
    BY <1>1, <1>2, <1>3, <1>4, <1>5 DEF IInv

LEMMA ProcessInv ==
  ASSUME IInv, NEW p \in Pkgs, stage[p] = "held", process(p)
  PROVE  IInv'
  <1>1. ClientsInv /\ MultiOK
    BY DEF IInv
  <1>2. \A q \in Pkgs : stage[q] # "handled"
    BY <1>1 DEF ClientsInv, Having
  <1>3. shown = {} /\ Match
    BY <1>2 DEF IInv, Shutting
  <1>4. MultiOK'
    BY <1>1, <1>3, ProcessStep DEF Worked
  <1>5. PICK shut \in BOOLEAN : Handled(p, shut) /\ (Match' \/ shut)
    BY <1>1, <1>3, ProcessStep DEF Worked
  <1>6. ClientsInv' /\ entry' = "used"
    BY <1>1, <1>5, HandledStep
  <1>7. stage'[p] = "handled" /\ (shut => closed'[p])
    BY <1>1, <1>5 DEF Handled, Go, ClientsInv, ClientsTypeOK
  <1>8. Shutting' \/ Match'
    BY <1>5, <1>7 DEF Shutting
  <1> QED
    BY <1>4, <1>6, <1>7, <1>8 DEF IInv

LEMMA ReleaseInv ==
  ASSUME IInv, NEW p \in Pkgs, release_frontend(p)
  PROVE  IInv'
  <1>1. ClientsInv /\ MultiOK /\ Release(p)
    BY DEF IInv, release_frontend
  <1>2. ClientsInv' /\ (entry' = "none" <=> closed[p])
    BY <1>1, ReleaseStep
  <1>3. shown' = {} /\ UNCHANGED hide
    BY DEF release_frontend
  <1>4. CASE closed[p]
    <2>1. /\ be' = Remaining(close) /\ list' = {} /\ multi' = FALSE
          /\ sets' = NoSet /\ want' = NoSearch
      BY <1>4 DEF release_frontend
    <2>2. NoSearch \in [SetNames -> 0 .. MaxPkgs]
      BY ClientsAssumption DEF NoSearch
    <2>3. DOMAIN NoSet = SetNames /\ \A n \in SetNames : DOMAIN NoSet[n] = {}
      BY DEF NoSet
    <2>4. \A b \in DOMAIN close : ~close[b].open
      <3> SUFFICES ASSUME NEW b \in DOMAIN be
                   PROVE  ~close[b].open
        BY DEF close
      <3>1. close[b] = [be[b] EXCEPT !.open = be[b].open /\ b \notin list] /\ be[b] \in Be
        BY <1>1 DEF close, MultiOK, MultiType
      <3>2. close[b].open <=> be[b].open /\ b \notin list
        BY <3>1 DEF Be
      <3> QED
        BY <1>1, <3>2 DEF MultiOK
    <2>5. be' = << >>
      BY <2>1, <2>4 DEF Remaining
    <2>6. be' \in Seq(Be) /\ DOMAIN be' = {}
      BY <2>5
    <2>7. MultiOK'
      BY <1>1, <1>3, <2>1, <2>2, <2>3, <2>6 DEF MultiOK, MultiType
    <2>8. Match'
      BY <2>1 DEF Match
    <2> QED
      BY <1>2, <1>3, <2>1, <2>7, <2>8 DEF IInv
  <1>5. CASE ~closed[p]
    <2>1. UNCHANGED <<multi, list, sets, be, want>>
      BY <1>5 DEF release_frontend
    <2>2. ~Shutting
      BY <1>1, <1>5 DEF Shutting, ClientsInv, Release, Having
    <2>3. MultiOK' /\ Match'
      BY <1>1, <1>3, <2>1, <2>2, KeepStep DEF IInv
    <2> QED
      BY <1>2, <1>3, <1>5, <2>3 DEF IInv
  <1> QED
    BY <1>4, <1>5

LEMMA InitInv == Init => IInv
  <1> SUFFICES ASSUME Init
               PROVE  IInv
    OBVIOUS
  <1>1. ClientsInv
    BY DEF Init, ClientsInit, ClientsInv, ClientsTypeOK, Stage, Having, Gone
  <1>2. NoSearch \in [SetNames -> 0 .. MaxPkgs]
    BY ClientsAssumption DEF NoSearch
  <1>3. DOMAIN NoSet = SetNames /\ \A n \in SetNames : DOMAIN NoSet[n] = {}
    BY DEF NoSet
  <1>4. << >> \in Seq(Be) /\ DOMAIN << >> = {}
    OBVIOUS
  <1>5. MultiOK
    BY <1>2, <1>3, <1>4 DEF Init, MultiOK, MultiType
  <1>6. Match
    BY DEF Init, Match
  <1> QED
    BY <1>1, <1>5, <1>6 DEF IInv, Init

LEMMA NextInv == IInv /\ [Next]_vars => IInv'
  <1> SUFFICES ASSUME IInv, [Next]_vars
               PROVE  IInv'
    OBVIOUS
  <1>0. ClientsInv
    BY DEF IInv
  <1>1. CASE UNCHANGED vars
    <2>1. UNCHANGED clientVars /\ UNCHANGED multiVars
      BY <1>1 DEF vars
    <2>2. ClientsInv' /\ entry' = entry
      BY <1>0, <2>1 DEF clientVars, ClientsInv, ClientsTypeOK
    <2> QED
      BY <2>1, <2>2, QuietInv
  <1>2. CASE Environment
    <2>1. ClientsInv' /\ entry' = entry
      BY <1>0, <1>2, PutStep, ResultStep DEF Environment
    <2> QED
      BY <1>2, <2>1, QuietInv DEF Environment
  <1>3. ASSUME NEW p \in Pkgs, get_frontend(p)
        PROVE  IInv'
    <2>1. ClientsInv' /\ entry' = "used"
      BY <1>0, <1>3, GetStep DEF get_frontend
    <2> QED
      BY <1>3, <2>1, QuietInv DEF get_frontend
  <1> QED
    BY <1>1, <1>2, <1>3, ProcessInv, ReleaseInv DEF Next, Step

-----------------------------------------------------------------------------
(* The theorems.                                                           *)

\* The inductive invariant holds in every reachable state.
THEOREM Invariance == Spec => []IInv
  BY InitInv, NextInv, PTL DEF Spec

\* Whatever targets fail, close or are hidden, a set that the filter keeps has each
\* target that is open, a target with hits in it holds the set of the client's last
\* search of that name, and records that are shown come from it.
THEOREM SetsMatch == Spec => []SetsMatchTargets
  <1>1. IInv => SetsMatchTargets
    <2> SUFFICES ASSUME IInv
                 PROVE  SetsMatchTargets
      OBVIOUS
    <2>1. TypeOK
      <3>1. \A b \in DOMAIN be : be[b].target \in Targets /\ be[b].open \in BOOLEAN
                                 /\ be[b].sets \in [SetNames -> 0 .. MaxPkgs]
        BY BeFacts DEF IInv, MultiOK, MultiType
      <3> QED
        BY <3>1 DEF TypeOK, IInv, ClientsInv, MultiOK, MultiType
    <2>2. ASSUME \A p \in Pkgs : stage[p] = "handled" => ~closed[p]
          PROVE  \A n \in SetNames : \A b \in list :
                    /\ be[b].open => (b \in DOMAIN sets[n] <=> want[n] # 0)
                    /\ b \in DOMAIN sets[n] /\ sets[n][b] > 0 => be[b].sets[n] = want[n]
      <3>1. Match
        BY <2>2 DEF IInv, Shutting
      <3> QED
        BY <3>1 DEF Match, MatchAt
    <2>3. \A r \in shown : r.search = want[r.set] /\ r.search # 0
      BY DEF IInv, MultiOK
    <2> QED
      BY <2>1, <2>2, <2>3 DEF SetsMatchTargets
  <1> QED
    BY <1>1, Invariance, PTL

\* A session with a target that is open is in the list of a Frontend that is there, and
\* one package at a time has the Frontend.
THEOREM BackendsAreClosed == Spec => []NoBackendLeft
  <1>1. IInv => NoBackendLeft
    BY ClientsFacts DEF IInv, MultiOK, NoBackendLeft
  <1> QED
    BY <1>1, Invariance, PTL
=============================================================================
