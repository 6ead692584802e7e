----------------------------- MODULE ZoomProofs -----------------------------
(***************************************************************************)
(* Proofs about the zoom filter, for any databases, lists of proxies, hit  *)
(* counts and number of packages.                                          *)
(*                                                                         *)
(* A search goes round through connection, search and retry and keeps its  *)
(* state in cur.  That a proxy failure is reported only after all proxies  *)
(* were tried rests on proxy_step being the place in the list of the proxy *)
(* in use (Place), on the proxies before it back to the first one tried    *)
(* having failed (TriedUpTo), and on the connection being used again only  *)
(* in the first round: it is dropped before any other.                     *)
(***************************************************************************)
EXTENDS Zoom, TLAPS, FiniteSetTheorems, WellFoundedInduction

Having == {"held", "handled"}

Proxy == Proxies \cup {NoProxy}

Backend ==
    [db : Dbs, explain : BOOLEAN, proxy : Proxy, set : BOOLEAN, search : 0 .. MaxPkgs,
     hits : 0 .. MaxHits]

Search ==
    [db : Dbs, at : {"get", "query", "run", "failed"}, step : Nat, same : Nat, retries : Nat,
     proxy : Proxy, failed : SUBSET Proxy, reused : BOOLEAN]

PackagesOK ==
    /\ ClientsTypeOK
    /\ \A p, q \in Pkgs : stage[p] \in Having /\ stage[q] \in Having => p = q
    /\ entry = "used" <=> \E p \in Pkgs : stage[p] \in Having

ZoomType ==
    /\ virtual \in BOOLEAN
    /\ backend \in SUBSET Backend
    /\ \A a, b \in backend : a = b
    /\ cur \in SUBSET Search
    /\ \A a, b \in cur : a = b
    /\ want \in 0 .. MaxPkgs
    /\ answer \in {"none", "hits", "error", "proxyFailure", "records", "noSet", "init",
                   "close", "undefined"}

\* m_backend has the set the client was told of, and a proxy of its target's list.
BackendOK(b) ==
    /\ b.search = want
    /\ ~b.explain /\ ProxyList(b.db) # << >> => \E i \in DOMAIN ProxyList(b.db) : ProxyList(b.db)[i] = b.proxy

\* The proxies of the list up to place k were tried and failed, from the first on or
\* from the one of a connection used again.
TriedUpTo(c, k) ==
    \E i \in 1 .. k + 1 : /\ c.failed = {ProxyList(c.db)[j] : j \in i .. k}
                          /\ i = 1 \/ c.reused

\* The place of the proxy in use, from the step after it
Place(c) == IF c.step = 0 THEN Len(ProxyList(c.db)) ELSE c.step

\* A search with a list of proxies
ListOK(c) ==
    /\ c.step < Len(ProxyList(c.db))
    /\ c.retries = 0 => c.failed = {}
    /\ c.at = "get" => TriedUpTo(c, c.step)
    /\ c.at # "get" => /\ ProxyList(c.db)[Place(c)] = c.proxy
                       /\ TriedUpTo(c, Place(c) - 1)

SearchOK(c) ==
    /\ c.at = "get" /\ (c.retries # 0 \/ c.same # 0) => backend = {}
    /\ c.at \in {"query", "run"} => \E b \in backend : b.db = c.db
    /\ ProxyList(c.db) # << >> /\ answer = "none" => ListOK(c)

\* While the Frontend is free or the filter at work there is no response yet.
ResponseOK ==
    /\ (\A p \in Pkgs : stage[p] \notin Having) => cur = {}
    /\ (\A p \in Pkgs : stage[p] # "handled") => answer = "none" /\ shown = {}

\* The inductive invariant
IInv ==
    /\ PackagesOK
    /\ ZoomType
    /\ \A b \in backend : BackendOK(b)
    /\ \A c \in cur : SearchOK(c)
    /\ ResponseOK
    /\ RightRecords
    /\ ProxiesTried

-----------------------------------------------------------------------------
(* The packages of the client.                                             *)

\* A package goes from one stage to another.
LEMMA PackageStep ==
  ASSUME PackagesOK, NEW p \in Pkgs, NEW where \in Stage, stage' = [stage EXCEPT ![p] = where],
         closed' \in [Pkgs -> BOOLEAN], ended' \in BOOLEAN, remade' \in BOOLEAN,
         \/ (where \in Having <=> stage[p] \in Having) /\ entry' = entry
         \/ stage[p] \notin Having /\ where = "held" /\ entry # "used" /\ entry' = "used"
         \/ stage[p] \in Having /\ where \notin Having /\ entry' \in {"none", "idle"}
  PROVE  /\ PackagesOK' /\ stage'[p] = where
         /\ \A q \in Pkgs \ {p} : stage'[q] = stage[q]
  <1>1. stage \in [Pkgs -> Stage] /\ entry \in {"none", "idle", "used"}
    BY DEF PackagesOK, ClientsTypeOK
  <1>2. stage'[p] = where /\ \A q \in Pkgs \ {p} : stage'[q] = stage[q]
    BY <1>1
  <1>3. ClientsTypeOK'
    BY <1>1 DEF ClientsTypeOK
  <1>4. \A q, o \in Pkgs : stage'[q] \in Having /\ stage'[o] \in Having => q = o
    BY <1>2 DEF PackagesOK, Having
  <1>5. entry' = "used" <=> \E q \in Pkgs : stage'[q] \in Having
    BY <1>2 DEF PackagesOK, Having
  <1> QED
    BY <1>2, <1>3, <1>4, <1>5 DEF PackagesOK

\* The filter's work on a package is done.
LEMMA HandledStep ==
  ASSUME PackagesOK, NEW p \in Pkgs, NEW shut \in BOOLEAN, Handled(p, shut)
  PROVE  PackagesOK' /\ stage'[p] = "handled"
  <1>1. /\ stage[p] = "held" /\ stage' = [stage EXCEPT ![p] = "handled"]
        /\ closed' = [closed EXCEPT ![p] = @ \/ shut]
        /\ UNCHANGED <<entry, ended, remade>>
    BY DEF Handled, Go
  <1>2. closed \in [Pkgs -> BOOLEAN] /\ ended \in BOOLEAN /\ remade \in BOOLEAN
    BY DEF PackagesOK, ClientsTypeOK
  <1>3. closed' \in [Pkgs -> BOOLEAN]
    BY <1>1, <1>2
  <1>4. "handled" \in Stage /\ ("handled" \in Having <=> stage[p] \in Having)
    BY <1>1 DEF Stage, Having
  <1> QED
    BY <1>1, <1>2, <1>3, <1>4, PackageStep

LEMMA HeldByOneFact ==
  ASSUME PackagesOK
  PROVE  HeldByOne
  <1>1. PICK S : S = At("held") \cup At("handled")
    OBVIOUS
  <1>2. \A p : p \in S <=> p \in Pkgs /\ stage[p] \in Having
    BY <1>1 DEF At, Having
  <1>3. Cardinality(S) <= 1
    <2>1. CASE S = {}
      BY <2>1, FS_EmptySet
    <2>2. CASE S # {}
      <3>1. PICK p \in S : TRUE
        BY <2>2
      <3>2. S = {p}
        BY <1>2, <3>1 DEF PackagesOK
      <3> QED
        BY <3>2, FS_Singleton
    <2> QED
      BY <2>1, <2>2
  <1> QED
    BY <1>1, <1>2, <1>3 DEF HeldByOne, PackagesOK

-----------------------------------------------------------------------------
(* Facts about the operators of the model.                                 *)

\* Every non-empty set of numbers has a least one.
LEMMA MinIn ==
  ASSUME NEW S \in SUBSET Nat, S # {}
  PROVE  Min(S) \in S
  <1> DEFINE less == OpToRel(<, Nat)
  <1>1. \A x, y \in Nat : <<x, y>> \in less <=> x < y
    BY DEF OpToRel
  <1>2. IsWellFoundedOn(less, Nat)
    BY NatLessThanWellFounded
  <1> HIDE DEF less
  <1>3. PICK m \in S : \A y \in S : ~(<<y, m>> \in less)
    BY <1>2, WFMin
  <1>4. ASSUME NEW y \in S
        PROVE  m <= y
    <2>1. y \in Nat /\ m \in Nat
      OBVIOUS
    <2>2. ~(y < m)
      BY <1>1, <1>3, <2>1, Zenon
    <2> QED
      BY <2>1, <2>2
  <1>5. \E x \in S : \A y \in S : x <= y
    BY <1>4
  <1> QED
    BY <1>5 DEF Min

LEMMA ListFacts ==
  ASSUME NEW d \in Dbs
  PROVE  /\ ProxyList(d) \in Seq(Proxies) /\ Len(ProxyList(d)) \in Nat
         /\ DOMAIN ProxyList(d) = 1 .. Len(ProxyList(d))
         /\ ProxyList(d) # << >> => Len(ProxyList(d)) > 0
         /\ \A i \in 1 .. Len(ProxyList(d)) : ProxyList(d)[i] \in Proxy
         /\ Info[d].cfProxy \in Proxy
  <1>1. ProxyList(d) \in Seq(Proxies) /\ Info[d].cfProxy \in Proxy
    BY ZoomAssumption DEF ProxyList, Proxy
  <1>2. PICK s \in Seq(Proxies) : s = ProxyList(d)
    BY <1>1
  <1>3. /\ Len(s) \in Nat /\ DOMAIN s = 1 .. Len(s) /\ (s # << >> => Len(s) > 0)
        /\ \A i \in 1 .. Len(s) : s[i] \in Proxies
    OBVIOUS
  <1> QED
    BY <1>1, <1>2, <1>3 DEF Proxy

\* The proxy guessed from the step is the one before the next step.
LEMMA GuessedFacts ==
  ASSUME NEW d \in Dbs, NEW step \in Nat, ProxyList(d) = << >> \/ step < Len(ProxyList(d)),
         NEW next, next = NextStep(d, step)
  PROVE  /\ Guessed(d, step) \in Proxy /\ next \in Nat
         /\ ProxyList(d) # << >> =>
               /\ next < Len(ProxyList(d))
               /\ (IF next = 0 THEN Len(ProxyList(d)) ELSE next) = step + 1
               /\ step + 1 \in DOMAIN ProxyList(d)
               /\ ProxyList(d)[step + 1] = Guessed(d, step)
  <1>1. PICK n \in Nat : n = Len(ProxyList(d))
    BY ListFacts
  <1>2. next \in Nat /\ (step < n => next < n /\ (IF next = 0 THEN n ELSE next) = step + 1)
    BY <1>1 DEF NextStep
  <1>3. CASE ProxyList(d) = << >>
    BY <1>2, <1>3, ListFacts DEF Guessed
  <1>4. CASE ProxyList(d) # << >>
    <2>1. step < n /\ step + 1 \in 1 .. n
      BY <1>1, <1>4
    <2>2. ProxyList(d)[step + 1] = Guessed(d, step)
      BY <1>4 DEF Guessed
    <2> QED
      BY <1>1, <1>2, <2>1, <2>2, ListFacts
  <1> QED
    BY <1>3, <1>4

\* "find the step after our current proxy"
LEMMA StepAfterFacts ==
  ASSUME NEW d \in Dbs, NEW proxy, NEW next, next = StepAfter(d, proxy)
  PROVE  /\ next \in Nat
         /\ (\E i \in DOMAIN ProxyList(d) : ProxyList(d)[i] = proxy) =>
               /\ next < Len(ProxyList(d))
               /\ ProxyList(d)[IF next = 0 THEN Len(ProxyList(d)) ELSE next] = proxy
  <1>1. PICK at : at = {i \in DOMAIN ProxyList(d) : ProxyList(d)[i] = proxy}
    OBVIOUS
  <1>2. PICK n \in Nat : n = Len(ProxyList(d))
    BY ListFacts
  <1>3. DOMAIN ProxyList(d) = 1 .. n /\ at \in SUBSET Nat
    BY <1>1, <1>2, ListFacts
  <1>4. next = IF at = {} \/ Min(at) = n THEN 0 ELSE Min(at)
    BY <1>1, <1>2 DEF StepAfter
  <1>5. CASE at = {}
    BY <1>1, <1>4, <1>5
  <1>6. CASE at # {}
    <2>1. PICK k \in at : k = Min(at)
      BY <1>3, <1>6, MinIn
    <2>2. k \in 1 .. n /\ ProxyList(d)[k] = proxy
      BY <1>1, <1>3
    <2>3. next = IF k = n THEN 0 ELSE k
      BY <1>4, <1>6, <2>1
    <2>4. next \in Nat /\ next < n /\ (IF next = 0 THEN n ELSE next) = k
      BY <2>2, <2>3
    <2> QED
      BY <1>2, <2>2, <2>4
  <1> QED
    BY <1>5, <1>6

-----------------------------------------------------------------------------
(* The kinds of steps.                                                     *)

\* The package that the filter works on has no response yet.
LEMMA NoResponse ==
  ASSUME IInv, NEW p \in Pkgs, stage[p] = "held"
  PROVE  answer = "none" /\ shown = {}
  <1>1. \A q \in Pkgs : stage[q] # "handled"
    BY DEF IInv, PackagesOK, Having
  <1> QED
    BY <1>1 DEF IInv, ResponseOK

\* The filter works on.
LEMMA WorkStep ==
  ASSUME IInv, NEW p \in Pkgs, stage[p] = "held", UNCHANGED <<clientVars, answer, shown>>,
         ZoomType', \A b \in backend' : BackendOK(b)', \A c \in cur' : SearchOK(c)'
  PROVE  IInv'
  <1>1. answer = "none" /\ shown = {}
    BY NoResponse
  <1>2. UNCHANGED <<stage, closed, entry, ended, remade>>
    BY DEF clientVars
  <1>3. PackagesOK'
    BY <1>2 DEF IInv, PackagesOK, ClientsTypeOK
  <1>4. ResponseOK'
    BY <1>1, <1>2 DEF ResponseOK, Having
  <1>5. RightRecords' /\ ProxiesTried'
    BY <1>1 DEF RightRecords, ProxiesTried
  <1> QED
    BY <1>3, <1>4, <1>5 DEF IInv

\* The filter has a response.
LEMMA AnswerStep ==
  ASSUME IInv, NEW p \in Pkgs, NEW shut \in BOOLEAN, Handled(p, shut),
         ZoomType', \A b \in backend' : BackendOK(b)', \A c \in cur' : SearchOK(c)',
         RightRecords', ProxiesTried'
  PROVE  IInv'
  <1>1. PackagesOK' /\ stage'[p] = "handled"
    BY HandledStep DEF IInv
  <1>2. ResponseOK'
    BY <1>1 DEF ResponseOK, Having
  <1> QED
    BY <1>1, <1>2 DEF IInv

\* What the filter keeps is as it was, or a search is over without a change of it.
LEMMA KeepsOK ==
  ASSUME IInv, virtual' \in BOOLEAN, UNCHANGED <<backend, want>>, cur' = cur \/ cur' = {},
         answer' \in {"none", "hits", "error", "proxyFailure", "records", "noSet", "init",
                       "close", "undefined"},
         answer' = "none" => answer = "none"
  PROVE  /\ ZoomType'
         /\ \A b \in backend' : BackendOK(b)'
         /\ \A c \in cur' : SearchOK(c)'
  <1>1. ZoomType'
    BY DEF IInv, ZoomType
  <1>2. \A b \in backend' : BackendOK(b)'
    BY DEF IInv, BackendOK
  <1>3. \A c \in cur' : SearchOK(c)'
    BY DEF IInv, SearchOK, ListOK, TriedUpTo, Place
  <1> QED
    BY <1>1, <1>2, <1>3

\* A response without records that ends the work and leaves m_backend alone
LEMMA PlainAnswer ==
  ASSUME IInv, NEW p \in Pkgs, NEW shut \in BOOLEAN, Handled(p, shut), shown' = {},
         answer' \in {"none", "hits", "error", "records", "noSet", "init", "close"},
         virtual' \in BOOLEAN, UNCHANGED <<backend, want>>, cur' = cur \/ cur' = {}
  PROVE  IInv'
  <1>1. stage[p] = "held"
    BY DEF Handled
  <1>2. answer = "none"
    BY <1>1, NoResponse
  <1>3. /\ ZoomType'
        /\ \A b \in backend' : BackendOK(b)'
        /\ \A c \in cur' : SearchOK(c)'
    BY <1>2, KeepsOK
  <1>4. RightRecords' /\ ProxiesTried'
    BY DEF RightRecords, ProxiesTried
  <1> QED
    BY <1>3, <1>4, AnswerStep

-----------------------------------------------------------------------------
(* handle_search.                                                          *)

LEMMA BeginStep ==
  ASSUME IInv, NEW p \in Pkgs, stage[p] = "held", NEW d \in Dbs, BeginSearch(d)
  PROVE  IInv'
  <1>1. PICK c : c = [db |-> d, at |-> "get", step |-> 0, same |-> 0, retries |-> 0,
                      proxy |-> NoProxy, failed |-> {}, reused |-> FALSE]
    OBVIOUS
  <1>2. /\ c \in Search /\ c.db = d /\ c.at = "get" /\ c.step = 0 /\ c.same = 0
        /\ c.retries = 0 /\ c.failed = {}
    BY <1>1 DEF Search, Proxy
  <1>3. cur' = {c} /\ UNCHANGED <<clientVars, virtual, backend, want, answer, shown>>
    BY <1>1 DEF BeginSearch
  <1>4. ZoomType'
    BY <1>2, <1>3 DEF IInv, ZoomType
  <1>5. \A b \in backend' : BackendOK(b)'
    BY <1>3 DEF IInv, BackendOK
  <1>6. ProxyList(d) # << >> => ListOK(c)
    <2>1. ProxyList(d) # << >> => c.step < Len(ProxyList(d))
      BY <1>2, ListFacts
    <2>2. TriedUpTo(c, 0)
      <3>1. 1 \in 1 .. 0 + 1 /\ {ProxyList(c.db)[j] : j \in 1 .. 0} = {}
        OBVIOUS
      <3> QED
        BY <1>2, <3>1 DEF TriedUpTo
    <2> QED
      BY <1>2, <2>1, <2>2 DEF ListOK
  <1>7. SearchOK(c)'
    BY <1>2, <1>6 DEF SearchOK
  <1> QED
    BY <1>3, <1>4, <1>5, <1>7, WorkStep

\* The fields of a search under way
LEMMA SearchType ==
  ASSUME NEW c \in Search
  PROVE  /\ c.db \in Dbs /\ c.step \in Nat /\ c.same \in Nat /\ c.retries \in Nat
         /\ c.proxy \in Proxy /\ c.failed \in SUBSET Proxy /\ c.reused \in BOOLEAN
         /\ c.at \in {"get", "query", "run", "failed"}
  BY DEF Search

LEMMA ReuseStep ==
  ASSUME IInv, NEW p \in Pkgs, stage[p] = "held", NEW c \in cur, c.at = "get", Reuse(c)
  PROVE  IInv'
  <1>1. PICK b \in backend, ok \in BOOLEAN :
            cur' = {[c EXCEPT !.at = IF ok THEN "query" ELSE "failed",
                              !.step = StepAfter(c.db, b.proxy),
                              !.reused = @ \/ (c.retries = 0 /\ c.same = 0),
                              !.proxy = b.proxy]}
    BY DEF Reuse
  <1>2. UNCHANGED <<clientVars, virtual, backend, want, answer, shown>> /\ answer = "none"
    BY NoResponse DEF Reuse
  <1>3. c \in Search /\ b \in Backend /\ BackendOK(b) /\ SearchOK(c)
    BY DEF IInv, ZoomType
  <1>4. ~b.explain /\ b.db = c.db
    BY DEF Reuse, Reusable, IInv, ZoomType
  <1>5. c.retries = 0 /\ c.same = 0
    BY <1>1, <1>3 DEF SearchOK
  <1>6. PICK at : at = IF ok THEN "query" ELSE "failed"
    OBVIOUS
  <1>7. PICK next : next = StepAfter(c.db, b.proxy)
    OBVIOUS
  <1>8. /\ next \in Nat
        /\ ProxyList(c.db) # << >> =>
              /\ next < Len(ProxyList(c.db))
              /\ ProxyList(c.db)[IF next = 0 THEN Len(ProxyList(c.db)) ELSE next] = b.proxy
    BY <1>3, <1>4, <1>7, SearchType, StepAfterFacts DEF BackendOK
  <1>9. PICK x : x = [c EXCEPT !.at = at, !.step = next, !.reused = TRUE, !.proxy = b.proxy]
    OBVIOUS
  <1>10. cur' = {x}
    BY <1>1, <1>3, <1>5, <1>6, <1>7, <1>9 DEF Search
  <1>11. b.proxy \in Proxy /\ at \in {"query", "failed"}
    BY <1>3, <1>6 DEF Backend
  <1>12. /\ x \in Search /\ x.db = c.db /\ x.at = at /\ x.step = next /\ x.reused
         /\ x.proxy = b.proxy /\ x.failed = c.failed /\ x.retries = c.retries
    BY <1>3, <1>8, <1>9, <1>11 DEF Search
  <1>13. ZoomType'
    BY <1>2, <1>10, <1>12 DEF IInv, ZoomType
  <1>14. \A a \in backend' : BackendOK(a)'
    BY <1>2 DEF IInv, BackendOK
  <1>15. ASSUME ProxyList(c.db) # << >>
         PROVE  ListOK(x)
    <2>1. c.failed = {}
      BY <1>2, <1>3, <1>5, <1>15 DEF SearchOK, ListOK
    <2>2. PICK n \in Nat : n = Len(ProxyList(c.db)) /\ n > 0
      BY <1>3, <1>15, ListFacts, SearchType
    <2>3. PICK k : k = IF next = 0 THEN n ELSE next
      OBVIOUS
    <2>4. k \in 1 .. n /\ Place(x) = k
      BY <1>8, <1>12, <1>15, <2>2, <2>3 DEF Place
    <2>5. TriedUpTo(x, k - 1)
      <3>1. k \in 1 .. (k - 1) + 1 /\ {ProxyList(x.db)[j] : j \in k .. k - 1} = {}
        BY <2>4
      <3> QED
        BY <1>12, <2>1, <3>1 DEF TriedUpTo
    <2> QED
      BY <1>5, <1>8, <1>11, <1>12, <1>15, <2>1, <2>2, <2>3, <2>4, <2>5 DEF ListOK
  <1>16. SearchOK(x)'
    BY <1>2, <1>4, <1>11, <1>12, <1>15 DEF SearchOK
  <1> QED
    BY <1>2, <1>10, <1>13, <1>14, <1>16, WorkStep

LEMMA NewBackendType ==
  ASSUME NEW d \in Dbs, NEW proxy \in Proxy
  PROVE  /\ NewBackend(d, proxy) \in Backend
         /\ NewBackend(d, proxy).db = d /\ NewBackend(d, proxy).proxy = proxy
         /\ NewBackend(d, proxy).search = 0 /\ NewBackend(d, proxy).hits = 0
         /\ NewBackend(d, proxy).explain = FALSE
  BY ClientsAssumption, ZoomAssumption DEF NewBackend, Backend

LEMMA ConnectStep ==
  ASSUME IInv, NEW p \in Pkgs, stage[p] = "held", NEW c \in cur, c.at = "get", Connect(c)
  PROVE  IInv'
  <1>1. PICK proxy : proxy = Guessed(c.db, c.step)
    OBVIOUS
  <1>2. PICK ok \in BOOLEAN :
            /\ Replace(NewBackend(c.db, proxy), ok)
            /\ cur' = {[c EXCEPT !.at = IF ok THEN "query" ELSE "failed",
                                 !.step = NextStep(c.db, c.step),
                                 !.proxy = proxy]}
    <2>1. PICK connected \in BOOLEAN, content \in create_content_session(c.db) :
              /\ Replace(NewBackend(c.db, proxy), connected /\ content)
              /\ cur' = {[c EXCEPT !.at = IF connected /\ content THEN "query" ELSE "failed",
                                   !.step = NextStep(c.db, c.step),
                                   !.proxy = proxy]}
      BY <1>1 DEF Connect
    <2>2. PICK ok \in BOOLEAN : ok = (connected /\ content)
      OBVIOUS
    <2> QED
      BY <2>1, <2>2
  <1>3. /\ UNCHANGED <<clientVars, virtual, answer, shown>> /\ want' = 0
        /\ answer = "none" /\ shown = {}
    BY NoResponse DEF Connect
  <1>4. c \in Search /\ SearchOK(c)
    BY DEF IInv, ZoomType
  <1>5. c.db \in Dbs /\ c.step \in Nat
    BY <1>4, SearchType
  <1>6. ProxyList(c.db) # << >> => c.step < Len(ProxyList(c.db)) /\ TriedUpTo(c, c.step)
                                   /\ (c.retries = 0 => c.failed = {})
    BY <1>3, <1>4 DEF SearchOK, ListOK
  <1>7. PICK next : next = NextStep(c.db, c.step)
    OBVIOUS
  <1>8. /\ proxy \in Proxy /\ next \in Nat
        /\ ProxyList(c.db) # << >> =>
              /\ next < Len(ProxyList(c.db))
              /\ (IF next = 0 THEN Len(ProxyList(c.db)) ELSE next) = c.step + 1
              /\ c.step + 1 \in DOMAIN ProxyList(c.db)
              /\ ProxyList(c.db)[c.step + 1] = proxy
    BY <1>1, <1>5, <1>6, <1>7, GuessedFacts
  <1>9. PICK nb : nb = NewBackend(c.db, proxy)
    OBVIOUS
  <1>10. /\ nb \in Backend /\ nb.db = c.db /\ nb.proxy = proxy /\ nb.search = 0 /\ ~nb.explain
         /\ backend' = IF ok THEN {nb} ELSE {}
    BY <1>2, <1>5, <1>8, <1>9, NewBackendType DEF Replace
  <1>11. PICK at : at = IF ok THEN "query" ELSE "failed"
    OBVIOUS
  <1>12. PICK x : x = [c EXCEPT !.at = at, !.step = next, !.proxy = proxy]
    OBVIOUS
  <1>13. cur' = {x} /\ at \in {"query", "failed"} /\ (at = "query" => ok)
    BY <1>2, <1>7, <1>11, <1>12
  <1>14. /\ x \in Search /\ x.db = c.db /\ x.at = at /\ x.step = next /\ x.reused = c.reused
         /\ x.proxy = proxy /\ x.failed = c.failed /\ x.retries = c.retries
    BY <1>4, <1>8, <1>12, <1>13 DEF Search
  <1>15. ZoomType'
    <2>1. backend' \in SUBSET Backend /\ \A a, b \in backend' : a = b
      BY <1>10
    <2>2. 0 \in 0 .. MaxPkgs
      BY ClientsAssumption
    <2> QED
      BY <1>3, <1>13, <1>14, <2>1, <2>2 DEF IInv, ZoomType
  <1>16. ASSUME NEW b \in backend'
         PROVE  BackendOK(b)'
    <2>1. b = nb
      BY <1>10
    <2> QED
      BY <1>3, <1>8, <1>10, <2>1 DEF BackendOK
  <1>17. ASSUME ProxyList(c.db) # << >>
         PROVE  ListOK(x)
    <2>1. Place(x) = c.step + 1
      BY <1>8, <1>14, <1>17 DEF Place
    <2>2. TriedUpTo(x, c.step) /\ (c.step + 1) - 1 = c.step
      BY <1>5, <1>6, <1>14, <1>17 DEF TriedUpTo
    <2> QED
      BY <1>6, <1>8, <1>13, <1>14, <1>17, <2>1, <2>2 DEF ListOK
  <1>18. SearchOK(x)'
    <2>1. x.at = "query" => \E b \in backend' : b.db = x.db
      BY <1>10, <1>13, <1>14
    <2> QED
      BY <1>13, <1>14, <1>17, <2>1 DEF SearchOK
  <1> QED
    BY <1>3, <1>13, <1>15, <1>16, <1>18, WorkStep

LEMMA ExplainStep ==
  ASSUME IInv, NEW p \in Pkgs, NEW c \in cur, explain_search(p, c)
  PROVE  IInv'
  <1>1. /\ cur' = {} /\ UNCHANGED virtual /\ shown' = {} /\ answer' \in {"error", "hits"}
        /\ Handled(p, FALSE)
    BY DEF explain_search, Respond
  <1>2. c \in Search
    BY DEF IInv, ZoomType
  <1>3. c.db \in Dbs /\ NoProxy \in Proxy
    BY <1>2, SearchType DEF Proxy
  <1>4. p \in 0 .. MaxPkgs /\ 0 \in 0 .. MaxPkgs
    BY ClientsAssumption DEF Pkgs
  <1>5. /\ want' \in 0 .. MaxPkgs /\ backend' \in SUBSET Backend /\ \A a, b \in backend' : a = b
        /\ \A b \in backend' : b.search = want' /\ b.explain
    <2>1. CASE backend' = {} /\ want' = 0
      BY <1>4, <2>1
    <2>2. CASE /\ \E n \in 0 .. MaxHits :
                     backend' = {[NewBackend(c.db, NoProxy) EXCEPT !.explain = TRUE,
                                                                   !.search = p, !.hits = n]}
               /\ want' = p
      <3>1. PICK n \in 0 .. MaxHits :
                backend' = {[NewBackend(c.db, NoProxy) EXCEPT !.explain = TRUE,
                                                              !.search = p, !.hits = n]}
        BY <2>2
      <3>2. PICK x : x = [NewBackend(c.db, NoProxy) EXCEPT !.explain = TRUE,
                                                           !.search = p, !.hits = n]
        OBVIOUS
      <3>3. x \in Backend /\ x.search = p /\ x.explain
        BY <1>3, <1>4, <3>2 DEF NewBackend, Backend
      <3>4. backend' = {x}
        BY <3>1, <3>2
      <3> QED
        BY <1>4, <2>2, <3>3, <3>4
    <2> QED
      BY <2>1, <2>2 DEF explain_search
  <1>6. ZoomType'
    BY <1>1, <1>5 DEF IInv, ZoomType
  <1>7. \A b \in backend' : BackendOK(b)'
    BY <1>5 DEF BackendOK
  <1>8. RightRecords' /\ ProxiesTried'
    BY <1>1 DEF RightRecords, ProxiesTried
  <1> QED
    BY <1>1, <1>6, <1>7, <1>8, AnswerStep

LEMMA GetBackendStep ==
  ASSUME IInv, NEW p \in Pkgs, stage[p] = "held", NEW c \in cur, get_backend_from_databases(p, c)
  PROVE  IInv'
  <1>1. CASE LookupFails(p, c)
    <2>1. virtual' \in BOOLEAN
      BY <1>1 DEF LookupFails, IInv, ZoomType
    <2> QED
      BY <1>1, <2>1, PlainAnswer DEF LookupFails, Respond
  <1> QED
    BY <1>1, ReuseStep, ConnectStep, ExplainStep DEF get_backend_from_databases

\* One more proxy has failed.
LEMMA OneMoreTried ==
  ASSUME NEW c \in Search, NEW x \in Search, x.db = c.db, x.reused = c.reused,
         x.failed = c.failed \cup {c.proxy},
         NEW k \in DOMAIN ProxyList(c.db), ProxyList(c.db)[k] = c.proxy, TriedUpTo(c, k - 1)
  PROVE  \E i \in 1 .. k : /\ x.failed = {ProxyList(x.db)[j] : j \in i .. k}
                           /\ i = 1 \/ x.reused
  <1>1. k \in Nat /\ k >= 1
    BY SearchType, ListFacts
  <1>2. PICK i \in 1 .. (k - 1) + 1 : /\ c.failed = {ProxyList(c.db)[j] : j \in i .. k - 1}
                                      /\ i = 1 \/ c.reused
    BY DEF TriedUpTo
  <1>3. i \in 1 .. k
    BY <1>1
  <1>4. {ProxyList(c.db)[j] : j \in i .. k} =
            {ProxyList(c.db)[j] : j \in i .. k - 1} \cup {ProxyList(c.db)[k]}
    <2>1. i .. k = (i .. k - 1) \cup {k}
      BY <1>1, <1>3
    <2> QED
      BY <2>1
  <1>5. x.failed = {ProxyList(x.db)[j] : j \in i .. k}
    BY <1>2, <1>4
  <1> QED
    BY <1>2, <1>3, <1>5, Zenon

LEMMA ProxyFailsStep ==
  ASSUME IInv, NEW p \in Pkgs, stage[p] = "held", NEW c \in cur, c.at = "failed",
         ProxyFails(p, c), UNCHANGED <<virtual, want>>
  PROVE  IInv'
  <1>1. answer = "none" /\ shown = {} /\ backend' = {}
    BY NoResponse DEF ProxyFails
  <1>2. c \in Search /\ SearchOK(c)
    BY DEF IInv, ZoomType
  <1>3. c.db \in Dbs /\ c.step \in Nat /\ c.retries \in Nat /\ c.proxy \in Proxy
        /\ c.failed \in SUBSET Proxy
    BY <1>2, SearchType
  <1>4. PICK k : k = Place(c)
    OBVIOUS
  <1>5. ProxyList(c.db) # << >> =>
            /\ c.step < Len(ProxyList(c.db)) /\ ProxyList(c.db)[k] = c.proxy
            /\ TriedUpTo(c, k - 1) /\ k \in DOMAIN ProxyList(c.db)
    <2> SUFFICES ASSUME ProxyList(c.db) # << >>
                 PROVE  /\ c.step < Len(ProxyList(c.db)) /\ ProxyList(c.db)[k] = c.proxy
                        /\ TriedUpTo(c, k - 1) /\ k \in DOMAIN ProxyList(c.db)
      OBVIOUS
    <2>1. /\ c.step < Len(ProxyList(c.db)) /\ ProxyList(c.db)[k] = c.proxy
          /\ TriedUpTo(c, k - 1)
      BY <1>1, <1>2, <1>4 DEF SearchOK, ListOK
    <2>2. k \in 1 .. Len(ProxyList(c.db))
      BY <1>3, <1>4, <2>1, ListFacts DEF Place
    <2> QED
      BY <1>3, <2>1, <2>2, ListFacts
  <1>6. CASE c.step # 0
    <2>1. PICK x : x = [c EXCEPT !.at = "get", !.retries = @ + 1, !.failed = @ \cup {c.proxy}]
      OBVIOUS
    <2>2. cur' = {x} /\ UNCHANGED <<clientVars, answer, shown>>
      BY <1>6, <2>1 DEF ProxyFails
    <2>3. /\ x \in Search /\ x.db = c.db /\ x.at = "get" /\ x.step = c.step
          /\ x.retries = c.retries + 1 /\ x.failed = c.failed \cup {c.proxy}
          /\ x.reused = c.reused
      <3>1. c.retries + 1 \in Nat /\ c.failed \cup {c.proxy} \in SUBSET Proxy
        BY <1>3
      <3> QED
        BY <1>2, <2>1, <3>1 DEF Search
    <2>4. ZoomType'
      BY <1>1, <2>2, <2>3 DEF IInv, ZoomType
    <2>5. ASSUME ProxyList(c.db) # << >>
          PROVE  ListOK(x)
      <3>1. k = c.step /\ k \in DOMAIN ProxyList(c.db) /\ ProxyList(c.db)[k] = c.proxy
            /\ TriedUpTo(c, k - 1)
        BY <1>4, <1>5, <1>6, <2>5 DEF Place
      <3>2. \E i \in 1 .. k : /\ x.failed = {ProxyList(x.db)[j] : j \in i .. k}
                              /\ i = 1 \/ x.reused
        BY <1>2, <2>3, <3>1, OneMoreTried
      <3>3. 1 .. k \subseteq 1 .. k + 1
        BY <1>3, <3>1
      <3>4. TriedUpTo(x, k)
        BY <3>2, <3>3 DEF TriedUpTo
      <3>5. x.retries # 0
        BY <1>3, <2>3
      <3> QED
        BY <1>5, <2>3, <2>5, <3>1, <3>4, <3>5 DEF ListOK
    <2>6. SearchOK(x)'
      BY <1>1, <2>2, <2>3, <2>5 DEF SearchOK
    <2>7. \A b \in backend' : BackendOK(b)'
      BY <1>1
    <2> QED
      BY <2>2, <2>4, <2>6, <2>7, WorkStep
  <1>7. CASE c.step = 0
    <2>1. PICK x : x = [c EXCEPT !.at = "failed", !.failed = @ \cup {c.proxy}]
      OBVIOUS
    <2>2. cur' = {x} /\ Handled(p, FALSE) /\ answer' = "proxyFailure" /\ shown' = {}
      BY <1>7, <2>1 DEF ProxyFails, Respond
    <2>3. /\ x \in Search /\ x.db = c.db /\ x.at = "failed"
          /\ x.failed = c.failed \cup {c.proxy} /\ x.reused = c.reused
      BY <1>2, <1>3, <2>1 DEF Search
    <2>4. ZoomType'
      BY <1>1, <2>2, <2>3 DEF IInv, ZoomType
    <2>5. SearchOK(x)'
      BY <2>2, <2>3 DEF SearchOK
    <2>6. ASSUME ProxyList(x.db) # << >>
          PROVE  \E i \in DOMAIN ProxyList(x.db) :
                     /\ x.failed = {ProxyList(x.db)[j] : j \in i .. Len(ProxyList(x.db))}
                     /\ i = 1 \/ x.reused
      <3>1. /\ k = Len(ProxyList(c.db)) /\ k \in DOMAIN ProxyList(c.db)
            /\ ProxyList(c.db)[k] = c.proxy /\ TriedUpTo(c, k - 1)
        BY <1>4, <1>5, <1>7, <2>3, <2>6 DEF Place
      <3>2. \E i \in 1 .. k : /\ x.failed = {ProxyList(x.db)[j] : j \in i .. k}
                              /\ i = 1 \/ x.reused
        BY <1>2, <2>3, <3>1, OneMoreTried
      <3> QED
        BY <1>3, <2>3, <3>1, <3>2, ListFacts
    <2>7. ProxiesTried'
      BY <2>2, <2>6 DEF ProxiesTried, ProxyList
    <2>8. RightRecords' /\ \A b \in backend' : BackendOK(b)'
      BY <1>1, <2>2 DEF RightRecords
    <2> QED
      BY <2>2, <2>4, <2>5, <2>7, <2>8, AnswerStep
  <1> QED
    BY <1>6, <1>7

LEMMA RetryStep ==
  ASSUME IInv, NEW p \in Pkgs, stage[p] = "held", NEW c \in cur, retry(p, c)
  PROVE  IInv'
  <1>1. c.at = "failed" /\ UNCHANGED <<virtual, want>> /\ virtual' \in BOOLEAN
    BY DEF retry, IInv, ZoomType
  <1>2. CASE Repeat(c)
    <2>1. PICK x : x = [c EXCEPT !.at = "get", !.same = c.same + 1, !.step = 0]
      OBVIOUS
    <2>2. /\ cur' = {x} /\ backend' = {} /\ UNCHANGED <<clientVars, answer, shown>>
          /\ c.retries = 0 /\ answer = "none"
      BY <1>2, <2>1, NoResponse DEF Repeat, Counted, FromFirst, MayRepeat
    <2>3. c \in Search /\ SearchOK(c)
      BY DEF IInv, ZoomType
    <2>4. c.db \in Dbs /\ c.same + 1 \in Nat
      BY <2>3, SearchType
    <2>5. /\ x \in Search /\ x.db = c.db /\ x.at = "get" /\ x.step = 0
          /\ x.retries = c.retries /\ x.failed = c.failed
      BY <2>1, <2>3, <2>4 DEF Search
    <2>6. ZoomType' /\ \A b \in backend' : BackendOK(b)'
      BY <1>1, <2>2, <2>5 DEF IInv, ZoomType
    <2>7. ASSUME ProxyList(c.db) # << >>
          PROVE  ListOK(x)
      <3>1. c.failed = {} /\ 0 < Len(ProxyList(c.db))
        BY <2>2, <2>3, <2>4, <2>7, ListFacts DEF SearchOK, ListOK
      <3>2. 1 \in 1 .. 0 + 1 /\ {ProxyList(x.db)[j] : j \in 1 .. 0} = {}
        OBVIOUS
      <3>3. TriedUpTo(x, 0)
        BY <2>5, <3>1, <3>2 DEF TriedUpTo
      <3> QED
        BY <2>5, <3>1, <3>3 DEF ListOK
    <2>8. SearchOK(x)'
      BY <2>2, <2>5, <2>7 DEF SearchOK
    <2> QED
      BY <2>2, <2>6, <2>8, WorkStep
  <1>3. CASE GiveUp(p, c)
    BY <1>1, <1>3, PlainAnswer DEF GiveUp, Respond
  <1> QED
    BY <1>1, <1>2, <1>3, ProxyFailsStep DEF retry

LEMMA ConvertStep ==
  ASSUME IInv, NEW p \in Pkgs, stage[p] = "held", NEW c \in cur, ConvertQuery(p, c)
  PROVE  IInv'
  <1>1. c.at = "query" /\ UNCHANGED <<virtual, backend, want>> /\ virtual' \in BOOLEAN
    BY DEF ConvertQuery, IInv, ZoomType
  <1>2. CASE cur' = {[c EXCEPT !.at = "run"]} /\ UNCHANGED <<clientVars, answer, shown>>
    <2>1. PICK x : x = [c EXCEPT !.at = "run"]
      OBVIOUS
    <2>2. c \in Search /\ SearchOK(c)
      BY DEF IInv, ZoomType
    <2>3. /\ x \in Search /\ x.db = c.db /\ x.at = "run" /\ x.step = c.step /\ x.reused = c.reused
          /\ x.proxy = c.proxy /\ x.failed = c.failed /\ x.retries = c.retries
      BY <2>1, <2>2 DEF Search
    <2>4. ZoomType' /\ \A b \in backend' : BackendOK(b)'
      BY <1>1, <1>2, <2>1, <2>3 DEF IInv, ZoomType, BackendOK
    <2>5. ListOK(c) => ListOK(x)
      BY <1>1, <2>3 DEF ListOK, TriedUpTo, Place
    <2>6. SearchOK(x)'
      BY <1>1, <1>2, <2>2, <2>3, <2>5 DEF SearchOK
    <2> QED
      BY <1>2, <2>1, <2>4, <2>6, WorkStep
  <1>3. CASE cur' = {} /\ Respond(p, "error")
    BY <1>1, <1>3, PlainAnswer DEF Respond
  <1> QED
    BY <1>2, <1>3 DEF ConvertQuery

LEMMA SearchFailsStep ==
  ASSUME IInv, NEW p \in Pkgs, stage[p] = "held", NEW c \in cur, c.at = "run",
         SearchFails(c), UNCHANGED virtual
  PROVE  IInv'
  <1>1. PICK x : x = [c EXCEPT !.at = "failed"]
    OBVIOUS
  <1>2. /\ cur' = {x} /\ want' = 0 /\ UNCHANGED <<clientVars, answer, shown>>
        /\ backend' = {DestroySet(b) : b \in backend}
    BY <1>1 DEF SearchFails
  <1>3. c \in Search /\ SearchOK(c)
    BY DEF IInv, ZoomType
  <1>4. /\ x \in Search /\ x.db = c.db /\ x.at = "failed" /\ x.step = c.step
        /\ x.reused = c.reused /\ x.proxy = c.proxy /\ x.failed = c.failed
        /\ x.retries = c.retries
    BY <1>1, <1>3 DEF Search
  <1>5. ASSUME NEW b \in backend
        PROVE  /\ DestroySet(b) \in Backend /\ DestroySet(b).search = 0
               /\ DestroySet(b).db = b.db /\ DestroySet(b).explain = b.explain
               /\ DestroySet(b).proxy = b.proxy
    <2>1. b \in Backend /\ 0 \in 0 .. MaxPkgs /\ 0 \in 0 .. MaxHits
      BY ClientsAssumption, ZoomAssumption DEF IInv, ZoomType
    <2> QED
      BY <2>1 DEF DestroySet, Backend
  <1>6. ZoomType'
    <2>1. backend' \in SUBSET Backend /\ \A a, b \in backend' : a = b
      BY <1>2, <1>5 DEF IInv, ZoomType
    <2>2. 0 \in 0 .. MaxPkgs
      BY ClientsAssumption
    <2> QED
      BY <1>2, <1>4, <2>1, <2>2 DEF IInv, ZoomType
  <1>7. ASSUME NEW y \in backend'
        PROVE  BackendOK(y)'
    <2>1. PICK b \in backend : y = DestroySet(b)
      BY <1>2
    <2>2. BackendOK(b)
      BY DEF IInv
    <2> QED
      BY <1>2, <1>5, <2>1, <2>2 DEF BackendOK
  <1>8. ListOK(c) => ListOK(x)
    BY <1>4 DEF ListOK, TriedUpTo, Place
  <1>9. SearchOK(x)'
    BY <1>2, <1>3, <1>4, <1>8 DEF SearchOK
  <1> QED
    BY <1>2, <1>6, <1>7, <1>9, WorkStep

\* get_records gives no more than the set has and than the cap allows.
LEMMA RecordsFacts ==
  ASSUME NEW b \in Backend, NEW n \in Nat,
         NEW k \in get_records(b, n) \cup get_explain_records(b, n)
  PROVE  \A r \in Records(b, k) : r.search = b.search /\ r.number <= r.of /\ r.number <= PresentCap
  <1>1. b.hits \in Nat /\ PresentCap \in Nat
    BY ZoomAssumption DEF Backend
  <1>2. k <= b.hits /\ k <= PresentCap
    BY <1>1 DEF get_records, get_explain_records, Least
  <1> QED
    BY <1>2 DEF Records

LEMMA SearchWorksStep ==
  ASSUME IInv, NEW p \in Pkgs, SearchWorks(p), UNCHANGED virtual
  PROVE  IInv'
  <1>1. PICK b \in backend, n \in 0 .. MaxHits, bounds \in PiggyBounds :
            LET found == [b EXCEPT !.set = TRUE, !.search = p, !.hits = n]
            IN  /\ backend' = {found}
                /\ \/ /\ answer' = "hits"
                      /\ \E k \in get_records(found, piggyback(bounds, n)) :
                             shown' = Records(found, k)
                   \/ answer' = "error" /\ shown' = {}
    BY DEF SearchWorks
  <1> DEFINE found == [b EXCEPT !.set = TRUE, !.search = p, !.hits = n]
  <1>2. cur' = {} /\ want' = p /\ Handled(p, FALSE)
    BY DEF SearchWorks
  <1>3. b \in Backend /\ BackendOK(b) /\ p \in 0 .. MaxPkgs
    BY ClientsAssumption DEF IInv, ZoomType, Pkgs
  <1>4. /\ found \in Backend /\ found.search = p /\ found.db = b.db
        /\ found.proxy = b.proxy /\ found.explain = b.explain
    BY <1>1, <1>3 DEF Backend
  <1>5. ZoomType'
    BY <1>1, <1>2, <1>3, <1>4 DEF IInv, ZoomType
  <1>6. \A x \in backend' : BackendOK(x)'
    BY <1>1, <1>2, <1>3, <1>4 DEF BackendOK
  <1>7. RightRecords'
    <2>1. CASE shown' = {}
      BY <2>1 DEF RightRecords
    <2>2. ASSUME NEW k \in get_records(found, piggyback(bounds, n)), shown' = Records(found, k)
          PROVE  RightRecords'
      <3>1. n \in Nat /\ bounds \in Bounds
        BY ZoomAssumption
      <3>2. PICK m \in Nat : m = piggyback(bounds, n)
        BY <3>1 DEF piggyback, Bounds
      <3>3. \A r \in Records(found, k) :
                r.search = found.search /\ r.number <= r.of /\ r.number <= PresentCap
        BY <1>4, <2>2, <3>2, RecordsFacts
      <3> QED
        BY <1>2, <1>4, <2>2, <3>3 DEF RightRecords
    <2> QED
      BY <1>1, <2>1, <2>2
  <1>8. ProxiesTried'
    BY <1>1 DEF ProxiesTried
  <1> QED
    BY <1>2, <1>5, <1>6, <1>7, <1>8, AnswerStep

LEMMA HandleSearchStep ==
  ASSUME IInv, NEW p \in Pkgs, stage[p] = "held", handle_search(p)
  PROVE  IInv'
  <1>1. CASE TooManyDatabases(p)
    <2>1. virtual' \in BOOLEAN
      BY <1>1 DEF TooManyDatabases, IInv, ZoomType
    <2> QED
      BY <1>1, <2>1, PlainAnswer DEF TooManyDatabases, Respond
  <1> QED
    BY <1>1, BeginStep, GetBackendStep, RetryStep, ConvertStep, SearchFailsStep, SearchWorksStep
       DEF handle_search, search

-----------------------------------------------------------------------------
(* The other requests, and the steps of the specification.                 *)

LEMMA PresentStep ==
  ASSUME IInv, NEW p \in Pkgs, NEW n \in Nat, handle_present(p, n)
  PROVE  IInv'
  <1>1. UNCHANGED <<virtual, backend, cur, want>> /\ virtual' \in BOOLEAN
    BY DEF handle_present, IInv, ZoomType
  <1>2. CASE Respond(p, "noSet") \/ Respond(p, "error")
    BY <1>1, <1>2, PlainAnswer DEF Respond
  <1>3. ASSUME NEW b \in backend, answer' = "records", Handled(p, FALSE),
               NEW k \in get_records(b, n) \cup get_explain_records(b, n), shown' = Records(b, k)
        PROVE  IInv'
    <2>1. b \in Backend /\ b.search = want
      BY DEF IInv, ZoomType, BackendOK
    <2>2. RightRecords' /\ ProxiesTried'
      BY <1>1, <1>3, <2>1, RecordsFacts DEF RightRecords, ProxiesTried
    <2>3. /\ ZoomType'
          /\ \A x \in backend' : BackendOK(x)'
          /\ \A c \in cur' : SearchOK(c)'
      BY <1>1, <1>3, KeepsOK
    <2> QED
      BY <1>3, <2>2, <2>3, AnswerStep
  <1>4. CASE answer' = "undefined" /\ Handled(p, FALSE)
    <2>1. RightRecords' /\ ProxiesTried'
      BY <1>4 DEF RightRecords, ProxiesTried
    <2>2. /\ ZoomType'
          /\ \A x \in backend' : BackendOK(x)'
          /\ \A c \in cur' : SearchOK(c)'
      BY <1>1, <1>4, KeepsOK
    <2> QED
      BY <1>4, <2>1, <2>2, AnswerStep
  <1> QED
    BY <1>2, <1>3, <1>4 DEF handle_present

LEMMA ProcessInv ==
  ASSUME IInv, NEW p \in Pkgs, stage[p] = "held", process(p)
  PROVE  IInv'
  <1>1. answer = "none" /\ shown = {} /\ virtual \in BOOLEAN
    BY NoResponse DEF IInv, ZoomType
  <1>2. CASE Respond(p, "none") /\ UNCHANGED <<virtual, backend, cur, want>>
    BY <1>1, <1>2, PlainAnswer DEF Respond
  <1>3. CASE \E n \in 0 .. MaxHits + 1 : handle_present(p, n)
    <2>1. PICK n \in 0 .. MaxHits + 1 : handle_present(p, n)
      BY <1>3
    <2>2. n \in Nat
      BY ZoomAssumption
    <2> QED
      BY <2>1, <2>2, PresentStep
  <1>4. ASSUME NEW shut \in BOOLEAN, BadRequest(p, shut)
        PROVE  IInv'
    BY <1>1, <1>4, PlainAnswer DEF BadRequest
  <1>5. CASE InitRequest(p)
    <2>1. PICK ok \in BOOLEAN : virtual' = ok /\ Handled(p, ~ok)
      BY <1>5 DEF InitRequest
    <2>2. PICK shut \in BOOLEAN : shut = ~ok
      OBVIOUS
    <2>3. /\ virtual' \in BOOLEAN /\ Handled(p, shut) /\ answer' = "init" /\ shown' = {}
          /\ UNCHANGED <<backend, cur, want>>
      BY <1>5, <2>1, <2>2 DEF InitRequest
    <2> QED
      BY <2>3, PlainAnswer
  <1>6. CASE PassOn(p)
    <2>1. PICK shut \in BOOLEAN : Handled(p, shut)
      BY <1>6 DEF PassOn
    <2>2. /\ virtual' \in BOOLEAN /\ answer' = "none" /\ shown' = {}
          /\ UNCHANGED <<backend, cur, want>>
      BY <1>1, <1>6 DEF PassOn, zoomVars
    <2> QED
      BY <2>1, <2>2, PlainAnswer
  <1> QED
    BY <1>2, <1>3, <1>4, <1>5, <1>6, HandleSearchStep DEF process, handle_package

\* Packages move and the filter's state stays.
LEMMA ZoomKept ==
  ASSUME IInv, UNCHANGED zoomVars, PackagesOK',
         \A p \in Pkgs : stage[p] \in Having => stage'[p] = stage[p]
  PROVE  IInv'
  <1>1. UNCHANGED <<virtual, backend, cur, want, answer, shown>>
    BY DEF zoomVars
  <1>2. virtual' \in BOOLEAN /\ answer' \in {"none", "hits", "error", "proxyFailure", "records",
                                             "noSet", "init", "close", "undefined"}
    BY <1>1 DEF IInv, ZoomType
  <1>3. /\ ZoomType'
        /\ \A b \in backend' : BackendOK(b)'
        /\ \A c \in cur' : SearchOK(c)'
    BY <1>1, <1>2, KeepsOK
  <1>4. RightRecords' /\ ProxiesTried'
    BY <1>1 DEF IInv, RightRecords, ProxiesTried
  <1>5. ResponseOK'
    BY <1>1 DEF IInv, ResponseOK, Having
  <1> QED
    BY <1>3, <1>4, <1>5 DEF IInv

LEMMA ReleaseInv ==
  ASSUME IInv, NEW p \in Pkgs, release_frontend(p)
  PROVE  IInv'
  <1>1. /\ stage[p] = "handled" /\ stage' = [stage EXCEPT ![p] = "left"]
        /\ entry' = IF closed[p] THEN "none" ELSE "idle"
        /\ remade' = (remade /\ ~closed[p]) /\ UNCHANGED <<closed, ended>>
    BY DEF release_frontend, Release, Go
  <1>2. /\ answer' = "none" /\ shown' = {} /\ cur' = {}
        /\ \/ virtual' = FALSE /\ backend' = {} /\ want' = 0
           \/ UNCHANGED <<virtual, backend, want>>
    BY DEF release_frontend
  <1>3. PackagesOK'
    <2>1. closed \in [Pkgs -> BOOLEAN] /\ ended \in BOOLEAN /\ remade \in BOOLEAN /\ PackagesOK
      BY DEF IInv, PackagesOK, ClientsTypeOK
    <2>2. "left" \in Stage /\ "left" \notin Having /\ stage[p] \in Having /\ remade' \in BOOLEAN
      BY <1>1, <2>1 DEF Stage, Having
    <2>3. entry' \in {"none", "idle"}
      BY <1>1
    <2> QED
      BY <1>1, <2>1, <2>2, <2>3, PackageStep
  <1>4. ZoomType'
    <2>1. 0 \in 0 .. MaxPkgs
      BY ClientsAssumption
    <2> QED
      BY <1>2, <2>1 DEF IInv, ZoomType
  <1>5. \A b \in backend' : BackendOK(b)'
    BY <1>2 DEF IInv, BackendOK
  <1> QED
    BY <1>2, <1>3, <1>4, <1>5 DEF IInv, ResponseOK, RightRecords, ProxiesTried

LEMMA StepInv ==
  ASSUME IInv, NEW p \in Pkgs, Step(p)
  PROVE  IInv'
  <1>1. CASE get_frontend(p)
    <2>1. /\ stage[p] = "wait" /\ entry # "used" /\ entry' = "used"
          /\ remade' = IF entry = "none" THEN Erased ELSE remade
          /\ stage' = [stage EXCEPT ![p] = "held"] /\ UNCHANGED <<closed, ended>>
          /\ UNCHANGED zoomVars
      BY <1>1 DEF get_frontend, Get, Go
    <2>2. closed \in [Pkgs -> BOOLEAN] /\ ended \in BOOLEAN /\ remade \in BOOLEAN /\ PackagesOK
      BY DEF IInv, PackagesOK, ClientsTypeOK
    <2>3. remade' \in BOOLEAN
      <3>1. Erased \in BOOLEAN
        BY DEF Erased
      <3> QED
        BY <2>1, <2>2, <3>1
    <2>4. "held" \in Stage /\ stage[p] \notin Having
      BY <2>1 DEF Stage, Having
    <2>5. PackagesOK' /\ \A q \in Pkgs \ {p} : stage'[q] = stage[q]
      BY <2>1, <2>2, <2>3, <2>4, PackageStep
    <2> QED
      BY <2>1, <2>4, <2>5, ZoomKept
  <1> QED
    BY <1>1, ProcessInv, ReleaseInv DEF Step

LEMMA EnvironmentInv ==
  ASSUME IInv, Environment
  PROVE  IInv'
  <1>1. /\ closed \in [Pkgs -> BOOLEAN] /\ ended \in BOOLEAN /\ remade \in BOOLEAN /\ PackagesOK
        /\ UNCHANGED zoomVars
    BY DEF IInv, PackagesOK, ClientsTypeOK, Environment
  <1>2. ASSUME NEW end \in BOOLEAN, Put(end)
        PROVE  IInv'
    <2>1. PICK p \in At("new") : /\ stage' = [stage EXCEPT ![p] = "wait"]
                                 /\ closed' = [closed EXCEPT ![p] = end]
      BY <1>2 DEF Put, Go
    <2>2. p \in Pkgs /\ stage[p] = "new" /\ UNCHANGED <<entry, remade>> /\ ended' = end
      BY <1>2, <2>1 DEF Put, At
    <2>3. "wait" \in Stage /\ stage[p] \notin Having /\ "wait" \notin Having
      BY <2>2 DEF Stage, Having
    <2>4. closed' \in [Pkgs -> BOOLEAN] /\ ended' \in BOOLEAN /\ remade' \in BOOLEAN
      BY <1>1, <1>2, <2>1, <2>2
    <2>5. PackagesOK' /\ \A q \in Pkgs \ {p} : stage'[q] = stage[q]
      BY <1>1, <2>1, <2>2, <2>3, <2>4, PackageStep
    <2> QED
      BY <1>1, <2>3, <2>5, ZoomKept
  <1>3. ASSUME NEW p \in Pkgs, Result(p)
        PROVE  IInv'
    <2>1. /\ stage[p] = "left" /\ stage' = [stage EXCEPT ![p] = "answered"]
          /\ ended' = (ended \/ (closed[p] /\ InPool = {p}))
          /\ UNCHANGED <<closed, entry, remade>>
      BY <1>3 DEF Result, Go
    <2>2. "answered" \in Stage /\ stage[p] \notin Having /\ "answered" \notin Having
          /\ ended' \in BOOLEAN
      BY <2>1 DEF Stage, Having
    <2>3. PackagesOK' /\ \A q \in Pkgs \ {p} : stage'[q] = stage[q]
      BY <1>1, <2>1, <2>2, PackageStep
    <2> QED
      BY <1>1, <2>2, <2>3, ZoomKept
  <1> QED
    BY <1>2, <1>3 DEF Environment

LEMMA InitInv == Init => IInv
  <1> SUFFICES ASSUME Init
               PROVE  IInv
    OBVIOUS
  <1>1. PackagesOK
    BY DEF Init, ClientsInit, PackagesOK, ClientsTypeOK, Stage, Having
  <1>2. ZoomType
    <2>1. 0 \in 0 .. MaxPkgs
      BY ClientsAssumption
    <2> QED
      BY <2>1 DEF Init, ZoomType
  <1> QED
    BY <1>1, <1>2 DEF Init, IInv, ResponseOK, RightRecords, ProxiesTried

LEMMA NextInv == IInv /\ [Next]_vars => IInv'
  <1> SUFFICES ASSUME IInv, [Next]_vars
               PROVE  IInv'
    OBVIOUS
  <1>1. CASE UNCHANGED vars
    <2>1. UNCHANGED zoomVars /\ UNCHANGED <<stage, closed, entry, ended, remade>>
      BY <1>1 DEF vars, clientVars
    <2>2. PackagesOK'
      BY <2>1 DEF IInv, PackagesOK, ClientsTypeOK
    <2> QED
      BY <2>1, <2>2, ZoomKept
  <1> QED
    BY <1>1, EnvironmentInv, StepInv DEF Next

-----------------------------------------------------------------------------
(* The theorems.                                                           *)

\* The inductive invariant holds in every reachable state.
THEOREM Invariance == Spec => []IInv
  BY InitInv, NextInv, PTL DEF Spec

LEMMA AtMostOne ==
  ASSUME NEW S, \A a, b \in S : a = b
  PROVE  Cardinality(S) <= 1
  <1>1. CASE S = {}
    BY <1>1, FS_EmptySet
  <1>2. CASE S # {}
    <2>1. PICK a : S = {a}
      BY <1>2
    <2> QED
      BY <2>1, FS_Singleton
  <1> QED
    BY <1>1, <1>2

\* A client has one ZOOM connection at most, one package at a time works with it, and a
\* search that is past get_backend_from_databases has a connection to its own database.
THEOREM FrontendIsConsistent == Spec => []Consistent
  <1>1. IInv => Consistent
    <2> SUFFICES ASSUME IInv
                 PROVE  Consistent
      OBVIOUS
    <2>1. HeldByOne
      BY HeldByOneFact DEF IInv
    <2>2. Cardinality(backend) <= 1 /\ Cardinality(cur) <= 1
      BY AtMostOne DEF IInv, ZoomType
    <2>3. TypeOK
      <3>1. \A b \in backend : /\ b.db \in Dbs /\ b.set \in BOOLEAN
                               /\ b.search \in 0 .. MaxPkgs /\ b.hits \in 0 .. MaxHits
        BY DEF IInv, ZoomType, Backend
      <3>2. \A c \in cur : /\ c.db \in Dbs /\ c.at \in {"get", "query", "run", "failed"}
                           /\ c.step \in Nat /\ c.same \in Nat /\ c.retries \in Nat
        BY DEF IInv, ZoomType, Search
      <3> QED
        BY <2>2, <3>1, <3>2 DEF IInv, PackagesOK, ZoomType, TypeOK
    <2>4. cur # {} => At("held") \cup At("handled") # {}
      BY DEF IInv, ResponseOK, At, Having
    <2>5. \A c \in cur : c.at \in {"query", "run"} => \E b \in backend : b.db = c.db
      BY DEF IInv, SearchOK
    <2> QED
      BY <2>1, <2>3, <2>4, <2>5 DEF Consistent
  <1> QED
    BY <1>1, Invariance, PTL

\* Records are never of an older search than the last one the client was given a hit
\* count for, through any number of failures, retries and replaced connections.
THEOREM RecordsAreRight == Spec => []RightRecords
  <1>1. IInv => RightRecords
    BY DEF IInv
  <1> QED
    BY <1>1, Invariance, PTL

\* handle_search reports a proxy failure only when every proxy of the list has failed, or
\* every one from that of the connection it used again, for lists of any length.
THEOREM ProxiesAreTried == Spec => []ProxiesTried
  <1>1. IInv => ProxiesTried
    BY DEF IInv
  <1> QED
    BY <1>1, Invariance, PTL
=============================================================================
