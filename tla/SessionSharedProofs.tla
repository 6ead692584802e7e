------------------------ MODULE SessionSharedProofs -------------------------
(***************************************************************************)
(* Proofs about session_shared: a BackendClass, for any number of          *)
(* frontends, backends, queries and any limits on sessions and sets, and   *)
(* the clients and classes, for any clients, credentials, packages and     *)
(* number of classes.                                                      *)
(*                                                                         *)
(* ClassInv is about a BackendClass.  It says, of each backend, that its   *)
(* sets are what the target has (BackendOK); of each thread, what its      *)
(* place in the code implies for its locals and for the backend it holds   *)
(* (ThreadOK); and, for the limit on sessions, it counts the threads that  *)
(* have passed the test on m_session_max and have not created yet          *)
(* (Permitted): some of them are asleep, with out_of_sessions computed     *)
(* before the wait.                                                        *)
(*                                                                         *)
(* SharedInv is about the clients and classes.  The sessions in use are    *)
(* counted exactly because a client that leaves uses none, which for Us    *)
(* depends on its packages having the Frontend one at a time (PackagesOK); *)
(* and a class is never deleted under a client because the destructors run *)
(* only when neither map nor client has it (ClassOK).                      *)
(***************************************************************************)
EXTENDS BackendClass, SharedSessions, TLAPS, FiniteSetTheorems

Holding == {"naming", "searching", "presenting", "scanning", "replying"}
InSet == {"getset", "asleep", "woken", "naming", "searching", "presenting"}

SetLimit == IF NamedTarget THEN SetMax ELSE 1

\* A BackendInstance: the sets are the target's, under names given out already.
BackendOK(x) ==
    /\ \A i \in DOMAIN x.sets :
        /\ x.target[x.sets[i].id] = x.sets[i].q
        /\ x.sets[i].records \in {NoQuery, x.sets[i].q}
        /\ x.sets[i].id <= x.sequence
        /\ \A j \in DOMAIN x.sets : x.sets[i].id = x.sets[j].id => i = j
    /\ Len(x.sets) <= SetLimit

\* The name of a search in progress is free, and there is room for its set.
NameFree(x, id) ==
    /\ \A i \in DOMAIN x.sets : x.sets[i].id # id
    /\ Len(x.sets) < SetLimit
    /\ id <= x.sequence

HasSet(x, id, q) == \E i \in DOMAIN x.sets : x.sets[i].id = id /\ x.sets[i].q = q

\* A thread, by where it is
ThreadOK(t) ==
    /\ pc[t] # "crashed" => (be[t] # NoBackend <=> pc[t] \in Holding)
    /\ pc[t] \in InSet => op[t] \in {"search", "present"}
    /\ pc[t] \in InSet \/ (pc[t] = "creating" /\ op[t] \in {"search", "present"})
           => qry[t] \in Queries
    /\ pc[t] = "naming" => bk[be[t]].sets = << >>
    /\ pc[t] = "searching" => rs[t] \in Ids /\ NameFree(bk[be[t]], rs[t])
    /\ pc[t] = "presenting" => rs[t] \in Ids /\ HasSet(bk[be[t]], rs[t], qry[t])
    /\ answer[t] \in {NoQuery, qry[t]}

Listed == ToSet(list)
ListInjective == \A i, j \in DOMAIN list : list[i] = list[j] => i = j

\* Threads that may create a backend without another look at m_session_max
Permitted ==
    {t \in Threads : pc[t] = "creating" \/ (pc[t] \in {"asleep", "woken"} /\ ~outOf[t])}
PermittedBounded ==
    Len(list) + Cardinality(Permitted) < SessionMax + Cardinality(Threads)

\* The first backend makes the class succeed for good.
Started == (~succeeded => list = << >>) /\ (named => NamedTarget)

\* WaiterHasWaker, by the backend instead of its place in m_backend_list
HasQuery(x, q) == \E i \in DOMAIN x.sets : x.sets[i].q = q
Waker ==
    \A t \in Threads : pc[t] = "asleep" /\ t \notin stranded =>
        \E b \in Listed : bk[b].inUse /\ HasQuery(bk[b], qry[t])

ClassInv ==
    /\ TypeOK
    /\ ListInjective
    /\ OneHolder
    /\ \A b \in Listed : BackendOK(bk[b])
    /\ \A t \in Threads : ThreadOK(t)
    /\ PermittedBounded
    /\ Started
    /\ Waker

-----------------------------------------------------------------------------
(* Facts about the operators of the model.                                 *)

\* push_back on m_backend_list or m_sets
LEMMA AppendFacts ==
  ASSUME NEW S, NEW s \in Seq(S), NEW e \in S
  PROVE  /\ Append(s, e) \in Seq(S)
         /\ Len(Append(s, e)) = Len(s) + 1
         /\ DOMAIN Append(s, e) = 1 .. Len(s) + 1
         /\ DOMAIN s = 1 .. Len(s)
         /\ Append(s, e)[Len(s) + 1] = e
         /\ \A i \in 1 .. Len(s) : Append(s, e)[i] = s[i]
         /\ ToSet(Append(s, e)) = ToSet(s) \cup {e}
  <1>1. /\ Append(s, e) \in Seq(S)
        /\ Len(Append(s, e)) = Len(s) + 1
        /\ DOMAIN Append(s, e) = 1 .. Len(s) + 1
        /\ DOMAIN s = 1 .. Len(s)
        /\ Append(s, e)[Len(s) + 1] = e
        /\ \A i \in 1 .. Len(s) : Append(s, e)[i] = s[i]
        /\ Len(s) \in Nat
    OBVIOUS
  <1>2. ToSet(Append(s, e)) \subseteq ToSet(s) \cup {e}
    BY <1>1 DEF ToSet
  <1>3. ToSet(s) \cup {e} \subseteq ToSet(Append(s, e))
    BY <1>1 DEF ToSet
  <1> QED
    BY <1>1, <1>2, <1>3

\* erase() on m_backend_list or m_sets: the elements before and after move up.
LEMMA RemoveAtFacts ==
  ASSUME NEW S, NEW s \in Seq(S), NEW k \in 1 .. Len(s)
  PROVE  /\ RemoveAt(s, k) \in Seq(S)
         /\ Len(RemoveAt(s, k)) = Len(s) - 1
         /\ DOMAIN RemoveAt(s, k) = 1 .. Len(s) - 1
         /\ \A i \in 1 .. Len(s) - 1 :
                RemoveAt(s, k)[i] = IF i < k THEN s[i] ELSE s[i + 1]
  <1> DEFINE a == SubSeq(s, 1, k - 1)
             b == SubSeq(s, k + 1, Len(s))
             c == a \o b
  <1>1. a \in Seq(S) /\ Len(a) = k - 1
    OBVIOUS
  <1>2. b \in Seq(S) /\ Len(b) = Len(s) - k
    OBVIOUS
  <1>a. \A i \in 1 .. k - 1 : a[i] = s[i]
    OBVIOUS
  <1>b. \A i \in 1 .. Len(s) - k : b[i] = s[k + i]
    OBVIOUS
  <1>3. RemoveAt(s, k) = c
    BY DEF RemoveAt
  <1>4. Len(s) \in Nat /\ k \in Nat
    OBVIOUS
  <1> HIDE DEF a, b
  <1>5. c \in Seq(S) /\ Len(c) = Len(a) + Len(b)
    BY <1>1, <1>2
  <1>6. \A i \in 1 .. Len(s) - 1 : c[i] = IF i <= k - 1 THEN a[i] ELSE b[i - (k - 1)]
    BY <1>1, <1>2, <1>4
  <1> HIDE DEF c
  <1>7. Len(c) = Len(s) - 1
    BY <1>1, <1>2, <1>4, <1>5
  <1>8. ASSUME NEW i \in 1 .. Len(s) - 1
        PROVE  c[i] = IF i < k THEN s[i] ELSE s[i + 1]
    <2>1. CASE i < k
      BY <1>4, <1>6, <1>a, <2>1
    <2>2. CASE ~(i < k)
      <3>1. c[i] = b[i - (k - 1)]
        BY <1>4, <1>6, <2>2
      <3>2. i - (k - 1) \in 1 .. Len(s) - k /\ k + (i - (k - 1)) = i + 1
        BY <1>4, <2>2
      <3> QED
        BY <1>b, <2>2, <3>1, <3>2
    <2> QED
      BY <2>1, <2>2
  <1> QED
    BY <1>3, <1>5, <1>7, <1>8

\* How the number of threads in a set changes with one thread
LEMMA ThreadsCounted ==
  ASSUME NEW S \in SUBSET Threads
  PROVE  /\ IsFiniteSet(S)
         /\ Cardinality(S) \in Nat
         /\ Cardinality(S) <= Cardinality(Threads)
         /\ Cardinality(Threads) \in Nat
         /\ \A T \in SUBSET S : Cardinality(T) <= Cardinality(S)
         /\ \A t \in Threads : /\ Cardinality(S \cup {t}) <= Cardinality(S) + 1
                               /\ t \in S => Cardinality(S \ {t}) = Cardinality(S) - 1
                               /\ t \notin S => Cardinality(S) < Cardinality(Threads)
  <1>1. IsFiniteSet(S) /\ IsFiniteSet(Threads)
    BY ThreadsAssumption, FS_Subset
  <1>2. Cardinality(S) \in Nat /\ Cardinality(Threads) \in Nat
    BY <1>1, FS_CardinalityType
  <1>3. Cardinality(S) <= Cardinality(Threads)
    BY <1>1, ThreadsAssumption, FS_Subset
  <1>4. \A T \in SUBSET S : Cardinality(T) <= Cardinality(S)
    BY <1>1, FS_Subset
  <1>5. ASSUME NEW t \in Threads
        PROVE  /\ Cardinality(S \cup {t}) <= Cardinality(S) + 1
               /\ t \in S => Cardinality(S \ {t}) = Cardinality(S) - 1
               /\ t \notin S => Cardinality(S) < Cardinality(Threads)
    <2>1. Cardinality(S \cup {t}) = IF t \in S THEN Cardinality(S) ELSE Cardinality(S) + 1
      BY <1>1, FS_AddElement
    <2>2. t \in S => Cardinality(S \ {t}) = Cardinality(S) - 1
      BY <1>1, FS_RemoveElement
    <2>3. t \notin S => Cardinality(S \cup {t}) <= Cardinality(Threads)
      <3>1. S \cup {t} \subseteq Threads
        OBVIOUS
      <3> QED
        BY <3>1, ThreadsAssumption, FS_Subset
    <2> QED
      BY <1>2, <2>1, <2>2, <2>3
  <1> QED
    BY <1>1, <1>2, <1>3, <1>4, <1>5

\* The first of some positions
LEMMA MinFacts ==
  ASSUME NEW S \in SUBSET Nat, S # {}
  PROVE  Min(S) \in S /\ \A x \in S : Min(S) <= x
  <1> DEFINE less == OpToRel(<, Nat)
  <1>1. \A x, y \in Nat : <<x, y>> \in less <=> x < y
    BY DEF OpToRel
  <1>2. IsWellFoundedOn(less, Nat)
    BY NatLessThanWellFounded
  <1> HIDE DEF less
  <1>3. PICK m \in S : \A y \in S : ~(<<y, m>> \in less)
    BY <1>2, WFMin
  <1>4. ASSUME NEW y \in S
        PROVE  m <= y
    <2>1. y \in Nat /\ m \in Nat
      OBVIOUS
    <2>2. ~(y < m)
      BY <1>1, <1>3, <2>1, Zenon
    <2> QED
      BY <2>1, <2>2
  <1> QED
    BY <1>4 DEF Min

\* A BackendInstance without sets
LEMMA ClosedFacts ==
  /\ Closed \in Backend
  /\ BackendOK(Closed)
  /\ BackendOK([Closed EXCEPT !.inUse = TRUE])
  <1>1. Closed.sets = << >> /\ << >> \in Seq(Set) /\ Len(<< >>) = 0 /\ DOMAIN << >> = {}
    BY DEF Closed
  <1>2. SetLimit \in Nat
    BY ParameterAssumption DEF SetLimit
  <1>3. Closed \in Backend
    BY <1>1 DEF Closed, Backend, QueryOrNone
  <1>4. BackendOK(Closed) /\ BackendOK([Closed EXCEPT !.inUse = TRUE])
    BY <1>1, <1>2 DEF BackendOK, Closed
  <1> QED
    BY <1>3, <1>4

\* Erasing a backend leaves the others in m_backend_list, once each.
LEMMA EraseFacts ==
  ASSUME list \in Seq(Backends), ListInjective, NEW b \in Listed, EraseBackend(b)
  PROVE  /\ list' \in Seq(Backends)
         /\ Len(list') = Len(list) - 1
         /\ Len(list) > 0
         /\ Listed' = Listed \ {b}
         /\ ListInjective'
  <1> DEFINE k == CHOOSE i \in DOMAIN list : list[i] = b
  <1>1. k \in DOMAIN list /\ list[k] = b
    BY DEF Listed, ToSet
  <1>2. DOMAIN list = 1 .. Len(list) /\ Len(list) \in Nat
    OBVIOUS
  <1>3. list' = RemoveAt(list, k)
    BY DEF EraseBackend
  <1> HIDE DEF k
  <1>4. /\ list' \in Seq(Backends)
        /\ Len(list') = Len(list) - 1
        /\ DOMAIN list' = 1 .. Len(list) - 1
        /\ \A i \in 1 .. Len(list) - 1 :
               list'[i] = IF i < k THEN list[i] ELSE list[i + 1]
    BY <1>1, <1>2, <1>3, RemoveAtFacts
  <1>5. ListInjective'
    BY <1>1, <1>2, <1>4, SMTT(30) DEF ListInjective
  <1>6. ASSUME NEW c \in Listed'
        PROVE  c \in Listed \ {b}
    <2>1. PICK i \in 1 .. Len(list) - 1 : c = list'[i]
      BY <1>4 DEF Listed, ToSet
    <2>2. PICK j \in 1 .. Len(list) : c = list[j] /\ j # k
      BY <1>1, <1>2, <1>4, <2>1
    <2> QED
      BY <1>1, <1>2, <2>2 DEF Listed, ToSet, ListInjective
  <1>7. ASSUME NEW c \in Listed \ {b}
        PROVE  c \in Listed'
    <2>1. PICK j \in 1 .. Len(list) : c = list[j]
      BY <1>2 DEF Listed, ToSet
    <2>2. j # k
      BY <1>1, <2>1
    <2> DEFINE i == IF j < k THEN j ELSE j - 1
    <2>3. i \in 1 .. Len(list) - 1 /\ c = list'[i]
      BY <1>1, <1>2, <1>4, <2>1, <2>2
    <2> QED
      BY <1>4, <2>3 DEF Listed, ToSet
  <1> QED
    BY <1>1, <1>2, <1>4, <1>5, <1>6, <1>7

-----------------------------------------------------------------------------
(* What a step of thread t leaves alone.                                   *)

\* The locals of the others stay; they may be woken.
OtherThreads(t) ==
    \A u \in Threads \ {t} :
        /\ be'[u] = be[u] /\ rs'[u] = rs[u] /\ outOf'[u] = outOf[u]
        /\ op'[u] = op[u] /\ qry'[u] = qry[u] /\ answer'[u] = answer[u]
        /\ pc'[u] = pc[u] \/ (pc[u] = "asleep" /\ pc'[u] = "woken")

\* What holds of a thread holds on while nobody touches the backend it holds.
LEMMA ThreadsKeep ==
  ASSUME ClassInv, NEW t \in Threads, OtherThreads(t), NEW u \in Threads, u # t,
         be[u] # NoBackend => bk'[be[u]] = bk[be[u]]
  PROVE  ThreadOK(u)'
  <1>1. ThreadOK(u)
    BY DEF ClassInv
  <1>2. /\ be'[u] = be[u] /\ rs'[u] = rs[u] /\ op'[u] = op[u] /\ qry'[u] = qry[u]
        /\ answer'[u] = answer[u]
        /\ pc'[u] = pc[u] \/ (pc[u] = "asleep" /\ pc'[u] = "woken")
    BY DEF OtherThreads
  <1> QED
    BY <1>1, <1>2 DEF ThreadOK, Holding, InSet

\* No thread gets to create that could not before, and m_backend_list does not grow.
LEMMA PermittedKeep ==
  ASSUME ClassInv, NEW t \in Threads, OtherThreads(t), list' \in Seq(Backends),
         t \in Permitted' => t \in Permitted, Len(list') <= Len(list)
  PROVE  PermittedBounded'
  <1>1. Permitted' \subseteq Permitted /\ Permitted \subseteq Threads
    BY DEF Permitted, OtherThreads
  <1>2. /\ Cardinality(Permitted) \in Nat /\ Cardinality(Permitted') \in Nat
        /\ Cardinality(Permitted') <= Cardinality(Permitted)
        /\ Cardinality(Threads) \in Nat
    BY <1>1, ThreadsCounted
  <1>3. Len(list') \in Nat /\ Len(list) \in Nat /\ SessionMax \in Nat
    BY ParameterAssumption DEF ClassInv, TypeOK
  <1> QED
    BY <1>2, <1>3 DEF ClassInv, PermittedBounded

\* A step that changes neither the backends nor who holds them.
LEMMA Quiet ==
  ASSUME ClassInv, NEW t \in Threads, OtherThreads(t), TypeOK',
         list' = list, bk' = bk, be' = be,
         succeeded => succeeded', named' => NamedTarget,
         \A u \in Threads \ {t} : pc'[u] = "asleep" /\ u \notin stranded' => u \notin stranded,
         pc'[t] = "asleep" => \E b \in Listed : bk[b].inUse /\ HasQuery(bk[b], qry'[t]),
         ThreadOK(t)', PermittedBounded'
  PROVE  ClassInv'
  <1>1. ListInjective' /\ OneHolder' /\ (\A b \in Listed : BackendOK(bk[b]))'
    BY DEF ClassInv, ListInjective, OneHolder, Listed, BackendOK
  <1>2. \A u \in Threads : ThreadOK(u)'
    BY ThreadsKeep
  <1>3. Started'
    BY DEF ClassInv, Started
  <1>4. Waker'
    <2> SUFFICES ASSUME NEW u \in Threads, pc'[u] = "asleep", u \notin stranded'
                 PROVE  \E b \in Listed : bk[b].inUse /\ HasQuery(bk[b], qry'[u])
      BY DEF Waker, Listed, HasQuery
    <2>1. CASE u = t
      BY <2>1
    <2>2. CASE u # t
      <3>1. pc[u] = "asleep" /\ u \notin stranded /\ qry'[u] = qry[u]
        BY <2>2 DEF OtherThreads
      <3> QED
        BY <3>1 DEF ClassInv, Waker
    <2> QED
      BY <2>1, <2>2
  <1> QED
    BY <1>1, <1>2, <1>3, <1>4 DEF ClassInv

\* A thread that has just found m_backend_list short may create.
LEMMA PermittedFresh ==
  ASSUME list' \in Seq(Backends), Len(list') < SessionMax
  PROVE  PermittedBounded'
  <1>1. Permitted' \subseteq Threads
    BY DEF Permitted
  <1>2. /\ Cardinality(Permitted') \in Nat /\ Cardinality(Threads) \in Nat
        /\ Cardinality(Permitted') <= Cardinality(Threads)
    BY <1>1, ThreadsCounted
  <1>3. Len(list') \in Nat /\ SessionMax \in Nat
    BY ParameterAssumption
  <1> QED
    BY <1>2, <1>3 DEF PermittedBounded

\* When no backend is idle, there are as many threads that hold one as there are
\* backends, and those do not create.
LEMMA PermittedScan ==
  ASSUME ClassInv, IdleBackends = {}, list' = list,
         \A u \in Threads : be[u] # NoBackend => u \notin Permitted'
  PROVE  PermittedBounded'
  <1> DEFINE T == Threads \ Permitted'
             D == 1 .. Len(list)
             f == [i \in D |-> CHOOSE u \in Threads : be[u] = list[i]]
  <1>1. list \in Seq(Backends) /\ Len(list) \in Nat /\ DOMAIN list = D
    BY DEF ClassInv, TypeOK
  <1>2. ASSUME NEW i \in D
        PROVE  f[i] \in T /\ be[f[i]] = list[i]
    <2>1. list[i] \in Listed /\ list[i] \in Backends
      BY <1>1 DEF Listed, ToSet
    <2>2. \E u \in Threads : be[u] = list[i]
      BY <2>1 DEF ClassInv, OneHolder, IdleBackends, Listed
    <2>3. f[i] \in Threads /\ be[f[i]] = list[i]
      BY <2>2
    <2> QED
      BY <2>1, <2>3, NullAssumption
  <1>3. f \in [D -> T]
    BY <1>2
  <1>4. \A i, j \in D : f[i] = f[j] => i = j
    BY <1>1, <1>2 DEF ClassInv, ListInjective
  <1> HIDE DEF f
  <1>5. f \in Injection(D, T)
    BY <1>3, <1>4 DEF Injection, IsInjective
  <1>6. Permitted' \subseteq Threads
    BY DEF Permitted
  <1>7. IsFiniteSet(T) /\ Cardinality(T) = Cardinality(Threads) - Cardinality(Permitted')
    <2>1. Threads \cap Permitted' = Permitted'
      BY <1>6
    <2> QED
      BY <2>1, ThreadsAssumption, FS_Difference
  <1>8. Cardinality(D) <= Cardinality(T)
    BY <1>5, <1>7, FS_Injection
  <1>9. Cardinality(D) = Len(list)
    BY <1>1, FS_Interval
  <1>10. Cardinality(Permitted') \in Nat /\ Cardinality(Threads) \in Nat
    BY <1>6, ThreadsCounted
  <1> QED
    BY <1>1, <1>7, <1>8, <1>9, <1>10, ParameterAssumption DEF PermittedBounded

-----------------------------------------------------------------------------
(* The actions.  First the requests of clients.                            *)

LEMMA StartInv ==
  ASSUME ClassInv, NEW t \in Threads,
         \/ StartInit(t) \/ StartBadSearch(t) \/ StartPresent(t) \/ StartScanCreate(t)
         \/ Leave(t) \/ \E q \in Queries : StartSearch(t, q)
  PROVE  ClassInv'
  <1> USE DEF Begin, Disconnect, GoTo, classVars
  <1>1. TypeOK /\ ThreadOK(t) /\ Started
    BY DEF ClassInv
  <1>2. pc[t] \in {"new", "idle"} /\ be[t] = NoBackend /\ t \notin Permitted
    BY <1>1 DEF StartInit, StartBadSearch, StartPresent, StartScanCreate, Leave, StartSearch,
                ThreadOK, Holding, Permitted
  <1>3. list' = list /\ bk' = bk /\ be' = be /\ stranded' = stranded /\ outOf' = outOf
        /\ named' = named /\ succeeded' = succeeded
    BY DEF StartInit, StartBadSearch, StartPresent, StartScanCreate, Leave, StartSearch
  <1>4. TypeOK'
    <2>1. ASSUME NEW what \in {"init", "search", "present", "scan"}, NEW q \in QueryOrNone,
                 NEW s \in PC, Begin(t, what, q, s), fset' \in [Threads -> QueryOrNone]
          PROVE  TypeOK'
      BY <1>1, <2>1, ParameterAssumption DEF TypeOK, QueryOrNone
    <2>2. CASE StartInit(t)
      BY <1>1, <2>1, <2>2, Zenon DEF StartInit, TypeOK, PC, QueryOrNone
    <2>3. CASE StartScanCreate(t)
      BY <1>1, <2>1, <2>3 DEF StartScanCreate, TypeOK, PC, QueryOrNone
    <2>4. CASE StartBadSearch(t)
      BY <1>1, <2>1, <2>4 DEF StartBadSearch, TypeOK, PC, QueryOrNone
    <2>5. CASE StartPresent(t)
      BY <1>1, <2>1, <2>5 DEF StartPresent, TypeOK, PC, QueryOrNone
    <2>6. CASE Leave(t)
      BY <1>1, <2>6 DEF Leave, TypeOK, PC, QueryOrNone
    <2>7. ASSUME NEW q \in Queries, StartSearch(t, q)
          PROVE  TypeOK'
      BY <1>1, <2>1, <2>7 DEF StartSearch, TypeOK, PC, QueryOrNone
    <2> QED
      BY <2>2, <2>3, <2>4, <2>5, <2>6, <2>7
  <1>5. OtherThreads(t)
    BY <1>1 DEF StartInit, StartBadSearch, StartPresent, StartScanCreate, Leave, StartSearch,
                TypeOK, OtherThreads
  <1>6. ThreadOK(t)'
    BY <1>1, <1>2
       DEF StartInit, StartBadSearch, StartPresent, StartScanCreate, Leave, StartSearch,
           TypeOK, ThreadOK, Holding, InSet, QueryOrNone
  <1>7. pc'[t] # "asleep"
    BY <1>1 DEF StartInit, StartBadSearch, StartPresent, StartScanCreate, Leave, StartSearch, TypeOK
  <1>8. PermittedBounded'
    <2>1. CASE pc'[t] # "creating"
      <3>1. t \notin Permitted'
        BY <1>1, <2>1, <1>7 DEF Permitted, StartInit, StartBadSearch, StartPresent,
                   StartScanCreate, Leave, StartSearch, TypeOK
      <3>2. list' \in Seq(Backends) /\ Len(list') <= Len(list)
        BY <1>1, <1>3 DEF TypeOK
      <3> QED
        BY <1>5, <3>1, <3>2, PermittedKeep
    <2>2. CASE StartInit(t) /\ ~succeeded
      BY <1>1, <1>3, <2>2, PermittedFresh, ParameterAssumption DEF Started
    <2>3. CASE StartScanCreate(t)
      <3>1. ASSUME NEW u \in Threads, be[u] # NoBackend
            PROVE  u \notin Permitted'
        BY <1>2, <1>5, <3>1 DEF ClassInv, ThreadOK, Holding, Permitted, OtherThreads
      <3> QED
        BY <1>3, <2>3, <3>1, PermittedScan DEF StartScanCreate
    <2> QED
      BY <1>1, <2>1, <2>2, <2>3
         DEF StartInit, StartBadSearch, StartPresent, StartScanCreate, Leave, StartSearch, TypeOK
  <1> QED
    BY <1>1, <1>3, <1>4, <1>5, <1>6, <1>7, <1>8, Quiet DEF Started

\* Rep::init answers; a thread wakes for no reason.
LEMMA AnswerInitInv ==
  ASSUME ClassInv, NEW t \in Threads, InitReply(t) \/ SpuriousWake(t)
  PROVE  ClassInv'
  <1>1. TypeOK /\ ThreadOK(t) /\ Started
    BY DEF ClassInv
  <1>2. /\ list' = list /\ bk' = bk /\ be' = be /\ named' = named /\ succeeded' = succeeded
        /\ outOf' = outOf
        /\ pc' = [pc EXCEPT ![t] = pc'[t]]
        /\ (pc[t] = "initReply" /\ pc'[t] \in {"idle", "new"}) \/ (pc[t] = "asleep" /\ pc'[t] = "woken")
        /\ stranded' \in {stranded, stranded \ {t}}
        /\ UNCHANGED <<op, qry, rs, again, fset, answer, reqs, initResp>>
    BY <1>1 DEF InitReply, SpuriousWake, GoTo, classVars, TypeOK
  <1>3. TypeOK'
    BY <1>1, <1>2 DEF TypeOK, PC
  <1>4. OtherThreads(t)
    BY <1>1, <1>2 DEF TypeOK, OtherThreads
  <1>5. ThreadOK(t)'
    BY <1>1, <1>2 DEF ThreadOK, Holding, InSet
  <1>6. PermittedBounded'
    <2>1. t \in Permitted' => t \in Permitted
      BY <1>2 DEF Permitted
    <2>2. list' \in Seq(Backends) /\ Len(list') <= Len(list)
      BY <1>1, <1>2 DEF TypeOK
    <2> QED
      BY <1>4, <2>1, <2>2, PermittedKeep
  <1> QED
    BY <1>1, <1>2, <1>3, <1>4, <1>5, <1>6, Quiet DEF Started

\* The first similar search is one of the class, and has a set for the query.
LEMMA FirstMatchFacts ==
  ASSUME TypeOK, NEW t \in Threads, Match(t)
  PROVE  FirstMatch(t) \in Listed /\ HasQuery(bk[FirstMatch(t)], qry[t])
  <1>1. Matching(qry[t]) \in SUBSET Nat /\ Matching(qry[t]) # {}
    BY DEF Match, Matching, TypeOK
  <1>2. Min(Matching(qry[t])) \in Matching(qry[t])
    BY <1>1, MinFacts
  <1> DEFINE k == Min(Matching(qry[t]))
  <1>3. k \in DOMAIN list /\ \E i \in DOMAIN SetsOf(k) : SetsOf(k)[i].q = qry[t]
    BY <1>2 DEF Matching
  <1> QED
    BY <1>3 DEF FirstMatch, Listed, ToSet, SetsOf, HasQuery

\* get_set waits for a similar search.
LEMMA WaitForSetInv ==
  ASSUME ClassInv, NEW t \in Threads, WaitForSet(t)
  PROVE  ClassInv'
  <1>1. TypeOK /\ ThreadOK(t) /\ Started
    BY DEF ClassInv
  <1>2. /\ pc' = [pc EXCEPT ![t] = "asleep"]
        /\ outOf' = [outOf EXCEPT ![t] = OutOfSessions(t)]
        /\ pc[t] \in {"getset", "woken"}
        /\ UNCHANGED <<list, bk, named, succeeded, initResp, op, qry, be, rs, again, fset,
                       answer, reqs, stranded>>
    BY DEF WaitForSet, GoTo, classVars, InGetSet
  <1>3. TypeOK'
    <2>1. OutOfSessions(t) \in BOOLEAN
      <3>1. (Len(list) >= SessionMax) \in BOOLEAN /\ outOf[t] \in BOOLEAN
        BY <1>1 DEF TypeOK
      <3> QED
        BY <3>1, Zenon DEF OutOfSessions
    <2>2. outOf' \in [Threads -> BOOLEAN] /\ pc' \in [Threads -> PC]
      BY <1>1, <1>2, <2>1 DEF TypeOK, PC
    <2> QED
      BY <1>1, <1>2, <2>2 DEF TypeOK
  <1>4. OtherThreads(t)
    BY <1>1, <1>2 DEF TypeOK, OtherThreads
  <1>5. ThreadOK(t)'
    BY <1>1, <1>2 DEF TypeOK, ThreadOK, Holding, InSet
  <1>6. list' \in Seq(Backends) /\ Len(list') <= Len(list)
    BY <1>1, <1>2 DEF TypeOK
  <1>7. PermittedBounded'
    <2>1. CASE pc[t] = "woken" \/ OutOfSessions(t)
      <3>1. t \in Permitted' => t \in Permitted
        BY <1>1, <1>2, <2>1 DEF Permitted, OutOfSessions, TypeOK
      <3> QED
        BY <1>4, <1>6, <3>1, PermittedKeep
    <2>2. CASE pc[t] = "getset" /\ ~OutOfSessions(t)
      BY <1>1, <1>2, <2>2, PermittedFresh, ParameterAssumption DEF OutOfSessions, TypeOK
    <2> QED
      BY <1>2, <2>1, <2>2
  <1>8. \E b \in Listed : bk[b].inUse /\ HasQuery(bk[b], qry'[t])
    BY <1>1, <1>2, FirstMatchFacts DEF WaitForSet
  <1> QED
    BY <1>1, <1>2, <1>3, <1>4, <1>5, <1>7, <1>8, Quiet DEF Started

\* get_set finds nothing to use.
LEMMA NoSetInv ==
  ASSUME ClassInv, NEW t \in Threads, CreateForSet(t) \/ AllInUse(t)
  PROVE  ClassInv'
  <1>1. TypeOK /\ ThreadOK(t) /\ Started
    BY DEF ClassInv
  <1>2. pc[t] \in {"getset", "woken"} /\ be[t] = NoBackend
    BY <1>1 DEF CreateForSet, AllInUse, InGetSet, ThreadOK, Holding
  <1>3. /\ pc' = [pc EXCEPT ![t] = pc'[t]]
        /\ pc'[t] \in {"creating", "idle", "nullBackend"}
        /\ be' = be
        /\ rs' = rs \/ rs' = [rs EXCEPT ![t] = NoId]
        /\ outOf' = outOf \/ outOf' = [outOf EXCEPT ![t] = FALSE]
        /\ again' = again \/ again' = [again EXCEPT ![t] = FALSE]
        /\ UNCHANGED <<list, bk, named, succeeded, initResp, op, qry, fset, answer, reqs,
                       stranded>>
    BY <1>1, <1>2 DEF CreateForSet, AllInUse, GoTo, Forget, GiveUp, classVars, TypeOK
  <1>4. TypeOK'
    <2>1. pc' \in [Threads -> PC]
      BY <1>1, <1>3 DEF TypeOK, PC
    <2>2. rs' \in [Threads -> Ids \cup {NoId}]
      BY <1>1, <1>3 DEF TypeOK
    <2>3. outOf' \in [Threads -> BOOLEAN] /\ again' \in [Threads -> BOOLEAN]
      BY <1>1, <1>3 DEF TypeOK
    <2> QED
      BY <1>1, <1>3, <2>1, <2>2, <2>3 DEF TypeOK
  <1>5. OtherThreads(t)
    BY <1>1, <1>3 DEF TypeOK, OtherThreads
  <1>6. ThreadOK(t)'
    BY <1>1, <1>2, <1>3 DEF TypeOK, ThreadOK, Holding, InSet
  <1>7. list' \in Seq(Backends) /\ Len(list') <= Len(list)
    BY <1>1, <1>3 DEF TypeOK
  <1>8. PermittedBounded'
    <2>1. CASE AllInUse(t) \/ pc[t] = "woken"
      <3>1. t \in Permitted' => t \in Permitted
        BY <1>1, <1>3, <2>1
           DEF Permitted, AllInUse, CreateForSet, GoTo, GiveUp, TypeOK, OutOfSessions
      <3> QED
        BY <1>5, <1>7, <3>1, PermittedKeep
    <2>2. CASE CreateForSet(t) /\ pc[t] = "getset"
      BY <1>1, <1>3, <2>2, PermittedFresh, ParameterAssumption
         DEF CreateForSet, OutOfSessions, TypeOK
    <2> QED
      BY <1>2, <2>1, <2>2
  <1> QED
    BY <1>1, <1>3, <1>4, <1>5, <1>6, <1>8, Quiet DEF Started

\* create_backend fails, and wakes everybody.
LEMMA CreateFailInv ==
  ASSUME ClassInv, NEW t \in Threads, CreateFail(t)
  PROVE  ClassInv'
  <1>1. TypeOK /\ ThreadOK(t) /\ Started
    BY DEF ClassInv
  <1>2. pc[t] = "creating" /\ be[t] = NoBackend
    BY <1>1 DEF CreateFail, ThreadOK, Holding
  <1>3. /\ pc' = [u \in Threads |-> IF u = t THEN AfterNoBackend(t)
                                    ELSE IF pc[u] = "asleep" THEN "woken" ELSE pc[u]]
        /\ AfterNoBackend(t) \in {"initReply", "idle", "nullBackend"}
        /\ stranded' = {}
        /\ be' = be
        /\ rs' = [rs EXCEPT ![t] = NoId]
        /\ outOf' = [outOf EXCEPT ![t] = FALSE]
        /\ again' = [again EXCEPT ![t] = FALSE]
        /\ named' \in {NamedTarget, FALSE}
        /\ initResp' \in {initResp, "ok", "refused"}
        /\ UNCHANGED <<list, bk, succeeded, op, qry, fset, answer, reqs>>
    BY <1>1, <1>2 DEF CreateFail, NotifyAllAndGo, Forget, AfterNoBackend, GiveUp, TypeOK
  <1>4. TypeOK'
    <2>1. /\ pc' \in [Threads -> PC]
          /\ rs' \in [Threads -> Ids \cup {NoId}]
          /\ outOf' \in [Threads -> BOOLEAN]
          /\ again' \in [Threads -> BOOLEAN]
          /\ initResp' \in {"none", "ok", "refused"}
      BY <1>1, <1>3 DEF TypeOK, PC
    <2>2. named' \in BOOLEAN
      BY <1>3, ParameterAssumption, Zenon
    <2> QED
      BY <1>1, <1>3, <2>1, <2>2 DEF TypeOK
  <1>5. OtherThreads(t)
    BY <1>1, <1>3 DEF TypeOK, OtherThreads
  <1>6. ThreadOK(t)'
    BY <1>1, <1>2, <1>3 DEF TypeOK, ThreadOK, Holding, InSet
  <1>7. PermittedBounded'
    <2>1. list' \in Seq(Backends) /\ Len(list') <= Len(list) /\ t \in Permitted
      BY <1>1, <1>2, <1>3 DEF TypeOK, Permitted
    <2> QED
      BY <1>5, <2>1, PermittedKeep
  <1>8. \A u \in Threads : pc'[u] # "asleep"
    BY <1>3
  <1>9. named' => NamedTarget
    BY <1>3
  <1> QED
    BY <1>1, <1>3, <1>4, <1>5, <1>6, <1>7, <1>8, <1>9, Quiet

\* The process dies: nothing is left but what the threads held.
LEMMA CrashInv ==
  ASSUME ClassInv, NEW t \in Threads, Crash(t)
  PROVE  ClassInv'
  <1>1. TypeOK /\ Started
    BY DEF ClassInv
  <1>2. /\ pc' = [u \in Threads |-> "crashed"]
        /\ UNCHANGED <<list, bk, named, succeeded, initResp, op, qry, be, rs, outOf, again,
                       fset, answer, reqs, stranded>>
    BY DEF Crash, classVars
  <1>3. TypeOK'
    BY <1>1, <1>2 DEF TypeOK, PC
  <1>4. ListInjective' /\ OneHolder' /\ (\A b \in Listed : BackendOK(bk[b]))'
    BY <1>2 DEF ClassInv, ListInjective, OneHolder, Listed, BackendOK
  <1>5. ASSUME NEW u \in Threads
        PROVE  ThreadOK(u)'
    BY <1>2 DEF ClassInv, ThreadOK, InSet
  <1>6. PermittedBounded'
    <2>1. Permitted' = {} /\ {} \subseteq Permitted /\ Permitted \subseteq Threads
      BY <1>2 DEF Permitted
    <2>2. /\ Cardinality(Permitted') <= Cardinality(Permitted) /\ Cardinality(Threads) \in Nat
          /\ Cardinality(Permitted) \in Nat /\ Cardinality(Permitted') \in Nat
      BY <2>1, ThreadsCounted
    <2>3. Len(list') = Len(list) /\ Len(list) \in Nat
      BY <1>1, <1>2 DEF TypeOK
    <2> QED
      BY <2>2, <2>3, ParameterAssumption DEF ClassInv, PermittedBounded
  <1>7. Started' /\ Waker'
    BY <1>1, <1>2 DEF Started, Waker
  <1> QED
    BY <1>3, <1>4, <1>5, <1>6, <1>7 DEF ClassInv

-----------------------------------------------------------------------------
(* Steps of a thread on one backend, which it takes, holds or gives back.  *)

\* t works on b, which no other thread holds; afterwards t holds b and b is in use,
\* or neither.  Who sleeps waits for another backend, or for b, whose queries stay;
\* or everybody is woken.
LEMMA OneBackend ==
  ASSUME ClassInv, NEW t \in Threads, OtherThreads(t), TypeOK', NEW b \in Listed,
         list' = list, succeeded' = succeeded, named' = named,
         \A c \in Backends : c # b => bk'[c] = bk[c],
         be[t] \in {NoBackend, b}, \A u \in Threads : be[u] = b => u = t,
         be'[t] = IF bk'[b].inUse THEN b ELSE NoBackend,
         BackendOK(bk'[b]), ThreadOK(t)', t \notin Permitted',
         \/ \A u \in Threads : pc'[u] # "asleep"
         \/ /\ pc'[t] # "asleep" /\ stranded' = stranded
            /\ bk'[b].inUse
            /\ bk[b].inUse => \A q : HasQuery(bk[b], q) => HasQuery(bk'[b], q)
  PROVE  ClassInv'
  <1>1. TypeOK /\ b \in Backends /\ Listed \subseteq Backends /\ Listed' = Listed
    BY DEF ClassInv, TypeOK, Listed, ToSet
  <1>2. ListInjective' /\ Started'
    BY DEF ClassInv, ListInjective, Started
  <1>3. \A c \in Listed' : BackendOK(bk'[c])
    BY <1>1 DEF ClassInv
  <1>4. \A u \in Threads : u # t => be'[u] = be[u]
    BY DEF OtherThreads
  <1>5. OneHolder'
    <2>1. ASSUME NEW u \in Threads, be'[u] # NoBackend
          PROVE  be'[u] \in Listed /\ bk'[be'[u]].inUse /\ \A v \in Threads : be'[v] = be'[u] => v = u
      <3>1. CASE u = t
        <4>1. be'[u] = b /\ bk'[b].inUse
          BY <2>1, <3>1
        <4>2. \A v \in Threads : be'[v] = b => v = t
          BY <1>4
        <4> QED
          BY <3>1, <4>1, <4>2
      <3>2. CASE u # t
        <4>1. be'[u] = be[u] /\ be[u] # b /\ be[u] \in Listed /\ bk[be[u]].inUse
          BY <1>4, <2>1, <3>2 DEF ClassInv, OneHolder, Listed
        <4>2. bk'[be[u]] = bk[be[u]]
          BY <1>1, <4>1
        <4>3. ASSUME NEW v \in Threads, be'[v] = be'[u]
              PROVE  v = u
          <5>1. v # t
            BY <4>1, <4>3, NullAssumption, <2>1
          <5> QED
            BY <1>4, <2>1, <4>1, <4>3, <5>1 DEF ClassInv, OneHolder
        <4> QED
          BY <4>1, <4>2, <4>3
      <3> QED
        BY <3>1, <3>2
    <2>2. ASSUME NEW c \in Listed, bk'[c].inUse
          PROVE  \E u \in Threads : be'[u] = c
      <3>1. CASE c = b
        BY <2>2, <3>1
      <3>2. CASE c # b
        <4>1. PICK u \in Threads : be[u] = c
          BY <1>1, <2>2, <3>2 DEF ClassInv, OneHolder, Listed
        <4>2. u # t
          BY <1>1, <3>2, <4>1, NullAssumption
        <4> QED
          BY <1>4, <4>1, <4>2
      <3> QED
        BY <3>1, <3>2
    <2> QED
      BY <1>1, <2>1, <2>2 DEF OneHolder, Listed
  <1>6. ASSUME NEW u \in Threads
        PROVE  ThreadOK(u)'
    <2>1. CASE u # t
      <3>1. be[u] # NoBackend => bk'[be[u]] = bk[be[u]]
        BY <1>1, <2>1 DEF TypeOK
      <3> QED
        BY <2>1, <3>1, ThreadsKeep
    <2> QED
      BY <2>1
  <1>7. PermittedBounded'
    <2>1. list' \in Seq(Backends) /\ Len(list') <= Len(list)
      BY <1>1 DEF TypeOK
    <2> QED
      BY <2>1, PermittedKeep
  <1>8. Waker'
    <2> SUFFICES ASSUME NEW u \in Threads, pc'[u] = "asleep", u \notin stranded'
                 PROVE  \E c \in Listed : bk'[c].inUse /\ HasQuery(bk'[c], qry'[u])
      BY <1>1 DEF Waker
    <2>1. /\ pc'[t] # "asleep" /\ stranded' = stranded /\ bk'[b].inUse
          /\ bk[b].inUse => \A q : HasQuery(bk[b], q) => HasQuery(bk'[b], q)
      OBVIOUS
    <2>2. pc[u] = "asleep" /\ u \notin stranded /\ qry'[u] = qry[u]
      BY <2>1 DEF OtherThreads
    <2>3. PICK c \in Listed : bk[c].inUse /\ HasQuery(bk[c], qry[u])
      BY <2>2 DEF ClassInv, Waker
    <2>4. CASE c = b
      BY <2>1, <2>2, <2>3, <2>4
    <2>5. CASE c # b
      BY <1>1, <2>2, <2>3, <2>5
    <2> QED
      BY <2>4, <2>5
  <1> QED
    BY <1>2, <1>3, <1>5, <1>6, <1>7, <1>8 DEF ClassInv

\* A listed backend is an object of the class; an idle one is nobody's.
LEMMA ListedFacts ==
  ASSUME ClassInv, NEW b \in Listed
  PROVE  /\ b \in Backends /\ b # NoBackend
         /\ bk[b] \in Backend /\ BackendOK(bk[b])
         /\ bk[b].sets \in Seq(Set)
         /\ DOMAIN bk[b].sets = 1 .. Len(bk[b].sets) /\ Len(bk[b].sets) \in Nat
         /\ ~bk[b].inUse => \A u \in Threads : be[u] # b
  <1>1. TypeOK /\ b \in Backends
    BY DEF ClassInv, TypeOK, Listed, ToSet
  <1>2. bk[b] \in Backend /\ BackendOK(bk[b])
    BY <1>1 DEF ClassInv, TypeOK
  <1>3. bk[b].sets \in Seq(Set)
    BY <1>2 DEF Backend
  <1>4. DOMAIN bk[b].sets = 1 .. Len(bk[b].sets) /\ Len(bk[b].sets) \in Nat
    BY <1>3
  <1>5. ~bk[b].inUse => \A u \in Threads : be[u] # b
    BY <1>1, NullAssumption DEF ClassInv, OneHolder
  <1> QED
    BY <1>1, <1>2, <1>3, <1>4, <1>5, NullAssumption

\* A backend that is only marked
LEMMA MarkFacts ==
  ASSUME NEW x \in Backend, NEW u \in BOOLEAN
  PROVE  LET y == [x EXCEPT !.inUse = u]
         IN  /\ y \in Backend /\ y.inUse = u /\ y.sets = x.sets
             /\ y.target = x.target /\ y.sequence = x.sequence
             /\ BackendOK(x) => BackendOK(y)
  BY DEF Backend, BackendOK

\* A set leaves m_sets and its name goes to a new search.
LEMMA DropFacts ==
  ASSUME NEW x \in Backend, BackendOK(x), NEW k \in DOMAIN x.sets
  PROVE  LET y == [x EXCEPT !.inUse = TRUE, !.sets = RemoveAt(x.sets, k)]
         IN  /\ y \in Backend /\ y.inUse
             /\ BackendOK(y)
             /\ x.sets[k].id \in Ids /\ NameFree(y, x.sets[k].id)
  <1> DEFINE s == x.sets
             r == RemoveAt(s, k)
             y == [x EXCEPT !.inUse = TRUE, !.sets = RemoveAt(x.sets, k)]
  <1>1. s \in Seq(Set) /\ DOMAIN s = 1 .. Len(s) /\ Len(s) \in Nat
    BY DEF Backend
  <1>2. /\ r \in Seq(Set)
        /\ Len(r) = Len(s) - 1
        /\ DOMAIN r = 1 .. Len(s) - 1
        /\ \A i \in 1 .. Len(s) - 1 : r[i] = IF i < k THEN s[i] ELSE s[i + 1]
    BY <1>1, RemoveAtFacts
  <1>3. y \in Backend /\ y.inUse /\ y.sets = r /\ y.target = x.target /\ y.sequence = x.sequence
    BY <1>2 DEF Backend
  <1>4. s[k].id \in Ids
    <2>1. s[k] \in Set
      BY <1>1
    <2> QED
      BY <2>1 DEF Set
  <1> HIDE DEF r, y
  <1> DEFINE old(i) == IF i < k THEN i ELSE i + 1
  <1>5. ASSUME NEW i \in DOMAIN r
        PROVE  old(i) \in DOMAIN s /\ old(i) # k /\ r[i] = s[old(i)]
    BY <1>1, <1>2
  <1>6. ASSUME NEW i \in DOMAIN r, NEW j \in DOMAIN r, old(i) = old(j)
        PROVE  i = j
    BY <1>1, <1>2, <1>6
  <1> HIDE DEF old
  <1>7. BackendOK(y)
    <2>1. ASSUME NEW i \in DOMAIN r
          PROVE  /\ x.target[r[i].id] = r[i].q
                 /\ r[i].records \in {NoQuery, r[i].q}
                 /\ r[i].id <= x.sequence
                 /\ \A j \in DOMAIN r : r[i].id = r[j].id => i = j
      BY <1>5, <1>6 DEF BackendOK
    <2>2. Len(r) <= SetLimit
      BY <1>1, <1>2, ParameterAssumption DEF BackendOK, SetLimit
    <2> QED
      BY <1>3, <2>1, <2>2 DEF BackendOK
  <1>8. NameFree(y, s[k].id)
    <2>1. \A i \in DOMAIN r : r[i].id # s[k].id
      BY <1>5 DEF BackendOK
    <2>2. Len(r) < SetLimit
      BY <1>1, <1>2, ParameterAssumption DEF BackendOK, SetLimit
    <2>3. s[k].id <= x.sequence
      BY DEF BackendOK
    <2> QED
      BY <1>3, <2>1, <2>2, <2>3 DEF NameFree
  <1> QED
    BY <1>3, <1>4, <1>7, <1>8 DEF y

\* A successful search: the target has the set and m_sets says so.
LEMMA AddFacts ==
  ASSUME NEW x \in Backend, BackendOK(x), NEW id \in Ids, NEW q \in Queries, NameFree(x, id)
  PROVE  LET y == [x EXCEPT !.target = [x.target EXCEPT ![id] = q],
                            !.sets = Append(x.sets, [id |-> id, q |-> q, records |-> NoQuery])]
         IN  /\ y \in Backend /\ y.inUse = x.inUse
             /\ BackendOK(y)
             /\ HasSet(y, id, q)
             /\ \A p : HasQuery(x, p) => HasQuery(y, p)
  <1> DEFINE s == x.sets
             n == [id |-> id, q |-> q, records |-> NoQuery]
             r == Append(s, n)
             g == [x.target EXCEPT ![id] = q]
             y == [x EXCEPT !.target = [x.target EXCEPT ![id] = q],
                            !.sets = Append(x.sets, [id |-> id, q |-> q, records |-> NoQuery])]
  <1>1. s \in Seq(Set) /\ DOMAIN s = 1 .. Len(s) /\ Len(s) \in Nat
    BY DEF Backend
  <1>2. n \in Set /\ n.id = id /\ n.q = q /\ n.records = NoQuery
    BY DEF Set, QueryOrNone
  <1> HIDE DEF n
  <1>3. /\ r \in Seq(Set) /\ Len(r) = Len(s) + 1 /\ DOMAIN r = 1 .. Len(s) + 1
        /\ r[Len(s) + 1] = n /\ \A i \in 1 .. Len(s) : r[i] = s[i]
    BY <1>1, <1>2, AppendFacts
  <1>4. x.target \in [Ids -> QueryOrNone]
    BY DEF Backend
  <1>5. g \in [Ids -> QueryOrNone] /\ g[id] = q /\ \A i \in Ids : i # id => g[i] = x.target[i]
    BY <1>4 DEF QueryOrNone
  <1> HIDE DEF r, g
  <1>6. y = [x EXCEPT !.target = g, !.sets = r]
    BY DEF g, r, n
  <1>7. y \in Backend /\ y.inUse = x.inUse /\ y.sets = r /\ y.target = g /\ y.sequence = x.sequence
    BY <1>3, <1>5, <1>6 DEF Backend
  <1> HIDE DEF y
  <1>8. ASSUME NEW i \in DOMAIN s
        PROVE  s[i].id \in Ids /\ s[i].id # id
    <2>1. s[i] \in Set
      BY <1>1
    <2> QED
      BY <2>1 DEF NameFree, Set
  <1>9. BackendOK(y)
    <2>1. ASSUME NEW i \in DOMAIN r
          PROVE  /\ g[r[i].id] = r[i].q
                 /\ r[i].records \in {NoQuery, r[i].q}
                 /\ r[i].id <= x.sequence
                 /\ \A j \in DOMAIN r : r[i].id = r[j].id => i = j
      <3>1. CASE i = Len(s) + 1
        <4>1. r[i] = n /\ id <= x.sequence
          BY <1>3, <3>1 DEF NameFree
        <4>2. ASSUME NEW j \in DOMAIN r, r[i].id = r[j].id
              PROVE  i = j
          BY <1>1, <1>2, <1>3, <1>8, <3>1, <4>1, <4>2
        <4> QED
          BY <1>2, <1>5, <4>1, <4>2
      <3>2. CASE i # Len(s) + 1
        <4>1. i \in DOMAIN s /\ r[i] = s[i]
          BY <1>1, <1>3, <3>2
        <4>2. g[s[i].id] = s[i].q /\ s[i].records \in {NoQuery, s[i].q} /\ s[i].id <= x.sequence
          BY <1>5, <1>8, <4>1 DEF BackendOK
        <4>3. ASSUME NEW j \in DOMAIN r, r[i].id = r[j].id
              PROVE  i = j
          <5>1. j # Len(s) + 1
            BY <1>2, <1>3, <1>8, <4>1, <4>3
          <5>2. j \in DOMAIN s /\ r[j] = s[j]
            BY <1>1, <1>3, <5>1
          <5> QED
            BY <4>1, <4>3, <5>2 DEF BackendOK
        <4> QED
          BY <4>1, <4>2, <4>3
      <3> QED
        BY <3>1, <3>2
    <2>2. Len(r) <= SetLimit
      BY <1>1, <1>3, ParameterAssumption DEF NameFree, SetLimit
    <2> QED
      BY <1>7, <2>1, <2>2 DEF BackendOK
  <1>10. HasSet(y, id, q)
    <2>1. Len(s) + 1 \in DOMAIN r
      BY <1>1, <1>3
    <2> QED
      BY <1>2, <1>3, <1>7, <2>1 DEF HasSet
  <1>11. ASSUME NEW p, HasQuery(x, p)
         PROVE  HasQuery(y, p)
    <2>1. PICK i \in DOMAIN s : s[i].q = p
      BY <1>11 DEF HasQuery
    <2>2. i \in DOMAIN r /\ r[i] = s[i]
      BY <1>1, <1>3, <2>1
    <2> QED
      BY <1>7, <2>1, <2>2 DEF HasQuery
  <1> QED
    BY <1>7, <1>9, <1>10, <1>11 DEF y

\* scan takes an idle backend.
LEMMA StartScanInv ==
  ASSUME ClassInv, NEW t \in Threads, StartScan(t)
  PROVE  ClassInv'
  <1>1. TypeOK /\ ThreadOK(t)
    BY DEF ClassInv
  <1>2. PICK b \in IdleBackends : /\ bk' = [bk EXCEPT ![b].inUse = TRUE]
                                  /\ be' = [be EXCEPT ![t] = b]
    BY DEF StartScan
  <1>3. b \in Listed /\ ~bk[b].inUse
    BY DEF IdleBackends, Listed
  <1>4. b \in Backends /\ bk[b] \in Backend /\ BackendOK(bk[b]) /\ \A u \in Threads : be[u] # b
    BY <1>3, ListedFacts
  <1>5. pc[t] = "idle" /\ be[t] = NoBackend
    BY <1>1 DEF StartScan, ThreadOK, Holding
  <1>6. bk'[b] = [bk[b] EXCEPT !.inUse = TRUE] /\ \A c \in Backends : c # b => bk'[c] = bk[c]
    BY <1>1, <1>2, <1>4 DEF TypeOK
  <1>7. bk'[b] \in Backend /\ bk'[b].inUse /\ bk'[b].sets = bk[b].sets /\ BackendOK(bk'[b])
    BY <1>4, <1>6, MarkFacts
  <1>8. TypeOK'
    <2>1. bk' \in [Backends -> Backend] /\ be' \in [Threads -> Backends \cup {NoBackend}]
      BY <1>1, <1>2, <1>4, <1>6, <1>7 DEF TypeOK
    <2>2. /\ pc' \in [Threads -> PC] /\ op' \in [Threads -> {"init", "search", "present", "scan"}]
          /\ reqs' \in [Threads -> 0 .. MaxReqs]
      BY <1>1, ParameterAssumption DEF TypeOK, StartScan, GoTo, PC
    <2>3. qry' \in [Threads -> QueryOrNone] /\ answer' \in [Threads -> QueryOrNone]
      BY <1>1 DEF TypeOK, StartScan, QueryOrNone
    <2> QED
      BY <1>1, <2>1, <2>2, <2>3 DEF TypeOK, StartScan
  <1>9. OtherThreads(t)
    BY <1>1, <1>2 DEF OtherThreads, StartScan, TypeOK, GoTo
  <1>10. /\ pc'[t] = "scanning" /\ be'[t] = b /\ answer'[t] = NoQuery
    BY <1>1, <1>2 DEF StartScan, TypeOK, GoTo
  <1>11. ThreadOK(t)' /\ t \notin Permitted'
    BY <1>4, <1>10, NullAssumption DEF ThreadOK, Holding, InSet, Permitted
  <1>12. list' = list /\ succeeded' = succeeded /\ named' = named /\ stranded' = stranded
    BY DEF StartScan
  <1> QED
    BY <1>3, <1>4, <1>5, <1>6, <1>7, <1>8, <1>9, <1>10, <1>11, <1>12, OneBackend, ZenonT(60)

\* get_set finds a set of the same query on an idle backend.
LEMMA FindSetInv ==
  ASSUME ClassInv, NEW t \in Threads, FindSet(t)
  PROVE  ClassInv'
  <1> DEFINE b == FirstMatch(t)
             I == {j \in DOMAIN bk[b].sets : bk[b].sets[j].q = qry[t]}
             i == Min(I)
             s == bk[b].sets[i]
  <1>1. TypeOK /\ ThreadOK(t)
    BY DEF ClassInv
  <1>2. b \in Listed /\ HasQuery(bk[b], qry[t]) /\ ~bk[b].inUse
    BY <1>1, FirstMatchFacts DEF FindSet
  <1>3. /\ b \in Backends /\ bk[b] \in Backend /\ BackendOK(bk[b])
        /\ bk[b].sets \in Seq(Set) /\ DOMAIN bk[b].sets \subseteq Nat
        /\ \A u \in Threads : be[u] # b
    BY <1>2, ListedFacts
  <1>4. i \in DOMAIN bk[b].sets /\ s.q = qry[t]
    <2>1. I \in SUBSET Nat /\ I # {}
      BY <1>2, <1>3 DEF HasQuery
    <2> QED
      BY <2>1, MinFacts
  <1>5. s.id \in Ids /\ s.records \in {NoQuery, qry[t]}
    <2> HIDE DEF b, I, i
    <2>1. s \in Set
      BY <1>3, <1>4
    <2> QED
      BY <1>3, <1>4, <2>1 DEF Set, BackendOK
  <1>6. /\ pc[t] \in {"getset", "woken"} /\ be[t] = NoBackend
        /\ op[t] \in {"search", "present"} /\ qry[t] \in Queries
        /\ answer[t] \in {NoQuery, qry[t]}
    BY <1>1 DEF FindSet, InGetSet, ThreadOK, Holding, InSet
  <1>7. /\ be' = [be EXCEPT ![t] = b]
        /\ rs' = [rs EXCEPT ![t] = s.id]
        /\ bk' = [bk EXCEPT ![b].inUse = TRUE]
        /\ \/ /\ fset' = [fset EXCEPT ![t] = qry[t]]
              /\ GoTo(t, "replying")
              /\ UNCHANGED answer
           \/ /\ answer' = [answer EXCEPT ![t] = s.records]
              /\ GoTo(t, "replying")
              /\ UNCHANGED fset
           \/ /\ GoTo(t, "presenting")
              /\ UNCHANGED <<answer, fset>>
        /\ UNCHANGED <<list, named, succeeded, initResp, op, qry, outOf, again, reqs, stranded>>
    BY DEF FindSet, AnswerFromCache, AskTarget
  <1> HIDE DEF b, s
  <1>8. bk'[b] = [bk[b] EXCEPT !.inUse = TRUE] /\ \A c \in Backends : c # b => bk'[c] = bk[c]
    BY <1>1, <1>3, <1>7 DEF TypeOK
  <1>9. bk'[b] \in Backend /\ bk'[b].inUse /\ bk'[b].sets = bk[b].sets /\ BackendOK(bk'[b])
    BY <1>3, <1>8, MarkFacts
  <1>10. TypeOK'
    <2>1. bk' \in [Backends -> Backend] /\ be' \in [Threads -> Backends \cup {NoBackend}]
      BY <1>1, <1>3, <1>7, <1>8, <1>9 DEF TypeOK
    <2>2. pc' \in [Threads -> PC] /\ rs' \in [Threads -> Ids \cup {NoId}]
      BY <1>1, <1>5, <1>7 DEF TypeOK, GoTo, PC
    <2>3. fset' \in [Threads -> QueryOrNone] /\ answer' \in [Threads -> QueryOrNone]
      BY <1>1, <1>5, <1>6, <1>7 DEF TypeOK, QueryOrNone
    <2> QED
      BY <1>1, <1>7, <2>1, <2>2, <2>3 DEF TypeOK
  <1>11. OtherThreads(t)
    BY <1>1, <1>7 DEF OtherThreads, TypeOK, GoTo
  <1>12. /\ pc'[t] \in {"replying", "presenting"} /\ be'[t] = b /\ rs'[t] = s.id
         /\ answer'[t] \in {NoQuery, qry[t]} /\ qry'[t] = qry[t] /\ op'[t] = op[t]
    BY <1>1, <1>5, <1>6, <1>7 DEF TypeOK, GoTo
  <1>13. HasSet(bk'[b], s.id, qry[t])
    BY <1>4, <1>9 DEF HasSet, s
  <1>14. ThreadOK(t)' /\ t \notin Permitted'
    BY <1>3, <1>5, <1>6, <1>12, <1>13, NullAssumption DEF ThreadOK, Holding, InSet, Permitted
  <1>15. pc'[t] # "asleep"
    BY <1>12
  <1> QED
    BY <1>2, <1>3, <1>6, <1>7, <1>8, <1>9, <1>10, <1>11, <1>12, <1>14, <1>15, OneBackend, ZenonT(60)

\* The common part of the two ways to get a backend for a new search
LEMMA SearchOn ==
  ASSUME ClassInv, NEW t \in Threads, NEW b \in Listed, ~bk[b].inUse, NEW id \in Ids, NEW y \in Backend,
         pc[t] \in {"getset", "woken"},
         bk' = [bk EXCEPT ![b] = y], be' = [be EXCEPT ![t] = b], rs' = [rs EXCEPT ![t] = id],
         GoTo(t, "searching"), y.inUse, BackendOK(y), NameFree(y, id),
         UNCHANGED <<list, named, succeeded, initResp, op, qry, outOf, again, fset, answer, reqs,
                     stranded>>
  PROVE  ClassInv'
  <1>1. TypeOK /\ ThreadOK(t)
    BY DEF ClassInv
  <1>2. b \in Backends /\ b # NoBackend /\ \A u \in Threads : be[u] # b
    BY ListedFacts
  <1>3. be[t] = NoBackend /\ op[t] \in {"search", "present"} /\ qry[t] \in Queries
        /\ answer[t] \in {NoQuery, qry[t]}
    BY <1>1 DEF ThreadOK, Holding, InSet
  <1>4. bk'[b] = y /\ \A c \in Backends : c # b => bk'[c] = bk[c]
    BY <1>1, <1>2 DEF TypeOK
  <1>5. TypeOK'
    <2>1. bk' \in [Backends -> Backend] /\ be' \in [Threads -> Backends \cup {NoBackend}]
      BY <1>1, <1>2 DEF TypeOK
    <2>2. pc' \in [Threads -> PC] /\ rs' \in [Threads -> Ids \cup {NoId}]
      BY <1>1 DEF TypeOK, GoTo, PC
    <2> QED
      BY <1>1, <2>1, <2>2 DEF TypeOK
  <1>6. OtherThreads(t)
    BY <1>1 DEF OtherThreads, TypeOK, GoTo
  <1>7. pc'[t] = "searching" /\ be'[t] = b /\ rs'[t] = id
    BY <1>1 DEF TypeOK, GoTo
  <1>8. ThreadOK(t)' /\ t \notin Permitted'
    BY <1>2, <1>3, <1>4, <1>7 DEF ThreadOK, Holding, InSet, Permitted
  <1> QED
    BY <1>2, <1>3, <1>4, <1>5, <1>6, <1>7, <1>8, OneBackend

\* override_set reuses a set of an idle backend.
LEMMA OverrideSetInv ==
  ASSUME ClassInv, NEW t \in Threads, OverrideSet(t)
  PROVE  ClassInv'
  <1>1. PICK p \in Reusable(qry[t]) :
            LET b == list[p[1]]
            IN  /\ be' = [be EXCEPT ![t] = b]
                /\ rs' = [rs EXCEPT ![t] = bk[b].sets[p[2]].id]
                /\ bk' = [bk EXCEPT ![b].inUse = TRUE, ![b].sets = DropSet(b, p[2])]
    BY DEF OverrideSet
  <1> DEFINE b == list[p[1]]
             k == p[2]
             y == [bk[b] EXCEPT !.inUse = TRUE, !.sets = RemoveAt(bk[b].sets, k)]
  <1>2. p[1] \in DOMAIN list /\ ~bk[b].inUse /\ k \in DOMAIN bk[b].sets
    BY DEF Reusable, SetsOf
  <1>3. b \in Listed
    BY <1>2 DEF Listed, ToSet
  <1>4. bk[b] \in Backend /\ BackendOK(bk[b]) /\ b \in Backends
    BY <1>3, ListedFacts
  <1>5. /\ y \in Backend /\ y.inUse /\ BackendOK(y)
        /\ bk[b].sets[k].id \in Ids /\ NameFree(y, bk[b].sets[k].id)
    BY <1>2, <1>4, DropFacts
  <1>6. bk' = [bk EXCEPT ![b] = y]
    BY <1>1, <1>4 DEF DropSet, ClassInv, TypeOK
  <1>7. /\ pc[t] \in {"getset", "woken"} /\ GoTo(t, "searching")
        /\ UNCHANGED <<list, named, succeeded, initResp, op, qry, outOf, again, fset, answer,
                       reqs, stranded>>
    BY DEF OverrideSet, InGetSet
  <1>8. be' = [be EXCEPT ![t] = b] /\ rs' = [rs EXCEPT ![t] = bk[b].sets[k].id]
    BY <1>1
  <1> HIDE DEF b, y, k
  <1> QED
    BY <1>2, <1>3, <1>5, <1>6, <1>7, <1>8, SearchOn

\* A new name, from the sequence of the backend, is free: the names in m_sets do not
\* exceed the sequence, and without names there is room for one set only.
LEMMA NewIdFree ==
  ASSUME TypeOK, Started, NEW b \in Backends, BackendOK(bk[b]), Len(bk[b].sets) < MaxSets
  PROVE  LET y == [bk[b] EXCEPT !.inUse = TRUE, !.sequence = NextSequence(b)]
         IN  y \in Backend /\ y.inUse /\ BackendOK(y) /\ NameFree(y, NewId(b))
  <1> DEFINE x == bk[b]
             y == [x EXCEPT !.inUse = TRUE, !.sequence = NextSequence(b)]
  <1>1. x \in Backend
    BY DEF TypeOK
  <1>2. x.sets \in Seq(Set) /\ x.sequence \in Nat
    BY <1>1 DEF Backend
  <1>3. DOMAIN x.sets = 1 .. Len(x.sets) /\ Len(x.sets) \in Nat
    BY <1>2
  <1>4. NextSequence(b) \in Nat /\ x.sequence <= NextSequence(b) /\ NewId(b) <= NextSequence(b)
    BY <1>2 DEF NextSequence, NewId, Default
  <1>5. /\ y \in Backend /\ y.inUse /\ y.sets = x.sets /\ y.target = x.target
        /\ y.sequence = NextSequence(b)
    BY <1>1, <1>4 DEF Backend
  <1>6. ASSUME NEW i \in DOMAIN x.sets
        PROVE  x.sets[i].id \in Int /\ x.sets[i].id <= x.sequence
    <2>1. x.sets[i] \in Set
      BY <1>2
    <2>2. x.sets[i].id \in Int
      BY <2>1, ParameterAssumption DEF Set, Ids
    <2> QED
      BY <2>2 DEF BackendOK
  <1>7. Len(x.sets) < SetLimit /\ Len(x.sets) <= SetLimit
    BY <1>3, ParameterAssumption DEF MaxSets, SetLimit, Started
  <1>8. ASSUME NEW i \in DOMAIN x.sets
        PROVE  x.sets[i].id # NewId(b)
    <2>1. CASE named
      BY <1>2, <1>6, <2>1 DEF NewId
    <2>2. CASE ~named
      BY <1>3, <2>2 DEF MaxSets
    <2> QED
      BY <2>1, <2>2
  <1> HIDE DEF y
  <1>9. BackendOK(y)
    <2>1. \A i \in DOMAIN x.sets : x.sets[i].id <= NextSequence(b)
      BY <1>2, <1>4, <1>6
    <2> QED
      BY <1>5, <1>7, <2>1 DEF BackendOK
  <1>10. NameFree(y, NewId(b))
    BY <1>4, <1>5, <1>7, <1>8 DEF NameFree
  <1> QED
    BY <1>5, <1>9, <1>10 DEF y

\* get_set adds a set to an idle backend with room.
LEMMA AddSetInv ==
  ASSUME ClassInv, NEW t \in Threads, AddSet(t)
  PROVE  ClassInv'
  <1> DEFINE b == list[Min(Roomy)]
             y == [bk[b] EXCEPT !.inUse = TRUE, !.sequence = NextSequence(b)]
  <1>1. TypeOK /\ Started
    BY DEF ClassInv
  <1>2. Min(Roomy) \in Roomy
    <2>1. Roomy \in SUBSET Nat /\ Roomy # {}
      <3>1. list \in Seq(Backends)
        BY <1>1 DEF TypeOK
      <3>2. DOMAIN list \subseteq Nat
        BY <3>1
      <3>3. Roomy \subseteq DOMAIN list
        BY DEF Roomy
      <3> QED
        BY <3>2, <3>3 DEF AddSet
    <2> QED
      BY <2>1, MinFacts
  <1>3. Min(Roomy) \in DOMAIN list /\ ~bk[b].inUse /\ Len(bk[b].sets) < MaxSets
    BY <1>2 DEF Roomy, SetsOf
  <1>4. b \in Listed
    BY <1>3 DEF Listed, ToSet
  <1>5. b \in Backends /\ BackendOK(bk[b])
    BY <1>4, ListedFacts
  <1>6. y \in Backend /\ y.inUse /\ BackendOK(y) /\ NameFree(y, NewId(b))
    BY <1>1, <1>3, <1>5, NewIdFree
  <1>7. bk' = [bk EXCEPT ![b] = y]
    BY <1>1, <1>5 DEF AddSet, TypeOK
  <1>8. /\ pc[t] \in {"getset", "woken"} /\ GoTo(t, "searching") /\ NewId(b) \in Ids
        /\ be' = [be EXCEPT ![t] = b] /\ rs' = [rs EXCEPT ![t] = NewId(b)]
        /\ UNCHANGED <<list, named, succeeded, initResp, op, qry, outOf, again, fset, answer,
                       reqs, stranded>>
    BY DEF AddSet, InGetSet
  <1> HIDE DEF b, y
  <1> QED
    BY <1>3, <1>4, <1>6, <1>7, <1>8, SearchOn

\* What a thread in a place where it holds a backend holds
LEMMA HolderFacts ==
  ASSUME ClassInv, NEW t \in Threads, pc[t] \in Holding
  PROVE  /\ be[t] \in Listed /\ be[t] \in Backends /\ be[t] # NoBackend
         /\ bk[be[t]] \in Backend /\ bk[be[t]].inUse /\ BackendOK(bk[be[t]])
         /\ \A u \in Threads : be[u] = be[t] => u = t
         /\ t \notin Permitted
  <1>1. TypeOK /\ ThreadOK(t) /\ OneHolder
    BY DEF ClassInv
  <1>2. be[t] # NoBackend /\ t \notin Permitted
    BY <1>1 DEF ThreadOK, Holding, Permitted
  <1>3. be[t] \in Listed /\ bk[be[t]].inUse /\ \A u \in Threads : be[u] = be[t] => u = t
    BY <1>1, <1>2 DEF OneHolder, Listed
  <1> QED
    BY <1>2, <1>3, ListedFacts

\* A step of a thread on the backend it holds and goes on to hold
LEMMA WorkOn ==
  ASSUME ClassInv, NEW t \in Threads, pc[t] \in Holding, NEW y \in Backend,
         bk' = [bk EXCEPT ![be[t]] = y], y.inUse, BackendOK(y),
         \A q : HasQuery(bk[be[t]], q) => HasQuery(y, q),
         NEW s \in Holding, GoTo(t, s), TypeOK', ThreadOK(t)', OtherThreads(t),
         UNCHANGED <<list, named, succeeded, be, stranded>>
  PROVE  ClassInv'
  <1>1. TypeOK
    BY DEF ClassInv
  <1>2. /\ be[t] \in Listed /\ be[t] \in Backends /\ \A u \in Threads : be[u] = be[t] => u = t
    BY HolderFacts
  <1>3. bk'[be[t]] = y /\ \A c \in Backends : c # be[t] => bk'[c] = bk[c]
    BY <1>1, <1>2 DEF TypeOK
  <1>4. pc'[t] = s
    BY <1>1 DEF TypeOK, GoTo
  <1>5. t \notin Permitted' /\ pc'[t] # "asleep"
    BY <1>4 DEF Permitted, Holding
  <1> QED
    BY <1>2, <1>3, <1>5, OneBackend

\* get_set names the first set of a new backend.
LEMMA NameSetInv ==
  ASSUME ClassInv, NEW t \in Threads, NameSet(t)
  PROVE  ClassInv'
  <1> DEFINE b == be[t]
             y == [bk[b] EXCEPT !.sequence = NextSequence(b)]
  <1>1. TypeOK /\ ThreadOK(t) /\ Started /\ pc[t] = "naming"
    BY DEF ClassInv, NameSet
  <1>2. /\ b \in Backends /\ b # NoBackend /\ bk[b] \in Backend /\ bk[b].inUse /\ BackendOK(bk[b])
    BY <1>1, HolderFacts DEF Holding
  <1>3. bk[b].sets = << >> /\ op[t] \in {"search", "present"} /\ qry[t] \in Queries
    BY <1>1 DEF ThreadOK, InSet
  <1>4. Len(bk[b].sets) < MaxSets
    BY <1>3, ParameterAssumption DEF MaxSets
  <1>5. y = [bk[b] EXCEPT !.inUse = TRUE, !.sequence = NextSequence(b)]
    BY <1>2 DEF Backend
  <1>6. y \in Backend /\ y.inUse /\ BackendOK(y) /\ NameFree(y, NewId(b))
    BY <1>1, <1>2, <1>4, <1>5, NewIdFree
  <1>7. /\ bk' = [bk EXCEPT ![b] = y]
        /\ rs' = [rs EXCEPT ![t] = NewId(b)] /\ NewId(b) \in Ids
        /\ GoTo(t, "searching")
        /\ UNCHANGED <<list, named, succeeded, initResp, op, qry, be, outOf, again, fset, answer,
                       reqs, stranded>>
    BY <1>1, <1>2 DEF NameSet, TypeOK
  <1>8. bk[b].sets = << >> /\ y.sets = << >>
    BY <1>2, <1>3 DEF Backend
  <1> HIDE DEF b, y
  <1>9. TypeOK'
    <2>1. bk' \in [Backends -> Backend] /\ rs' \in [Threads -> Ids \cup {NoId}]
      BY <1>1, <1>2, <1>6, <1>7 DEF TypeOK
    <2>2. pc' \in [Threads -> PC]
      BY <1>1, <1>7 DEF TypeOK, GoTo, PC
    <2> QED
      BY <1>1, <1>7, <2>1, <2>2 DEF TypeOK
  <1>10. OtherThreads(t)
    BY <1>1, <1>7 DEF OtherThreads, TypeOK, GoTo
  <1>11. pc'[t] = "searching" /\ be'[t] = b /\ rs'[t] = NewId(b) /\ bk'[b] = y
    BY <1>1, <1>2, <1>7 DEF TypeOK, GoTo, b
  <1>12. ThreadOK(t)'
    BY <1>1, <1>2, <1>3, <1>6, <1>7, <1>11 DEF ThreadOK, Holding, InSet
  <1>13. \A q : HasQuery(bk[b], q) => HasQuery(y, q)
    BY <1>8 DEF HasQuery
  <1>14. "searching" \in Holding /\ pc[t] \in Holding
    BY <1>1 DEF Holding
  <1> QED
    BY <1>6, <1>7, <1>9, <1>10, <1>12, <1>13, <1>14, WorkOn DEF b

\* The search succeeds.
LEMMA SearchOkInv ==
  ASSUME ClassInv, NEW t \in Threads, SearchOk(t)
  PROVE  ClassInv'
  <1> DEFINE b == be[t]
             x == bk[b]
             n == [id |-> rs[t], q |-> qry[t], records |-> NoQuery]
             y == [x EXCEPT !.target = [x.target EXCEPT ![rs[t]] = qry[t]],
                            !.sets = Append(x.sets, n)]
             s == IF op[t] = "search" THEN "replying" ELSE "presenting"
  <1>1. TypeOK /\ ThreadOK(t) /\ pc[t] = "searching"
    BY DEF ClassInv, SearchOk
  <1>2. b \in Backends /\ b # NoBackend /\ x \in Backend /\ x.inUse /\ BackendOK(x)
    BY <1>1, HolderFacts DEF Holding
  <1>3. /\ rs[t] \in Ids /\ NameFree(x, rs[t]) /\ op[t] \in {"search", "present"}
        /\ qry[t] \in Queries /\ answer[t] \in {NoQuery, qry[t]}
    BY <1>1 DEF ThreadOK, InSet
  <1>4. /\ y \in Backend /\ y.inUse = x.inUse /\ BackendOK(y) /\ HasSet(y, rs[t], qry[t])
        /\ \A p : HasQuery(x, p) => HasQuery(y, p)
    BY <1>2, <1>3, AddFacts
  <1>5. bk' = [bk EXCEPT ![b] = y]
    <2>1. bk \in [Backends -> Backend] /\ x.target \in [Ids -> QueryOrNone]
      BY <1>1, <1>2 DEF TypeOK, Backend
    <2>2. bk' = [Holds(be[t], rs[t], qry[t]) EXCEPT ![be[t]].sets = Append(@, n)]
      BY DEF SearchOk
    <2> HIDE DEF n
    <2> QED
      BY <1>2, <2>1, <2>2 DEF Holds, Backend
  <1>6. /\ fset' \in {fset, [fset EXCEPT ![t] = qry[t]]}
        /\ GoTo(t, s)
        /\ UNCHANGED <<list, named, succeeded, initResp, op, qry, be, rs, outOf, again, answer,
                       reqs, stranded>>
    BY DEF SearchOk
  <1> HIDE DEF b, x, y, n
  <1>7. s \in Holding /\ pc[t] \in Holding /\ s \in {"replying", "presenting"}
    BY <1>1 DEF Holding
  <1> HIDE DEF s
  <1>8. TypeOK'
    <2>1. bk' \in [Backends -> Backend]
      BY <1>1, <1>2, <1>4, <1>5 DEF TypeOK
    <2>2. pc' \in [Threads -> PC] /\ fset' \in [Threads -> QueryOrNone]
      BY <1>1, <1>3, <1>6, <1>7 DEF TypeOK, GoTo, PC, QueryOrNone
    <2> QED
      BY <1>1, <1>6, <2>1, <2>2 DEF TypeOK
  <1>9. OtherThreads(t)
    BY <1>1, <1>6 DEF OtherThreads, TypeOK, GoTo
  <1>10. pc'[t] = s /\ be'[t] = b /\ bk'[b] = y
    BY <1>1, <1>2, <1>5, <1>6 DEF TypeOK, GoTo, b
  <1>11. ThreadOK(t)'
    BY <1>2, <1>3, <1>4, <1>6, <1>7, <1>10 DEF ThreadOK, Holding, InSet
  <1>12. y.inUse
    BY <1>2, <1>4
  <1> QED
    BY <1>4, <1>5, <1>6, <1>7, <1>8, <1>9, <1>11, <1>12, WorkOn DEF b, x

\* A thread gives its backend back and wakes everybody.
LEMMA GiveBack ==
  ASSUME ClassInv, NEW t \in Threads, pc[t] \in Holding, NEW y \in Backend,
         bk' = [bk EXCEPT ![be[t]] = y], ~y.inUse, BackendOK(y),
         NEW s \in {"idle", "initReply"}, NotifyAllAndGo(t, s), Forget(t),
         NEW a \in {NoQuery, qry[t]}, answer' = [answer EXCEPT ![t] = a],
         UNCHANGED <<list, named, succeeded, initResp, op, qry, fset, reqs>>
  PROVE  ClassInv'
  <1>1. TypeOK
    BY DEF ClassInv
  <1>2. /\ be[t] \in Listed /\ be[t] \in Backends /\ \A u \in Threads : be[u] = be[t] => u = t
    BY HolderFacts
  <1>3. bk'[be[t]] = y /\ \A c \in Backends : c # be[t] => bk'[c] = bk[c]
    BY <1>1, <1>2 DEF TypeOK
  <1>4. TypeOK'
    <2>1. bk' \in [Backends -> Backend] /\ be' \in [Threads -> Backends \cup {NoBackend}]
      BY <1>1, <1>2 DEF TypeOK, Forget
    <2>2. pc' \in [Threads -> PC] /\ stranded' \subseteq Threads
      BY <1>1 DEF TypeOK, NotifyAllAndGo, PC
    <2>3. answer' \in [Threads -> QueryOrNone] /\ rs' \in [Threads -> Ids \cup {NoId}]
      BY <1>1 DEF TypeOK, QueryOrNone, Forget
    <2>4. outOf' \in [Threads -> BOOLEAN] /\ again' \in [Threads -> BOOLEAN]
      BY <1>1 DEF TypeOK, Forget
    <2> QED
      BY <1>1, <2>1, <2>2, <2>3, <2>4 DEF TypeOK
  <1>5. OtherThreads(t)
    BY <1>1 DEF TypeOK, OtherThreads, Forget, NotifyAllAndGo
  <1>6. pc'[t] = s /\ be'[t] = NoBackend /\ answer'[t] = a /\ qry'[t] = qry[t]
    BY <1>1 DEF TypeOK, Forget, NotifyAllAndGo
  <1>7. ThreadOK(t)' /\ t \notin Permitted'
    BY <1>6 DEF ThreadOK, Holding, InSet, Permitted
  <1>8. \A u \in Threads : pc'[u] # "asleep"
    BY DEF NotifyAllAndGo
  <1> QED
    BY <1>2, <1>3, <1>4, <1>5, <1>6, <1>7, <1>8, OneBackend

\* release_backend at the end of a request
LEMMA ReplyInv ==
  ASSUME ClassInv, NEW t \in Threads, Reply(t)
  PROVE  ClassInv'
  <1> DEFINE y == [bk[be[t]] EXCEPT !.inUse = FALSE]
  <1>1. TypeOK /\ ThreadOK(t) /\ pc[t] \in Holding
    BY DEF ClassInv, Reply, Holding
  <1>2. be[t] \in Backends /\ bk[be[t]] \in Backend /\ BackendOK(bk[be[t]])
    BY <1>1, HolderFacts
  <1>3. y \in Backend /\ ~y.inUse /\ BackendOK(y)
    BY <1>2, MarkFacts
  <1>4. bk' = [bk EXCEPT ![be[t]] = y] /\ answer' = [answer EXCEPT ![t] = answer[t]]
    BY <1>1, <1>2 DEF Reply, ReleaseBackend, TypeOK
  <1>5. answer[t] \in {NoQuery, qry[t]}
    BY <1>1 DEF ThreadOK
  <1>6. /\ NotifyAllAndGo(t, IF op[t] = "init" THEN "initReply" ELSE "idle") /\ Forget(t)
        /\ UNCHANGED <<list, named, succeeded, initResp, op, qry, fset, reqs>>
    BY DEF Reply
  <1> HIDE DEF y
  <1>7. (IF op[t] = "init" THEN "initReply" ELSE "idle") \in {"idle", "initReply"}
    OBVIOUS
  <1> QED
    BY <1>1, <1>3, <1>4, <1>5, <1>6, <1>7, GiveBack

\* The search gets a diagnostic: the name stays unused.
LEMMA SearchDiagInv ==
  ASSUME ClassInv, NEW t \in Threads, SearchDiag(t)
  PROVE  ClassInv'
  <1> DEFINE x == bk[be[t]]
             y == [x EXCEPT !.target = [x.target EXCEPT ![rs[t]] = NoQuery], !.inUse = FALSE]
  <1>1. TypeOK /\ ThreadOK(t) /\ pc[t] = "searching" /\ pc[t] \in Holding
    BY DEF ClassInv, SearchDiag, Holding
  <1>2. be[t] \in Backends /\ x \in Backend /\ BackendOK(x)
    BY <1>1, HolderFacts
  <1>3. rs[t] \in Ids /\ NameFree(x, rs[t]) /\ answer[t] \in {NoQuery, qry[t]}
    BY <1>1 DEF ThreadOK
  <1>4. x.target \in [Ids -> QueryOrNone] /\ x.sets \in Seq(Set)
    BY <1>2 DEF Backend
  <1>5. /\ y \in Backend /\ ~y.inUse /\ y.sets = x.sets /\ y.sequence = x.sequence
        /\ y.target = [x.target EXCEPT ![rs[t]] = NoQuery]
    BY <1>2, <1>4 DEF Backend, QueryOrNone
  <1>6. BackendOK(y)
    <2>1. ASSUME NEW i \in DOMAIN x.sets
          PROVE  y.target[x.sets[i].id] = x.target[x.sets[i].id]
      <3>1. x.sets[i] \in Set
        BY <1>4
      <3>2. x.sets[i].id \in Ids
        BY <3>1 DEF Set
      <3> QED
        BY <1>3, <1>4, <1>5, <3>2 DEF NameFree
    <2> QED
      <3> HIDE DEF x, y
      <3> QED
        BY <1>2, <1>5, <2>1 DEF BackendOK
  <1>7. bk' = [bk EXCEPT ![be[t]] = y]
    BY <1>1, <1>2, <1>4 DEF SearchDiag, Holds, TypeOK, Backend
  <1>8. answer' = [answer EXCEPT ![t] = answer[t]]
    BY <1>1 DEF SearchDiag, TypeOK
  <1>9. /\ NotifyAllAndGo(t, "idle") /\ Forget(t)
        /\ UNCHANGED <<list, named, succeeded, initResp, op, qry, fset, reqs>>
    BY DEF SearchDiag
  <1> HIDE DEF x, y
  <1> QED
    BY <1>1, <1>3, <1>5, <1>6, <1>7, <1>8, <1>9, GiveBack

\* Records come back: they are those of the set's query, and may be kept with it.
LEMMA PresentOkInv ==
  ASSUME ClassInv, NEW t \in Threads, PresentOk(t)
  PROVE  ClassInv'
  <1> DEFINE x == bk[be[t]]
             got == x.target[rs[t]]
             r(keep) == [i \in DOMAIN x.sets |->
                            IF keep /\ x.sets[i].id = rs[t]
                            THEN [x.sets[i] EXCEPT !.records = got]
                            ELSE x.sets[i]]
             y(keep) == [x EXCEPT !.inUse = FALSE, !.sets = r(keep)]
  <1>1. TypeOK /\ ThreadOK(t) /\ pc[t] = "presenting" /\ pc[t] \in Holding
    BY DEF ClassInv, PresentOk, Holding
  <1>2. be[t] \in Backends /\ x \in Backend /\ BackendOK(x)
    BY <1>1, HolderFacts
  <1>3. rs[t] \in Ids /\ HasSet(x, rs[t], qry[t]) /\ qry[t] \in Queries
    BY <1>1 DEF ThreadOK, InSet
  <1>4. x.target \in [Ids -> QueryOrNone] /\ x.sets \in Seq(Set)
    BY <1>2 DEF Backend
  <1>5. PICK keep \in BOOLEAN : bk' = [bk EXCEPT ![be[t]].inUse = FALSE, ![be[t]].sets = r(keep)]
    BY <1>1, <1>2 DEF PresentOk, TypeOK
  <1>6. bk' = [bk EXCEPT ![be[t]] = y(keep)]
    BY <1>1, <1>2, <1>5 DEF TypeOK
  <1>7. /\ answer' = [answer EXCEPT ![t] = got]
        /\ NotifyAllAndGo(t, "idle") /\ Forget(t)
        /\ UNCHANGED <<list, named, succeeded, initResp, op, qry, fset, reqs>>
    BY DEF PresentOk
  <1>8. PICK k \in DOMAIN x.sets : x.sets[k].id = rs[t] /\ x.sets[k].q = qry[t]
    BY <1>3 DEF HasSet
  <1>9. got = qry[t] /\ \A i \in DOMAIN x.sets : x.sets[i].id = rs[t] => x.sets[i].q = qry[t]
    BY <1>2, <1>8 DEF BackendOK
  <1>10. DOMAIN x.sets = 1 .. Len(x.sets) /\ Len(x.sets) \in Nat
    BY <1>4
  <1>11. ASSUME NEW i \in DOMAIN x.sets
         PROVE  /\ r(keep)[i] \in Set
                /\ r(keep)[i].id = x.sets[i].id /\ r(keep)[i].q = x.sets[i].q
                /\ r(keep)[i].records \in {NoQuery, x.sets[i].q}
    <2> HIDE DEF x, got
    <2>1. x.sets[i] \in Set
      BY <1>4
    <2>2. x.sets[i].records \in {NoQuery, x.sets[i].q}
      BY <1>2 DEF BackendOK
    <2> QED
      BY <1>3, <1>9, <2>1, <2>2 DEF Set, QueryOrNone
  <1>12. /\ r(keep) \in Seq(Set) /\ DOMAIN r(keep) = DOMAIN x.sets /\ Len(r(keep)) = Len(x.sets)
    <2> DEFINE n == Len(x.sets)
               f == r(keep)
    <2>1. f \in [1 .. n -> Set]
      <3> HIDE DEF x, got
      <3>1. DOMAIN f = DOMAIN x.sets /\ \A i \in DOMAIN x.sets : f[i] \in Set
        BY <1>11
      <3>2. f = [i \in DOMAIN x.sets |-> f[i]]
        OBVIOUS
      <3> HIDE DEF f
      <3> QED
        BY <1>10, <3>1, <3>2
    <2>2. n \in Nat
      BY <1>10
    <2> HIDE DEF f, n
    <2>3. f \in Seq(Set) /\ DOMAIN f = 1 .. n /\ Len(f) = n
      BY <2>1, <2>2
    <2> QED
      BY <1>10, <2>3 DEF f, n
  <1> HIDE DEF r
  <1>13. /\ y(keep) \in Backend /\ ~y(keep).inUse /\ y(keep).sets = r(keep)
         /\ y(keep).target = x.target /\ y(keep).sequence = x.sequence
    BY <1>2, <1>12 DEF Backend
  <1> HIDE DEF y, x, got
  <1>14. BackendOK(y(keep))
    BY <1>2, <1>11, <1>12, <1>13 DEF BackendOK
  <1> QED
    BY <1>1, <1>6, <1>7, <1>9, <1>13, <1>14, GiveBack

-----------------------------------------------------------------------------
(* Steps that change m_backend_list.                                       *)

\* create_backend succeeds.
LEMMA CreateOkInv ==
  ASSUME ClassInv, NEW t \in Threads, CreateOk(t)
  PROVE  ClassInv'
  <1>1. TypeOK /\ ThreadOK(t) /\ pc[t] = "creating" /\ be[t] = NoBackend
    BY DEF ClassInv, CreateOk, ThreadOK, Holding
  <1>2. PICK b \in Backends \ ToSet(list) :
            /\ list' = Append(list, b)
            /\ bk' = [bk EXCEPT ![b] = [Closed EXCEPT !.inUse = TRUE]]
            /\ be' = [be EXCEPT ![t] = b]
    BY DEF CreateOk
  <1> DEFINE y == [Closed EXCEPT !.inUse = TRUE]
  <1>3. y \in Backend /\ y.inUse /\ y.sets = << >> /\ BackendOK(y)
    BY ClosedFacts, MarkFacts DEF Closed
  <1>4. /\ bk' = [bk EXCEPT ![b] = y]
        /\ named' = NamedTarget /\ succeeded' = TRUE /\ initResp' \in {initResp, "ok"}
        /\ GoTo(t, AfterCreate(t))
        /\ UNCHANGED <<op, qry, rs, outOf, again, fset, answer, reqs, stranded>>
    BY <1>2 DEF CreateOk
  <1> HIDE DEF y
  <1>5. /\ list' \in Seq(Backends) /\ Len(list') = Len(list) + 1 /\ Len(list) \in Nat
        /\ DOMAIN list' = 1 .. Len(list) + 1 /\ DOMAIN list = 1 .. Len(list)
        /\ list'[Len(list) + 1] = b /\ \A i \in 1 .. Len(list) : list'[i] = list[i]
        /\ Listed' = Listed \cup {b}
    BY <1>1, <1>2, AppendFacts DEF TypeOK, Listed
  <1>6. b \notin Listed /\ b # NoBackend /\ Listed \subseteq Backends
    BY <1>1, <1>2, NullAssumption DEF Listed, ToSet, TypeOK
  <1>7. bk'[b] = y /\ \A c \in Backends : c # b => bk'[c] = bk[c]
    BY <1>1, <1>4 DEF TypeOK
  <1>8. AfterCreate(t) \in {"replying", "scanning", "naming"}
    BY DEF AfterCreate
  <1>9. TypeOK'
    <2>1. bk' \in [Backends -> Backend] /\ be' \in [Threads -> Backends \cup {NoBackend}]
      BY <1>1, <1>2, <1>3, <1>4 DEF TypeOK
    <2>2. pc' \in [Threads -> PC]
      BY <1>1, <1>4, <1>8 DEF TypeOK, GoTo, PC
    <2>3. named' \in BOOLEAN /\ succeeded' \in BOOLEAN
      BY <1>4, ParameterAssumption
    <2>4. initResp' \in {"none", "ok", "refused"}
      BY <1>1, <1>4 DEF TypeOK
    <2> QED
      BY <1>1, <1>4, <1>5, <2>1, <2>2, <2>3, <2>4 DEF TypeOK
  <1>10. OtherThreads(t)
    BY <1>1, <1>2, <1>4 DEF TypeOK, OtherThreads, GoTo
  <1>11. ListInjective'
    <2>1. \A i \in 1 .. Len(list) : list[i] # b
      BY <1>5, <1>6 DEF Listed, ToSet
    <2> QED
      BY <1>5, <2>1 DEF ClassInv, ListInjective
  <1>12. be'[t] = b /\ \A u \in Threads : u # t => be'[u] = be[u] /\ be[u] # b
    BY <1>1, <1>2, <1>6 DEF TypeOK, ClassInv, OneHolder, Listed
  <1>13. OneHolder'
    <2>1. ASSUME NEW u \in Threads, be'[u] # NoBackend
          PROVE  be'[u] \in Listed' /\ bk'[be'[u]].inUse /\ \A v \in Threads : be'[v] = be'[u] => v = u
      <3>1. CASE u = t
        BY <1>3, <1>5, <1>7, <1>12, <3>1
      <3>2. CASE u # t
        <4>1. be[u] \in Listed /\ bk[be[u]].inUse
          BY <1>12, <2>1, <3>2 DEF ClassInv, OneHolder, Listed
        <4>2. ASSUME NEW v \in Threads, be'[v] = be'[u]
              PROVE  v = u
          BY <1>12, <2>1, <3>2, <4>2 DEF ClassInv, OneHolder
        <4> QED
          BY <1>5, <1>6, <1>7, <1>12, <3>2, <4>1, <4>2
      <3> QED
        BY <3>1, <3>2
    <2>2. ASSUME NEW c \in Listed', bk'[c].inUse
          PROVE  \E u \in Threads : be'[u] = c
      <3>1. CASE c = b
        BY <1>12, <3>1
      <3>2. CASE c # b
        <4>1. PICK u \in Threads : be[u] = c
          BY <1>5, <1>6, <1>7, <2>2, <3>2 DEF ClassInv, OneHolder, Listed
        <4>2. u # t
          BY <1>1, <1>5, <1>6, <3>2, <4>1, NullAssumption
        <4> QED
          BY <1>12, <4>1, <4>2
      <3> QED
        BY <3>1, <3>2
    <2> QED
      BY <2>1, <2>2 DEF OneHolder, Listed
  <1>14. \A c \in Listed' : BackendOK(bk'[c])
    BY <1>3, <1>5, <1>6, <1>7 DEF ClassInv
  <1>15. ASSUME NEW u \in Threads
         PROVE  ThreadOK(u)'
    <2>1. CASE u = t
      <3>1. pc'[t] = AfterCreate(t) /\ op'[t] = op[t] /\ qry'[t] = qry[t] /\ answer'[t] = answer[t]
        BY <1>1, <1>4 DEF TypeOK, GoTo
      <3>2. AfterCreate(t) = "naming" => op[t] \in {"search", "present"}
        BY <1>1 DEF AfterCreate, TypeOK
      <3> QED
        BY <1>1, <1>3, <1>6, <1>7, <1>8, <1>12, <2>1, <3>1, <3>2 DEF ThreadOK, Holding, InSet
    <2>2. CASE u # t
      <3>1. be[u] # NoBackend => bk'[be[u]] = bk[be[u]]
        BY <1>1, <1>7, <1>12, <2>2 DEF TypeOK
      <3> QED
        BY <1>10, <2>2, <3>1, ThreadsKeep
    <2> QED
      BY <2>1, <2>2
  <1>16. PermittedBounded'
    <2>1. t \in Permitted /\ Permitted \subseteq Threads
      BY <1>1 DEF Permitted
    <2>2. Permitted' \subseteq Permitted \ {t}
      BY <1>1, <1>4, <1>8, <1>10 DEF Permitted, OtherThreads, TypeOK, GoTo
    <2>3. Permitted \ {t} \subseteq Threads
      BY <2>1
    <2>4. /\ Cardinality(Permitted \ {t}) = Cardinality(Permitted) - 1
          /\ Cardinality(Permitted) \in Nat /\ Cardinality(Threads) \in Nat
      BY <2>1, ThreadsCounted
    <2>5. Cardinality(Permitted') <= Cardinality(Permitted \ {t}) /\ Cardinality(Permitted') \in Nat
      BY <2>2, <2>3, ThreadsCounted
    <2> QED
      BY <1>5, <2>4, <2>5, ParameterAssumption DEF ClassInv, PermittedBounded
  <1>17. Started'
    BY <1>4 DEF Started
  <1>18. Waker'
    <2> SUFFICES ASSUME NEW u \in Threads, pc'[u] = "asleep", u \notin stranded'
                 PROVE  \E c \in Listed' : bk'[c].inUse /\ HasQuery(bk'[c], qry'[u])
      BY DEF Waker
    <2>1. pc[u] = "asleep" /\ u \notin stranded /\ qry'[u] = qry[u]
      BY <1>1, <1>4, <1>8, <1>10 DEF OtherThreads, TypeOK, GoTo
    <2>2. PICK c \in Listed : bk[c].inUse /\ HasQuery(bk[c], qry[u])
      BY <2>1 DEF ClassInv, Waker
    <2> QED
      BY <1>5, <1>6, <1>7, <2>1, <2>2
  <1> QED
    BY <1>9, <1>11, <1>13, <1>14, <1>15, <1>16, <1>17, <1>18 DEF ClassInv

\* A backend that nobody holds any more leaves m_backend_list.
LEMMA Removed ==
  ASSUME ClassInv, NEW b \in Listed, EraseBackend(b), be' \in [Threads -> Backends \cup {NoBackend}],
         \A u \in Threads : be'[u] = IF be[u] = b THEN NoBackend ELSE be[u],
         succeeded' = succeeded, named' = named
  PROVE  /\ list' \in Seq(Backends) /\ bk' \in [Backends -> Backend]
         /\ Len(list') <= Len(list) /\ Listed' = Listed \ {b}
         /\ \A c \in Backends : c # b => bk'[c] = bk[c]
         /\ ListInjective' /\ OneHolder' /\ \A c \in Listed' : BackendOK(bk'[c])
         /\ Started'
  <1>1. TypeOK /\ ListInjective /\ b \in Backends /\ Listed \subseteq Backends
    BY DEF ClassInv, TypeOK, Listed, ToSet
  <1>2. /\ list' \in Seq(Backends) /\ Len(list') = Len(list) - 1 /\ Len(list) > 0
        /\ Listed' = Listed \ {b} /\ ListInjective'
    BY <1>1, EraseFacts DEF TypeOK
  <1>3. Len(list') <= Len(list) /\ list # << >>
    BY <1>1, <1>2 DEF TypeOK
  <1>4. bk' = [bk EXCEPT ![b] = Closed]
    BY DEF EraseBackend
  <1>5. bk' \in [Backends -> Backend] /\ \A c \in Backends : c # b => bk'[c] = bk[c]
    BY <1>1, <1>4, ClosedFacts DEF TypeOK
  <1>6. \A c \in Listed' : BackendOK(bk'[c])
    BY <1>1, <1>2, <1>5 DEF ClassInv
  <1>7. OneHolder'
    <2>1. ASSUME NEW u \in Threads, be'[u] # NoBackend
          PROVE  be'[u] \in Listed' /\ bk'[be'[u]].inUse /\ \A v \in Threads : be'[v] = be'[u] => v = u
      <3>1. be'[u] = be[u] /\ be[u] # b
        BY <2>1
      <3>2. be[u] \in Listed /\ bk[be[u]].inUse
        BY <2>1, <3>1 DEF ClassInv, OneHolder, Listed
      <3>3. ASSUME NEW v \in Threads, be'[v] = be'[u]
            PROVE  v = u
        BY <2>1, <3>1, <3>3 DEF ClassInv, OneHolder
      <3> QED
        BY <1>1, <1>2, <1>5, <3>1, <3>2, <3>3
    <2>2. ASSUME NEW c \in Listed', bk'[c].inUse
          PROVE  \E u \in Threads : be'[u] = c
      <3>1. c \in Listed /\ c # b /\ bk[c].inUse
        BY <1>1, <1>2, <1>5, <2>2
      <3>2. PICK u \in Threads : be[u] = c
        BY <3>1 DEF ClassInv, OneHolder, Listed
      <3> QED
        BY <3>1, <3>2
    <2> QED
      BY <2>1, <2>2 DEF OneHolder, Listed
  <1>8. Started'
    BY <1>3 DEF ClassInv, Started
  <1> QED
    BY <1>2, <1>3, <1>5, <1>6, <1>7, <1>8

\* remove_backend: the target is lost, or the search begins again.
LEMMA RemoveInv ==
  ASSUME ClassInv, NEW t \in Threads,
         SearchRestart(t) \/ SearchLost(t) \/ PresentLost(t) \/ ScanLost(t)
  PROVE  ClassInv'
  <1> USE DEF RemoveAndGo, Forget, Disconnect, GoTo
  <1>1. TypeOK /\ ThreadOK(t) /\ pc[t] \in {"searching", "presenting", "scanning"}
    BY DEF ClassInv, SearchRestart, SearchLost, PresentLost, ScanLost
  <1> DEFINE b == be[t]
  <1>2. b \in Listed /\ b \in Backends /\ \A u \in Threads : be[u] = b => u = t
    BY <1>1, HolderFacts DEF Holding
  <1>3. /\ EraseBackend(b)
        /\ be' = [be EXCEPT ![t] = NoBackend]
        /\ stranded' = {u \in Threads : pc[u] = "asleep"}
        /\ outOf' = [outOf EXCEPT ![t] = FALSE]
        /\ UNCHANGED <<named, succeeded, initResp, op, reqs>>
    BY DEF SearchRestart, SearchLost, PresentLost, ScanLost
  <1>4. /\ be' \in [Threads -> Backends \cup {NoBackend}]
        /\ \A u \in Threads : be'[u] = IF be[u] = b THEN NoBackend ELSE be[u]
    BY <1>1, <1>2, <1>3 DEF TypeOK
  <1>5. /\ list' \in Seq(Backends) /\ bk' \in [Backends -> Backend]
        /\ Len(list') <= Len(list)
        /\ \A c \in Backends : c # b => bk'[c] = bk[c]
        /\ ListInjective' /\ OneHolder' /\ \A c \in Listed' : BackendOK(bk'[c])
        /\ Started'
    BY <1>2, <1>3, <1>4, Removed
  <1>6. TypeOK'
    <2>1. pc' \in [Threads -> PC] /\ stranded' \subseteq Threads
      BY <1>1, <1>3 DEF TypeOK, PC, SearchRestart, SearchLost, PresentLost, ScanLost
    <2>2. rs' \in [Threads -> Ids \cup {NoId}]
      BY <1>1 DEF TypeOK, SearchRestart, SearchLost, PresentLost, ScanLost
    <2>3. outOf' \in [Threads -> BOOLEAN] /\ again' \in [Threads -> BOOLEAN]
      BY <1>1, <1>3 DEF TypeOK, SearchRestart, SearchLost, PresentLost, ScanLost
    <2>4. /\ qry' \in [Threads -> QueryOrNone] /\ fset' \in [Threads -> QueryOrNone]
          /\ answer' \in [Threads -> QueryOrNone]
      BY <1>1 DEF TypeOK, QueryOrNone, SearchRestart, SearchLost, PresentLost, ScanLost
    <2> QED
      BY <1>1, <1>3, <1>4, <1>5, <2>1, <2>2, <2>3, <2>4 DEF TypeOK
  <1>7. OtherThreads(t)
    BY <1>1 DEF TypeOK, OtherThreads, SearchRestart, SearchLost, PresentLost, ScanLost
  <1>8. /\ pc'[t] \in {"getset", "idle", "new"} /\ be'[t] = NoBackend
        /\ answer'[t] \in {NoQuery, qry'[t]} /\ op'[t] = op[t]
        /\ pc'[t] = "getset" => pc[t] = "searching" /\ qry'[t] = qry[t]
    BY <1>1 DEF TypeOK, ThreadOK, SearchRestart, SearchLost, PresentLost, ScanLost
  <1>9. ASSUME NEW u \in Threads
        PROVE  ThreadOK(u)'
    <2>1. CASE u = t
      BY <1>1, <1>8, <2>1 DEF ThreadOK, Holding, InSet
    <2>2. CASE u # t
      <3>1. be[u] # NoBackend => bk'[be[u]] = bk[be[u]]
        BY <1>1, <1>2, <1>5, <2>2 DEF TypeOK
      <3> QED
        BY <1>7, <2>2, <3>1, ThreadsKeep
    <2> QED
      BY <2>1, <2>2
  <1>10. PermittedBounded'
    <2>1. t \notin Permitted'
      BY <1>8 DEF Permitted
    <2> QED
      BY <1>5, <1>7, <2>1, PermittedKeep
  <1>11. Waker'
    BY <1>3, <1>7, <1>8 DEF Waker, OtherThreads
  <1> QED
    BY <1>5, <1>6, <1>9, <1>10, <1>11 DEF ClassInv

\* expire_instances
LEMMA ExpireInv ==
  ASSUME ClassInv, ExpireIdle
  PROVE  ClassInv'
  <1>1. TypeOK
    BY DEF ClassInv
  <1>2. PICK b \in IdleBackends : EraseBackend(b)
    BY DEF ExpireIdle, Expirable
  <1>3. b \in Listed /\ ~bk[b].inUse
    BY DEF IdleBackends, Listed
  <1>4. b \in Backends /\ \A u \in Threads : be[u] # b
    BY <1>3, ListedFacts
  <1>5. UNCHANGED <<named, succeeded, initResp, pc, op, qry, be, rs, outOf, again, fset, answer,
                    reqs, stranded>>
    BY DEF ExpireIdle, thread
  <1>6. /\ list' \in Seq(Backends) /\ bk' \in [Backends -> Backend]
        /\ Len(list') <= Len(list) /\ Listed' = Listed \ {b}
        /\ \A c \in Backends : c # b => bk'[c] = bk[c]
        /\ ListInjective' /\ OneHolder' /\ \A c \in Listed' : BackendOK(bk'[c])
        /\ Started'
    BY <1>1, <1>2, <1>3, <1>4, <1>5, Removed DEF TypeOK
  <1>7. TypeOK'
    BY <1>1, <1>5, <1>6 DEF TypeOK
  <1>8. ASSUME NEW u \in Threads
        PROVE  ThreadOK(u)'
    <2>1. be[u] # NoBackend => bk'[be[u]] = bk[be[u]]
      BY <1>1, <1>4, <1>6 DEF TypeOK
    <2> QED
      BY <1>5, <2>1 DEF ClassInv, ThreadOK, Holding
  <1>9. PermittedBounded'
    <2>1. Permitted' = Permitted /\ Permitted \subseteq Threads
      BY <1>5 DEF Permitted
    <2>2. Cardinality(Permitted) \in Nat /\ Cardinality(Threads) \in Nat
      BY <2>1, ThreadsCounted
    <2>3. Len(list') \in Nat /\ Len(list) \in Nat
      BY <1>1, <1>6 DEF TypeOK
    <2> QED
      BY <1>6, <2>1, <2>2, <2>3, ParameterAssumption DEF ClassInv, PermittedBounded
  <1>10. Waker'
    <2> SUFFICES ASSUME NEW u \in Threads, pc[u] = "asleep", u \notin stranded
                 PROVE  \E c \in Listed' : bk'[c].inUse /\ HasQuery(bk'[c], qry[u])
      BY <1>5 DEF Waker
    <2>1. PICK c \in Listed : bk[c].inUse /\ HasQuery(bk[c], qry[u])
      BY DEF ClassInv, Waker
    <2>2. c \in Backends /\ c # b
      BY <1>3, <2>1, ListedFacts
    <2> QED
      BY <1>6, <2>1, <2>2
  <1> QED
    BY <1>6, <1>7, <1>8, <1>9, <1>10 DEF ClassInv

-----------------------------------------------------------------------------
(* The theorems.                                                           *)

\* A class without backends, and threads without requests
LEMMA ClassInitInv == Init => ClassInv
  <1> SUFFICES ASSUME Init
               PROVE  ClassInv
    OBVIOUS
  <1>1. list = << >> /\ Listed = {} /\ Len(list) = 0 /\ list \in Seq(Backends) /\ DOMAIN list = {}
    BY DEF Init, Listed, ToSet
  <1>2. TypeOK
    <2>1. bk \in [Backends -> Backend]
      BY ClosedFacts DEF Init
    <2>2. reqs \in [Threads -> 0 .. MaxReqs]
      BY ParameterAssumption DEF Init
    <2> QED
      BY <1>1, <2>1, <2>2 DEF Init, TypeOK, PC, QueryOrNone
  <1>3. ListInjective /\ OneHolder /\ \A b \in Listed : BackendOK(bk[b])
    BY <1>1 DEF Init, ListInjective, OneHolder, Listed
  <1>4. \A t \in Threads : ThreadOK(t)
    BY DEF Init, ThreadOK, Holding, InSet
  <1>5. PermittedBounded
    <2>1. Permitted = {} /\ Permitted \subseteq Threads
      BY DEF Init, Permitted
    <2>2. Cardinality(Permitted) = 0 /\ Cardinality(Threads) \in Nat
      BY <2>1, FS_EmptySet, ThreadsCounted
    <2> QED
      BY <1>1, <2>2, ParameterAssumption DEF PermittedBounded
  <1>6. Started /\ Waker
    BY <1>1 DEF Init, Started, Waker
  <1> QED
    BY <1>2, <1>3, <1>4, <1>5, <1>6 DEF ClassInv

\* Every step keeps the inductive invariant.
LEMMA ClassNextInv == ClassInv /\ [Next]_vars => ClassInv'
  <1> SUFFICES ASSUME ClassInv, [Next]_vars
               PROVE  ClassInv'
    OBVIOUS
  <1>1. ASSUME NEW t \in Threads, StartRequest(t)
        PROVE  ClassInv'
    BY <1>1, StartInv, StartScanInv DEF StartRequest
  <1>2. ASSUME NEW t \in Threads, GetSet(t)
        PROVE  ClassInv'
    BY <1>2, WaitForSetInv, FindSetInv, OverrideSetInv, AddSetInv, NoSetInv DEF GetSet
  <1>3. ASSUME NEW t \in Threads, Answer(t)
        PROVE  ClassInv'
    BY <1>3, CreateOkInv, CreateFailInv, SearchOkInv, SearchDiagInv, PresentOkInv, RemoveInv
       DEF Answer
  <1>4. ASSUME NEW t \in Threads, Finish(t) \/ SpuriousWake(t)
        PROVE  ClassInv'
    BY <1>4, NameSetInv, AnswerInitInv, ReplyInv, CrashInv DEF Finish
  <1>5. CASE ExpireIdle
    BY <1>5, ExpireInv
  <1>6. CASE UNCHANGED vars
    <2>1. UNCHANGED <<list, bk, named, succeeded, initResp, pc, op, qry, be, rs, outOf, again,
                      fset, answer, reqs, stranded>>
      BY <1>6 DEF vars
    <2>2. TypeOK' /\ ListInjective' /\ OneHolder' /\ Started'
      BY <2>1 DEF ClassInv, TypeOK, ListInjective, OneHolder, Started
    <2>3. Listed' = Listed /\ Permitted' = Permitted
      BY <2>1 DEF Listed, Permitted
    <2>4. (\A b \in Listed : BackendOK(bk[b]))' /\ (\A t \in Threads : ThreadOK(t))'
      BY <2>1, <2>3 DEF ClassInv, BackendOK, ThreadOK
    <2>5. PermittedBounded' /\ Waker'
      BY <2>1, <2>3 DEF ClassInv, PermittedBounded, Waker
    <2> QED
      BY <2>2, <2>4, <2>5 DEF ClassInv
  <1> QED
    BY <1>1, <1>2, <1>3, <1>4, <1>5, <1>6 DEF Next

\* The inductive invariant holds in every state of the class.
THEOREM ClassInvariance == Spec => []ClassInv
  BY ClassInitInv, ClassNextInv, PTL DEF Spec

\* Each target session is used by one thread at a time, is never expired or removed
\* under it and never leaks; and there are fewer than m_session_max plus the number of
\* threads of them, those being opened included.
THEOREM SessionsAreAccounted == Spec => []SessionsAccounted
  <1>1. ClassInv => SessionsAccounted
    <2> SUFFICES ASSUME ClassInv
                 PROVE  SessionsAccounted
      OBVIOUS
    <2>1. Creating \subseteq Permitted /\ Permitted \subseteq Threads
      BY DEF Creating, Permitted
    <2>2. /\ Cardinality(Creating) <= Cardinality(Permitted) /\ Cardinality(Creating) \in Nat
          /\ Cardinality(Permitted) \in Nat /\ Cardinality(Threads) \in Nat
      BY <2>1, ThreadsCounted
    <2>3. Len(list) \in Nat
      BY DEF ClassInv, TypeOK
    <2>4. SessionsBounded
      BY <2>2, <2>3, ParameterAssumption DEF ClassInv, PermittedBounded, SessionsBounded
    <2> QED
      BY <2>4 DEF ClassInv, SessionsAccounted
  <1> QED
    BY <1>1, ClassInvariance, PTL

\* m_sets and the record caches agree with what the target holds, and no set is too many,
\* although m_named_result_sets is reset by failures to open sessions.
THEOREM SetsAreTheTargets == Spec => []SetsMatchTarget
  <1>1. ClassInv => SetsMatchTarget
    BY DEF ClassInv, Listed, BackendOK, SetsMatchTarget, SetLimit
  <1> QED
    BY <1>1, ClassInvariance, PTL

\* A present returns the records of the query its result set stands for.
THEOREM RecordsAreRight == Spec => []RightRecords
  <1>1. ClassInv => RightRecords
    BY DEF ClassInv, ThreadOK, RightRecords
  <1> QED
    BY <1>1, ClassInvariance, PTL

\* A thread asleep in get_set waits for a backend in use, whose release will notify it;
\* or remove_backend has taken that backend away.
THEOREM WaitersAreWoken == Spec => []WaiterHasWaker
  <1>1. ClassInv => WaiterHasWaker
    <2> SUFFICES ASSUME ClassInv, NEW t \in Threads, pc[t] = "asleep", t \notin stranded
                 PROVE  \E k \in Matching(qry[t]) : bk[list[k]].inUse
      BY DEF WaiterHasWaker
    <2>1. PICK b \in Listed : bk[b].inUse /\ HasQuery(bk[b], qry[t])
      BY DEF ClassInv, Waker
    <2>2. PICK k \in DOMAIN list : list[k] = b
      BY DEF Listed, ToSet
    <2>3. k \in Matching(qry[t])
      BY <2>1, <2>2 DEF Matching, SetsOf, HasQuery
    <2> QED
      BY <2>1, <2>2, <2>3
  <1> QED
    BY <1>1, ClassInvariance, PTL

-----------------------------------------------------------------------------

\* One package has the Frontend; Us is in a request while it is held.
PackagesOK ==
    /\ \A p, q \in Pkgs :
          stage[p] \in {"held", "handled"} /\ stage[q] \in {"held", "handled"} => p = q
    /\ \A p \in Pkgs : stage[p] \in {"held", "handled"} => entry = "used"
    /\ \A p \in Pkgs : stage[p] = "handled" => at[Us] \in {"out", "ready"}
    /\ entry = "none" => at[Us] = "out"

\* A client that has a class has one made for its own Init request.
UserOK(u) ==
    /\ at[u] = "out" <=> ref[u] = 0
    /\ ref[u] # 0 => class[ref[u]].alive /\ class[ref[u]].made = Passed(cred[u])

\* The classes in the map are those made for their key.
MapOK == \A k \in Request : map[k] # 0 => class[map[k]].alive /\ class[map[k]].made = k

InUse(c) == {u \in Users : ref[u] = c /\ at[u] \in {"opened", "using"}}

\* A class that lives is somebody's, and counts the sessions in use.
ClassOK(c) ==
    /\ class[c].alive => InMap(c) \/ \E u \in Users : ref[u] = c
    /\ ~class[c].alive => class[c].idle = 0 /\ class[c].used = 0
    /\ IsFiniteSet(InUse(c))
    /\ class[c].used = Cardinality(InUse(c))

SharedType ==
    /\ map \in [Request -> 0 .. MaxClasses]
    /\ class \in [ClassIds -> Class]
    /\ ref \in [Users -> 0 .. MaxClasses]
    /\ at \in [Users -> Place]
    /\ cred \in [Users -> Request]

SharedOK ==
    /\ SharedType
    /\ \A u \in Users : UserOK(u)
    /\ MapOK
    /\ \A c \in ClassIds : ClassOK(c)

\* The inductive invariant
SharedInv == ClientsTypeOK /\ PackagesOK /\ SharedOK

-----------------------------------------------------------------------------
(* Facts about the operators of the model.                                 *)

Busy == {"opened", "using"}

LEMMA Requests ==
  /\ NoClass \in Class /\ NoClass.made \in Request /\ ~NoClass.alive
  /\ NoClass.idle = 0 /\ NoClass.used = 0
  /\ \A req \in Request : Passed(req) \in Request
  <1>1. Request # {}
    <2>1. PICK o \in OtherInfos : TRUE
      BY SharedSessionsAssumption
    <2>2. [auth |-> NoAuth, other |-> o] \in Request
      BY SharedSessionsAssumption DEF Request
    <2> QED
      BY <2>2
  <1>2. (CHOOSE r \in Request : TRUE) \in Request
    BY <1>1
  <1>3. ASSUME NEW req \in Request
        PROVE  Passed(req) \in Request
    BY SharedSessionsAssumption DEF Passed, Request
  <1> HIDE DEF Request
  <1>4. /\ NoClass \in Class /\ NoClass.made \in Request /\ ~NoClass.alive
        /\ NoClass.idle = 0 /\ NoClass.used = 0
    BY <1>2 DEF NoClass, Class
  <1> QED
    BY <1>3, <1>4

\* How a count changes with one element
LEMMA Counting ==
  ASSUME NEW S, IsFiniteSet(S), NEW x
  PROVE  /\ Cardinality(S) \in Nat
         /\ IsFiniteSet(S \cup {x}) /\ IsFiniteSet(S \ {x})
         /\ x \notin S => Cardinality(S \cup {x}) = Cardinality(S) + 1
         /\ x \in S => Cardinality(S \ {x}) = Cardinality(S) - 1
         /\ Cardinality(S) = 0 <=> S = {}
  <1>1. Cardinality(S) \in Nat
    BY FS_CardinalityType
  <1>2. IsFiniteSet(S \cup {x}) /\ (x \notin S => Cardinality(S \cup {x}) = Cardinality(S) + 1)
    BY FS_AddElement
  <1>3. IsFiniteSet(S \ {x}) /\ (x \in S => Cardinality(S \ {x}) = Cardinality(S) - 1)
    BY FS_RemoveElement
  <1>4. Cardinality(S) = 0 <=> S = {}
    BY FS_EmptySet
  <1> QED
    BY <1>1, <1>2, <1>3, <1>4

LEMMA RefClass ==
  ASSUME SharedOK, NEW u \in Users, at[u] # "out"
  PROVE  /\ ref[u] \in ClassIds
         /\ class[ref[u]] \in Class /\ class[ref[u]].alive
         /\ class[ref[u]].idle \in Nat /\ class[ref[u]].used \in Nat
  <1>1. ref[u] \in 0 .. MaxClasses /\ ref[u] # 0 /\ class[ref[u]].alive
    BY DEF SharedOK, SharedType, UserOK
  <1>2. ref[u] \in ClassIds
    BY <1>1, SharedSessionsAssumption DEF ClassIds
  <1>3. class[ref[u]] \in Class
    BY <1>2 DEF SharedOK, SharedType
  <1> QED
    BY <1>1, <1>2, <1>3 DEF Class

-----------------------------------------------------------------------------
(* Each step of a client on its class.                                     *)

\* A client that has a class goes on, with one session more or less in use.
LEMMA ClassStep ==
  ASSUME SharedOK, NEW u \in Users, at[u] # "out", NEW c, c = ref[u],
         NEW r \in Class, r.alive = class[c].alive, r.made = class[c].made,
         class' = [class EXCEPT ![c] = r],
         NEW where \in Place \ {"out"}, at' = [at EXCEPT ![u] = where],
         at[u] \notin Busy /\ where \in Busy => r.used = class[c].used + 1,
         at[u] \in Busy /\ where \notin Busy => r.used = class[c].used - 1,
         (at[u] \in Busy <=> where \in Busy) => r.used = class[c].used,
         UNCHANGED <<map, ref, cred>>
  PROVE  SharedOK'
  <1>1. c \in ClassIds /\ class[c].alive /\ c # 0
    BY RefClass DEF ClassIds
  <1>2. at \in [Users -> Place] /\ class \in [ClassIds -> Class] /\ ref \in [Users -> 0 .. MaxClasses]
    BY DEF SharedOK, SharedType
  <1>3. SharedType'
    BY <1>1, <1>2 DEF SharedOK, SharedType
  <1>4. /\ class'[c] = r /\ at'[u] = where
        /\ \A x \in ClassIds \ {c} : class'[x] = class[x]
        /\ \A v \in Users \ {u} : at'[v] = at[v]
    BY <1>1, <1>2
  <1>5. \A x \in ClassIds : class'[x].alive = class[x].alive /\ class'[x].made = class[x].made
    BY <1>4
  <1>6. ASSUME NEW v \in Users
        PROVE  UserOK(v)'
    <2>1. UserOK(v) /\ (at'[v] = "out" <=> at[v] = "out")
      BY <1>4 DEF SharedOK
    <2>2. ref[v] # 0 => ref[v] \in ClassIds
      BY <1>2, SharedSessionsAssumption DEF ClassIds
    <2> QED
      BY <1>5, <2>1, <2>2 DEF UserOK, Passed
  <1>7. MapOK'
    <2>1. \A k \in Request : map[k] # 0 => map[k] \in ClassIds
      BY SharedSessionsAssumption DEF SharedOK, SharedType, ClassIds
    <2> QED
      BY <1>5, <2>1 DEF SharedOK, MapOK
  <1>8. ASSUME NEW x \in ClassIds
        PROVE  ClassOK(x)'
    <2>1. ClassOK(x) /\ (InMap(x)' <=> InMap(x))
      BY DEF SharedOK, InMap
    <2>2. CASE x # c
      <3>1. InUse(x)' = InUse(x)
        BY <1>4, <2>2 DEF InUse
      <3> QED
        BY <1>4, <2>1, <2>2, <3>1 DEF ClassOK
    <2>3. CASE x = c
      <3>1. PICK S : S = InUse(c)
        OBVIOUS
      <3>2. IsFiniteSet(S) /\ class[c].used = Cardinality(S)
        BY <2>1, <2>3, <3>1 DEF ClassOK
      <3>3. u \in S <=> at[u] \in Busy
        BY <3>1 DEF InUse, Busy
      <3>4. InUse(c)' = IF where \in Busy THEN S \cup {u} ELSE S \ {u}
        BY <1>4, <3>1 DEF InUse, Busy
      <3>5. IsFiniteSet(InUse(c)') /\ r.used = Cardinality(InUse(c)')
        <4>1. CASE at[u] \in Busy /\ where \in Busy
          <5>1. InUse(c)' = S
            BY <3>3, <3>4, <4>1
          <5> QED
            BY <3>2, <4>1, <5>1
        <4>2. CASE at[u] \notin Busy /\ where \notin Busy
          <5>1. InUse(c)' = S
            BY <3>3, <3>4, <4>2
          <5> QED
            BY <3>2, <4>2, <5>1
        <4>3. CASE at[u] \notin Busy /\ where \in Busy
          BY <3>2, <3>3, <3>4, <4>3, Counting
        <4>4. CASE at[u] \in Busy /\ where \notin Busy
          BY <3>2, <3>3, <3>4, <4>4, Counting
        <4> QED
          BY <4>1, <4>2, <4>3, <4>4
      <3> QED
        BY <1>1, <1>4, <2>1, <2>3, <3>5 DEF ClassOK
    <2> QED
      BY <2>2, <2>3
  <1> QED
    BY <1>3, <1>6, <1>7, <1>8 DEF SharedOK

\* A client goes on and its class stays as it is.
LEMMA PlaceStep ==
  ASSUME SharedOK, NEW u \in Users, at[u] \notin Busy \cup {"out"},
         NEW where \in Place \ (Busy \cup {"out"}), at' = [at EXCEPT ![u] = where],
         UNCHANGED <<map, class, ref, cred>>
  PROVE  SharedOK'
  <1>1. PICK c : c = ref[u]
    OBVIOUS
  <1>2. c \in ClassIds /\ class[c] \in Class
    BY <1>1, RefClass
  <1>3. class' = [class EXCEPT ![c] = class[c]]
    BY <1>2 DEF SharedOK, SharedType
  <1> QED
    BY <1>1, <1>2, <1>3, ClassStep

\* create_backend, release_backend, remove_backend and the choice of an idle session
LEMMA SessionStep ==
  ASSUME SharedOK, NEW u \in Users, at[u] # "out",
         NEW where \in Place \ {"out"}, at' = [at EXCEPT ![u] = where],
         UNCHANGED <<map, ref, cred>>,
         \/ Created(u) /\ at[u] \notin Busy /\ where \in Busy
         \/ /\ class[ref[u]].idle > 0 /\ at[u] \notin Busy /\ where \in Busy
            /\ class' = [class EXCEPT ![ref[u]].idle = @ - 1, ![ref[u]].used = @ + 1]
         \/ Release1(u) /\ at[u] \in Busy /\ where \notin Busy
         \/ class' = [class EXCEPT ![ref[u]].used = @ - 1] /\ at[u] \in Busy /\ where \notin Busy
  PROVE  SharedOK'
  <1>1. PICK c : c = ref[u]
    OBVIOUS
  <1>2. /\ c \in ClassIds /\ class[c] \in Class /\ class \in [ClassIds -> Class]
        /\ class[c].idle \in Nat /\ class[c].used \in Nat
    BY <1>1, RefClass DEF SharedOK, SharedType
  <1>3. at[u] \in Busy => class[c].used - 1 \in Nat
    <2> SUFFICES ASSUME at[u] \in Busy
                 PROVE  class[c].used - 1 \in Nat
      OBVIOUS
    <2>1. u \in InUse(c) /\ IsFiniteSet(InUse(c)) /\ class[c].used = Cardinality(InUse(c))
      BY <1>1, <1>2 DEF SharedOK, ClassOK, InUse, Busy
    <2>2. PICK S : S = InUse(c)
      OBVIOUS
    <2>3. S # {} /\ IsFiniteSet(S) /\ class[c].used = Cardinality(S)
      BY <2>1, <2>2
    <2>4. Cardinality(S) # 0
      BY <2>3, Counting
    <2> QED
      BY <1>2, <2>3, <2>4
  <1>4. CASE Created(u) /\ at[u] \notin Busy /\ where \in Busy
    <2> DEFINE r == [class[c] EXCEPT !.used = @ + 1, !.ok = TRUE]
    <2>1. class[c].used + 1 \in Nat
      BY <1>2
    <2>2. class' = [class EXCEPT ![c] = r]
      BY <1>1, <1>2, <1>4 DEF Created, Class
    <2>3. r \in Class /\ r.alive = class[c].alive /\ r.made = class[c].made
          /\ r.used = class[c].used + 1
      BY <1>2, <2>1 DEF Class
    <2> HIDE DEF r
    <2> QED
      BY <1>1, <1>4, <2>2, <2>3, ClassStep
  <1>5. CASE /\ class[ref[u]].idle > 0 /\ at[u] \notin Busy /\ where \in Busy
             /\ class' = [class EXCEPT ![ref[u]].idle = @ - 1, ![ref[u]].used = @ + 1]
    <2> DEFINE r == [class[c] EXCEPT !.idle = @ - 1, !.used = @ + 1]
    <2>1. class[c].used + 1 \in Nat /\ class[c].idle - 1 \in Nat
      BY <1>1, <1>2, <1>5
    <2>2. class' = [class EXCEPT ![c] = r]
      BY <1>1, <1>2, <1>5 DEF Class
    <2>3. r \in Class /\ r.alive = class[c].alive /\ r.made = class[c].made
          /\ r.used = class[c].used + 1
      BY <1>2, <2>1 DEF Class
    <2> HIDE DEF r
    <2> QED
      BY <1>1, <1>5, <2>2, <2>3, ClassStep
  <1>6. CASE Release1(u) /\ at[u] \in Busy /\ where \notin Busy
    <2> DEFINE r == [class[c] EXCEPT !.used = @ - 1, !.idle = @ + 1]
    <2>1. class[c].used - 1 \in Nat /\ class[c].idle + 1 \in Nat
      BY <1>2, <1>3, <1>6
    <2>2. class' = [class EXCEPT ![c] = r]
      BY <1>1, <1>2, <1>6 DEF Class, Release1
    <2>3. r \in Class /\ r.alive = class[c].alive /\ r.made = class[c].made
          /\ r.used = class[c].used - 1
      BY <1>2, <2>1 DEF Class
    <2> HIDE DEF r
    <2> QED
      BY <1>1, <1>6, <2>2, <2>3, ClassStep
  <1>7. CASE class' = [class EXCEPT ![ref[u]].used = @ - 1] /\ at[u] \in Busy /\ where \notin Busy
    <2> DEFINE r == [class[c] EXCEPT !.used = @ - 1]
    <2>1. class[c].used - 1 \in Nat
      BY <1>3, <1>7
    <2>2. class' = [class EXCEPT ![c] = r]
      BY <1>1, <1>2, <1>7 DEF Class
    <2>3. r \in Class /\ r.alive = class[c].alive /\ r.made = class[c].made
          /\ r.used = class[c].used - 1
      BY <1>2, <2>1 DEF Class
    <2> HIDE DEF r
    <2> QED
      BY <1>1, <1>7, <2>2, <2>3, ClassStep
  <1> QED
    BY <1>4, <1>5, <1>6, <1>7

\* The steps of a request
LEMMA WorkStep ==
  ASSUME SharedOK, NEW u \in Users, Work(u) \/ UseSession(u)
  PROVE  /\ SharedOK' /\ at[u] # "out"
         /\ \A v \in Users \ {u} : at'[v] = at[v]
  <1>1. at \in [Users -> Place]
    BY DEF SharedOK, SharedType
  <1>2. CASE CreateFirstOne(u)
    <2>1. PICK where \in {"respond", "creating"} : at' = [at EXCEPT ![u] = where]
      BY <1>2 DEF CreateFirstOne, To
    <2>2. at[u] = "mapped" /\ UNCHANGED <<map, class, ref, cred>>
      BY <1>2 DEF CreateFirstOne
    <2>3. at[u] \notin Busy \cup {"out"} /\ where \in Place \ (Busy \cup {"out"})
      BY <2>1, <2>2 DEF Busy, Place
    <2> QED
      BY <1>1, <2>1, <2>2, <2>3, PlaceStep
  <1>3. CASE CreateBackend(u)
    <2>1. at[u] \in {"creating", "creates"} /\ UNCHANGED <<map, ref, cred>>
      BY <1>3 DEF CreateBackend
    <2>2. at[u] # "out" /\ at[u] \notin Busy
      BY <2>1 DEF Busy
    <2>3. CASE NotCreated
      <3>1. PICK where \in {"respond", "ready", "opened", "using"} : at' = [at EXCEPT ![u] = where]
        BY <1>3 DEF CreateBackend, To
      <3>2. CASE where \in {"respond", "ready"}
        <4>1. where \in Place \ (Busy \cup {"out"})
          BY <3>2 DEF Busy, Place
        <4> QED
          BY <1>1, <2>1, <2>2, <2>3, <3>1, <4>1, PlaceStep DEF NotCreated
      <3>3. CASE where \in {"opened", "using"} /\ Created(u)
        <4>1. where \in Place \ {"out"} /\ where \in Busy
          BY <3>3 DEF Busy, Place
        <4> QED
          BY <1>1, <2>1, <2>2, <3>1, <3>3, <4>1, SessionStep
      <3>4. at'[u] = where
        BY <1>1, <3>1
      <3> QED
        BY <1>1, <1>3, <3>1, <3>2, <3>3, <3>4 DEF CreateBackend, To
    <2>4. CASE Created(u) /\ ~NotCreated
      <3>1. PICK where \in {"opened", "using"} : at' = [at EXCEPT ![u] = where]
        BY <1>3, <2>4 DEF CreateBackend, To
      <3>2. where \in Place \ {"out"} /\ where \in Busy
        BY <3>1 DEF Busy, Place
      <3> QED
        BY <1>1, <2>1, <2>2, <2>4, <3>1, <3>2, SessionStep
    <2> QED
      BY <1>3, <2>3, <2>4 DEF CreateBackend
  <1>4. CASE ReleaseFirst(u)
    <2>1. /\ at[u] \in Busy /\ at[u] # "out" /\ "respond" \in Place \ {"out"} /\ "respond" \notin Busy
          /\ at' = [at EXCEPT ![u] = "respond"] /\ Release1(u) /\ UNCHANGED <<map, ref, cred>>
      BY <1>4 DEF ReleaseFirst, To, Busy, Place
    <2> QED
      BY <1>1, <2>1, SessionStep
  <1>5. CASE FinishSession(u)
    <2>1. /\ at[u] \in Busy /\ at[u] # "out" /\ "ready" \in Place \ {"out"} /\ "ready" \notin Busy
          /\ at' = [at EXCEPT ![u] = "ready"] /\ UNCHANGED <<map, ref, cred>>
          /\ Release1(u) \/ class' = [class EXCEPT ![ref[u]].used = @ - 1]
      BY <1>5 DEF FinishSession, To, Busy, Place
    <2> QED
      BY <1>1, <2>1, SessionStep
  <1>6. CASE UseSession(u)
    <2>1. at[u] # "out" /\ at[u] \notin Busy /\ UNCHANGED <<map, ref, cred>>
      BY <1>6 DEF UseSession, Busy
    <2>2. CASE /\ class[ref[u]].idle > 0
               /\ class' = [class EXCEPT ![ref[u]].idle = @ - 1, ![ref[u]].used = @ + 1]
               /\ To(u, "using")
      <3>1. "using" \in Place \ {"out"} /\ "using" \in Busy /\ at' = [at EXCEPT ![u] = "using"]
        BY <2>2 DEF To, Busy, Place
      <3> QED
        BY <1>1, <2>1, <2>2, <3>1, SessionStep
    <2>3. CASE To(u, "creates") /\ UNCHANGED class
      <3>1. "creates" \in Place \ (Busy \cup {"out"}) /\ at' = [at EXCEPT ![u] = "creates"]
        BY <2>3 DEF To, Busy, Place
      <3> QED
        BY <1>1, <2>1, <2>3, <3>1, PlaceStep
    <2> QED
      BY <1>6, <2>2, <2>3 DEF UseSession
  <1> QED
    BY <1>2, <1>3, <1>4, <1>5, <1>6 DEF Work

\* Rep::init gives the client the class of its own key, made anew if there is none.
LEMMA FindClassStep ==
  ASSUME SharedOK, NEW u \in Users, at[u] = "out", NEW req \in Request, FindClass(u, req)
  PROVE  /\ SharedOK'
         /\ \A v \in Users \ {u} : at'[v] = at[v]
  <1>1. PICK key : key = Passed(req)
    OBVIOUS
  <1>2. PICK c : c = IF map[key] = 0 THEN CHOOSE n \in Unused : TRUE ELSE map[key]
    OBVIOUS
  <1> DEFINE fresh == [NoClass EXCEPT !.made = key, !.alive = TRUE]
  <1>3. /\ map[key] = 0 => Unused # {}
        /\ map' = [map EXCEPT ![key] = c]
        /\ class' = IF map[key] = 0 THEN [class EXCEPT ![c] = fresh] ELSE class
        /\ ref' = [ref EXCEPT ![u] = c]
        /\ cred' = [cred EXCEPT ![u] = req]
        /\ at' = [at EXCEPT ![u] = "mapped"]
    BY <1>1, <1>2 DEF FindClass, InitKey, To
  <1>4. /\ map \in [Request -> 0 .. MaxClasses] /\ class \in [ClassIds -> Class]
        /\ ref \in [Users -> 0 .. MaxClasses] /\ at \in [Users -> Place]
        /\ cred \in [Users -> Request] /\ key \in Request
    BY <1>1, Requests DEF SharedOK, SharedType
  <1>5. /\ fresh \in Class /\ fresh.made = key /\ fresh.alive
        /\ fresh.idle = 0 /\ fresh.used = 0
    BY <1>4 DEF NoClass, Class
  <1> HIDE DEF fresh
  <1>6. /\ c \in ClassIds /\ c \in 0 .. MaxClasses /\ c # 0
        /\ map[key] = 0 => ~class[c].alive
        /\ map[key] # 0 => c = map[key]
    BY <1>2, <1>3, <1>4 DEF Unused, ClassIds
  <1>7. /\ \A v \in Users \ {u} : at'[v] = at[v] /\ ref'[v] = ref[v] /\ cred'[v] = cred[v]
        /\ at'[u] = "mapped" /\ ref'[u] = c /\ cred'[u] = req
        /\ map'[key] = c /\ \A k \in Request \ {key} : map'[k] = map[k]
    BY <1>3, <1>4
  <1>8. /\ \A x \in ClassIds : x # c => class'[x] = class[x]
        /\ map[key] = 0 => class'[c] = fresh
        /\ map[key] # 0 => class'[c] = class[c]
    BY <1>3, <1>4, <1>6
  <1>9. SharedType'
    <2>1. class' \in [ClassIds -> Class]
      BY <1>3, <1>4, <1>5, <1>6
    <2>2. at' \in [Users -> Place]
      BY <1>3, <1>4 DEF Place
    <2> QED
      BY <1>3, <1>4, <1>6, <2>1, <2>2 DEF SharedType
  <1>10. class'[c].alive /\ class'[c].made = key
    BY <1>4, <1>5, <1>6, <1>8 DEF SharedOK, MapOK
  <1>11. \A x \in ClassIds : class[x].alive =>
             class'[x].alive /\ class'[x].made = class[x].made
    BY <1>6, <1>8
  <1>12. ASSUME NEW v \in Users
         PROVE  UserOK(v)'
    <2>1. CASE v = u
      BY <1>1, <1>6, <1>7, <1>10, <2>1 DEF UserOK, Passed
    <2>2. CASE v # u
      <3>1. UserOK(v) /\ (ref[v] # 0 => ref[v] \in ClassIds)
        BY <1>4, SharedSessionsAssumption DEF SharedOK, ClassIds
      <3> QED
        BY <1>7, <1>11, <2>2, <3>1 DEF UserOK, Passed
    <2> QED
      BY <2>1, <2>2
  <1>13. MapOK'
    <2> SUFFICES ASSUME NEW k \in Request, map'[k] # 0
                 PROVE  class'[map'[k]].alive /\ class'[map'[k]].made = k
      BY DEF MapOK
    <2>1. CASE k = key
      BY <1>7, <1>10, <2>1
    <2>2. CASE k # key
      <3>1. map[k] \in ClassIds /\ class[map[k]].alive /\ class[map[k]].made = k
        BY <1>4, <1>7, <2>2, SharedSessionsAssumption DEF SharedOK, MapOK, ClassIds
      <3> QED
        BY <1>7, <1>11, <2>2, <3>1
    <2> QED
      BY <2>1, <2>2
  <1>14. ASSUME NEW x \in ClassIds
         PROVE  ClassOK(x)'
    <2>1. ClassOK(x)
      BY DEF SharedOK
    <2>2. InUse(x)' = InUse(x)
      BY <1>7 DEF InUse
    <2>3. CASE x = c
      <3>1. class'[x].used = class[x].used
        BY <1>5, <1>6, <1>8, <2>1, <2>3 DEF ClassOK
      <3> QED
        BY <1>7, <1>10, <2>1, <2>2, <2>3, <3>1 DEF ClassOK
    <2>4. CASE x # c
      <3>1. InMap(x) => InMap(x)'
        <4> SUFFICES ASSUME NEW k \in Request, map[k] = x
                     PROVE  InMap(x)'
          BY DEF InMap
        <4>1. CASE k # key
          BY <1>7, <4>1 DEF InMap
        <4>2. CASE k = key
          BY <1>6, <2>4, <4>2 DEF ClassIds
        <4> QED
          BY <4>1, <4>2
      <3>2. (\E v \in Users : ref[v] = x) => \E v \in Users : ref'[v] = x
        <4> SUFFICES ASSUME NEW v \in Users, ref[v] = x
                     PROVE  ref'[v] = x
          OBVIOUS
        <4>1. ref[u] = 0 /\ x # 0
          BY DEF SharedOK, UserOK, ClassIds
        <4> QED
          BY <1>7, <4>1
      <3> QED
        BY <1>8, <2>1, <2>2, <2>4, <3>1, <3>2 DEF ClassOK
    <2> QED
      BY <2>3, <2>4
  <1> QED
    BY <1>7, <1>9, <1>12, <1>13, <1>14 DEF SharedOK

\* The destructors leave what the map or a client has.
LEMMA DeletedFacts ==
  ASSUME NEW classes \in [ClassIds -> Class], NEW m \in [Request -> 0 .. MaxClasses],
         NEW r \in [Users -> 0 .. MaxClasses], NEW d, d = Deleted(classes, m, r)
  PROVE  /\ d \in [ClassIds -> Class]
         /\ \A k \in Request : m[k] \in ClassIds => d[m[k]] = classes[m[k]]
         /\ \A u \in Users : r[u] \in ClassIds => d[r[u]] = classes[r[u]]
         /\ \A c \in ClassIds :
                \/ d[c] = classes[c] /\ ((\E k \in Request : m[k] = c) \/ \E u \in Users : r[u] = c)
                \/ d[c] = NoClass /\ (\A k \in Request : m[k] # c) /\ \A u \in Users : r[u] # c
  <1>1. NoClass \in Class
    BY Requests
  <1>2. d = [c \in ClassIds |->
                IF c \in {m[k] : k \in Request} \cup {r[u] : u \in Users}
                THEN classes[c] ELSE NoClass]
    BY DEF Deleted
  <1> QED
    BY <1>1, <1>2

\* A Frontend goes, while no request of the client uses a session.
LEMMA EraseStep ==
  ASSUME SharedOK, NEW u \in Users, at[u] \notin Busy, Erase(u)
  PROVE  /\ SharedOK' /\ at'[u] = "out"
         /\ \A v \in Users \ {u} : at'[v] = at[v]
  <1>1. /\ map \in [Request -> 0 .. MaxClasses] /\ class \in [ClassIds -> Class]
        /\ ref \in [Users -> 0 .. MaxClasses] /\ at \in [Users -> Place]
        /\ cred \in [Users -> Request] /\ NoClass.made \in Request
    BY Requests DEF SharedOK, SharedType
  <1>2. /\ ref' = [ref EXCEPT ![u] = 0] /\ at' = [at EXCEPT ![u] = "out"]
        /\ class' = Deleted(class, map, ref')
        /\ cred' = [cred EXCEPT ![u] = NoClass.made] /\ UNCHANGED map
    BY DEF Erase
  <1>3. 0 \in 0 .. MaxClasses /\ "out" \in Place
    BY SharedSessionsAssumption DEF Place
  <1>4. ref' \in [Users -> 0 .. MaxClasses] /\ at' \in [Users -> Place] /\ cred' \in [Users -> Request]
    BY <1>1, <1>2, <1>3
  <1>5. /\ class' \in [ClassIds -> Class]
        /\ \A k \in Request : map[k] \in ClassIds => class'[map[k]] = class[map[k]]
        /\ \A v \in Users : ref'[v] \in ClassIds => class'[ref'[v]] = class[ref'[v]]
        /\ \A c \in ClassIds :
               \/ class'[c] = class[c] /\ ((\E k \in Request : map[k] = c) \/ \E v \in Users : ref'[v] = c)
               \/ class'[c] = NoClass /\ (\A k \in Request : map[k] # c) /\ \A v \in Users : ref'[v] # c
    <2>1. PICK r \in [Users -> 0 .. MaxClasses] : r = ref'
      BY <1>4
    <2>2. PICK d : d = class'
      OBVIOUS
    <2>3. d = Deleted(class, map, r)
      BY <1>2, <2>1, <2>2
    <2>4. /\ d \in [ClassIds -> Class]
          /\ \A k \in Request : map[k] \in ClassIds => d[map[k]] = class[map[k]]
          /\ \A v \in Users : r[v] \in ClassIds => d[r[v]] = class[r[v]]
          /\ \A c \in ClassIds :
                 \/ d[c] = class[c] /\ ((\E k \in Request : map[k] = c) \/ \E v \in Users : r[v] = c)
                 \/ d[c] = NoClass /\ (\A k \in Request : map[k] # c) /\ \A v \in Users : r[v] # c
      BY <1>1, <2>1, <2>3, DeletedFacts
    <2> QED
      BY <2>1, <2>2, <2>4
  <1>6. /\ at'[u] = "out" /\ ref'[u] = 0
        /\ \A v \in Users \ {u} : at'[v] = at[v] /\ ref'[v] = ref[v] /\ cred'[v] = cred[v]
    BY <1>1, <1>2
  <1>7. ASSUME NEW v \in Users
        PROVE  UserOK(v)'
    <2>1. CASE v = u
      BY <1>6, <2>1 DEF UserOK
    <2>2. CASE v # u
      <3>1. UserOK(v) /\ (ref[v] # 0 => ref[v] \in ClassIds)
        BY <1>1, SharedSessionsAssumption DEF SharedOK, ClassIds
      <3> QED
        BY <1>5, <1>6, <2>2, <3>1 DEF UserOK, Passed
    <2> QED
      BY <2>1, <2>2
  <1>8. MapOK'
    <2>1. \A k \in Request : map[k] # 0 => map[k] \in ClassIds
      BY <1>1, SharedSessionsAssumption DEF ClassIds
    <2>2. map' = map /\ \A k \in Request : map[k] # 0 => class'[map[k]] = class[map[k]]
      BY <1>2, <1>5, <2>1
    <2>3. MapOK
      BY DEF SharedOK
    <2> QED
      BY <2>2, <2>3 DEF MapOK
  <1>9. ASSUME NEW c \in ClassIds
        PROVE  ClassOK(c)'
    <2>1. ClassOK(c) /\ c # 0
      BY DEF SharedOK, ClassIds
    <2>2. InUse(c)' = InUse(c)
      BY <1>6, <2>1 DEF InUse, Busy
    <2>3. CASE class'[c] = class[c] /\ (InMap(c) \/ \E v \in Users : ref'[v] = c)
      BY <1>2, <2>1, <2>2, <2>3 DEF ClassOK, InMap
    <2>4. CASE class'[c] = NoClass /\ \A v \in Users : ref'[v] # c
      <3>1. InUse(c)' = {}
        BY <2>4 DEF InUse
      <3>2. IsFiniteSet({}) /\ Cardinality({}) = 0
        BY FS_EmptySet
      <3> QED
        BY <2>4, <3>1, <3>2, Requests DEF ClassOK
    <2> QED
      BY <1>5, <2>3, <2>4 DEF InMap
  <1> QED
    BY <1>1, <1>2, <1>4, <1>5, <1>6, <1>7, <1>8, <1>9 DEF SharedOK, SharedType

\* The expiry thread closes idle sessions and drops a class without sessions.
LEMMA ExpireStep ==
  ASSUME SharedOK, NEW key \in Request, ExpireClass(key)
  PROVE  SharedOK' /\ at' = at
  <1>1. /\ map \in [Request -> 0 .. MaxClasses] /\ class \in [ClassIds -> Class]
        /\ ref \in [Users -> 0 .. MaxClasses]
    BY DEF SharedOK, SharedType
  <1>2. PICK c : c = map[key]
    OBVIOUS
  <1>3. c \in ClassIds /\ c # 0 /\ class[c] \in Class
    BY <1>1, <1>2, SharedSessionsAssumption DEF ExpireClass, ClassIds
  <1>4. PICK left \in 0 .. class[c].idle :
            /\ map' = IF left + class[c].used = 0 THEN [map EXCEPT ![key] = 0] ELSE map
            /\ class' = Deleted([class EXCEPT ![c].idle = left], map', ref)
    BY <1>2 DEF ExpireClass
  <1>5. UNCHANGED <<ref, at, cred>>
    BY DEF ExpireClass
  <1> DEFINE r == [class[c] EXCEPT !.idle = left]
             cl == [class EXCEPT ![c] = r]
  <1>6. class[c].idle \in Nat /\ class[c].used \in Nat /\ left \in Nat
    BY <1>3, <1>4 DEF Class
  <1>7. /\ r \in Class /\ r.used = class[c].used /\ r.alive = class[c].alive
        /\ r.made = class[c].made
    BY <1>3, <1>6 DEF Class
  <1>8. class' = Deleted(cl, map', ref)
    BY <1>1, <1>3, <1>4
  <1> HIDE DEF r
  <1>9. /\ cl \in [ClassIds -> Class] /\ cl[c] = r
        /\ \A x \in ClassIds \ {c} : cl[x] = class[x]
    BY <1>1, <1>3, <1>7
  <1>10. \A x \in ClassIds : /\ cl[x].used = class[x].used /\ cl[x].alive = class[x].alive
                             /\ cl[x].made = class[x].made
    BY <1>7, <1>9
  <1>11. \A x \in ClassIds : ~class[x].alive => cl[x].idle = 0
    <2>1. class[c].alive
      BY <1>2, <1>3 DEF SharedOK, MapOK
    <2> QED
      BY <1>9, <2>1 DEF SharedOK, ClassOK
  <1> HIDE DEF cl
  <1>12. map' \in [Request -> 0 .. MaxClasses] /\ \A k \in Request : map'[k] # 0 => map'[k] = map[k]
    BY <1>1, <1>4, SharedSessionsAssumption
  <1>13. /\ class' \in [ClassIds -> Class]
         /\ \A k \in Request : map'[k] \in ClassIds => class'[map'[k]] = cl[map'[k]]
         /\ \A u \in Users : ref[u] \in ClassIds => class'[ref[u]] = cl[ref[u]]
         /\ \A x \in ClassIds :
                \/ class'[x] = cl[x] /\ ((\E k \in Request : map'[k] = x) \/ \E u \in Users : ref[u] = x)
                \/ class'[x] = NoClass /\ (\A k \in Request : map'[k] # x) /\ \A u \in Users : ref[u] # x
    BY <1>1, <1>8, <1>9, <1>12, DeletedFacts
  <1>14. ASSUME NEW u \in Users
         PROVE  UserOK(u)'
    <2>1. UserOK(u) /\ (ref[u] # 0 => ref[u] \in ClassIds)
      BY <1>1, SharedSessionsAssumption DEF SharedOK, ClassIds
    <2> QED
      BY <1>5, <1>10, <1>13, <2>1 DEF UserOK, Passed
  <1>15. MapOK'
    <2>1. \A k \in Request : map'[k] # 0 => map'[k] \in ClassIds
      BY <1>12, SharedSessionsAssumption DEF ClassIds
    <2> QED
      BY <1>10, <1>12, <1>13, <2>1 DEF SharedOK, MapOK
  <1>16. ASSUME NEW x \in ClassIds
         PROVE  ClassOK(x)'
    <2>1. ClassOK(x) /\ InUse(x)' = InUse(x)
      BY <1>5 DEF SharedOK, InUse
    <2>2. CASE class'[x] = cl[x] /\ ((\E k \in Request : map'[k] = x) \/ \E u \in Users : ref[u] = x)
      BY <1>5, <1>10, <1>11, <2>1, <2>2 DEF ClassOK, InMap
    <2>3. CASE class'[x] = NoClass /\ \A u \in Users : ref[u] # x
      <3>1. InUse(x)' = {}
        BY <2>1, <2>3 DEF InUse
      <3>2. IsFiniteSet({}) /\ Cardinality({}) = 0
        BY FS_EmptySet
      <3> QED
        BY <2>3, <3>1, <3>2, Requests DEF ClassOK
    <2> QED
      BY <1>13, <2>2, <2>3
  <1> QED
    BY <1>5, <1>12, <1>13, <1>14, <1>15, <1>16 DEF SharedOK, SharedType

-----------------------------------------------------------------------------
(* The packages of Us.                                                     *)

Having == {"held", "handled"}

\* A package goes from one stage to another.
LEMMA PackageStep ==
  ASSUME SharedInv, NEW p \in Pkgs, NEW where \in Stage, stage' = [stage EXCEPT ![p] = where],
         closed' \in [Pkgs -> BOOLEAN], ended' \in BOOLEAN, remade' \in BOOLEAN,
         SharedOK',
         \/ /\ (where \in Having <=> stage[p] \in Having) /\ entry' = entry
            /\ where = "handled" => at'[Us] \in {"out", "ready"}
            /\ at'[Us] # at[Us] => stage[p] = "held"
         \/ /\ stage[p] \notin Having /\ where = "held" /\ entry # "used" /\ entry' = "used"
            /\ at'[Us] = at[Us]
         \/ /\ stage[p] \in Having /\ where \notin Having /\ entry' = "idle"
            /\ at'[Us] = at[Us]
         \/ /\ stage[p] \in Having /\ where \notin Having /\ entry' = "none"
            /\ at'[Us] = "out"
  PROVE  SharedInv'
  <1>1. /\ stage \in [Pkgs -> Stage] /\ PackagesOK
        /\ entry \in {"none", "idle", "used"}
    BY DEF SharedInv, ClientsTypeOK
  <1>2. stage'[p] = where /\ \A q \in Pkgs \ {p} : stage'[q] = stage[q]
    BY <1>1
  <1>3. ClientsTypeOK'
    BY <1>1 DEF SharedInv, ClientsTypeOK
  <1>4. /\ \A q, o \in Pkgs : stage[q] \in Having /\ stage[o] \in Having => q = o
        /\ \A q \in Pkgs : stage[q] \in Having => entry = "used"
        /\ \A q \in Pkgs : stage[q] = "handled" => at[Us] \in {"out", "ready"}
        /\ entry = "none" => at[Us] = "out"
    BY <1>1 DEF PackagesOK, Having
  <1>5. \A q, o \in Pkgs : stage'[q] \in Having /\ stage'[o] \in Having => q = o
    BY <1>2, <1>4
  <1>6. \A q \in Pkgs : stage'[q] \in Having => entry' = "used"
    BY <1>2, <1>4
  <1>7. \A q \in Pkgs : stage'[q] = "handled" => at'[Us] \in {"out", "ready"}
    BY <1>2, <1>4 DEF Having
  <1>8. entry' = "none" => at'[Us] = "out"
    BY <1>4 DEF Having
  <1>9. PackagesOK'
    BY <1>5, <1>6, <1>7, <1>8 DEF PackagesOK, Having
  <1> QED
    BY <1>3, <1>9 DEF SharedInv

\* The package that has the Frontend works on.
LEMMA HeldStep ==
  ASSUME SharedInv, NEW p \in Pkgs, stage[p] = "held", SharedOK', UNCHANGED clientVars
  PROVE  SharedInv'
  <1>1. stage \in [Pkgs -> Stage] /\ UNCHANGED <<stage, closed, entry, ended, remade>>
    BY DEF SharedInv, ClientsTypeOK, clientVars
  <1>2. stage' = [stage EXCEPT ![p] = "held"] /\ "held" \in Stage
    BY <1>1 DEF Stage
  <1>3. closed' \in [Pkgs -> BOOLEAN] /\ ended' \in BOOLEAN /\ remade' \in BOOLEAN
    BY <1>1 DEF SharedInv, ClientsTypeOK
  <1> QED
    BY <1>1, <1>2, <1>3, PackageStep DEF Having

\* The filter's work on a package is done.
LEMMA HandledStep ==
  ASSUME SharedInv, NEW p \in Pkgs, NEW close \in BOOLEAN, Handled(p, close), SharedOK',
         at'[Us] \in {"out", "ready"}
  PROVE  SharedInv'
  <1>1. /\ stage[p] = "held" /\ stage' = [stage EXCEPT ![p] = "handled"]
        /\ closed' = [closed EXCEPT ![p] = @ \/ close]
        /\ UNCHANGED <<entry, ended, remade>>
    BY DEF Handled, Go
  <1>2. closed \in [Pkgs -> BOOLEAN] /\ ended \in BOOLEAN /\ remade \in BOOLEAN
    BY DEF SharedInv, ClientsTypeOK
  <1>3. closed' \in [Pkgs -> BOOLEAN]
    BY <1>1, <1>2
  <1>4. "handled" \in Stage /\ ("handled" \in Having <=> stage[p] \in Having)
    BY <1>1 DEF Stage, Having
  <1> QED
    BY <1>1, <1>2, <1>3, <1>4, PackageStep

LEMMA SharedKept ==
  ASSUME SharedOK, UNCHANGED sharedVars
  PROVE  SharedOK' /\ at' = at
  <1>1. UNCHANGED <<map, class, ref, at, cred>>
    BY DEF sharedVars
  <1>2. SharedType' /\ MapOK'
    BY <1>1 DEF SharedOK, SharedType, MapOK
  <1>3. \A u \in Users : UserOK(u)'
    BY <1>1 DEF SharedOK, UserOK, Passed
  <1>4. \A c \in ClassIds : ClassOK(c)'
    BY <1>1 DEF SharedOK, ClassOK, InMap, InUse
  <1> QED
    BY <1>1, <1>2, <1>3, <1>4 DEF SharedOK

LEMMA ProcessInv ==
  ASSUME SharedInv, NEW p \in Pkgs, stage[p] = "held", process(p)
  PROVE  SharedInv'
  <1>1. Us \in Users /\ SharedOK
    BY DEF Users, SharedInv
  <1>2. CASE at[Us] = "out" /\ (\E req \in Request : FindClass(Us, req)) /\ UNCHANGED clientVars
    BY <1>1, <1>2, FindClassStep, HeldStep
  <1>3. CASE at[Us] \in {"out", "ready"} /\ (\E shut \in BOOLEAN : Handled(p, shut))
             /\ UNCHANGED sharedVars
    <2>1. SharedOK' /\ at' = at
      BY <1>1, <1>3, SharedKept
    <2> QED
      BY <1>3, <2>1, HandledStep
  <1>4. CASE (Work(Us) \/ UseSession(Us)) /\ UNCHANGED clientVars
    BY <1>1, <1>4, WorkStep, HeldStep
  <1>5. CASE InitResponse(p)
    <2>1. /\ at[Us] = "respond" /\ at' = [at EXCEPT ![Us] = "ready"]
          /\ Handled(p, ~class[ref[Us]].ok) /\ UNCHANGED <<map, class, ref, cred>>
      BY <1>5 DEF InitResponse, To
    <2>2. at \in [Users -> Place]
      BY <1>1 DEF SharedOK, SharedType
    <2>3. /\ at'[Us] = "ready" /\ at[Us] \notin Busy \cup {"out"}
          /\ "ready" \in Place \ (Busy \cup {"out"})
      BY <1>1, <2>1, <2>2 DEF Busy, Place
    <2>4. SharedOK'
      BY <1>1, <2>1, <2>3, PlaceStep
    <2>5. PICK shut \in BOOLEAN : shut = ~class[ref[Us]].ok
      OBVIOUS
    <2>6. Handled(p, shut)
      BY <2>1, <2>5
    <2> QED
      BY <2>3, <2>4, <2>6, HandledStep
  <1> QED
    BY <1>2, <1>3, <1>4, <1>5 DEF process

LEMMA StepInv ==
  ASSUME SharedInv, NEW p \in Pkgs, Step(p)
  PROVE  SharedInv'
  <1>1. /\ Us \in Users /\ SharedOK /\ closed \in [Pkgs -> BOOLEAN]
        /\ ended \in BOOLEAN /\ remade \in BOOLEAN
    BY DEF Users, SharedInv, ClientsTypeOK
  <1>2. CASE get_frontend(p)
    <2>1. /\ stage[p] = "wait" /\ entry # "used" /\ entry' = "used"
          /\ remade' = IF entry = "none" THEN Erased ELSE remade
          /\ stage' = [stage EXCEPT ![p] = "held"] /\ UNCHANGED <<closed, ended>>
          /\ SharedOK' /\ at' = at
      BY <1>1, <1>2, SharedKept DEF get_frontend, Get, Go
    <2>2. remade' \in BOOLEAN
      <3>1. Erased \in BOOLEAN
        BY DEF Erased
      <3> QED
        BY <1>1, <2>1, <3>1
    <2>3. "held" \in Stage /\ stage[p] \notin Having
      BY <2>1 DEF Stage, Having
    <2> QED
      BY <1>1, <2>1, <2>2, <2>3, PackageStep
  <1>3. CASE release_frontend(p)
    <2>1. /\ stage[p] = "handled" /\ stage' = [stage EXCEPT ![p] = "left"]
          /\ entry' = IF closed[p] THEN "none" ELSE "idle"
          /\ remade' = (remade /\ ~closed[p]) /\ UNCHANGED <<closed, ended>>
      BY <1>3 DEF release_frontend, Release, Go
    <2>2. "left" \in Stage /\ "left" \notin Having /\ stage[p] \in Having /\ remade' \in BOOLEAN
      BY <1>1, <2>1 DEF Stage, Having
    <2>3. at[Us] \notin Busy
      BY <2>1 DEF SharedInv, PackagesOK, Busy
    <2>4. CASE closed[p]
      <3>1. Erase(Us) /\ entry' = "none"
        BY <1>3, <2>1, <2>4 DEF release_frontend
      <3>2. SharedOK' /\ at'[Us] = "out"
        BY <1>1, <2>3, <3>1, EraseStep
      <3> QED
        BY <1>1, <2>1, <2>2, <3>1, <3>2, PackageStep
    <2>5. CASE ~closed[p]
      <3>1. UNCHANGED sharedVars /\ entry' = "idle"
        BY <1>3, <2>1, <2>5 DEF release_frontend
      <3>2. SharedOK' /\ at' = at
        BY <1>1, <3>1, SharedKept
      <3> QED
        BY <1>1, <2>1, <2>2, <3>1, <3>2, PackageStep
    <2> QED
      BY <2>4, <2>5
  <1> QED
    BY <1>2, <1>3, ProcessInv DEF Step

LEMMA EnvironmentInv ==
  ASSUME SharedInv, Environment
  PROVE  SharedInv'
  <1>1. /\ SharedOK /\ SharedOK' /\ at' = at /\ closed \in [Pkgs -> BOOLEAN]
        /\ ended \in BOOLEAN /\ remade \in BOOLEAN
    BY SharedKept DEF SharedInv, ClientsTypeOK, Environment
  <1>2. ASSUME NEW end \in BOOLEAN, Put(end)
        PROVE  SharedInv'
    <2>1. PICK p \in At("new") : /\ stage' = [stage EXCEPT ![p] = "wait"]
                                 /\ closed' = [closed EXCEPT ![p] = end]
      BY <1>2 DEF Put, Go
    <2>2. p \in Pkgs /\ stage[p] = "new" /\ UNCHANGED <<entry, remade>> /\ ended' = end
      BY <1>2, <2>1 DEF Put, At
    <2>3. "wait" \in Stage /\ ("wait" \in Having <=> stage[p] \in Having)
      BY <2>2 DEF Stage, Having
    <2>4. closed' \in [Pkgs -> BOOLEAN] /\ ended' \in BOOLEAN /\ remade' \in BOOLEAN
      BY <1>1, <1>2, <2>1, <2>2
    <2> QED
      BY <1>1, <2>1, <2>2, <2>3, <2>4, PackageStep
  <1>3. ASSUME NEW p \in Pkgs, Result(p)
        PROVE  SharedInv'
    <2>1. /\ stage[p] = "left" /\ stage' = [stage EXCEPT ![p] = "answered"]
          /\ ended' = (ended \/ (closed[p] /\ InPool = {p}))
          /\ UNCHANGED <<closed, entry, remade>>
      BY <1>3 DEF Result, Go
    <2>2. "answered" \in Stage /\ ("answered" \in Having <=> stage[p] \in Having) /\ ended' \in BOOLEAN
      BY <2>1 DEF Stage, Having
    <2> QED
      BY <1>1, <2>1, <2>2, PackageStep
  <1> QED
    BY <1>2, <1>3 DEF Environment

\* What others do leaves the packages of Us alone.
LEMMA Elsewhere ==
  ASSUME SharedInv, SharedOK', at'[Us] = at[Us], UNCHANGED clientVars
  PROVE  SharedInv'
  <1>1. UNCHANGED <<stage, closed, entry, ended, remade>>
    BY DEF clientVars
  <1> QED
    BY <1>1 DEF SharedInv, ClientsTypeOK, PackagesOK

LEMMA OtherInv ==
  ASSUME SharedInv, NEW u \in Others, Other(u)
  PROVE  SharedInv'
  <1>1. u \in Users /\ Us \in Users \ {u} /\ SharedOK /\ UNCHANGED clientVars
    BY SharedSessionsAssumption DEF Users, SharedInv, Other
  <1>2. at \in [Users -> Place]
    BY <1>1 DEF SharedOK, SharedType
  <1>3. CASE at[u] = "out" /\ \E req \in Request : FindClass(u, req)
    BY <1>1, <1>3, FindClassStep, Elsewhere
  <1>4. CASE Work(u) \/ UseSession(u)
    BY <1>1, <1>4, WorkStep, Elsewhere
  <1>5. CASE at[u] \in {"respond", "ready"} /\ Erase(u)
    <2>1. at[u] \notin Busy
      BY <1>5 DEF Busy
    <2> QED
      BY <1>1, <1>5, <2>1, EraseStep, Elsewhere
  <1>6. CASE at[u] = "respond" /\ To(u, "ready") /\ UNCHANGED <<map, class, ref, cred>>
    <2>1. /\ at' = [at EXCEPT ![u] = "ready"] /\ at[u] \notin Busy \cup {"out"}
          /\ "ready" \in Place \ (Busy \cup {"out"}) /\ at'[Us] = at[Us]
      BY <1>1, <1>2, <1>6 DEF To, Busy, Place
    <2> QED
      BY <1>1, <1>6, <2>1, PlaceStep, Elsewhere
  <1> QED
    BY <1>3, <1>4, <1>5, <1>6 DEF Other

-----------------------------------------------------------------------------
LEMMA SharedInitInv == SharedInit => SharedInv
  <1> SUFFICES ASSUME SharedInit
               PROVE  SharedInv
    OBVIOUS
  <1>1. ClientsTypeOK /\ PackagesOK
    BY DEF SharedInit, ClientsInit, ClientsTypeOK, PackagesOK, Stage, Users
  <1>2. SharedType
    BY Requests, SharedSessionsAssumption DEF SharedInit, SharedType, Place
  <1>3. (\A u \in Users : UserOK(u)) /\ MapOK
    BY DEF SharedInit, UserOK, MapOK
  <1>4. ASSUME NEW c \in ClassIds
        PROVE  ClassOK(c)
    <2>1. InUse(c) = {} /\ class[c] = NoClass
      BY DEF SharedInit, InUse
    <2>2. IsFiniteSet({}) /\ Cardinality({}) = 0
      BY FS_EmptySet
    <2> QED
      BY <2>1, <2>2, Requests DEF ClassOK
  <1> QED
    BY <1>1, <1>2, <1>3, <1>4 DEF SharedInv, SharedOK

LEMMA SharedNextInv == SharedInv /\ [SharedNext]_allVars => SharedInv'
  <1> SUFFICES ASSUME SharedInv, [SharedNext]_allVars
               PROVE  SharedInv'
    OBVIOUS
  <1>1. CASE Expire
    <2>1. SharedOK
      BY DEF SharedInv
    <2> QED
      BY <1>1, <2>1, ExpireStep, Elsewhere DEF Expire
  <1>2. CASE UNCHANGED allVars
    <2>1. SharedOK' /\ at' = at /\ UNCHANGED clientVars
      BY <1>2, SharedKept DEF allVars, SharedInv
    <2> QED
      BY <2>1, Elsewhere
  <1> QED
    BY <1>1, <1>2, EnvironmentInv, StepInv, OtherInv DEF SharedNext

-----------------------------------------------------------------------------
(* The theorems.                                                           *)

\* The inductive invariant holds in every reachable state.
THEOREM SharedInvariance == SharedSpec => []SharedInv
  BY SharedInitInv, SharedNextInv, PTL DEF SharedSpec

\* Rep::init gives a client a class made for its own authentication and otherInfo, and
\* the class stays that as long as the client has it, whoever else shares it and
\* whatever the expiry thread drops from the map meanwhile.
THEOREM CredentialsAreOwn == SharedSpec => []OwnCredentials
  <1>1. SharedInv => OwnCredentials
    BY DEF SharedInv, SharedOK, UserOK, OwnCredentials
  <1> QED
    BY <1>1, SharedInvariance, PTL

\* No target session is out of reach of both the map, where it can expire, and the
\* clients, and the sessions counted as used are those that requests use.
THEOREM SessionsAreReachable == SharedSpec => []NoStrandedSessions
  <1>1. SharedInv => NoStrandedSessions
    <2> SUFFICES ASSUME SharedInv
                 PROVE  NoStrandedSessions
      OBVIOUS
    <2>1. SharedTypeOK
      BY DEF SharedInv, SharedOK, SharedType, SharedTypeOK
    <2>2. ASSUME NEW c \in ClassIds
          PROVE  class[c].used =
                     Cardinality({u \in Users : ref[u] = c /\ at[u] \in {"opened", "using"}})
      BY DEF SharedInv, SharedOK, ClassOK, InUse
    <2>3. ASSUME NEW c \in ClassIds, class[c].idle + class[c].used > 0
          PROVE  InMap(c) \/ \E u \in Others \cup (IF entry = "none" THEN {} ELSE {Us}) : ref[u] = c
      <3>1. class[c].alive
        BY <2>3 DEF SharedInv, SharedOK, ClassOK
      <3>2. CASE \E u \in Users : ref[u] = c
        <4>1. PICK u \in Users : ref[u] = c
          BY <3>2
        <4>2. c # 0 /\ at[u] # "out"
          BY <4>1 DEF ClassIds, SharedInv, SharedOK, UserOK
        <4>3. u = Us => entry # "none"
          BY <4>2 DEF SharedInv, PackagesOK
        <4> QED
          BY <4>1, <4>3 DEF Users
      <3> QED
        BY <3>1, <3>2 DEF SharedInv, SharedOK, ClassOK
    <2> QED
      BY <2>1, <2>2, <2>3 DEF NoStrandedSessions
  <1> QED
    BY <1>1, SharedInvariance, PTL
=============================================================================
