------------------------- MODULE Z3950ClientProofs --------------------------
(***************************************************************************)
(* Proofs about the Assocs of z3950_client, for any sessions, targets,     *)
(* packages and max-sockets.                                               *)
(*                                                                         *)
(* A package gets its own answer because at most one request is on the     *)
(* wire of an Assoc that can still be used: whoever gives up waiting       *)
(* closes its package's session, and then releases an Assoc that nobody    *)
(* sends on again (PackageOK).  The count in m_queue_len is exact only     *)
(* with one holder at a time and with no package left behind when the      *)
(* Assoc is deleted and made again (ClientOK, Distinct).                   *)
(***************************************************************************)
EXTENDS Z3950Client, TLAPS, FiniteSetTheorems

Sock == {"sockets", "socketsWoken"}
Using == Holding \cup Queueing

\* A package, by where it is
PackageOK(p) ==
    /\ pc[p] = "new" <=> p[2] > next[Ses(p)]
    /\ pc[p] \in Using => Ses(p) \in clients
    /\ pc[p] \in Sock \cup {"moving"} => Ses(p) \notin clients
    /\ pc[p] = "sending" => assoc[Ses(p)].destroyed \/ wire[Ses(p)] = << >>
    /\ pc[p] = "connect" => wire[Ses(p)] = << >>
    /\ pc[p] = "reply" => wire[Ses(p)] = <<p>>
    /\ pc[p] \in {"connect", "reply"} =>
           \/ assoc[Ses(p)].pkg = p
           \/ assoc[Ses(p)].pkg = << >> /\ closed[p]
    /\ pc[p] = "release" =>
           assoc[Ses(p)].destroyed \/ wire[Ses(p)] = << >> \/ closed[p]
    /\ resp[p] \in {<<"none">>, <<"made">>, <<"answer", p>>}

\* One package of a session holds its Assoc, and one waits for a socket.
Distinct ==
    \A p, q \in P : Ses(p) = Ses(q) =>
        /\ pc[p] \in Holding /\ pc[q] \in Holding => p = q
        /\ pc[p] \in Sock /\ pc[q] \in Sock => p = q

\* An Assoc: who holds it, how many use it, and what is on its wire while nobody does
Held(s) == \E p \in P : Ses(p) = s /\ pc[p] \in Holding
ClientOK(s) ==
    s \in clients =>
        /\ assoc[s].inUse <=> Held(s)
        /\ assoc[s].queueLen = Cardinality(Within(s, Using))
        /\ ~Held(s) => assoc[s].destroyed \/ wire[s] = << >>

Settled(s) == \A p \in P : Ses(p) = s => pc[p] \in {"new", "done"}

\* The end of a session, until it leaves the filter
EndOK(s) ==
    s \in ended =>
        \E p \in P :
            /\ Ses(p) = s /\ kind[p] = "end"
            /\ \/ pc[p] \in Using \cup {"moving"} /\ closed[p]
               \/ pc[p] = "done" /\ (s \in overtaken \/ (s \notin clients /\ Settled(s)))

IInv ==
    /\ TypeOK
    /\ IsFiniteSet(clients)
    /\ \A p \in P : PackageOK(p)
    /\ Distinct
    /\ \A s \in Sessions : ClientOK(s) /\ EndOK(s)
    /\ SocketsBounded

-----------------------------------------------------------------------------
(* Facts about the operators of the model.                                 *)

\* A package is a session and a number.
LEMMA Package ==
  ASSUME NEW p \in P
  PROVE  /\ Ses(p) \in Sessions
         /\ p[2] \in 1 .. MaxPkgs[Ses(p)] /\ p[2] \in Nat /\ p[2] > 0
         /\ p = <<Ses(p), p[2]>>
         /\ p # << >>
  <1>1. PICK s \in Sessions : p \in {s} \X (1 .. MaxPkgs[s])
    BY DEF P
  <1>2. p[1] = s /\ p[2] \in 1 .. MaxPkgs[s] /\ p = <<p[1], p[2]>>
    BY <1>1
  <1>3. MaxPkgs[s] \in Nat
    BY LimitsAssumption
  <1>4. p # << >>
    BY <1>2
  <1> QED
    BY <1>2, <1>3, <1>4 DEF Ses

LEMMA PackageOf ==
  ASSUME NEW s \in Sessions, NEW i \in 1 .. MaxPkgs[s]
  PROVE  <<s, i>> \in P /\ Ses(<<s, i>>) = s
  <1>1. <<s, i>> \in {s} \X (1 .. MaxPkgs[s])
    OBVIOUS
  <1> QED
    BY <1>1 DEF P, Ses

\* A session has finitely many packages.
LEMMA WithinFinite ==
  ASSUME NEW s \in Sessions, NEW where
  PROVE  /\ IsFiniteSet(Within(s, where)) /\ Cardinality(Within(s, where)) \in Nat
         /\ IsFiniteSet(Within(s, where)') /\ Cardinality(Within(s, where)') \in Nat
  <1> DEFINE all == {s} \X (1 .. MaxPkgs[s])
  <1>1. MaxPkgs[s] \in Nat
    BY LimitsAssumption
  <1>2. IsFiniteSet({s})
    BY FS_Singleton
  <1>6. IsFiniteSet(1 .. MaxPkgs[s])
    BY <1>1, FS_Interval
  <1>3. IsFiniteSet(all)
    BY <1>2, <1>6, FS_Product
  <1>4. ASSUME NEW p \in P, Ses(p) = s
        PROVE  p \in all
    <2>1. p[2] \in 1 .. MaxPkgs[s] /\ p = <<s, p[2]>>
      BY <1>4, Package
    <2> QED
      BY <2>1
  <1>5. Within(s, where) \subseteq all /\ Within(s, where)' \subseteq all
    BY <1>4 DEF Within
  <1> QED
    BY <1>3, <1>5, FS_Subset, FS_CardinalityType

\* How a count changes with one element
LEMMA Counting ==
  ASSUME NEW S, IsFiniteSet(S), NEW x
  PROVE  /\ Cardinality(S) \in Nat
         /\ IsFiniteSet(S \cup {x}) /\ IsFiniteSet(S \ {x})
         /\ x \notin S => Cardinality(S \cup {x}) = Cardinality(S) + 1
         /\ x \in S => Cardinality(S \ {x}) = Cardinality(S) - 1 /\ Cardinality(S) > 0
         /\ Cardinality(S) = 0 <=> S = {}
  <1>1. Cardinality(S) \in Nat
    BY FS_CardinalityType
  <1>2. IsFiniteSet(S \cup {x}) /\ (x \notin S => Cardinality(S \cup {x}) = Cardinality(S) + 1)
    BY FS_AddElement
  <1>3. IsFiniteSet(S \ {x}) /\ (x \in S => Cardinality(S \ {x}) = Cardinality(S) - 1)
    BY FS_RemoveElement
  <1>4. Cardinality(S) = 0 <=> S = {}
    BY FS_EmptySet
  <1>5. x \in S => Cardinality(S) > 0
    BY <1>1, <1>4
  <1> QED
    BY <1>1, <1>2, <1>3, <1>4, <1>5

-----------------------------------------------------------------------------
(* What a step of package p of session s leaves alone.                     *)

\* The other packages stay where they are; those asleep may be woken.
Others(p) ==
    \A q \in P \ {p} :
        /\ resp'[q] = resp[q] /\ closed'[q] = closed[q] /\ kind'[q] = kind[q]
        /\ \/ pc'[q] = pc[q]
           \/ pc[q] = "queued" /\ pc'[q] = "queuedWoken"
           \/ pc[q] = "sockets" /\ pc'[q] = "socketsWoken"

Elsewhere(s) ==
    \A u \in Sessions \ {s} :
        /\ assoc'[u] = assoc[u] /\ wire'[u] = wire[u]
        /\ u \in clients' <=> u \in clients
        /\ u \in ended' <=> u \in ended
        /\ u \in overtaken => u \in overtaken'

\* Others are in the same set of places before and after.
LEMMA OthersPlace ==
  ASSUME NEW p \in P, Others(p), NEW q \in P, q # p
  PROVE  /\ pc'[q] \in Holding <=> pc[q] \in Holding
         /\ pc'[q] \in Using <=> pc[q] \in Using
         /\ pc'[q] \in Sock <=> pc[q] \in Sock
         /\ pc'[q] = "moving" <=> pc[q] = "moving"
         /\ pc'[q] = "new" <=> pc[q] = "new"
         /\ pc'[q] = "done" <=> pc[q] = "done"
         /\ pc[q] \in Holding => pc'[q] = pc[q]
         /\ resp'[q] = resp[q] /\ closed'[q] = closed[q] /\ kind'[q] = kind[q]
  BY DEF Others, Holding, Queueing, Using, Sock

\* What has to be shown of a step of one package
LEMMA Frame ==
  ASSUME IInv, NEW p \in P, NEW s \in Sessions, s = Ses(p), Others(p), Elsewhere(s),
         TypeOK', IsFiniteSet(clients'), SocketsBounded',
         \A q \in P \ {p} : q[2] > next'[Ses(q)] <=> q[2] > next[Ses(q)],
         PackageOK(p)', ClientOK(s)', EndOK(s)',
         \A q \in P \ {p} : Ses(q) = s /\ pc[q] \in Holding =>
             /\ pc'[p] \notin Holding /\ wire'[s] = wire[s]
             /\ assoc'[s].pkg = assoc[s].pkg /\ assoc'[s].destroyed = assoc[s].destroyed,
         pc'[p] \in Sock => \A q \in P \ {p} : Ses(q) = s => pc[q] \notin Sock,
         s \in clients' /\ s \notin clients =>
             \A q \in P \ {p} : Ses(q) = s => pc[q] \notin Sock \cup {"moving"},
         s \notin clients' /\ s \in clients =>
             \A q \in P \ {p} : Ses(q) = s => pc[q] \notin Using
  PROVE  IInv'
  <1>1. ASSUME NEW q \in P, q # p
        PROVE  PackageOK(q)'
    <2>1. PackageOK(q) /\ Ses(q) \in Sessions
      BY Package DEF IInv
    <2>2. /\ pc'[q] \in Using <=> pc[q] \in Using
          /\ pc'[q] \in Sock <=> pc[q] \in Sock
          /\ pc'[q] = "moving" <=> pc[q] = "moving"
          /\ pc'[q] = "new" <=> pc[q] = "new"
          /\ pc'[q] \in Holding <=> pc[q] \in Holding
          /\ pc[q] \in Holding => pc'[q] = pc[q]
          /\ resp'[q] = resp[q] /\ closed'[q] = closed[q]
      BY <1>1, OthersPlace
    <2>3. pc'[q] = "new" <=> q[2] > next'[Ses(q)]
      BY <1>1, <2>1, <2>2 DEF PackageOK
    <2>4. /\ pc'[q] \in Using => Ses(q) \in clients'
          /\ pc'[q] \in Sock \cup {"moving"} => Ses(q) \notin clients'
      BY <1>1, <2>1, <2>2 DEF PackageOK, Elsewhere
    <2>5. pc[q] \in Holding => /\ wire'[Ses(q)] = wire[Ses(q)]
                               /\ assoc'[Ses(q)].pkg = assoc[Ses(q)].pkg
                               /\ assoc'[Ses(q)].destroyed = assoc[Ses(q)].destroyed
      BY <1>1, <2>1 DEF Elsewhere
    <2>6. /\ pc'[q] = "sending" => assoc'[Ses(q)].destroyed \/ wire'[Ses(q)] = << >>
          /\ pc'[q] = "connect" => wire'[Ses(q)] = << >>
          /\ pc'[q] = "reply" => wire'[Ses(q)] = <<q>>
          /\ pc'[q] \in {"connect", "reply"} =>
                 \/ assoc'[Ses(q)].pkg = q
                 \/ assoc'[Ses(q)].pkg = << >> /\ closed'[q]
          /\ pc'[q] = "release" =>
                 assoc'[Ses(q)].destroyed \/ wire'[Ses(q)] = << >> \/ closed'[q]
      BY <2>1, <2>2, <2>5 DEF PackageOK, Holding
    <2>7. resp'[q] \in {<<"none">>, <<"made">>, <<"answer", q>>}
      BY <2>1, <2>2 DEF PackageOK
    <2> QED
      BY <2>3, <2>4, <2>6, <2>7 DEF PackageOK
  <1>2. Distinct'
    <2> SUFFICES ASSUME NEW q \in P, NEW r \in P, Ses(q) = Ses(r), q # r
                 PROVE  /\ ~(pc'[q] \in Holding /\ pc'[r] \in Holding)
                        /\ ~(pc'[q] \in Sock /\ pc'[r] \in Sock)
      BY DEF Distinct
    <2>1. CASE q # p /\ r # p
      BY <2>1, OthersPlace DEF IInv, Distinct
    <2>2. CASE q = p
      BY <2>2, OthersPlace
    <2>3. CASE r = p
      BY <2>3, OthersPlace
    <2> QED
      BY <2>1, <2>2, <2>3
  <1>3. ASSUME NEW u \in Sessions, u # s
        PROVE  ClientOK(u)' /\ EndOK(u)'
    <2>1. /\ assoc'[u] = assoc[u] /\ wire'[u] = wire[u]
          /\ u \in clients' <=> u \in clients
          /\ u \in ended' <=> u \in ended
          /\ u \in overtaken => u \in overtaken'
      BY <1>3 DEF Elsewhere
    <2>2. ASSUME NEW q \in P, Ses(q) = u
          PROVE  q # p
      BY <1>3, <2>2
    <2>3. Within(u, Using)' = Within(u, Using) /\ (Held(u)' <=> Held(u))
      BY <2>2, OthersPlace DEF Within, Held
    <2>4. ClientOK(u)'
      BY <2>1, <2>3 DEF IInv, ClientOK
    <2>5. Settled(u) => Settled(u)'
      BY <2>2, OthersPlace DEF Settled
    <2>6. EndOK(u)'
      BY <2>1, <2>2, <2>5, OthersPlace DEF IInv, EndOK
    <2> QED
      BY <2>4, <2>6
  <1> QED
    BY <1>1, <1>2, <1>3 DEF IInv

-----------------------------------------------------------------------------
(* Each action preserves the invariant.                                    *)

\* The package that holds the Assoc goes on: the connection is its alone.
LEMMA HolderStep ==
  ASSUME IInv, NEW p \in P, NEW s \in Sessions, s = Ses(p),
         pc[p] \in Holding, pc'[p] \in Holding,
         \A q \in P \ {p} : pc'[q] = pc[q] /\ resp'[q] = resp[q] /\ closed'[q] = closed[q],
         \A u \in Sessions \ {s} : assoc'[u] = assoc[u] /\ wire'[u] = wire[u],
         UNCHANGED <<clients, next, ended, kind, overtaken>>,
         closed[p] => closed'[p],
         assoc'[s].inUse = assoc[s].inUse, assoc'[s].queueLen = assoc[s].queueLen,
         TypeOK',
         pc'[p] = "connect" => wire'[s] = << >>,
         pc'[p] = "reply" => wire'[s] = <<p>>,
         pc'[p] \in {"connect", "reply"} =>
             \/ assoc'[s].pkg = p
             \/ assoc'[s].pkg = << >> /\ closed'[p],
         pc'[p] = "release" => assoc'[s].destroyed \/ wire'[s] = << >> \/ closed'[p],
         pc'[p] # "sending",
         resp'[p] \in {<<"none">>, <<"made">>, <<"answer", p>>}
  PROVE  IInv'
  <1>1. Others(p) /\ Elsewhere(s)
    BY DEF Others, Elsewhere
  <1>2. \A q \in P : Ses(q) = s /\ pc[q] \in Holding => q = p
    BY DEF IInv, Distinct
  <1>3. PackageOK(p) /\ ClientOK(s) /\ EndOK(s) /\ s \in clients
    BY DEF IInv, PackageOK, Using
  <1>4. PackageOK(p)'
    <2>1. pc[p] # "new" /\ pc'[p] # "new"
      BY DEF Holding
    <2>2. pc'[p] \notin Sock \cup {"moving"}
      BY DEF Holding, Sock
    <2> QED
      BY <1>3, <2>1, <2>2 DEF PackageOK
  <1>5. Within(s, Using)' = Within(s, Using) /\ Held(s) /\ Held(s)'
    BY DEF Within, Using, Held
  <1>6. ClientOK(s)'
    BY <1>3, <1>5 DEF ClientOK
  <1>7. EndOK(s)'
    <2> SUFFICES ASSUME s \in ended
                 PROVE  EndOK(s)'
      BY DEF EndOK
    <2>1. ~Settled(s)
      BY DEF Settled, Holding
    <2>2. PICK e \in P :
              /\ Ses(e) = s /\ kind[e] = "end"
              /\ \/ pc[e] \in Using \cup {"moving"} /\ closed[e]
                 \/ pc[e] = "done" /\ s \in overtaken
      BY <1>3, <2>1 DEF EndOK
    <2>3. CASE e = p
      BY <2>2, <2>3 DEF EndOK, Using, Holding
    <2>4. CASE e # p
      BY <2>2, <2>4 DEF EndOK
    <2> QED
      BY <2>3, <2>4
  <1>8. IsFiniteSet(clients') /\ SocketsBounded'
    BY DEF IInv, SocketsBounded
  <1>9. pc'[p] \notin Sock
    BY DEF Holding, Sock
  <1> QED
    BY <1>1, <1>2, <1>4, <1>6, <1>7, <1>8, <1>9, Frame

\* The package of an Assoc that is waited for, or none
LEMMA WaitedFor ==
  ASSUME IInv, NEW p \in P, pc[p] \in {"connect", "reply"}
  PROVE  /\ p # << >>
         /\ assoc[Ses(p)].pkg \in {p, << >>}
         /\ assoc[Ses(p)].pkg = << >> => closed[p]
  <1>1. p # << >>
    BY Package
  <1> QED
    BY <1>1 DEF IInv, PackageOK

\* Giving up closes the session of the package that waits.
LEMMA GaveUp ==
  ASSUME IInv, NEW p \in P, pc[p] \in {"connect", "reply"}, GiveUp(p)
  PROVE  /\ closed'[p]
         /\ resp'[p] = resp[p] \/ resp'[p] = <<"made">>
         /\ \A q \in P \ {p} : resp'[q] = resp[q] /\ closed'[q] = closed[q]
         /\ resp' \in [P -> Resp] /\ closed' \in [P -> BOOLEAN]
  <1>1. resp \in [P -> Resp] /\ closed \in [P -> BOOLEAN] /\ <<"made">> \in Resp
    BY DEF IInv, TypeOK, Resp
  <1>2. CASE assoc[Ses(p)].pkg = << >>
    BY <1>1, <1>2, WaitedFor DEF GiveUp
  <1>3. CASE assoc[Ses(p)].pkg = p /\ p # << >>
    <2>1. resp' = [resp EXCEPT ![p] = <<"made">>] /\ closed' = [closed EXCEPT ![p] = TRUE]
      BY <1>3 DEF GiveUp
    <2> QED
      BY <1>1, <2>1
  <1> QED
    BY <1>2, <1>3, WaitedFor

LEMMA TimeoutNotifyInv ==
  ASSUME IInv, NEW p \in P, TimeoutNotify(p)
  PROVE  IInv'
  <1>0. PICK s \in Sessions : s = Ses(p)
    BY Package
  <1>1. /\ pc[p] \in {"connect", "reply"} /\ GiveUp(p)
        /\ pc' = [pc EXCEPT ![p] = "release"]
        /\ UNCHANGED <<clients, assoc, wire, next, ended, kind, overtaken>>
    BY DEF TimeoutNotify, Go
  <1>2. /\ closed'[p]
        /\ resp'[p] = resp[p] \/ resp'[p] = <<"made">>
        /\ \A q \in P \ {p} : resp'[q] = resp[q] /\ closed'[q] = closed[q]
        /\ resp' \in [P -> Resp] /\ closed' \in [P -> BOOLEAN]
    BY <1>1, GaveUp
  <1>3. pc \in [P -> PC] /\ resp[p] \in {<<"none">>, <<"made">>, <<"answer", p>>}
    BY DEF IInv, TypeOK, PackageOK
  <1>4. pc'[p] = "release" /\ \A q \in P \ {p} : pc'[q] = pc[q]
    BY <1>1, <1>3
  <1>5. pc' \in [P -> PC]
    BY <1>1, <1>3 DEF PC, Holding
  <1>6. TypeOK'
    BY <1>1, <1>2, <1>5 DEF IInv, TypeOK
  <1>7. pc[p] \in Holding /\ pc'[p] \in Holding
    BY <1>1, <1>4 DEF Holding
  <1> QED
    BY <1>0, <1>1, <1>2, <1>3, <1>4, <1>6, <1>7, HolderStep

LEMMA FailNotifyInv ==
  ASSUME IInv, NEW p \in P, FailNotify(p)
  PROVE  IInv'
  <1>0. PICK s \in Sessions : s = Ses(p)
    BY Package
  <1>1. /\ pc[p] \in {"connect", "reply"} /\ GiveUp(p)
        /\ pc' = [pc EXCEPT ![p] = "release"]
        /\ wire' = [wire EXCEPT ![s] = << >>]
        /\ UNCHANGED <<clients, assoc, next, ended, kind, overtaken>>
    BY <1>0 DEF FailNotify, Go
  <1>2. /\ closed'[p]
        /\ resp'[p] = resp[p] \/ resp'[p] = <<"made">>
        /\ \A q \in P \ {p} : resp'[q] = resp[q] /\ closed'[q] = closed[q]
        /\ resp' \in [P -> Resp] /\ closed' \in [P -> BOOLEAN]
    BY <1>1, GaveUp
  <1>3. /\ pc \in [P -> PC] /\ resp[p] \in {<<"none">>, <<"made">>, <<"answer", p>>}
        /\ wire \in [Sessions -> Seq(P)] /\ << >> \in Seq(P)
    BY DEF IInv, TypeOK, PackageOK
  <1>4. /\ pc'[p] = "release" /\ \A q \in P \ {p} : pc'[q] = pc[q]
        /\ wire' \in [Sessions -> Seq(P)] /\ \A u \in Sessions \ {s} : wire'[u] = wire[u]
    BY <1>1, <1>3
  <1>5. pc' \in [P -> PC]
    BY <1>1, <1>3 DEF PC, Holding
  <1>6. TypeOK'
    BY <1>1, <1>2, <1>4, <1>5 DEF IInv, TypeOK
  <1>7. pc[p] \in Holding /\ pc'[p] \in Holding
    BY <1>1, <1>4 DEF Holding
  <1> QED
    BY <1>0, <1>1, <1>2, <1>3, <1>4, <1>6, <1>7, HolderStep

\* The answer on the wire is the one to the request of the package that waits.
LEMMA RecvGDUInv ==
  ASSUME IInv, NEW p \in P, RecvGDU(p)
  PROVE  IInv'
  <1>0. PICK s \in Sessions : s = Ses(p)
    BY Package
  <1>1. /\ pc[p] = "reply"
        /\ pc' = [pc EXCEPT ![p] = "release"]
        /\ wire' = [wire EXCEPT ![s] = Tail(@)]
        /\ resp' = IF assoc[s].pkg = << >> THEN resp
                   ELSE [resp EXCEPT ![assoc[s].pkg] = <<"answer", Head(wire[s])>>]
        /\ UNCHANGED <<clients, assoc, next, ended, kind, closed, overtaken>>
    BY <1>0 DEF RecvGDU, Go
  <1>2. /\ pc \in [P -> PC] /\ resp[p] \in {<<"none">>, <<"made">>, <<"answer", p>>}
        /\ wire \in [Sessions -> Seq(P)] /\ resp \in [P -> Resp] /\ wire[s] = <<p>>
    BY <1>0, <1>1 DEF IInv, TypeOK, PackageOK
  <1>3. Tail(<<p>>) = << >> /\ Head(<<p>>) = p /\ << >> \in Seq(P)
    OBVIOUS
  <1>4. /\ pc'[p] = "release" /\ \A q \in P \ {p} : pc'[q] = pc[q]
        /\ wire' \in [Sessions -> Seq(P)] /\ \A u \in Sessions \ {s} : wire'[u] = wire[u]
        /\ wire'[s] = << >>
    BY <1>1, <1>2, <1>3
  <1>5. pc' \in [P -> PC]
    BY <1>1, <1>2 DEF PC, Holding
  <1>6. /\ resp' \in [P -> Resp]
        /\ resp'[p] \in {<<"none">>, <<"made">>, <<"answer", p>>}
        /\ \A q \in P \ {p} : resp'[q] = resp[q]
    <2>1. <<"answer", p>> \in Resp
      BY DEF Resp
    <2>2. assoc[s].pkg \in {p, << >>} /\ p # << >>
      BY <1>0, <1>1, WaitedFor
    <2>3. CASE assoc[s].pkg = << >>
      BY <1>1, <1>2, <2>3
    <2>4. CASE assoc[s].pkg = p
      <3>1. resp' = [resp EXCEPT ![p] = <<"answer", p>>]
        BY <1>1, <1>2, <1>3, <2>2, <2>4
      <3> QED
        BY <1>2, <2>1, <3>1
    <2> QED
      BY <2>2, <2>3, <2>4
  <1>7. TypeOK'
    BY <1>1, <1>4, <1>5, <1>6 DEF IInv, TypeOK
  <1>8. pc[p] \in Holding /\ pc'[p] \in Holding
    BY <1>1, <1>4 DEF Holding
  <1> QED
    BY <1>0, <1>1, <1>4, <1>6, <1>7, <1>8, HolderStep

\* send_GDU, on a wire with nothing on it
LEMMA Transmitted ==
  ASSUME IInv, NEW p \in P, NEW s \in Sessions, s = Ses(p), wire[s] = << >>,
         NEW req, Transmit(p, req)
  PROVE  /\ pc'[p] \in {"release", "reply"} /\ pc' \in [P -> PC]
         /\ pc'[p] = "release" => wire'[s] = << >>
         /\ pc'[p] = "reply" => wire'[s] = <<p>>
         /\ wire' \in [Sessions -> Seq(P)]
         /\ \A u \in Sessions \ {s} : wire'[u] = wire[u]
         /\ \A q \in P \ {p} : pc'[q] = pc[q]
         /\ UNCHANGED <<resp, closed>>
  <1>1. pc \in [P -> PC] /\ wire \in [Sessions -> Seq(P)]
    BY DEF IInv, TypeOK
  <1>2. /\ wire' = [wire EXCEPT ![s] = IF req = "trigger" THEN @ ELSE Append(@, p)]
        /\ pc' = [pc EXCEPT ![p] = IF req = "trigger" THEN "release" ELSE "reply"]
        /\ UNCHANGED <<resp, closed>>
    BY DEF Transmit, Go
  <1>3. Append(<< >>, p) = <<p>> /\ <<p>> \in Seq(P) /\ << >> \in Seq(P)
    OBVIOUS
  <1>4. "release" \in PC /\ "reply" \in PC
    BY DEF PC, Holding
  <1>5. CASE req = "trigger"
    BY <1>1, <1>2, <1>3, <1>4, <1>5
  <1>6. CASE req # "trigger"
    <2>1. wire' = [wire EXCEPT ![s] = <<p>>] /\ pc' = [pc EXCEPT ![p] = "reply"]
      BY <1>2, <1>3, <1>6
    <2> QED
      BY <1>1, <1>2, <1>3, <1>4, <2>1
  <1> QED
    BY <1>5, <1>6

LEMMA ConnectNotifyInv ==
  ASSUME IInv, NEW p \in P, ConnectNotify(p)
  PROVE  IInv'
  <1>0. PICK s \in Sessions : s = Ses(p)
    BY Package
  <1>1. /\ pc[p] = "connect"
        /\ assoc' = [assoc EXCEPT ![s].connected = TRUE]
        /\ Transmit(p, kind[p])
        /\ UNCHANGED <<clients, next, ended, kind, overtaken>>
    BY <1>0 DEF ConnectNotify
  <1>2. /\ assoc \in [Sessions -> Assoc] /\ wire[s] = << >>
        /\ resp[p] \in {<<"none">>, <<"made">>, <<"answer", p>>}
    BY <1>0, <1>1 DEF IInv, TypeOK, PackageOK
  <1>3. /\ pc'[p] \in {"release", "reply"} /\ pc' \in [P -> PC]
        /\ pc'[p] = "release" => wire'[s] = << >>
        /\ pc'[p] = "reply" => wire'[s] = <<p>>
        /\ wire' \in [Sessions -> Seq(P)]
        /\ \A u \in Sessions \ {s} : wire'[u] = wire[u]
        /\ \A q \in P \ {p} : pc'[q] = pc[q]
        /\ UNCHANGED <<resp, closed>>
    BY <1>0, <1>1, <1>2, Transmitted
  <1>4. assoc[s] \in Assoc
    BY <1>2
  <1>5. [assoc[s] EXCEPT !.connected = TRUE] \in Assoc
    BY <1>4 DEF Assoc
  <1>6. assoc' = [assoc EXCEPT ![s] = [assoc[s] EXCEPT !.connected = TRUE]]
    BY <1>1
  <1>7. /\ assoc'[s] = [assoc[s] EXCEPT !.connected = TRUE]
        /\ assoc' \in [Sessions -> Assoc]
        /\ \A u \in Sessions \ {s} : assoc'[u] = assoc[u]
    BY <1>2, <1>5, <1>6
  <1>8. /\ assoc'[s].inUse = assoc[s].inUse /\ assoc'[s].queueLen = assoc[s].queueLen
        /\ assoc'[s].pkg = assoc[s].pkg
    BY <1>4, <1>7 DEF Assoc
  <1>9. TypeOK'
    BY <1>1, <1>3, <1>7 DEF IInv, TypeOK
  <1>10. assoc[s].pkg = p \/ (assoc[s].pkg = << >> /\ closed[p])
    BY <1>0, <1>1 DEF IInv, PackageOK
  <1>11. pc[p] \in Holding /\ pc'[p] \in Holding /\ pc'[p] # "sending" /\ pc'[p] # "connect"
    BY <1>1, <1>3 DEF Holding
  <1> QED
    BY <1>0, <1>1, <1>2, <1>3, <1>7, <1>8, <1>9, <1>10, <1>11, HolderStep, SMTT(30)

\* send_and_receive, up to its first wait
LEMMA SendInv ==
  ASSUME IInv, NEW p \in P, Send(p)
  PROVE  IInv'
  <1>0. PICK s \in Sessions : s = Ses(p)
    BY Package
  <1>1. pc[p] = "sending" /\ UNCHANGED <<clients, next, ended, kind, overtaken>>
    BY DEF Send
  <1>2. /\ assoc \in [Sessions -> Assoc] /\ pc \in [P -> PC] /\ wire \in [Sessions -> Seq(P)]
        /\ resp \in [P -> Resp] /\ closed \in [P -> BOOLEAN]
        /\ resp[p] \in {<<"none">>, <<"made">>, <<"answer", p>>}
        /\ assoc[s].destroyed \/ wire[s] = << >>
    BY <1>0, <1>1 DEF IInv, TypeOK, PackageOK
  <1>3. "release" \in PC /\ "connect" \in PC /\ pc[p] \in Holding
    BY <1>1 DEF PC, Holding
  <1>4. CASE ~Usable(p)
    <2>1. pc' = [pc EXCEPT ![p] = "release"] /\ UNCHANGED <<assoc, wire, resp, closed>>
      BY <1>4 DEF Send, Go
    <2>2. pc' \in [P -> PC] /\ pc'[p] = "release" /\ \A q \in P \ {p} : pc'[q] = pc[q]
      BY <1>2, <1>3, <2>1
    <2>3. TypeOK'
      BY <1>1, <2>1, <2>2 DEF IInv, TypeOK
    <2>4. assoc'[s].destroyed
      BY <1>0, <1>4, <2>1 DEF Usable
    <2>5. pc'[p] \in Holding
      BY <2>2 DEF Holding
    <2> QED
      BY <1>0, <1>1, <1>2, <1>3, <2>1, <2>2, <2>3, <2>4, <2>5, HolderStep
  <1>5. CASE Usable(p)
    <2> DEFINE a == [assoc[s] EXCEPT !.pkg = IF Forced(p) THEN << >> ELSE p,
                                     !.hasClosed = @ \/ Request(p) = "close"]
    <2>1. assoc' = [assoc EXCEPT ![s].pkg = IF Forced(p) THEN << >> ELSE p,
                                 ![s].hasClosed = @ \/ Request(p) = "close"]
      BY <1>0, <1>5 DEF Send
    <2>2. assoc' = [assoc EXCEPT ![s] = a]
      BY <1>2, <2>1
    <2>3. assoc[s] \in Assoc /\ wire[s] = << >>
      BY <1>0, <1>2, <1>5 DEF Usable
    <2>4. (assoc[s].hasClosed \/ Request(p) = "close") \in BOOLEAN
      OBVIOUS
    <2>5. a \in Assoc /\ a.inUse = assoc[s].inUse /\ a.queueLen = assoc[s].queueLen
      BY <2>3, <2>4 DEF Assoc
    <2>6. a.pkg = IF Forced(p) THEN << >> ELSE p
      BY <2>3 DEF Assoc
    <2>7. Forced(p) => closed[p]
      BY DEF Forced
    <2> HIDE DEF a
    <2>8. /\ assoc'[s] = a /\ assoc' \in [Sessions -> Assoc]
          /\ \A u \in Sessions \ {s} : assoc'[u] = assoc[u]
          /\ assoc'[s].inUse = assoc[s].inUse /\ assoc'[s].queueLen = assoc[s].queueLen
          /\ assoc'[s].pkg = p \/ (assoc'[s].pkg = << >> /\ closed[p])
      BY <1>2, <2>2, <2>5, <2>6, <2>7
    <2>9. CASE /\ pc' = [pc EXCEPT ![p] = "release"]
               /\ UNCHANGED <<wire, resp, closed>>
      <3>1. pc' \in [P -> PC] /\ pc'[p] = "release" /\ \A q \in P \ {p} : pc'[q] = pc[q]
        BY <1>2, <1>3, <2>9
      <3>2. TypeOK'
        BY <1>1, <2>8, <2>9, <3>1 DEF IInv, TypeOK
      <3>3. pc'[p] \in Holding
        BY <3>1 DEF Holding
      <3>4. /\ closed'[p] = closed[p] /\ resp'[p] = resp[p]
            /\ \A q \in P \ {p} : pc'[q] = pc[q] /\ resp'[q] = resp[q] /\ closed'[q] = closed[q]
            /\ wire'[s] = << >> /\ \A u \in Sessions \ {s} : wire'[u] = wire[u]
        BY <2>3, <2>9, <3>1
      <3>5. assoc'[s].pkg = p \/ (assoc'[s].pkg = << >> /\ closed'[p])
        BY <2>8, <3>4
      <3> QED
        BY <1>0, <1>1, <1>2, <1>3, <2>8, <3>1, <3>2, <3>3, <3>4, <3>5, HolderStep, SMTT(30)
    <2>10. CASE pc' = [pc EXCEPT ![p] = "connect"] /\ UNCHANGED <<wire, resp, closed>>
      <3>1. pc' \in [P -> PC] /\ pc'[p] = "connect" /\ \A q \in P \ {p} : pc'[q] = pc[q]
        BY <1>2, <1>3, <2>10
      <3>2. TypeOK'
        BY <1>1, <2>8, <2>10, <3>1 DEF IInv, TypeOK
      <3>3. pc'[p] \in Holding
        BY <3>1 DEF Holding
      <3>4. /\ closed'[p] = closed[p] /\ resp'[p] = resp[p]
            /\ \A q \in P \ {p} : pc'[q] = pc[q] /\ resp'[q] = resp[q] /\ closed'[q] = closed[q]
            /\ wire'[s] = << >> /\ \A u \in Sessions \ {s} : wire'[u] = wire[u]
        BY <2>3, <2>10, <3>1
      <3>5. assoc'[s].pkg = p \/ (assoc'[s].pkg = << >> /\ closed'[p])
        BY <2>8, <3>4
      <3> QED
        BY <1>0, <1>1, <1>2, <1>3, <2>8, <3>1, <3>2, <3>3, <3>4, <3>5, HolderStep, SMTT(30)
    <2>11. CASE Refuse(p, "release") /\ UNCHANGED wire
      <3>1. /\ pc' = [pc EXCEPT ![p] = "release"]
            /\ resp' = [resp EXCEPT ![p] = <<"made">>]
            /\ closed' = [closed EXCEPT ![p] = TRUE]
        BY <2>11 DEF Refuse, Go
      <3>2. pc' \in [P -> PC] /\ pc'[p] = "release" /\ \A q \in P \ {p} : pc'[q] = pc[q]
        BY <1>2, <1>3, <3>1
      <3>3. <<"made">> \in Resp
        BY DEF Resp
      <3>4. /\ resp' \in [P -> Resp] /\ closed' \in [P -> BOOLEAN]
            /\ resp'[p] = <<"made">> /\ closed'[p]
            /\ \A q \in P \ {p} : resp'[q] = resp[q] /\ closed'[q] = closed[q]
        BY <1>2, <3>1, <3>3
      <3>5. TypeOK'
        BY <1>1, <2>8, <2>11, <3>2, <3>4 DEF IInv, TypeOK
      <3>6. pc'[p] \in Holding
        BY <3>2 DEF Holding
      <3> QED
        BY <1>0, <1>1, <1>2, <1>3, <2>8, <2>11, <3>2, <3>4, <3>5, <3>6, HolderStep, ZenonT(60)
    <2>12. CASE Transmit(p, Request(p))
      <3>1. /\ pc'[p] \in {"release", "reply"} /\ pc' \in [P -> PC]
            /\ pc'[p] = "release" => wire'[s] = << >>
            /\ pc'[p] = "reply" => wire'[s] = <<p>>
            /\ wire' \in [Sessions -> Seq(P)]
            /\ \A u \in Sessions \ {s} : wire'[u] = wire[u]
            /\ \A q \in P \ {p} : pc'[q] = pc[q]
            /\ UNCHANGED <<resp, closed>>
        BY <1>0, <2>3, <2>12, Transmitted
      <3>2. TypeOK'
        BY <1>1, <2>8, <3>1 DEF IInv, TypeOK
      <3>3. pc'[p] \in Holding /\ pc'[p] # "sending" /\ pc'[p] # "connect"
        BY <3>1 DEF Holding
      <3>4. /\ closed'[p] = closed[p] /\ resp'[p] = resp[p]
            /\ \A q \in P \ {p} : pc'[q] = pc[q] /\ resp'[q] = resp[q] /\ closed'[q] = closed[q]
        BY <3>1
      <3>5. assoc'[s].pkg = p \/ (assoc'[s].pkg = << >> /\ closed'[p])
        BY <2>8, <3>4
      <3> QED
        BY <1>0, <1>1, <1>2, <1>3, <2>8, <3>1, <3>2, <3>3, <3>4, <3>5, HolderStep, ZenonT(60)
    <2>13. \/ Go(p, "release") /\ UNCHANGED <<wire, resp, closed>>
           \/ Go(p, "connect") /\ UNCHANGED <<wire, resp, closed>>
           \/ Refuse(p, "release") /\ UNCHANGED wire
           \/ Transmit(p, Request(p))
      BY <1>5 DEF Send
    <2> QED
      BY <2>9, <2>10, <2>11, <2>12, <2>13 DEF Go
  <1> QED
    BY <1>4, <1>5

\* A package comes to use the Assoc of its session: it queues, queues on or takes it.
LEMMA JoinInv ==
  ASSUME IInv, NEW p \in P, NEW s \in Sessions, s = Ses(p), s \in clients,
         pc[p] \notin Holding, pc'[p] \in {"sending", "queued", "queuedWoken"},
         NEW a \in Assoc, assoc' = [assoc EXCEPT ![s] = a],
         a.destroyed = assoc[s].destroyed, a.pkg = assoc[s].pkg,
         a.queueLen = IF pc[p] \in Using THEN assoc[s].queueLen ELSE assoc[s].queueLen + 1,
         pc'[p] = "sending" => ~assoc[s].inUse /\ a.inUse,
         pc'[p] # "sending" => a.inUse = assoc[s].inUse,
         Others(p), UNCHANGED <<clients, wire, overtaken>>,
         \A u \in Sessions \ {s} : u \in ended' <=> u \in ended,
         \A q \in P \ {p} : q[2] > next'[Ses(q)] <=> q[2] > next[Ses(q)],
         ~(p[2] > next'[s]), resp'[p] = resp[p], TypeOK', EndOK(s)'
  PROVE  IInv'
  <1>1. assoc \in [Sessions -> Assoc] /\ PackageOK(p) /\ ClientOK(s)
    BY DEF IInv, TypeOK
  <1>2. assoc'[s] = a /\ \A u \in Sessions \ {s} : assoc'[u] = assoc[u]
    BY <1>1
  <1>3. Elsewhere(s)
    BY <1>2 DEF Elsewhere
  <1>4. ~assoc[s].inUse => \A q \in P : Ses(q) = s => pc[q] \notin Holding
    BY <1>1 DEF ClientOK, Held
  <1>5. pc'[p] \in Using /\ pc'[p] \notin Sock /\ pc'[p] # "moving" /\ pc'[p] # "new"
    BY DEF Using, Holding, Queueing, Sock
  <1>6. PackageOK(p)'
    <2>1. pc'[p] = "sending" => assoc'[s].destroyed \/ wire'[s] = << >>
      BY <1>1, <1>2 DEF ClientOK
    <2> QED
      BY <1>1, <1>5, <2>1 DEF PackageOK
  <1>7. ClientOK(s)'
    <2>1. a.inUse <=> Held(s)'
      <3>1. CASE pc'[p] = "sending"
        BY <3>1 DEF Held, Holding
      <3>2. CASE pc'[p] # "sending"
        <4>1. pc'[p] \notin Holding
          BY <3>2 DEF Holding
        <4>2. Held(s)' <=> Held(s)
          BY <4>1, OthersPlace DEF Held
        <4> QED
          BY <1>1, <3>2, <4>2 DEF ClientOK
      <3> QED
        BY <3>1, <3>2
    <2>2. a.queueLen = Cardinality(Within(s, Using)')
      <3>1. Within(s, Using)' = Within(s, Using) \cup {p}
        BY <1>5, OthersPlace DEF Within
      <3>2. IsFiniteSet(Within(s, Using)) /\ assoc[s].queueLen = Cardinality(Within(s, Using))
        BY <1>1, WithinFinite DEF ClientOK
      <3>3. CASE pc[p] \in Using
        <4>1. Within(s, Using) \cup {p} = Within(s, Using)
          BY <3>3 DEF Within
        <4> QED
          BY <3>1, <3>2, <3>3, <4>1
      <3>4. CASE pc[p] \notin Using
        <4>1. p \notin Within(s, Using)
          BY <3>4 DEF Within
        <4>2. Cardinality(Within(s, Using) \cup {p}) = Cardinality(Within(s, Using)) + 1
          BY <3>2, <4>1, Counting
        <4> QED
          BY <3>1, <3>2, <3>4, <4>2
      <3> QED
        BY <3>3, <3>4
    <2>3. ~Held(s)' => a.destroyed \/ wire'[s] = << >>
      <3>1. Held(s) => Held(s)'
        BY OthersPlace DEF Held
      <3> QED
        BY <1>1, <3>1 DEF ClientOK
    <2> QED
      BY <1>2, <2>1, <2>2, <2>3 DEF ClientOK
  <1>8. ASSUME NEW q \in P \ {p}, Ses(q) = s, pc[q] \in Holding
        PROVE  /\ pc'[p] \notin Holding /\ wire'[s] = wire[s]
               /\ assoc'[s].pkg = assoc[s].pkg /\ assoc'[s].destroyed = assoc[s].destroyed
    <2>1. pc'[p] # "sending"
      BY <1>4, <1>8
    <2> QED
      BY <1>2, <2>1 DEF Holding
  <1>9. IsFiniteSet(clients') /\ SocketsBounded'
    BY DEF IInv, SocketsBounded
  <1> QED
    BY <1>3, <1>5, <1>6, <1>7, <1>8, <1>9, Frame

\* A step of a package that neither uses nor comes to use an Assoc
LEMMA Outside ==
  ASSUME IInv, NEW p \in P, NEW s \in Sessions, s = Ses(p),
         pc[p] \notin Using, pc'[p] \notin Using, pc'[p] # "new",
         Others(p), UNCHANGED <<clients, assoc, wire>>,
         \A u \in Sessions \ {s} : (u \in ended' <=> u \in ended) /\ (u \in overtaken => u \in overtaken'),
         \A q \in P \ {p} : q[2] > next'[Ses(q)] <=> q[2] > next[Ses(q)],
         ~(p[2] > next'[s]), resp'[p] \in {<<"none">>, <<"made">>, <<"answer", p>>},
         pc'[p] \in Sock \cup {"moving"} => s \notin clients,
         pc'[p] \in Sock => \A q \in P \ {p} : Ses(q) = s => pc[q] \notin Sock,
         TypeOK', EndOK(s)'
  PROVE  IInv'
  <1>1. Elsewhere(s)
    BY DEF Elsewhere
  <1>2. pc'[p] \notin {"sending", "connect", "reply", "release"} /\ pc'[p] \notin Holding
    BY DEF Using, Holding
  <1>3. PackageOK(p)'
    BY <1>2 DEF PackageOK
  <1>4. ClientOK(s)'
    <2>1. Within(s, Using)' = Within(s, Using)
      BY OthersPlace DEF Within
    <2>2. pc[p] \notin Holding /\ pc'[p] \notin Holding
      BY DEF Using
    <2>3. Held(s)' <=> Held(s)
      BY <2>2, OthersPlace DEF Held
    <2> QED
      BY <2>1, <2>3 DEF IInv, ClientOK
  <1>5. IsFiniteSet(clients') /\ SocketsBounded'
    BY DEF IInv, SocketsBounded
  <1> QED
    BY <1>1, <1>2, <1>3, <1>4, <1>5, Frame

\* A new Assoc, for a session that has none
LEMMA NewAssocInv ==
  ASSUME IInv, NEW p \in P, NEW s \in Sessions, s = Ses(p), s \notin clients, Room(p),
         clients' = clients \cup {s},
         assoc' = [assoc EXCEPT ![s] = NewAssoc],
         wire' = [wire EXCEPT ![s] = << >>],
         pc'[p] = "sending", Others(p), resp'[p] = resp[p], MutexFree,
         UNCHANGED overtaken, ended' = ended, s \in ended => pc[p] \in Sock,
         \A q \in P \ {p} : Ses(q) = s => pc[q] \notin Sock,
         \A q \in P \ {p} : q[2] > next'[Ses(q)] <=> q[2] > next[Ses(q)],
         ~(p[2] > next'[s]),
         pc' \in [P -> PC], resp' \in [P -> Resp], closed' \in [P -> BOOLEAN],
         next' \in [Sessions -> Nat], kind' \in [P -> Kind]
  PROVE  IInv'
  <1>1. /\ assoc \in [Sessions -> Assoc] /\ wire \in [Sessions -> Seq(P)] /\ TypeOK
        /\ clients \subseteq Sessions /\ IsFiniteSet(clients)
        /\ PackageOK(p) /\ EndOK(s)
    BY DEF IInv, TypeOK
  <1>2. NewAssoc \in Assoc
    BY DEF NewAssoc, Assoc
  <1>3. /\ assoc'[s] = NewAssoc /\ wire'[s] = << >>
        /\ \A u \in Sessions \ {s} : assoc'[u] = assoc[u] /\ wire'[u] = wire[u]
        /\ assoc' \in [Sessions -> Assoc] /\ wire' \in [Sessions -> Seq(P)]
    BY <1>1, <1>2
  <1>4. TypeOK'
    BY <1>1, <1>3 DEF TypeOK
  <1>5. Elsewhere(s)
    BY <1>3 DEF Elsewhere
  <1>6. \A q \in P : Ses(q) = s => pc[q] \notin Using /\ pc[q] # "moving"
    BY DEF IInv, PackageOK, MutexFree
  <1>7. PackageOK(p)'
    BY <1>1, <1>3 DEF PackageOK, Using, Holding, Sock
  <1>8. pc'[p] \in Using /\ pc'[p] \in Holding /\ pc'[p] \notin Sock
    BY DEF Using, Holding, Sock
  <1>9. ClientOK(s)'
    <2>1. Within(s, Using)' = {p}
      BY <1>6, <1>8, OthersPlace DEF Within
    <2>2. Held(s)'
      BY <1>8 DEF Held
    <2>3. Cardinality({p}) = 1
      BY FS_Singleton
    <2>4. NewAssoc.inUse /\ NewAssoc.queueLen = 1
      BY DEF NewAssoc
    <2>5. assoc'[s].inUse /\ assoc'[s].queueLen = Cardinality(Within(s, Using)')
      BY <1>3, <2>1, <2>3, <2>4
    <2> QED
      BY <2>2, <2>5 DEF ClientOK
  <1>10. EndOK(s)'
    <2> SUFFICES ASSUME s \in ended
                 PROVE  EndOK(s)'
      BY DEF EndOK
    <2>1. ~Settled(s)
      BY DEF Settled, Sock
    <2>2. PICK e \in P : Ses(e) = s /\ kind[e] = "end" /\ pc[e] = "done" /\ s \in overtaken
      BY <1>1, <1>6, <2>1 DEF EndOK
    <2>3. e # p
      BY <2>2 DEF Sock
    <2>4. pc'[e] = "done" /\ kind'[e] = "end"
      BY <2>2, <2>3, OthersPlace
    <2> QED
      BY <2>2, <2>4 DEF EndOK
  <1>11. IsFiniteSet(clients')
    BY <1>1, FS_AddElement
  <1>12. SocketsBounded'
    <2> SUFFICES ASSUME NEW t \in Targets, MaxSockets > 0
                 PROVE  Cardinality({u \in clients' : TargetOf[u] = t}) <= MaxSockets
      BY DEF SocketsBounded
    <2> DEFINE of == {u \in clients : TargetOf[u] = t}
    <2>1. IsFiniteSet(of) /\ Cardinality(of) <= MaxSockets
      <3>1. of \subseteq clients
        OBVIOUS
      <3>2. IsFiniteSet(of)
        BY <1>1, <3>1, FS_Subset
      <3> QED
        BY <3>2 DEF IInv, SocketsBounded
    <2>2. CASE t = TargetOf[s]
      <3>1. {u \in clients' : TargetOf[u] = t} = of \cup {s} /\ s \notin of
        BY <2>2
      <3>2. SameTarget(p) = of
        BY <2>2 DEF SameTarget
      <3>3. Cardinality(of) < MaxSockets
        BY <3>2 DEF Room
      <3> HIDE DEF of
      <3>4. Cardinality(of \cup {s}) = Cardinality(of) + 1 /\ Cardinality(of) \in Nat
        BY <2>1, <3>1, Counting
      <3>5. Cardinality(of \cup {s}) <= MaxSockets
        BY <3>3, <3>4, LimitsAssumption
      <3> QED
        BY <3>1, <3>5, Zenon
    <2>3. CASE t # TargetOf[s]
      <3>1. {u \in clients' : TargetOf[u] = t} = of
        BY <2>3
      <3> QED
        BY <2>1, <3>1
    <2> QED
      BY <2>2, <2>3
  <1>13. \A q \in P \ {p} : Ses(q) = s => pc[q] \notin Holding /\ pc[q] \notin Sock \cup {"moving"}
    BY <1>6 DEF Using
  <1> QED
    BY <1>4, <1>5, <1>7, <1>8, <1>9, <1>10, <1>11, <1>12, <1>13, Frame

\* An end that is on its way stays so while its package does.
LEMMA EndKept ==
  ASSUME IInv, NEW p \in P, NEW s \in Sessions, s = Ses(p), Others(p),
         ended' = ended, s \in overtaken => s \in overtaken', clients' = clients,
         kind'[p] = kind[p], closed[p] => closed'[p],
         pc[p] \notin {"new", "done"},
         pc[p] \in Using \cup {"moving"} => pc'[p] \in Using \cup {"moving"}
  PROVE  EndOK(s)'
  <1> SUFFICES ASSUME s \in ended
               PROVE  EndOK(s)'
    BY DEF EndOK
  <1>1. ~Settled(s)
    BY DEF Settled
  <1>2. PICK e \in P :
            /\ Ses(e) = s /\ kind[e] = "end"
            /\ \/ pc[e] \in Using \cup {"moving"} /\ closed[e]
               \/ pc[e] = "done" /\ s \in overtaken
    BY <1>1 DEF IInv, EndOK
  <1>3. CASE e = p
    BY <1>2, <1>3 DEF EndOK
  <1>4. CASE e # p
    BY <1>2, <1>4, OthersPlace DEF EndOK
  <1> QED
    BY <1>3, <1>4

LEMMA SpuriousWakeInv ==
  ASSUME IInv, NEW p \in P, SpuriousWake(p)
  PROVE  IInv'
  <1>0. PICK s \in Sessions : s = Ses(p)
    BY Package
  <1>1. /\ pc[p] \in {"queued", "sockets"}
        /\ pc' = [pc EXCEPT ![p] = Woken[p]]
        /\ UNCHANGED <<clients, assoc, wire, next, ended, kind, closed, resp, overtaken>>
    BY DEF SpuriousWake, Go
  <1>2. pc \in [P -> PC] /\ assoc \in [Sessions -> Assoc] /\ PackageOK(p)
    BY DEF IInv, TypeOK
  <1>3. /\ pc[p] = "queued" => pc'[p] = "queuedWoken"
        /\ pc[p] = "sockets" => pc'[p] = "socketsWoken"
        /\ \A q \in P \ {p} : pc'[q] = pc[q]
    BY <1>1, <1>2 DEF Woken
  <1>4. pc' \in [P -> PC]
    <2>1. pc'[p] \in PC
      BY <1>1, <1>3 DEF PC, Queueing
    <2> QED
      BY <1>1, <1>2, <2>1
  <1>5. TypeOK' /\ Others(p)
    BY <1>1, <1>3, <1>4 DEF IInv, TypeOK, Others
  <1>6. pc[p] # "new" /\ ~(p[2] > next'[s]) /\ resp[p] \in {<<"none">>, <<"made">>, <<"answer", p>>}
    BY <1>0, <1>1, <1>2 DEF PackageOK
  <1>7. CASE pc[p] = "queued"
    <2>1. s \in clients /\ pc[p] \in Using /\ pc[p] \notin Holding /\ pc'[p] \in Using
      BY <1>0, <1>2, <1>3, <1>7 DEF PackageOK, Using, Queueing, Holding
    <2>2. EndOK(s)'
      BY <1>0, <1>1, <1>5, <1>7, <2>1, EndKept
    <2>3. assoc' = [assoc EXCEPT ![s] = assoc[s]] /\ assoc[s] \in Assoc
      BY <1>1, <1>2
    <2>4. pc'[p] = "queuedWoken"
      BY <1>3, <1>7
    <2> QED
      BY <1>0, <1>1, <1>5, <1>6, <2>1, <2>2, <2>3, <2>4, JoinInv
  <1>8. CASE pc[p] = "sockets"
    <2>1. /\ s \notin clients /\ pc[p] \notin Using /\ pc'[p] \notin Using /\ pc'[p] # "new"
          /\ pc[p] \in Sock /\ pc[p] # "moving"
      BY <1>0, <1>2, <1>3, <1>8 DEF PackageOK, Using, Queueing, Holding, Sock
    <2>2. EndOK(s)'
      BY <1>0, <1>1, <1>5, <1>8, <2>1, EndKept
    <2>3. \A q \in P \ {p} : Ses(q) = s => pc[q] \notin Sock
      BY <1>0, <2>1 DEF IInv, Distinct
    <2> QED
      BY <1>0, <1>1, <1>5, <1>6, <2>1, <2>2, <2>3, Outside
  <1> QED
    BY <1>1, <1>7, <1>8

LEMMA QueuedAgainInv ==
  ASSUME IInv, NEW p \in P, QueuedAgain(p)
  PROVE  IInv'
  <1>0. PICK s \in Sessions : s = Ses(p)
    BY Package
  <1>1. /\ pc[p] = "queuedWoken"
        /\ assoc' = [assoc EXCEPT ![s].inUse = TRUE]
        /\ pc' = [pc EXCEPT ![p] = IF assoc[s].inUse THEN "queued" ELSE "sending"]
        /\ UNCHANGED <<clients, wire, next, ended, kind, closed, resp, overtaken>>
    BY <1>0 DEF QueuedAgain, Go
  <1>2. pc \in [P -> PC] /\ assoc \in [Sessions -> Assoc] /\ PackageOK(p)
    BY DEF IInv, TypeOK
  <1> DEFINE a == [assoc[s] EXCEPT !.inUse = TRUE]
  <1>3. /\ pc'[p] = IF assoc[s].inUse THEN "queued" ELSE "sending"
        /\ \A q \in P \ {p} : pc'[q] = pc[q]
    BY <1>1, <1>2
  <1>4. /\ assoc[s] \in Assoc /\ assoc' = [assoc EXCEPT ![s] = a]
        /\ assoc[s].inUse \in BOOLEAN
    BY <1>1, <1>2 DEF Assoc
  <1>5. /\ a \in Assoc /\ a.inUse /\ a.destroyed = assoc[s].destroyed /\ a.pkg = assoc[s].pkg
        /\ a.queueLen = assoc[s].queueLen
    BY <1>4 DEF Assoc
  <1>6. assoc[s].inUse => a.inUse = assoc[s].inUse
    BY <1>4, <1>5
  <1> HIDE DEF a
  <1>7. pc' \in [P -> PC] /\ assoc' \in [Sessions -> Assoc]
    BY <1>1, <1>2, <1>3, <1>4, <1>5 DEF PC, Queueing, Holding
  <1>8. TypeOK' /\ Others(p)
    BY <1>1, <1>3, <1>7 DEF IInv, TypeOK, Others
  <1>9. pc[p] # "new" /\ ~(p[2] > next'[s])
    BY <1>0, <1>1, <1>2 DEF PackageOK
  <1>10. s \in clients /\ pc[p] \in Using /\ pc[p] \notin Holding /\ pc'[p] \in Using
    BY <1>0, <1>1, <1>2, <1>3 DEF PackageOK, Using, Queueing, Holding
  <1>11. EndOK(s)'
    BY <1>0, <1>1, <1>8, <1>10, EndKept
  <1>12. /\ pc'[p] \in {"sending", "queued", "queuedWoken"}
         /\ pc'[p] = "sending" => ~assoc[s].inUse /\ a.inUse
         /\ pc'[p] # "sending" => a.inUse = assoc[s].inUse
         /\ a.queueLen = IF pc[p] \in Using THEN assoc[s].queueLen ELSE assoc[s].queueLen + 1
         /\ resp'[p] = resp[p]
    <2>1. CASE assoc[s].inUse
      <3>1. pc'[p] = "queued" /\ a.inUse = assoc[s].inUse
        BY <1>3, <1>6, <2>1
      <3> QED
        BY <1>1, <1>5, <1>10, <3>1
    <2>2. CASE ~assoc[s].inUse
      <3>1. pc'[p] = "sending"
        BY <1>3, <2>2
      <3> QED
        BY <1>1, <1>5, <1>10, <2>2, <3>1
    <2> QED
      BY <2>1, <2>2
  <1> QED
    BY <1>0, <1>1, <1>4, <1>5, <1>8, <1>9, <1>10, <1>11, <1>12, JoinInv

\* The filter refuses a package that waits for a socket or has just come.
LEMMA Refused ==
  ASSUME IInv, NEW p \in P, Refuse(p, "done")
  PROVE  /\ pc' \in [P -> PC] /\ resp' \in [P -> Resp] /\ closed' \in [P -> BOOLEAN]
         /\ pc'[p] = "done" /\ resp'[p] = <<"made">> /\ closed'[p]
         /\ \A q \in P \ {p} : pc'[q] = pc[q] /\ resp'[q] = resp[q] /\ closed'[q] = closed[q]
  <1>1. pc \in [P -> PC] /\ resp \in [P -> Resp] /\ closed \in [P -> BOOLEAN]
    BY DEF IInv, TypeOK
  <1>2. <<"made">> \in Resp /\ "done" \in PC
    BY DEF Resp, PC
  <1> QED
    BY <1>1, <1>2 DEF Refuse, Go

LEMMA SocketsTimeoutInv ==
  ASSUME IInv, NEW p \in P, SocketsTimeout(p)
  PROVE  IInv'
  <1>0. PICK s \in Sessions : s = Ses(p)
    BY Package
  <1>1. /\ pc[p] = "sockets" /\ Refuse(p, "done")
        /\ UNCHANGED <<clients, assoc, wire, next, ended, kind, overtaken>>
    BY DEF SocketsTimeout
  <1>2. /\ pc' \in [P -> PC] /\ resp' \in [P -> Resp] /\ closed' \in [P -> BOOLEAN]
        /\ pc'[p] = "done" /\ resp'[p] = <<"made">> /\ closed'[p]
        /\ \A q \in P \ {p} : pc'[q] = pc[q] /\ resp'[q] = resp[q] /\ closed'[q] = closed[q]
    BY <1>1, Refused
  <1>3. TypeOK' /\ Others(p)
    BY <1>1, <1>2 DEF IInv, TypeOK, Others
  <1>4. /\ ~(p[2] > next'[s])
        /\ pc[p] \notin Using /\ pc'[p] \notin Using /\ pc[p] \notin Using \cup {"moving"}
        /\ pc'[p] \notin Sock \cup {"moving"}
    BY <1>0, <1>1, <1>2 DEF IInv, PackageOK, Using, Queueing, Holding, Sock
  <1>5. EndOK(s)'
    BY <1>0, <1>1, <1>2, <1>3, <1>4, EndKept
  <1> QED
    BY <1>0, <1>1, <1>2, <1>3, <1>4, <1>5, Outside

LEMMA SocketsAgainInv ==
  ASSUME IInv, NEW p \in P, SocketsAgain(p)
  PROVE  IInv'
  <1>0. PICK s \in Sessions : s = Ses(p)
    BY Package
  <1>1. /\ pc[p] = "socketsWoken" /\ FindSocket(p) /\ MutexFree
        /\ UNCHANGED <<next, ended, kind, overtaken>>
    BY DEF SocketsAgain
  <1>2. /\ pc \in [P -> PC] /\ PackageOK(p) /\ resp \in [P -> Resp] /\ closed \in [P -> BOOLEAN]
        /\ next \in [Sessions -> Nat] /\ kind \in [P -> Kind]
    BY DEF IInv, TypeOK
  <1>3. /\ s \notin clients /\ pc[p] \notin Using /\ pc[p] # "moving" /\ pc[p] \in Sock
        /\ ~(p[2] > next'[s]) /\ resp[p] \in {<<"none">>, <<"made">>, <<"answer", p>>}
    BY <1>0, <1>1, <1>2 DEF PackageOK, Sock, Using, Holding, Queueing
  <1>4. \A q \in P \ {p} : Ses(q) = s => pc[q] \notin Sock
    BY <1>0, <1>3 DEF IInv, Distinct
  <1>5. CASE /\ Room(p)
             /\ clients' = clients \cup {Ses(p)}
             /\ assoc' = [assoc EXCEPT ![Ses(p)] = NewAssoc]
             /\ wire' = [wire EXCEPT ![Ses(p)] = << >>]
             /\ Go(p, "sending")
             /\ UNCHANGED <<resp, closed>>
    <2>1. pc' = [pc EXCEPT ![p] = "sending"] /\ "sending" \in PC
      BY <1>5 DEF Go, PC, Holding
    <2>2. pc' \in [P -> PC] /\ pc'[p] = "sending" /\ Others(p)
      BY <1>1, <1>2, <1>5, <2>1 DEF Others
    <2> QED
      BY <1>0, <1>1, <1>2, <1>3, <1>4, <1>5, <2>2, NewAssocInv
  <1>6. CASE Refuse(p, "done") /\ UNCHANGED <<clients, assoc, wire>>
    <2>1. /\ pc' \in [P -> PC] /\ resp' \in [P -> Resp] /\ closed' \in [P -> BOOLEAN]
          /\ pc'[p] = "done" /\ resp'[p] = <<"made">> /\ closed'[p]
          /\ \A q \in P \ {p} : pc'[q] = pc[q] /\ resp'[q] = resp[q] /\ closed'[q] = closed[q]
      BY <1>6, Refused
    <2>2. TypeOK' /\ Others(p)
      BY <1>1, <1>6, <2>1 DEF IInv, TypeOK, Others
    <2>3. EndOK(s)'
      BY <1>0, <1>1, <1>3, <1>6, <2>1, <2>2, EndKept
    <2>4. pc'[p] \notin Using /\ pc'[p] \notin Sock \cup {"moving"}
      BY <2>1 DEF Using, Holding, Queueing, Sock
    <2> QED
      BY <1>0, <1>1, <1>3, <1>6, <2>1, <2>2, <2>3, <2>4, Outside
  <1>7. CASE Go(p, "sockets") /\ UNCHANGED <<clients, assoc, wire, resp, closed>>
    <2>1. pc' = [pc EXCEPT ![p] = "sockets"] /\ "sockets" \in PC
      BY <1>7 DEF Go, PC
    <2>2. pc' \in [P -> PC] /\ pc'[p] = "sockets" /\ Others(p)
      BY <1>1, <1>2, <1>7, <2>1 DEF Others
    <2>3. TypeOK'
      BY <1>1, <1>7, <2>2 DEF IInv, TypeOK
    <2>4. EndOK(s)'
      BY <1>0, <1>1, <1>3, <1>7, <2>2, EndKept
    <2>5. pc'[p] \notin Using
      BY <2>2 DEF Using, Holding, Queueing
    <2> QED
      BY <1>0, <1>1, <1>3, <1>4, <1>7, <2>2, <2>3, <2>4, <2>5, Outside
  <1> QED
    BY <1>1, <1>5, <1>6, <1>7 DEF FindSocket

\* The end of a session leaves the filter, with or without others still there.
LEMMA EndLeaves ==
  ASSUME IInv, NEW p \in P, NEW s \in Sessions, s = Ses(p), Others(p), ended' = ended,
         pc[p] \notin {"new", "done"}, pc'[p] = "done", kind' = kind,
         overtaken' = IF Overtakes(p) THEN overtaken \cup {s} ELSE overtaken,
         s \in ended /\ s \notin overtaken /\ kind[p] = "end" /\ ~Overtakes(p) =>
             s \notin clients'
  PROVE  EndOK(s)'
  <1> SUFFICES ASSUME s \in ended
               PROVE  EndOK(s)'
    BY DEF EndOK
  <1>1. ~Settled(s)
    BY DEF Settled
  <1>2. PICK e \in P :
            /\ Ses(e) = s /\ kind[e] = "end"
            /\ \/ pc[e] \in Using \cup {"moving"} /\ closed[e]
               \/ pc[e] = "done" /\ s \in overtaken
    BY <1>1 DEF IInv, EndOK
  <1>3. CASE kind[p] = "end" /\ Overtakes(p)
    <2>1. s \in overtaken'
      BY <1>3
    <2> QED
      BY <1>3, <2>1 DEF EndOK
  <1>4. CASE kind[p] = "end" /\ ~Overtakes(p)
    <2>1. \A q \in P \ {p} : Ses(q) = s => pc[q] \in {"new", "done"}
      BY <1>4 DEF Overtakes
    <2>2. Settled(s)'
      BY <2>1, OthersPlace DEF Settled
    <2>3. overtaken' = overtaken /\ (s \in overtaken \/ s \notin clients')
      BY <1>4
    <2> QED
      BY <1>4, <2>2, <2>3 DEF EndOK
  <1>5. CASE kind[p] # "end"
    <2>1. e # p /\ (pc'[e] \in Using <=> pc[e] \in Using) /\ (pc'[e] = "moving" <=> pc[e] = "moving")
          /\ (pc'[e] = "done" <=> pc[e] = "done") /\ closed'[e] = closed[e]
      BY <1>2, <1>5, OthersPlace
    <2>2. s \in overtaken => s \in overtaken'
      OBVIOUS
    <2> QED
      BY <1>2, <2>1, <2>2 DEF EndOK
  <1> QED
    BY <1>3, <1>4, <1>5

LEMMA MovedInv ==
  ASSUME IInv, NEW p \in P, Moved(p)
  PROVE  IInv'
  <1>0. PICK s \in Sessions : s = Ses(p)
    BY Package
  <1>1. /\ pc[p] = "moving" /\ pc' = [pc EXCEPT ![p] = "done"]
        /\ overtaken' = IF Overtakes(p) THEN overtaken \cup {s} ELSE overtaken
        /\ UNCHANGED <<clients, assoc, wire, next, ended, kind, closed, resp>>
    BY <1>0 DEF Moved, Go
  <1>2. pc \in [P -> PC] /\ overtaken \subseteq Sessions /\ PackageOK(p) /\ "done" \in PC
    BY DEF IInv, TypeOK, PC
  <1>3. pc' \in [P -> PC] /\ pc'[p] = "done" /\ Others(p) /\ overtaken' \subseteq Sessions
    BY <1>1, <1>2 DEF Others
  <1>4. TypeOK'
    BY <1>1, <1>3 DEF IInv, TypeOK
  <1>5. /\ s \notin clients /\ ~(p[2] > next'[s])
        /\ resp[p] \in {<<"none">>, <<"made">>, <<"answer", p>>}
        /\ pc[p] \notin Using /\ pc'[p] \notin Using /\ pc'[p] \notin Sock \cup {"moving"}
    BY <1>0, <1>1, <1>2, <1>3 DEF PackageOK, Using, Holding, Queueing, Sock
  <1>6. EndOK(s)'
    BY <1>0, <1>1, <1>3, <1>5, EndLeaves
  <1> QED
    BY <1>0, <1>1, <1>3, <1>4, <1>5, <1>6, Outside

\* release_assoc: the last user of a closed session deletes the Assoc.
LEMMA ReleaseInv ==
  ASSUME IInv, NEW p \in P, Release(p)
  PROVE  IInv'
  <1>0. PICK s \in Sessions : s = Ses(p)
    BY Package
  <1>1. /\ pc[p] = "release" /\ PackageOK(p)
        /\ UNCHANGED <<wire, next, ended, kind, closed, resp>>
        /\ overtaken' = IF Overtakes(p) THEN overtaken \cup {s} ELSE overtaken
    BY <1>0 DEF Release, IInv
  <1>2. s \in clients /\ pc[p] \in Using /\ pc[p] \in Holding
    BY <1>0, <1>1 DEF PackageOK, Using, Holding
  <1>3. /\ assoc' = [assoc EXCEPT ![s] = Released(p)]
        /\ clients' = IF Deletes(p) THEN clients \ {s} ELSE clients
        /\ pc' = [Woken EXCEPT ![p] = "done"]
    BY <1>0, <1>2 DEF Release, NotifyAllAndGo
  <1>4. /\ pc \in [P -> PC] /\ assoc \in [Sessions -> Assoc] /\ closed \in [P -> BOOLEAN]
        /\ clients \subseteq Sessions /\ overtaken \subseteq Sessions
    BY DEF IInv, TypeOK
  <1>5. /\ pc'[p] = "done"
        /\ \A q \in P \ {p} : pc'[q] = CASE pc[q] = "queued" -> "queuedWoken"
                                         [] pc[q] = "sockets" -> "socketsWoken"
                                         [] OTHER -> pc[q]
    BY <1>3 DEF Woken
  <1>6. Others(p)
    BY <1>1, <1>5 DEF Others
  <1>7. ASSUME NEW q \in P
        PROVE  pc'[q] \in PC
    <2>1. pc[q] \in PC
      BY <1>4
    <2> QED
      BY <1>5, <1>6, <2>1 DEF Others, PC, Queueing
  <1>8. pc' \in [P -> PC]
    <2>1. pc' = [q \in P |-> pc'[q]]
      BY <1>3 DEF Woken
    <2> QED
      BY <1>7, <2>1
  <1>9. ClientOK(s) /\ assoc[s] \in Assoc /\ IsFiniteSet(Within(s, Using))
    BY <1>4, WithinFinite DEF IInv
  <1>10. p \in Within(s, Using) /\ Within(s, Using)' = Within(s, Using) \ {p}
    <2>1. pc'[p] \notin Using
      BY <1>5 DEF Using, Holding, Queueing
    <2> QED
      BY <1>0, <1>2, <1>6, <2>1, OthersPlace DEF Within
  <1>11. /\ Cardinality(Within(s, Using)') = assoc[s].queueLen - 1
         /\ assoc[s].queueLen \in Nat /\ assoc[s].queueLen > 0
    <2>1. assoc[s].queueLen = Cardinality(Within(s, Using))
      BY <1>2, <1>9 DEF ClientOK
    <2>2. PICK S : S = Within(s, Using)
      OBVIOUS
    <2>3. IsFiniteSet(S) /\ p \in S /\ Within(s, Using)' = S \ {p}
      BY <1>9, <1>10, <2>2
    <2>4. Cardinality(S) \in Nat /\ Cardinality(S \ {p}) = Cardinality(S) - 1 /\ Cardinality(S) > 0
      BY <2>3, Counting
    <2> QED
      BY <2>1, <2>2, <2>3, <2>4
  <1> DEFINE a == Released(p)
  <1>12. a = [assoc[s] EXCEPT !.inUse = FALSE, !.queueLen = @ - 1, !.destroyed = @ \/ closed[p]]
    BY <1>0 DEF Released
  <1>13. assoc[s].queueLen - 1 \in Nat /\ (assoc[s].destroyed \/ closed[p]) \in BOOLEAN
    BY <1>11
  <1>14. a \in Assoc /\ ~a.inUse /\ a.queueLen = assoc[s].queueLen - 1
    BY <1>9, <1>12, <1>13 DEF Assoc
  <1>15. a.destroyed <=> assoc[s].destroyed \/ closed[p]
    BY <1>9, <1>12, <1>13 DEF Assoc
  <1>16. Deletes(p) <=> closed[p] /\ a.queueLen = 0
    BY DEF Deletes
  <1> HIDE DEF a
  <1>17. /\ assoc'[s] = a /\ assoc' \in [Sessions -> Assoc]
         /\ \A u \in Sessions \ {s} : assoc'[u] = assoc[u]
    BY <1>3, <1>4, <1>14 DEF a
  <1>18. TypeOK'
    <2>1. clients' \subseteq Sessions /\ overtaken' \subseteq Sessions
      BY <1>1, <1>3, <1>4
    <2> QED
      BY <1>1, <1>8, <1>17, <2>1 DEF IInv, TypeOK
  <1>19. Elsewhere(s)
    BY <1>1, <1>3, <1>17 DEF Elsewhere
  <1>20. \A q \in P \ {p} : Ses(q) = s => pc[q] \notin Holding
    BY <1>0, <1>2 DEF IInv, Distinct
  <1>21. ClientOK(s)'
    <2>1. ~Held(s)'
      BY <1>5, <1>6, <1>20, OthersPlace DEF Held, Holding
    <2>2. a.destroyed \/ wire[s] = << >>
      BY <1>0, <1>1, <1>15 DEF PackageOK
    <2> QED
      BY <1>1, <1>11, <1>14, <1>17, <2>1, <2>2 DEF ClientOK
  <1>22. s \notin clients' => \A q \in P \ {p} : Ses(q) = s => pc[q] \notin Using
    <2>1. SUFFICES ASSUME s \notin clients'
                   PROVE  \A q \in P \ {p} : Ses(q) = s => pc[q] \notin Using
      OBVIOUS
    <2>2. Cardinality(Within(s, Using)') = 0 /\ IsFiniteSet(Within(s, Using)')
      BY <1>2, <1>3, <1>11, <1>14, <1>16, <2>1, WithinFinite
    <2>3. Within(s, Using)' = {}
      BY <2>2, FS_EmptySet
    <2> QED
      BY <1>10, <2>3 DEF Within
  <1>23. s \in ended /\ s \notin overtaken /\ kind[p] = "end" /\ ~Overtakes(p) =>
             s \notin clients'
    <2> SUFFICES ASSUME s \in ended, s \notin overtaken, kind[p] = "end", ~Overtakes(p)
                 PROVE  s \notin clients'
      OBVIOUS
    <2>1. \A q \in P \ {p} : Ses(q) = s => pc[q] \in {"new", "done"}
      BY <1>0 DEF Overtakes
    <2>2. Within(s, Using)' = {}
      BY <1>10, <2>1 DEF Within, Using, Holding, Queueing
    <2>3. a.queueLen = 0
      BY <1>11, <1>14, <2>2, FS_EmptySet
    <2>4. ~Settled(s)
      BY <1>0, <1>1 DEF Settled
    <2>5. PICK e \in P : Ses(e) = s /\ pc[e] \in Using \cup {"moving"} /\ closed[e]
      BY <2>4 DEF IInv, EndOK
    <2>6. pc[e] \notin {"new", "done"}
      BY <2>5 DEF Using, Holding, Queueing
    <2>7. closed[p]
      BY <2>1, <2>5, <2>6
    <2> QED
      BY <1>3, <1>16, <2>3, <2>7
  <1>24. EndOK(s)'
    BY <1>0, <1>1, <1>5, <1>6, <1>23, EndLeaves
  <1>25. IsFiniteSet(clients') /\ SocketsBounded'
    <2>1. clients' \subseteq clients /\ IsFiniteSet(clients)
      BY <1>3 DEF IInv
    <2>2. ASSUME NEW t \in Targets, MaxSockets > 0
          PROVE  Cardinality({u \in clients' : TargetOf[u] = t}) <= MaxSockets
      <3> DEFINE old == {u \in clients : TargetOf[u] = t}
                 new == {u \in clients' : TargetOf[u] = t}
      <3>1. IsFiniteSet(old) /\ new \subseteq old /\ Cardinality(old) <= MaxSockets
        <4>1. old \subseteq clients /\ new \subseteq old
          BY <2>1
        <4> QED
          BY <2>1, <2>2, <4>1, FS_Subset DEF IInv, SocketsBounded
      <3>2. Cardinality(new) <= Cardinality(old) /\ Cardinality(new) \in Nat /\ Cardinality(old) \in Nat
        BY <3>1, FS_Subset, FS_CardinalityType
      <3> QED
        BY <3>1, <3>2, LimitsAssumption
    <2> QED
      BY <2>1, <2>2, FS_Subset DEF SocketsBounded
  <1>26. PackageOK(p)'
    BY <1>0, <1>1, <1>5 DEF PackageOK, Using, Holding, Queueing, Sock
  <1> QED
    BY <1>0, <1>1, <1>2, <1>5, <1>6, <1>18, <1>19, <1>20, <1>21, <1>22, <1>24, <1>25, <1>26, Frame
       DEF Sock

\* What is common to the ways in which a package enters
LEMMA Entering ==
  ASSUME IInv, NEW s \in Sessions, NEW k \in Kind, Enter(s, k),
         NEW p, p = <<s, next[s] + 1>>
  PROVE  /\ p \in P /\ s = Ses(p) /\ pc[p] = "new" /\ s \notin ended
         /\ next' \in [Sessions -> Nat] /\ kind' \in [P -> Kind] /\ ended' \subseteq Sessions
         /\ kind'[p] = k /\ \A q \in P \ {p} : kind'[q] = kind[q]
         /\ \A q \in P \ {p} : q[2] > next'[Ses(q)] <=> q[2] > next[Ses(q)]
         /\ ~(p[2] > next'[s])
         /\ \A u \in Sessions \ {s} : u \in ended' <=> u \in ended
         /\ k # "end" => ended' = ended
         /\ pc[p] \notin Using
  <1>1. /\ next[s] < MaxPkgs[s] /\ s \notin ended
        /\ next' = [next EXCEPT ![s] = @ + 1]
        /\ ended' = IF k = "end" THEN ended \cup {s} ELSE ended
        /\ kind' = [kind EXCEPT ![p] = k]
    BY DEF Enter
  <1>2. /\ next \in [Sessions -> Nat] /\ kind \in [P -> Kind] /\ ended \subseteq Sessions
    BY DEF IInv, TypeOK
  <1>3. MaxPkgs[s] \in Nat /\ next[s] \in Nat
    BY <1>2, LimitsAssumption
  <1>4. next[s] + 1 \in 1 .. MaxPkgs[s]
    BY <1>1, <1>3
  <1>5. p \in P /\ s = Ses(p) /\ p[2] = next[s] + 1
    BY <1>4, PackageOf
  <1>6. pc[p] = "new"
    <2>1. PackageOK(p)
      BY <1>5 DEF IInv
    <2>2. p[2] > next[s]
      BY <1>3, <1>5
    <2> QED
      BY <1>5, <2>1, <2>2 DEF PackageOK
  <1>7. next' \in [Sessions -> Nat] /\ next'[s] = next[s] + 1
        /\ \A u \in Sessions \ {s} : next'[u] = next[u]
    BY <1>1, <1>2, <1>3
  <1>8. ~(p[2] > next'[s])
    BY <1>3, <1>5, <1>7
  <1>9. ASSUME NEW q \in P \ {p}
        PROVE  q[2] > next'[Ses(q)] <=> q[2] > next[Ses(q)]
    <2>1. Ses(q) \in Sessions /\ q[2] \in Nat /\ q = <<Ses(q), q[2]>>
      BY Package
    <2>2. CASE Ses(q) # s
      BY <1>7, <2>1, <2>2
    <2>3. CASE Ses(q) = s
      <3>1. q[2] # next[s] + 1
        BY <1>9, <2>1, <2>3
      <3> QED
        BY <1>3, <1>7, <2>1, <2>3, <3>1
    <2> QED
      BY <2>2, <2>3
  <1>10. kind' \in [P -> Kind] /\ kind'[p] = k /\ \A q \in P \ {p} : kind'[q] = kind[q]
    BY <1>1, <1>2, <1>5
  <1>11. ended' \subseteq Sessions /\ (\A u \in Sessions \ {s} : u \in ended' <=> u \in ended)
         /\ (k # "end" => ended' = ended)
    BY <1>1, <1>2
  <1>12. pc[p] \notin Using
    BY <1>6 DEF Using, Holding, Queueing
  <1> QED
    BY <1>1, <1>5, <1>6, <1>7, <1>8, <1>9, <1>10, <1>11, <1>12

\* No end has come before, so only this package can be one.
LEMMA EndEnters ==
  ASSUME NEW p \in P, NEW s \in Sessions, NEW k, s = Ses(p), s \notin ended,
         k # "end" => ended' = ended, kind'[p] = k,
         k = "end" => pc'[p] \in Using \cup {"moving"} /\ closed'[p]
  PROVE  EndOK(s)'
  <1>1. CASE k = "end"
    BY <1>1 DEF EndOK
  <1>2. CASE k # "end"
    BY <1>2 DEF EndOK
  <1> QED
    BY <1>1, <1>2

LEMMA EnterKnown ==
  ASSUME IInv, NEW s \in Sessions, NEW k \in Kind, Enter(s, k),
         NEW p, p = <<s, next[s] + 1>>, Known(p, k)
  PROVE  IInv'
  <1>1. /\ p \in P /\ s = Ses(p) /\ pc[p] = "new" /\ s \notin ended
        /\ next' \in [Sessions -> Nat] /\ kind' \in [P -> Kind] /\ ended' \subseteq Sessions
        /\ kind'[p] = k /\ \A q \in P \ {p} : kind'[q] = kind[q]
        /\ \A q \in P \ {p} : q[2] > next'[Ses(q)] <=> q[2] > next[Ses(q)]
        /\ ~(p[2] > next'[s])
        /\ \A u \in Sessions \ {s} : u \in ended' <=> u \in ended
        /\ k # "end" => ended' = ended
        /\ pc[p] \notin Using
    BY Entering
  <1>2. /\ s \in clients
        /\ assoc' = [assoc EXCEPT ![s].queueLen = assoc[s].queueLen + 1, ![s].inUse = TRUE]
        /\ pc' = [pc EXCEPT ![p] = IF assoc[s].inUse THEN "queued" ELSE "sending"]
        /\ closed' = [closed EXCEPT ![p] = (k = "end")]
        /\ UNCHANGED <<clients, wire, resp>>
    BY <1>1 DEF Known, Queued, Go
  <1>3. UNCHANGED overtaken
    BY DEF Enter
  <1>4. pc \in [P -> PC] /\ assoc \in [Sessions -> Assoc] /\ closed \in [P -> BOOLEAN]
    BY DEF IInv, TypeOK
  <1> DEFINE a == [assoc[s] EXCEPT !.inUse = TRUE, !.queueLen = assoc[s].queueLen + 1]
  <1>5. /\ pc'[p] = IF assoc[s].inUse THEN "queued" ELSE "sending"
        /\ \A q \in P \ {p} : pc'[q] = pc[q]
    BY <1>1, <1>2, <1>4
  <1>6. assoc[s] \in Assoc /\ assoc[s].inUse \in BOOLEAN /\ assoc[s].queueLen \in Nat
    BY <1>4 DEF Assoc
  <1>7. assoc' = [assoc EXCEPT ![s] = a]
    BY <1>2, <1>4, <1>6 DEF Assoc
  <1>8. /\ a \in Assoc /\ a.inUse /\ a.destroyed = assoc[s].destroyed /\ a.pkg = assoc[s].pkg
        /\ a.queueLen = assoc[s].queueLen + 1
    <2>1. assoc[s].queueLen + 1 \in Nat
      BY <1>6
    <2> QED
      BY <1>6, <2>1 DEF Assoc
  <1>9. assoc[s].inUse => a.inUse = assoc[s].inUse
    BY <1>6, <1>8
  <1> HIDE DEF a
  <1>10. pc' \in [P -> PC] /\ assoc' \in [Sessions -> Assoc]
    BY <1>2, <1>4, <1>5, <1>7, <1>8, ZenonT(60) DEF PC, Queueing, Holding
  <1>11. /\ closed' \in [P -> BOOLEAN] /\ closed'[p] = (k = "end")
         /\ \A q \in P \ {p} : closed'[q] = closed[q]
    BY <1>1, <1>2, <1>4, Zenon
  <1>12. TypeOK'
    BY <1>1, <1>2, <1>3, <1>10, <1>11 DEF IInv, TypeOK
  <1>13. Others(p)
    BY <1>1, <1>2, <1>5, <1>11 DEF Others
  <1>14. /\ pc'[p] \in {"sending", "queued", "queuedWoken"} /\ pc'[p] \in Using
         /\ pc'[p] = "sending" => ~assoc[s].inUse /\ a.inUse
         /\ pc'[p] # "sending" => a.inUse = assoc[s].inUse
    <2>1. CASE assoc[s].inUse
      <3>1. pc'[p] = "queued" /\ a.inUse = assoc[s].inUse
        BY <1>5, <1>9, <2>1
      <3> QED
        BY <3>1 DEF Using, Queueing
    <2>2. CASE ~assoc[s].inUse
      <3>1. pc'[p] = "sending"
        BY <1>5, <2>2
      <3> QED
        BY <1>8, <2>2, <3>1 DEF Using, Holding
    <2> QED
      BY <2>1, <2>2
  <1>15. a.queueLen = IF pc[p] \in Using THEN assoc[s].queueLen ELSE assoc[s].queueLen + 1
    BY <1>1, <1>8
  <1>16. EndOK(s)'
    BY <1>1, <1>11, <1>14, EndEnters
  <1>17. pc[p] \notin Holding /\ resp'[p] = resp[p]
    BY <1>1, <1>2 DEF Using
  <1> QED
    BY <1>1, <1>2, <1>3, <1>7, <1>8, <1>12, <1>13, <1>14, <1>15, <1>16, <1>17, JoinInv

LEMMA EnterUnknown ==
  ASSUME IInv, NEW s \in Sessions, NEW k \in Kind, Enter(s, k),
         NEW p, p = <<s, next[s] + 1>>, Unknown(p, k)
  PROVE  IInv'
  <1>1. /\ p \in P /\ s = Ses(p) /\ pc[p] = "new" /\ s \notin ended
        /\ next' \in [Sessions -> Nat] /\ kind' \in [P -> Kind] /\ ended' \subseteq Sessions
        /\ kind'[p] = k /\ \A q \in P \ {p} : kind'[q] = kind[q]
        /\ \A q \in P \ {p} : q[2] > next'[Ses(q)] <=> q[2] > next[Ses(q)]
        /\ ~(p[2] > next'[s])
        /\ \A u \in Sessions \ {s} : u \in ended' <=> u \in ended
        /\ k # "end" => ended' = ended
        /\ pc[p] \notin Using
    BY Entering
  <1>2. UNCHANGED overtaken /\ MutexFree /\ OneInitAtATime(s, k) /\ s \notin clients
    BY <1>1 DEF Enter, Unknown
  <1>3. /\ pc \in [P -> PC] /\ resp \in [P -> Resp] /\ closed \in [P -> BOOLEAN]
        /\ resp[p] \in {<<"none">>, <<"made">>, <<"answer", p>>}
    BY <1>1 DEF IInv, TypeOK, PackageOK
  <1>4. ASSUME Refuse(p, "done"), UNCHANGED <<clients, assoc, wire>>, k # "end"
        PROVE  IInv'
    <2>1. /\ pc' \in [P -> PC] /\ resp' \in [P -> Resp] /\ closed' \in [P -> BOOLEAN]
          /\ pc'[p] = "done" /\ resp'[p] = <<"made">> /\ closed'[p]
          /\ \A q \in P \ {p} : pc'[q] = pc[q] /\ resp'[q] = resp[q] /\ closed'[q] = closed[q]
      BY <1>1, <1>4, Refused
    <2>2. TypeOK' /\ Others(p)
      BY <1>1, <1>2, <1>4, <2>1 DEF IInv, TypeOK, Others
    <2>3. EndOK(s)'
      BY <1>1, <1>4, EndEnters
    <2>4. pc'[p] \notin Using /\ pc'[p] \notin Sock \cup {"moving"} /\ pc'[p] # "new" /\ pc'[p] \notin Sock
      BY <2>1 DEF Using, Holding, Queueing, Sock
    <2>5. resp'[p] \in {<<"none">>, <<"made">>, <<"answer", p>>}
      BY <2>1
    <2> QED
      BY <1>1, <1>2, <1>4, <2>2, <2>3, <2>4, <2>5, Outside
  <1>5. CASE ~IsZ3950(k) /\ Go(p, "moving") /\ closed' = [closed EXCEPT ![p] = k = "end"]
             /\ UNCHANGED <<clients, assoc, wire, resp>>
    <2>1. pc' = [pc EXCEPT ![p] = "moving"] /\ "moving" \in PC
      BY <1>5 DEF Go, PC
    <2>2. pc' \in [P -> PC] /\ pc'[p] = "moving" /\ \A q \in P \ {p} : pc'[q] = pc[q]
      BY <1>1, <1>3, <2>1
    <2>3. /\ closed' \in [P -> BOOLEAN] /\ closed'[p] = (k = "end")
          /\ \A q \in P \ {p} : closed'[q] = closed[q]
      BY <1>1, <1>3, <1>5, Zenon
    <2>4. TypeOK'
      BY <1>1, <1>2, <1>5, <2>2, <2>3 DEF IInv, TypeOK
    <2>5. Others(p)
      BY <1>1, <1>5, <2>2, <2>3 DEF Others
    <2>6. EndOK(s)'
      BY <1>1, <2>2, <2>3, EndEnters
    <2>7. pc'[p] \notin Using /\ pc'[p] # "new" /\ pc'[p] \notin Sock
      BY <2>2 DEF Using, Holding, Queueing, Sock
    <2>8. resp'[p] \in {<<"none">>, <<"made">>, <<"answer", p>>}
      BY <1>3, <1>5
    <2> QED
      BY <1>1, <1>2, <1>5, <2>4, <2>5, <2>6, <2>7, <2>8, Outside
  <1>6. CASE k = "init" /\ FindSocket(p)
    <2>1. \A q \in P \ {p} : Ses(q) = s => pc[q] \notin Sock
      BY <1>2, <1>6 DEF OneInitAtATime, Sock
    <2>2. CASE /\ Room(p)
               /\ clients' = clients \cup {Ses(p)}
               /\ assoc' = [assoc EXCEPT ![Ses(p)] = NewAssoc]
               /\ wire' = [wire EXCEPT ![Ses(p)] = << >>]
               /\ Go(p, "sending")
               /\ UNCHANGED <<resp, closed>>
      <3>1. pc' = [pc EXCEPT ![p] = "sending"] /\ "sending" \in PC
        BY <2>2 DEF Go, PC, Holding
      <3>2. pc' \in [P -> PC] /\ pc'[p] = "sending" /\ Others(p)
        BY <1>1, <1>3, <2>2, <3>1 DEF Others
      <3>3. ended' = ended
        BY <1>1, <1>6
      <3> QED
        BY <1>1, <1>2, <1>3, <2>1, <2>2, <3>2, <3>3, NewAssocInv
    <2>3. CASE Refuse(p, "done") /\ UNCHANGED <<clients, assoc, wire>>
      BY <1>4, <1>6, <2>3
    <2>4. CASE Go(p, "sockets") /\ UNCHANGED <<clients, assoc, wire, resp, closed>>
      <3>1. pc' = [pc EXCEPT ![p] = "sockets"] /\ "sockets" \in PC
        BY <2>4 DEF Go, PC
      <3>2. pc' \in [P -> PC] /\ pc'[p] = "sockets" /\ Others(p)
        BY <1>1, <1>3, <2>4, <3>1 DEF Others
      <3>3. TypeOK'
        BY <1>1, <1>2, <2>4, <3>2 DEF IInv, TypeOK
      <3>4. EndOK(s)'
        BY <1>1, <1>6, EndEnters
      <3>5. pc'[p] \notin Using /\ pc'[p] # "new"
        BY <3>2 DEF Using, Holding, Queueing
      <3> QED
        BY <1>1, <1>2, <1>3, <2>1, <2>4, <3>2, <3>3, <3>4, <3>5, Outside
    <2> QED
      BY <1>6, <2>2, <2>3, <2>4 DEF FindSocket
  <1>7. IsZ3950(k) => k # "end"
    BY DEF IsZ3950
  <1> QED
    BY <1>4, <1>5, <1>6, <1>7 DEF Unknown

-----------------------------------------------------------------------------
LEMMA InitInv == Init => IInv
  <1> SUFFICES ASSUME Init
               PROVE  IInv
    OBVIOUS
  <1>1. TypeOK
    <2>1. NewAssoc \in Assoc
      BY DEF NewAssoc, Assoc
    <2>2. wire \in [Sessions -> Seq(P)]
      BY DEF Init
    <2> QED
      BY <2>1, <2>2 DEF Init, TypeOK, Kind, Resp, PC
  <1>2. IsFiniteSet(clients) /\ SocketsBounded
    <2>1. IsFiniteSet({}) /\ Cardinality({}) = 0
      BY FS_EmptySet
    <2>2. \A t \in Targets : {s \in clients : TargetOf[s] = t} = {}
      BY DEF Init
    <2> QED
      BY <2>1, <2>2, LimitsAssumption DEF Init, SocketsBounded
  <1>3. ASSUME NEW p \in P
        PROVE  PackageOK(p)
    <2>1. Ses(p) \in Sessions /\ p[2] > 0
      BY Package
    <2>2. pc[p] = "new" /\ resp[p] = <<"none">> /\ next[Ses(p)] = 0
      BY <2>1 DEF Init
    <2> QED
      BY <2>1, <2>2 DEF PackageOK, Using, Holding, Queueing, Sock
  <1>4. Distinct
    BY DEF Init, Distinct, Holding, Sock
  <1>5. \A s \in Sessions : ClientOK(s) /\ EndOK(s)
    BY DEF Init, ClientOK, EndOK
  <1> QED
    BY <1>1, <1>2, <1>3, <1>4, <1>5 DEF IInv

LEMMA NextInv == IInv /\ [Next]_vars => IInv'
  <1> SUFFICES ASSUME IInv, [Next]_vars
               PROVE  IInv'
    OBVIOUS
  <1>1. ASSUME NEW s \in Sessions, NEW k \in Kind, Enter(s, k)
        PROVE  IInv'
    <2>1. PICK p : p = <<s, next[s] + 1>>
      OBVIOUS
    <2>2. Known(p, k) \/ Unknown(p, k)
      BY <1>1, <2>1 DEF Enter
    <2> QED
      BY <1>1, <2>1, <2>2, EnterKnown, EnterUnknown
  <1>2. CASE UNCHANGED vars
    <2>1. UNCHANGED <<clients, assoc, wire, next, ended, kind, closed, resp, pc, overtaken>>
      BY <1>2 DEF vars
    <2>2. TypeOK' /\ Distinct' /\ SocketsBounded' /\ IsFiniteSet(clients')
      BY <2>1 DEF IInv, TypeOK, Distinct, SocketsBounded
    <2>3. \A p \in P : PackageOK(p)'
      BY <2>1 DEF IInv, PackageOK
    <2>4. \A s \in Sessions : ClientOK(s)'
      BY <2>1 DEF IInv, ClientOK, Held, Within
    <2>5. \A s \in Sessions : EndOK(s)'
      BY <2>1 DEF IInv, EndOK, Settled
    <2> QED
      BY <2>2, <2>3, <2>4, <2>5 DEF IInv
  <1> QED
    BY <1>1, <1>2, SpuriousWakeInv, QueuedAgainInv, SocketsAgainInv, SocketsTimeoutInv,
       MovedInv, SendInv, ConnectNotifyInv, RecvGDUInv, FailNotifyInv, TimeoutNotifyInv,
       ReleaseInv DEF Next

-----------------------------------------------------------------------------
(* The theorems.                                                           *)

\* The inductive invariant holds in every reachable state.
THEOREM Invariance == Spec => []IInv
  BY InitInv, NextInv, PTL DEF Spec

\* An Assoc is used by one thread at a time and is never deleted under a package that
\* holds or awaits it, m_queue_len counts those packages exactly, and a target never
\* has more sockets than max-sockets, for any number of sessions and packages.
THEOREM AssocsAreAccounted == Spec => []AssocsAccounted
  <1>1. IInv => AssocsAccounted
    <2> SUFFICES ASSUME IInv
                 PROVE  AssocsAccounted
      OBVIOUS
    <2>1. ASSUME NEW s \in Sessions
          PROVE  Cardinality(Within(s, Holding)) <= 1
      <3>1. CASE Within(s, Holding) = {}
        BY <3>1, FS_EmptySet
      <3>2. CASE \E p \in P : p \in Within(s, Holding)
        <4>1. PICK p \in P : p \in Within(s, Holding)
          BY <3>2
        <4>2. Within(s, Holding) = {p}
          BY <4>1 DEF IInv, Distinct, Within
        <4> QED
          BY <4>2, FS_Singleton
      <3> QED
        BY <3>1, <3>2 DEF Within
    <2>2. ASSUME NEW s \in Sessions, Within(s, Holding \cup Queueing) # {}
          PROVE  s \in clients
      BY <2>2 DEF Within, IInv, PackageOK, Using
    <2>3. ASSUME NEW s \in clients
          PROVE  /\ assoc[s].inUse <=> Within(s, Holding) # {}
                 /\ assoc[s].queueLen = Cardinality(Within(s, Holding \cup Queueing))
      <3>1. s \in Sessions /\ ClientOK(s)
        BY DEF IInv, TypeOK
      <3>2. Held(s) <=> Within(s, Holding) # {}
        BY DEF Held, Within
      <3> QED
        BY <3>1, <3>2 DEF ClientOK, Using
    <2>4. HeldByOne
      BY <2>1, <2>2, <2>3 DEF HeldByOne
    <2>5. QueueCounted
      BY <2>3 DEF QueueCounted
    <2> QED
      BY <2>4, <2>5 DEF AssocsAccounted, IInv
  <1> QED
    BY <1>1, Invariance, PTL

\* A package gets the answer to its own request, although the target may still answer
\* one that timed out when a later package of the session uses the connection.
THEOREM ResponsesAreRight == Spec => []RightResponse
  <1>1. IInv => RightResponse
    BY DEF IInv, PackageOK, RightResponse
  <1> QED
    BY <1>1, Invariance, PTL

\* When the end of a session is the last of its packages to leave the filter, its
\* Assoc is gone and no longer counts for max-sockets.
THEOREM EndsAreForgotten == Spec => []EndedForgotten
  <1>1. IInv => EndedForgotten
    <2> SUFFICES ASSUME IInv, NEW s \in ended, Within(s, PC \ {"new", "done"}) = {},
                        s \notin overtaken
                 PROVE  s \notin clients
      BY DEF EndedForgotten
    <2>1. s \in Sessions /\ EndOK(s) /\ pc \in [P -> PC]
      BY DEF IInv, TypeOK
    <2>2. ASSUME NEW p \in P, Ses(p) = s
          PROVE  pc[p] \in {"new", "done"}
      BY <2>1, <2>2 DEF Within
    <2>3. ASSUME NEW p \in P, Ses(p) = s
          PROVE  pc[p] \notin Using \cup {"moving"}
      BY <2>2, <2>3 DEF Using, Holding, Queueing
    <2> QED
      BY <2>1, <2>3 DEF EndOK
  <1> QED
    BY <1>1, Invariance, PTL
=============================================================================
