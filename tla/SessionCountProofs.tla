------------------------- MODULE SessionCountProofs -------------------------
(***************************************************************************)
(* Proofs about the two parts that count sessions: frontend_net, for any   *)
(* connections, clients and packages and any connect-total, and            *)
(* load_balance, for any sessions, targets and packages.                   *)
(*                                                                         *)
(* NetInv is about frontend_net.  Its two counts are inductive only        *)
(* together with what a package in the pool implies for the object it      *)
(* points to (NoDangling), with a queue that holds no package twice, and   *)
(* with what a closed session still has to bring back (ClosedTold): the    *)
(* object is deleted when its count is 0, which says that the filters were *)
(* told only because the package that tells them was counted.              *)
(*                                                                         *)
(* BalanceInv is about load_balance.  That a record never counts more than *)
(* there is rests on what an Init package leaves behind: only the first    *)
(* package of a session can choose (PackageOK), and a session that is      *)
(* mapped has the target its Init has settled on (SessionOK), so the same  *)
(* session is neither counted twice nor marks two targets dead.  EndOK     *)
(* follows the end of a session to the moment it leaves the filter.        *)
(***************************************************************************)
EXTENDS FrontendNet, LoadBalance, TLAPS, FiniteSetTheorems, WellFoundedInduction

Alive == {c \in Conns : alive[c]}

QueueInjective == \A i, j \in DOMAIN queue : queue[i] = queue[j] => i = j

\* A connection that was never opened
Untouched(c) == ~alive[c] /\ ~closed[c] /\ noReq[c] = 0 /\ c \notin cut

\* A closed session has been told to the filters, or a package in the pool will.
ClosedTold ==
    \A c \in Conns : closed[c] /\ alive[c] => c \in told \/ \E m \in MsgsOf(c) : m \in last

NetInv ==
    /\ TypeOK
    /\ QueueInjective
    /\ ToSet(queue) \cap running = {}
    /\ IsFiniteSet(Pending)
    /\ IsFiniteSet(Alive)
    /\ \A c \in Conns : conn[c] = "none" => Untouched(c)
    /\ RequestsCounted
    /\ PeersCounted
    /\ NoDangling
    /\ FiltersToldFirst
    /\ ClosedTold

-----------------------------------------------------------------------------
(* Facts about the operators of the model.                                 *)

\* put: the package is the last in the queue.
LEMMA AppendFacts ==
  ASSUME NEW s \in Seq(Msgs), NEW m \in Msgs, m \notin ToSet(s),
         \A i, j \in DOMAIN s : s[i] = s[j] => i = j
  PROVE  /\ Append(s, m) \in Seq(Msgs)
         /\ ToSet(Append(s, m)) = ToSet(s) \cup {m}
         /\ \A i, j \in DOMAIN Append(s, m) : Append(s, m)[i] = Append(s, m)[j] => i = j
  <1>1. /\ Append(s, m) \in Seq(Msgs)
        /\ DOMAIN Append(s, m) = 1 .. Len(s) + 1
        /\ DOMAIN s = 1 .. Len(s)
        /\ Append(s, m)[Len(s) + 1] = m
        /\ \A i \in 1 .. Len(s) : Append(s, m)[i] = s[i]
        /\ Len(s) \in Nat
    OBVIOUS
  <1>2. ToSet(Append(s, m)) \subseteq ToSet(s) \cup {m}
    BY <1>1 DEF ToSet
  <1>3. ToSet(s) \cup {m} \subseteq ToSet(Append(s, m))
    BY <1>1 DEF ToSet
  <1>4. \A i \in 1 .. Len(s) : s[i] # m
    BY <1>1 DEF ToSet
  <1>5. ASSUME NEW i \in 1 .. Len(s) + 1, NEW j \in 1 .. Len(s) + 1,
               Append(s, m)[i] = Append(s, m)[j]
        PROVE  i = j
    BY <1>1, <1>4, <1>5
  <1> QED
    BY <1>1, <1>2, <1>3, <1>5

\* A worker takes the first package: the others stay in the queue, once each.
LEMMA TailFacts ==
  ASSUME NEW s \in Seq(Msgs), s # << >>,
         \A i, j \in DOMAIN s : s[i] = s[j] => i = j
  PROVE  /\ Tail(s) \in Seq(Msgs)
         /\ Head(s) \in ToSet(s)
         /\ ToSet(Tail(s)) = ToSet(s) \ {Head(s)}
         /\ \A i, j \in DOMAIN Tail(s) : Tail(s)[i] = Tail(s)[j] => i = j
  <1>1. /\ Tail(s) \in Seq(Msgs)
        /\ DOMAIN Tail(s) = 1 .. Len(s) - 1
        /\ DOMAIN s = 1 .. Len(s)
        /\ Head(s) = s[1]
        /\ \A i \in 1 .. Len(s) - 1 : Tail(s)[i] = s[i + 1]
        /\ Len(s) \in Nat /\ Len(s) > 0
    OBVIOUS
  <1>2. Head(s) \in ToSet(s)
    BY <1>1 DEF ToSet
  <1>3. ToSet(Tail(s)) \subseteq ToSet(s) \ {Head(s)}
    BY <1>1 DEF ToSet
  <1>4. ASSUME NEW m \in ToSet(s) \ {Head(s)}
        PROVE  m \in ToSet(Tail(s))
    <2>1. PICK i \in 1 .. Len(s) : m = s[i]
      BY <1>1 DEF ToSet
    <2>2. i - 1 \in 1 .. Len(s) - 1 /\ (i - 1) + 1 = i
      BY <1>1, <1>4, <2>1
    <2>3. Tail(s)[i - 1] = m /\ i - 1 \in DOMAIN Tail(s)
      BY <1>1, <2>1, <2>2
    <2> QED
      BY <2>3 DEF ToSet
  <1>5. \A i, j \in DOMAIN Tail(s) : Tail(s)[i] = Tail(s)[j] => i = j
    BY <1>1
  <1> QED
    BY <1>1, <1>2, <1>3, <1>4, <1>5

\* cleanup: what stays in the queue is there once.
LEMMA KeptFacts ==
  ASSUME queue \in Seq(Msgs), QueueInjective, NEW gone,
         NEW f \in InOrder({i \in DOMAIN queue : queue[i] \notin gone}),
         NEW kept, kept = [i \in DOMAIN f |-> queue[f[i]]]
  PROVE  /\ kept \in Seq(Msgs)
         /\ ToSet(kept) = ToSet(queue) \ gone
         /\ \A i, j \in DOMAIN kept : kept[i] = kept[j] => i = j
  <1> DEFINE places == {i \in DOMAIN queue : queue[i] \notin gone}
             n == Cardinality(places)
  <1>1. DOMAIN queue = 1 .. Len(queue) /\ Len(queue) \in Nat
    OBVIOUS
  <1>2. n \in Nat
    <2>1. IsFiniteSet(1 .. Len(queue))
      BY <1>1, FS_Interval
    <2>2. IsFiniteSet(places)
      BY <1>1, <2>1, FS_Subset
    <2> QED
      BY <2>2, FS_CardinalityType
  <1> HIDE DEF n
  <1>3. /\ f \in [1 .. n -> places]
        /\ ToSet(f) = places
        /\ \A i, j \in DOMAIN f : i < j => f[i] < f[j]
    BY DEF InOrder, n
  <1>4. \A i \in 1 .. n : f[i] \in DOMAIN queue /\ queue[f[i]] \in Msgs
    BY <1>1, <1>3
  <1>5. kept \in [1 .. n -> Msgs]
    BY <1>3, <1>4
  <1>6. kept \in Seq(Msgs)
    BY <1>2, <1>5
  <1>7. ASSUME NEW m \in ToSet(queue) \ gone
        PROVE  m \in ToSet(kept)
    <2>1. PICK i \in places : m = queue[i]
      BY <1>1 DEF ToSet
    <2>2. PICK j \in DOMAIN f : f[j] = i
      BY <1>3, <2>1 DEF ToSet
    <2> QED
      BY <2>1, <2>2 DEF ToSet
  <1>8. ASSUME NEW m \in ToSet(kept)
        PROVE  m \in ToSet(queue) \ gone
    <2>1. PICK i \in DOMAIN f : m = queue[f[i]]
      BY DEF ToSet
    <2>2. f[i] \in places
      BY <1>3
    <2> QED
      BY <1>1, <2>1, <2>2 DEF ToSet
  <1>9. ASSUME NEW i \in DOMAIN f, NEW j \in DOMAIN f, queue[f[i]] = queue[f[j]]
        PROVE  i = j
    <2>1. f[i] = f[j]
      BY <1>3, <1>4, <1>9 DEF QueueInjective
    <2>2. i \in Nat /\ j \in Nat /\ f[i] \in Nat /\ f[j] \in Nat
      BY <1>1, <1>2, <1>3, <1>4
    <2> QED
      BY <1>3, <2>1, <2>2
  <1> QED
    BY <1>6, <1>7, <1>8, <1>9

\* How a count changes with one element
LEMMA Counting ==
  ASSUME NEW S, IsFiniteSet(S), NEW x
  PROVE  /\ Cardinality(S) \in Nat
         /\ IsFiniteSet(S \cup {x}) /\ IsFiniteSet(S \ {x})
         /\ x \notin S => Cardinality(S \cup {x}) = Cardinality(S) + 1
         /\ x \in S => Cardinality(S \ {x}) = Cardinality(S) - 1 /\ Cardinality(S) > 0
         /\ Cardinality(S) = 0 => S = {}
         /\ \A T \in SUBSET S : /\ IsFiniteSet(T) /\ Cardinality(T) \in Nat
                                /\ Cardinality(T) <= Cardinality(S)
  <1>1. Cardinality(S) \in Nat
    BY FS_CardinalityType
  <1>2. IsFiniteSet(S \cup {x}) /\ (x \notin S => Cardinality(S \cup {x}) = Cardinality(S) + 1)
    BY FS_AddElement
  <1>3. IsFiniteSet(S \ {x}) /\ (x \in S => Cardinality(S \ {x}) = Cardinality(S) - 1)
    BY FS_RemoveElement
  <1>4. Cardinality(S) = 0 => S = {}
    BY FS_EmptySet
  <1>5. x \in S => Cardinality(S) > 0
    BY <1>1, <1>4
  <1>6. \A T \in SUBSET S : /\ IsFiniteSet(T) /\ Cardinality(T) \in Nat
                            /\ Cardinality(T) <= Cardinality(S)
    BY FS_Subset, FS_CardinalityType
  <1> QED
    BY <1>1, <1>2, <1>3, <1>4, <1>5, <1>6

\* The packages of an object, in and out of the queue
LEMMA MsgsOfFacts ==
  ASSUME NetInv, NEW c \in Conns
  PROVE  /\ MsgsOf(c) \subseteq Pending /\ IsFiniteSet(MsgsOf(c))
         /\ Pending \subseteq Msgs
         /\ Unused \cap Pending = {} /\ Unused \subseteq Msgs
         /\ Unused # {} => NewMsg \in Unused
  <1>1. MsgsOf(c) \subseteq Pending
    BY DEF MsgsOf
  <1>2. IsFiniteSet(MsgsOf(c))
    BY <1>1, FS_Subset DEF NetInv
  <1>3. queue \in Seq(Msgs) /\ running \subseteq Msgs
    BY DEF NetInv, TypeOK
  <1>4. ToSet(queue) \subseteq Msgs
    BY <1>3 DEF ToSet
  <1> QED
    BY <1>1, <1>2, <1>3, <1>4 DEF Pending, Unused, NewMsg

\* The objects of a client
PeersObjects(p) == {c \in Conns : alive[c] /\ PeerOf[c] = p}

\* An object is made or deleted: the count of its client follows.
LEMMA PeerFacts ==
  ASSUME NetInv, NEW c \in Conns
  PROVE  /\ PeerOf[c] \in Peers
         /\ ~alive[c] /\ alive' = [alive EXCEPT ![c] = TRUE] /\ PeerAdd(c) /\ RoomFor(c)
                => PeersCounted' /\ IsFiniteSet(Alive') /\ peerStat' \in [Peers -> Nat]
         /\ alive[c] /\ alive' = [alive EXCEPT ![c] = FALSE] /\ PeerRemove(c)
                => PeersCounted' /\ IsFiniteSet(Alive') /\ peerStat' \in [Peers -> Nat]
  <1>1. /\ PeerOf[c] \in Peers /\ PeerOf \in [Conns -> Peers]
        /\ alive \in [Conns -> BOOLEAN] /\ peerStat \in [Peers -> Nat]
        /\ IsFiniteSet(Alive) /\ ConnectTotal \in Nat
    BY ConnsAssumption, LimitAssumption DEF NetInv, TypeOK
  <1>2. \A p \in Peers : /\ IsFiniteSet(PeersObjects(p))
                         /\ peerStat[p] = Cardinality(PeersObjects(p))
                         /\ peerStat[p] <= ConnectTotal
    <2>1. \A p \in Peers : PeersObjects(p) \subseteq Alive
      BY DEF PeersObjects, Alive
    <2>2. \A p \in Peers : IsFiniteSet(PeersObjects(p))
      BY <1>1, <2>1, FS_Subset
    <2> QED
      BY <2>2 DEF NetInv, PeersCounted, PeersObjects
  <1>3. ASSUME ~alive[c], alive' = [alive EXCEPT ![c] = TRUE], PeerAdd(c), RoomFor(c)
        PROVE  PeersCounted' /\ IsFiniteSet(Alive') /\ peerStat' \in [Peers -> Nat]
    <2>1. Alive' = Alive \cup {c}
      BY <1>1, <1>3 DEF Alive
    <2>2. \A p \in Peers \ {PeerOf[c]} : PeersObjects(p)' = PeersObjects(p)
      BY <1>1, <1>3 DEF PeersObjects
    <2>3. PeersObjects(PeerOf[c])' = PeersObjects(PeerOf[c]) \cup {c} /\ c \notin PeersObjects(PeerOf[c])
      BY <1>1, <1>3 DEF PeersObjects
    <2>4. Cardinality(PeersObjects(PeerOf[c])') = Cardinality(PeersObjects(PeerOf[c])) + 1
      BY <1>1, <1>2, <2>3, Counting
    <2>5. /\ peerStat'[PeerOf[c]] = peerStat[PeerOf[c]] + 1
          /\ peerStat[PeerOf[c]] < ConnectTotal
          /\ \A p \in Peers \ {PeerOf[c]} : peerStat'[p] = peerStat[p]
      BY <1>1, <1>3 DEF PeerAdd, RoomFor
    <2>6. \A p \in Peers : /\ peerStat'[p] = Cardinality(PeersObjects(p)')
                           /\ peerStat'[p] <= ConnectTotal
      BY <1>1, <1>2, <2>2, <2>4, <2>5
    <2>7. PeersCounted'
      BY <2>6 DEF PeersCounted, PeersObjects
    <2>8. IsFiniteSet(Alive')
      BY <1>1, <2>1, Counting
    <2> QED
      BY <1>1, <1>3, <2>7, <2>8 DEF PeerAdd
  <1>4. ASSUME alive[c], alive' = [alive EXCEPT ![c] = FALSE], PeerRemove(c)
        PROVE  PeersCounted' /\ IsFiniteSet(Alive') /\ peerStat' \in [Peers -> Nat]
    <2>1. Alive' = Alive \ {c}
      BY <1>1, <1>4 DEF Alive
    <2>2. \A p \in Peers \ {PeerOf[c]} : PeersObjects(p)' = PeersObjects(p)
      BY <1>1, <1>4 DEF PeersObjects
    <2>3. PeersObjects(PeerOf[c])' = PeersObjects(PeerOf[c]) \ {c} /\ c \in PeersObjects(PeerOf[c])
      BY <1>1, <1>4 DEF PeersObjects
    <2>4. /\ Cardinality(PeersObjects(PeerOf[c])') = Cardinality(PeersObjects(PeerOf[c])) - 1
          /\ Cardinality(PeersObjects(PeerOf[c])) > 0
      BY <1>1, <1>2, <2>3, Counting
    <2>5. /\ peerStat'[PeerOf[c]] = peerStat[PeerOf[c]] - 1
          /\ \A p \in Peers \ {PeerOf[c]} : peerStat'[p] = peerStat[p]
      BY <1>1, <1>4 DEF PeerRemove
    <2>6. \A p \in Peers : /\ peerStat'[p] = Cardinality(PeersObjects(p)')
                           /\ peerStat'[p] <= ConnectTotal
      BY <1>1, <1>2, <2>2, <2>4, <2>5
    <2>7. PeersCounted'
      BY <2>6 DEF PeersCounted, PeersObjects
    <2>8. IsFiniteSet(Alive')
      BY <1>1, <2>1, Counting
    <2>9. peerStat[PeerOf[c]] - 1 \in Nat
      BY <1>1, <1>2, <2>4
    <2> QED
      BY <1>1, <1>4, <2>7, <2>8, <2>9 DEF PeerRemove
  <1> QED
    BY <1>1, <1>3, <1>4

-----------------------------------------------------------------------------
(* Each action preserves the invariant.                                    *)

\* sessionNotify makes an object that no package can point to yet.
LEMMA SessionNotifyInv ==
  ASSUME NetInv, NEW c \in Conns, SessionNotify(c)
  PROVE  NetInv'
  <1>1. /\ conn[c] = "none" /\ RoomFor(c) /\ NewChild(c)
        /\ UNCHANGED <<closing, closed, noReq, owner, last, pool, told, cut, server>>
    BY DEF SessionNotify
  <1>2. UNCHANGED <<queue, running, answered, dropped, listening, loop>>
    BY <1>1 DEF pool, server
  <1>3. Untouched(c) /\ conn \in [Conns -> {"none", "open", "shut"}] /\ alive \in [Conns -> BOOLEAN]
    BY <1>1 DEF NetInv, TypeOK
  <1>4. /\ conn' = [conn EXCEPT ![c] = "open"]
        /\ alive' = [alive EXCEPT ![c] = TRUE]
        /\ PeerAdd(c)
    BY <1>1 DEF NewChild
  <1>5. PeersCounted' /\ IsFiniteSet(Alive') /\ peerStat' \in [Peers -> Nat]
    BY <1>1, <1>3, <1>4, PeerFacts DEF Untouched
  <1>6. TypeOK'
    BY <1>1, <1>2, <1>3, <1>4, <1>5 DEF NetInv, TypeOK
  <1>7. Pending' = Pending /\ \A d \in Conns : MsgsOf(d)' = MsgsOf(d)
    BY <1>1, <1>2 DEF Pending, MsgsOf
  <1>8. MsgsOf(c) = {}
    BY <1>3 DEF NetInv, NoDangling, MsgsOf, Untouched
  <1>9. RequestsCounted'
    BY <1>1, <1>3, <1>4, <1>7, <1>8, FS_EmptySet DEF NetInv, RequestsCounted, Untouched
  <1>10. QueueInjective' /\ (ToSet(queue) \cap running = {})' /\ IsFiniteSet(Pending')
    BY <1>2, <1>7 DEF NetInv, QueueInjective
  <1>11. \A d \in Conns : conn'[d] = "none" => Untouched(d)'
    BY <1>1, <1>3, <1>4 DEF NetInv, Untouched
  <1>12. NoDangling'
    BY <1>1, <1>3, <1>4, <1>7 DEF NetInv, NoDangling
  <1>13. FiltersToldFirst'
    BY <1>1, <1>3, <1>4 DEF NetInv, FiltersToldFirst
  <1>14. ClosedTold'
    BY <1>1, <1>3, <1>4, <1>7 DEF NetInv, ClosedTold, Untouched
  <1> QED
    BY <1>5, <1>6, <1>9, <1>10, <1>11, <1>12, <1>13, <1>14 DEF NetInv

\* An object is deleted that no package points to, after the filters were told, or
\* by recv_GDU itself.
LEMMA DeleteInv ==
  ASSUME NetInv, NEW c \in Conns, alive[c], Delete(c),
         UNCHANGED <<closed, noReq, owner, last, pool, told, server>>,
         \/ UNCHANGED cut /\ MsgsOf(c) = {} /\ c \in told
         \/ cut' = cut \cup {c}
  PROVE  NetInv'
  <1>1. UNCHANGED <<closed, noReq, owner, last, queue, running, answered, dropped, told, listening, loop>>
    BY DEF pool, server
  <1>2. /\ alive' = [alive EXCEPT ![c] = FALSE]
        /\ conn' = [conn EXCEPT ![c] = "shut"]
        /\ closing' = [closing EXCEPT ![c] = FALSE]
        /\ PeerRemove(c)
    BY DEF Delete
  <1>3. /\ conn \in [Conns -> {"none", "open", "shut"}] /\ alive \in [Conns -> BOOLEAN]
        /\ closing \in [Conns -> BOOLEAN] /\ cut' \subseteq Conns /\ cut \subseteq cut'
    BY DEF NetInv, TypeOK
  <1>4. PeersCounted' /\ IsFiniteSet(Alive') /\ peerStat' \in [Peers -> Nat]
    BY <1>2, PeerFacts
  <1>5. TypeOK'
    BY <1>1, <1>2, <1>3, <1>4 DEF NetInv, TypeOK
  <1>6. Pending' = Pending /\ \A d \in Conns : MsgsOf(d)' = MsgsOf(d)
    BY <1>1 DEF Pending, MsgsOf
  <1>7. RequestsCounted'
    BY <1>1, <1>2, <1>3, <1>6 DEF NetInv, RequestsCounted
  <1>8. QueueInjective' /\ (ToSet(queue) \cap running = {})' /\ IsFiniteSet(Pending')
    BY <1>1, <1>6 DEF NetInv, QueueInjective
  <1>9. \A d \in Conns : conn'[d] = "none" => Untouched(d)'
    BY <1>1, <1>2, <1>3 DEF NetInv, Untouched
  <1>10. NoDangling'
    <2>1. ASSUME NEW m \in Pending, owner[m] = c
          PROVE  c \in cut'
      BY <2>1 DEF MsgsOf
    <2> QED
      BY <1>1, <1>2, <1>3, <1>6, <2>1 DEF NetInv, NoDangling
  <1>11. FiltersToldFirst'
    BY <1>1, <1>2, <1>3 DEF NetInv, FiltersToldFirst
  <1>12. ClosedTold'
    BY <1>1, <1>2, <1>3, <1>6 DEF NetInv, ClosedTold
  <1> QED
    BY <1>4, <1>5, <1>7, <1>8, <1>9, <1>10, <1>11, <1>12 DEF NetInv

LEMMA RecvLocalInv ==
  ASSUME NetInv, NEW c \in Conns, RecvLocal(c)
  PROVE  NetInv'
  BY DeleteInv DEF RecvLocal, Ready

\* A step that leaves the counts, the pool and what the filters know alone
LEMMA Quiet ==
  ASSUME NetInv, TypeOK',
         UNCHANGED <<alive, closed, noReq, peerStat, owner, last, queue, running, told, cut>>,
         \A c \in Conns : (conn'[c] = "none") = (conn[c] = "none"),
         \A c \in Conns : alive[c] \/ conn'[c] = conn[c]
  PROVE  NetInv'
  <1>1. Pending' = Pending /\ \A d \in Conns : MsgsOf(d)' = MsgsOf(d)
    BY DEF Pending, MsgsOf
  <1>2. Alive' = Alive
    BY DEF Alive
  <1>3. RequestsCounted' /\ PeersCounted' /\ ClosedTold'
    BY <1>1 DEF NetInv, RequestsCounted, PeersCounted, ClosedTold
  <1>4. FiltersToldFirst'
    BY DEF NetInv, FiltersToldFirst
  <1>5. NoDangling' /\ QueueInjective' /\ \A c \in Conns : conn'[c] = "none" => Untouched(c)'
    BY <1>1 DEF NetInv, NoDangling, QueueInjective, Untouched
  <1> QED
    BY <1>1, <1>2, <1>3, <1>4, <1>5 DEF NetInv

\* failNotify of a closed session
LEMMA FailClosedInv ==
  ASSUME NetInv, NEW c \in Conns, alive[c], NEW wire \in {"open", "shut"},
         FailClosed(c, wire), UNCHANGED <<told, cut, server>>
  PROVE  NetInv'
  <1>1. CASE Deletable(c) /\ Delete(c)
    <2>1. IsFiniteSet(MsgsOf(c)) /\ Cardinality(MsgsOf(c)) = 0
      BY <1>1, MsgsOfFacts DEF NetInv, RequestsCounted, Deletable
    <2>2. MsgsOf(c) = {}
      BY <2>1, FS_EmptySet
    <2>3. c \in told
      BY <2>2 DEF NetInv, ClosedTold, FailClosed
    <2> QED
      BY <1>1, <2>2, <2>3, DeleteInv DEF FailClosed
  <1>2. CASE /\ conn' = [conn EXCEPT ![c] = wire]
             /\ closing' = [closing EXCEPT ![c] = @ /\ wire = "open"]
             /\ UNCHANGED <<alive, peerStat>>
    <2>1. UNCHANGED <<closed, noReq, owner, last, queue, running, answered, dropped, listening, loop>>
      BY DEF FailClosed, pool, server
    <2>2. conn \in [Conns -> {"none", "open", "shut"}] /\ closing \in [Conns -> BOOLEAN] /\ conn[c] # "none"
      BY DEF NetInv, TypeOK, Untouched
    <2>3. conn' \in [Conns -> {"none", "open", "shut"}]
      BY <1>2, <2>2
    <2>4. closing' \in [Conns -> BOOLEAN]
      BY <1>2, <2>2, Zenon
    <2>5. TypeOK'
      BY <1>2, <2>1, <2>3, <2>4 DEF NetInv, TypeOK
    <2> QED
      BY <1>2, <2>1, <2>2, <2>5, Quiet
  <1> QED
    BY <1>1, <1>2 DEF FailClosed

\* A new package m of object c is put, after some of its packages have left the queue.
LEMMA PutInv ==
  ASSUME NetInv, NEW c \in Conns, alive[c], NEW m \in Unused,
         NEW gone \in SUBSET ToSet(queue), \A x \in gone : owner[x] = c,
         NEW q \in Seq(Msgs), ToSet(q) = ToSet(queue) \ gone,
         \A i, j \in DOMAIN q : q[i] = q[j] => i = j,
         queue' = Append(q, m), running' = running,
         owner' = [owner EXCEPT ![m] = c],
         noReq' = [noReq EXCEPT ![c] = @ + 1 - Cardinality(gone)],
         last \subseteq last', last' \subseteq Msgs, closed'[c] => m \in last',
         \A d \in Conns \ {c} : closed'[d] = closed[d],
         UNCHANGED <<alive, peerStat, told, cut, listening, loop>>,
         closed' \in [Conns -> BOOLEAN], closing' \in [Conns -> BOOLEAN],
         answered' \subseteq Msgs, dropped' \subseteq Msgs,
         conn' \in [Conns -> {"none", "open", "shut"}],
         \A d \in Conns : (conn'[d] = "none") = (conn[d] = "none"),
         \A d \in Conns : alive[d] \/ conn'[d] = conn[d]
  PROVE  NetInv'
  <1>1. /\ m \in Msgs /\ m \notin Pending /\ Pending \subseteq Msgs
        /\ IsFiniteSet(MsgsOf(c)) /\ MsgsOf(c) \subseteq Pending
    BY MsgsOfFacts
  <1>2. m \notin ToSet(queue) /\ m \notin running /\ m \notin ToSet(q)
    BY <1>1 DEF Pending
  <1>3. /\ queue' \in Seq(Msgs)
        /\ ToSet(queue') = (ToSet(queue) \ gone) \cup {m}
        /\ QueueInjective'
    BY <1>1, <1>2, AppendFacts DEF QueueInjective
  <1>4. Pending' = (Pending \ gone) \cup {m}
    BY <1>3 DEF Pending, NetInv
  <1>5. owner \in [Msgs -> Conns] /\ noReq \in [Conns -> Nat]
    BY DEF NetInv, TypeOK
  <1>6. \A x \in Msgs : owner'[x] = IF x = m THEN c ELSE owner[x]
    BY <1>5
  <1>7. \A d \in Conns \ {c} : MsgsOf(d)' = MsgsOf(d)
    BY <1>1, <1>4, <1>6 DEF MsgsOf
  <1>8. gone \subseteq MsgsOf(c) /\ MsgsOf(c)' = (MsgsOf(c) \ gone) \cup {m}
    BY <1>1, <1>4, <1>6 DEF MsgsOf, Pending
  <1>9. /\ IsFiniteSet(gone) /\ IsFiniteSet(MsgsOf(c) \ gone)
        /\ Cardinality(MsgsOf(c) \ gone) = Cardinality(MsgsOf(c)) - Cardinality(gone)
        /\ Cardinality(MsgsOf(c) \ gone) \in Nat /\ Cardinality(gone) \in Nat
    <2>1. IsFiniteSet(gone) /\ IsFiniteSet(MsgsOf(c) \ gone)
      BY <1>1, <1>8, FS_Subset
    <2>2. MsgsOf(c) \cap gone = gone
      BY <1>8
    <2>3. Cardinality(MsgsOf(c) \ gone) = Cardinality(MsgsOf(c)) - Cardinality(MsgsOf(c) \cap gone)
      BY <1>1, FS_Difference, ZenonT(60)
    <2> QED
      BY <2>1, <2>2, <2>3, FS_CardinalityType
  <1>10. Cardinality(MsgsOf(c)') = Cardinality(MsgsOf(c)) - Cardinality(gone) + 1
    <2> DEFINE S == MsgsOf(c) \ gone
    <2>1. m \notin S /\ IsFiniteSet(S) /\ MsgsOf(c)' = S \cup {m}
      BY <1>1, <1>8, <1>9
    <2>2. Cardinality(S) = Cardinality(MsgsOf(c)) - Cardinality(gone)
      BY <1>9
    <2> HIDE DEF S
    <2>3. Cardinality(S \cup {m}) = Cardinality(S) + 1
      BY <2>1, Counting
    <2> QED
      BY <2>1, <2>2, <2>3
  <1>11. /\ noReq[c] = Cardinality(MsgsOf(c)) /\ Cardinality(MsgsOf(c)) \in Nat
         /\ noReq'[c] = noReq[c] + 1 - Cardinality(gone)
         /\ \A d \in Conns \ {c} : noReq'[d] = noReq[d]
    BY <1>1, <1>5, FS_CardinalityType DEF NetInv, RequestsCounted
  <1>12. noReq'[c] = Cardinality(MsgsOf(c)') /\ noReq'[c] \in Nat
    BY <1>9, <1>10, <1>11
  <1>13. noReq' \in [Conns -> Nat]
    BY <1>5, <1>11, <1>12
  <1>14. TypeOK'
    <2>1. owner' \in [Msgs -> Conns]
      BY <1>1, <1>5
    <2> QED
      BY <1>3, <1>13, <2>1 DEF NetInv, TypeOK
  <1>15. RequestsCounted'
    BY <1>7, <1>11, <1>12 DEF NetInv, RequestsCounted
  <1>16. (ToSet(queue) \cap running = {})'
    BY <1>2, <1>3 DEF NetInv
  <1>17. IsFiniteSet(Pending')
    <2>1. IsFiniteSet(Pending \ gone)
      BY FS_Subset DEF NetInv
    <2> QED
      BY <1>4, <2>1, FS_AddElement
  <1>18. PeersCounted' /\ IsFiniteSet(Alive')
    BY DEF NetInv, PeersCounted, Alive
  <1>19. NoDangling'
    BY <1>1, <1>4, <1>6 DEF NetInv, NoDangling
  <1>20. FiltersToldFirst'
    BY DEF NetInv, FiltersToldFirst
  <1>21. ClosedTold'
    BY <1>7, <1>8 DEF NetInv, ClosedTold
  <1>22. \A d \in Conns : conn'[d] = "none" => Untouched(d)'
    BY <1>11 DEF NetInv, Untouched
  <1> QED
    BY <1>3, <1>14, <1>15, <1>16, <1>17, <1>18, <1>19, <1>20, <1>21, <1>22 DEF NetInv

LEMMA RecvGDUInv ==
  ASSUME NetInv, NEW c \in Conns, RecvGDU(c)
  PROVE  NetInv'
  <1> DEFINE m == NewMsg
  <1>1. m \in Unused /\ Unused \subseteq Msgs
    BY MsgsOfFacts DEF RecvGDU
  <1>2. /\ alive[c]
        /\ noReq' = [noReq EXCEPT ![c] = @ + 1]
        /\ owner' = [owner EXCEPT ![m] = c]
        /\ last' = IF closed[c] THEN last \cup {m} ELSE last
        /\ queue' = Append(queue, m)
        /\ UNCHANGED <<conn, closing, alive, closed, peerStat, told, cut, listening, loop,
                       running, answered, dropped>>
    BY DEF RecvGDU, Ready, server, Pool!Submit
  <1> HIDE DEF m
  <1>3. Cardinality({}) = 0
    BY FS_EmptySet
  <1>4. noReq' = [noReq EXCEPT ![c] = @ + 1 - Cardinality({})]
    <2>1. noReq[c] \in Nat
      BY DEF NetInv, TypeOK
    <2>2. noReq[c] + 1 - Cardinality({}) = noReq[c] + 1
      BY <1>3, <2>1
    <2> QED
      BY <1>2, <2>2
  <1>5. queue \in Seq(Msgs) /\ \A i, j \in DOMAIN queue : queue[i] = queue[j] => i = j
    BY DEF NetInv, TypeOK, QueueInjective
  <1>6. ToSet(queue) = ToSet(queue) \ {} /\ {} \in SUBSET ToSet(queue)
    OBVIOUS
  <1>7. /\ last \subseteq last' /\ last' \subseteq Msgs /\ (closed'[c] => m \in last')
        /\ closed' \in [Conns -> BOOLEAN] /\ closing' \in [Conns -> BOOLEAN]
        /\ answered' \subseteq Msgs /\ dropped' \subseteq Msgs
        /\ conn' \in [Conns -> {"none", "open", "shut"}]
    BY <1>1, <1>2 DEF NetInv, TypeOK
  <1> QED
    BY <1>1, <1>2, <1>4, <1>5, <1>6, <1>7, PutInv

\* failNotify of an open session: its queued packages go and the last one is put.
LEMMA FailOpenInv ==
  ASSUME NetInv, NEW c \in Conns, alive[c], NEW wire \in {"open", "shut"},
         FailOpen(c, wire), UNCHANGED <<told, cut, server>>
  PROVE  NetInv'
  <1> DEFINE m == NewMsg
             gone == Cleaned(c)
             places == {i \in DOMAIN queue : queue[i] \notin gone}
  <1>1. m \in Unused /\ Unused \subseteq Msgs
    BY MsgsOfFacts DEF FailOpen
  <1>2. PICK f \in InOrder(places) : queue' = Append([i \in DOMAIN f |-> queue[f[i]]], m)
    BY DEF FailOpen
  <1> DEFINE q == [i \in DOMAIN f |-> queue[f[i]]]
  <1>3. /\ closed' = [closed EXCEPT ![c] = TRUE]
        /\ noReq' = [noReq EXCEPT ![c] = @ + 1 - Cardinality(gone)]
        /\ owner' = [owner EXCEPT ![m] = c]
        /\ last' = last \cup {m}
        /\ dropped' = dropped \cup gone
        /\ conn' = [conn EXCEPT ![c] = wire]
        /\ closing' = [closing EXCEPT ![c] = @ /\ wire = "open"]
        /\ UNCHANGED <<alive, peerStat, running, answered, told, cut, listening, loop>>
    BY DEF FailOpen, Uncounted, server
  <1>4. gone \subseteq ToSet(queue) /\ \A x \in gone : owner[x] = c
    BY DEF Cleaned
  <1>5. queue \in Seq(Msgs) /\ QueueInjective
    BY DEF NetInv, TypeOK
  <1> HIDE DEF m, gone
  <1>6. /\ q \in Seq(Msgs) /\ ToSet(q) = ToSet(queue) \ gone
        /\ \A i, j \in DOMAIN q : q[i] = q[j] => i = j
    <2>1. f \in InOrder({i \in DOMAIN queue : queue[i] \notin gone})
      OBVIOUS
    <2>2. q = [i \in DOMAIN f |-> queue[f[i]]]
      OBVIOUS
    <2> HIDE DEF q
    <2> QED
      BY <1>5, <2>1, <2>2, KeptFacts, SMTT(30)
  <1>7. queue' = Append(q, m)
    BY <1>2
  <1> HIDE DEF q
  <1>8. ToSet(queue) \subseteq Msgs
    BY <1>5 DEF ToSet
  <1>9. /\ conn \in [Conns -> {"none", "open", "shut"}] /\ conn[c] # "none"
        /\ closing \in [Conns -> BOOLEAN] /\ closed \in [Conns -> BOOLEAN]
        /\ last \subseteq Msgs /\ answered \subseteq Msgs /\ dropped \subseteq Msgs
    BY DEF NetInv, TypeOK, Untouched
  <1>10. closing' \in [Conns -> BOOLEAN]
    BY <1>3, <1>9, Zenon
  <1>11. /\ last \subseteq last' /\ last' \subseteq Msgs /\ m \in last'
         /\ closed' \in [Conns -> BOOLEAN] /\ \A d \in Conns \ {c} : closed'[d] = closed[d]
         /\ answered' \subseteq Msgs /\ dropped' \subseteq Msgs
    BY <1>1, <1>3, <1>4, <1>8, <1>9
  <1>12. /\ conn' \in [Conns -> {"none", "open", "shut"}]
         /\ \A d \in Conns : (conn'[d] = "none") = (conn[d] = "none")
         /\ \A d \in Conns : alive[d] \/ conn'[d] = conn[d]
    BY <1>3, <1>9
  <1> QED
    BY <1>1, <1>3, <1>4, <1>6, <1>7, <1>10, <1>11, <1>12, PutInv, ZenonT(60)

LEMMA FailNotifyInv ==
  ASSUME NetInv, NEW c \in Conns, alive[c], NEW wire \in {"open", "shut"}, FailNotify(c, wire)
  PROVE  NetInv'
  BY FailClosedInv, FailOpenInv DEF FailNotify

\* A package moves from the queue to a worker: it is still the object's.
LEMMA StartInv ==
  ASSUME NetInv, Start
  PROVE  NetInv'
  <1>1. /\ queue # << >>
        /\ running' = running \cup {Head(queue)}
        /\ queue' = Tail(queue)
        /\ UNCHANGED <<conn, closing, alive, closed, noReq, peerStat, owner, last, told, cut,
                       listening, loop, answered, dropped>>
    BY DEF Start, child, server, Pool!Start
  <1>2. queue \in Seq(Msgs) /\ QueueInjective
    BY DEF NetInv, TypeOK
  <1>3. /\ queue' \in Seq(Msgs)
        /\ Head(queue) \in ToSet(queue)
        /\ ToSet(queue') = ToSet(queue) \ {Head(queue)}
        /\ QueueInjective'
    BY <1>1, <1>2, TailFacts DEF QueueInjective
  <1>4. Head(queue) \in Msgs
    BY <1>1, <1>2
  <1>5. TypeOK'
    BY <1>1, <1>3, <1>4 DEF NetInv, TypeOK
  <1>6. Pending' = Pending
    BY <1>1, <1>3 DEF Pending
  <1>7. \A d \in Conns : MsgsOf(d)' = MsgsOf(d)
    BY <1>1, <1>6 DEF MsgsOf
  <1>8. (ToSet(queue) \cap running = {})'
    BY <1>1, <1>3 DEF NetInv
  <1>9. RequestsCounted' /\ PeersCounted' /\ ClosedTold' /\ Alive' = Alive
    BY <1>1, <1>7 DEF NetInv, RequestsCounted, PeersCounted, ClosedTold, Alive
  <1>10. NoDangling' /\ FiltersToldFirst' /\ \A c \in Conns : conn'[c] = "none" => Untouched(c)'
    BY <1>1, <1>6 DEF NetInv, NoDangling, FiltersToldFirst, Untouched
  <1> QED
    BY <1>3, <1>5, <1>6, <1>8, <1>9, <1>10 DEF NetInv

\* A package leaves the pool.
LEMMA AnswerFacts ==
  ASSUME NetInv, NEW m \in Msgs, Pool!Answer(m), UNCHANGED owner
  PROVE  /\ m \in running /\ m \in Pending
         /\ UNCHANGED <<queue, dropped>>
         /\ Pending' = Pending \ {m}
         /\ owner[m] \in Conns
         /\ MsgsOf(owner[m])' = MsgsOf(owner[m]) \ {m} /\ m \in MsgsOf(owner[m])
         /\ \A d \in Conns \ {owner[m]} : MsgsOf(d)' = MsgsOf(d)
         /\ running' \subseteq Msgs /\ answered' \subseteq Msgs
         /\ QueueInjective' /\ (ToSet(queue) \cap running = {})' /\ IsFiniteSet(Pending')
  <1>1. /\ m \in running /\ running' = running \ {m} /\ answered' = answered \cup {m}
        /\ UNCHANGED <<queue, dropped>>
    BY DEF Pool!Answer
  <1>2. Pending' = Pending \ {m} /\ m \in Pending
    BY <1>1 DEF Pending, NetInv
  <1>3. owner[m] \in Conns /\ running \subseteq Msgs /\ answered \subseteq Msgs
    BY DEF NetInv, TypeOK
  <1>4. MsgsOf(owner[m])' = MsgsOf(owner[m]) \ {m} /\ m \in MsgsOf(owner[m])
    BY <1>2 DEF MsgsOf
  <1>5. \A d \in Conns \ {owner[m]} : MsgsOf(d)' = MsgsOf(d)
    BY <1>2 DEF MsgsOf
  <1>6. IsFiniteSet(Pending')
    BY <1>2, FS_Subset DEF NetInv
  <1>7. QueueInjective' /\ (ToSet(queue) \cap running = {})'
    BY <1>1 DEF NetInv, QueueInjective
  <1> QED
    BY <1>1, <1>2, <1>3, <1>4, <1>5, <1>6, <1>7

LEMMA ResultInv ==
  ASSUME NetInv, NEW m \in Msgs, Result(m)
  PROVE  NetInv'
  <1>0. PICK c \in Conns : c = owner[m]
    BY DEF NetInv, TypeOK
  <1>1. UNCHANGED <<conn, alive, closed, peerStat, owner, last, cut, listening, loop>> /\ Pool!Answer(m)
    BY DEF Result, server
  <1>2. PICK over \in BOOLEAN :
            /\ m \in last => over
            /\ noReq' = [noReq EXCEPT ![c] = @ - 1]
            /\ closing' = [closing EXCEPT ![c] = @ \/ CloseDue(c, over)]
            /\ told' = IF m \in last THEN told \cup {c} ELSE told
    BY <1>0 DEF Result
  <1>3. /\ m \in Pending /\ UNCHANGED <<queue, dropped>> /\ Pending' = Pending \ {m}
        /\ MsgsOf(c)' = MsgsOf(c) \ {m} /\ m \in MsgsOf(c)
        /\ \A d \in Conns \ {c} : MsgsOf(d)' = MsgsOf(d)
        /\ running' \subseteq Msgs /\ answered' \subseteq Msgs
        /\ QueueInjective' /\ (ToSet(queue) \cap running = {})' /\ IsFiniteSet(Pending')
    BY <1>0, <1>1, AnswerFacts
  <1>4. alive[c]
    BY <1>0 DEF Result
  <1>5. IsFiniteSet(MsgsOf(c)) /\ noReq[c] = Cardinality(MsgsOf(c)) /\ noReq \in [Conns -> Nat]
    BY <1>3, <1>4, MsgsOfFacts DEF NetInv, RequestsCounted, TypeOK
  <1>6. /\ Cardinality(MsgsOf(c)') = Cardinality(MsgsOf(c)) - 1
        /\ Cardinality(MsgsOf(c)) > 0 /\ Cardinality(MsgsOf(c)) \in Nat
    BY <1>3, <1>5, Counting
  <1>7. noReq'[c] = Cardinality(MsgsOf(c)') /\ noReq' \in [Conns -> Nat]
    BY <1>2, <1>3, <1>5, <1>6
  <1>8. closing' \in [Conns -> BOOLEAN]
    <2>1. closing \in [Conns -> BOOLEAN]
      BY DEF NetInv, TypeOK
    <2> QED
      BY <1>2, <2>1, Zenon
  <1>9. told' \subseteq Conns /\ told \subseteq told' /\ (m \in last => c \in told')
    BY <1>2, <1>3 DEF NetInv, TypeOK
  <1>10. TypeOK'
    BY <1>1, <1>3, <1>7, <1>8, <1>9 DEF NetInv, TypeOK
  <1>11. RequestsCounted'
    <2>1. \A d \in Conns \ {c} : noReq'[d] = noReq[d]
      BY <1>2, <1>5
    <2>2. \A d \in Conns \ {c} : alive[d] => noReq'[d] = Cardinality(MsgsOf(d)')
      BY <1>3, <2>1 DEF NetInv, RequestsCounted
    <2> QED
      BY <1>1, <1>7, <2>2 DEF RequestsCounted
  <1>12. PeersCounted' /\ Alive' = Alive
    BY <1>1 DEF NetInv, PeersCounted, Alive
  <1>13. NoDangling'
    BY <1>1, <1>3 DEF NetInv, NoDangling
  <1>14. FiltersToldFirst'
    BY <1>1, <1>9 DEF NetInv, FiltersToldFirst
  <1>15. ClosedTold'
    <2>1. ASSUME NEW d \in Conns, closed[d], alive[d]
          PROVE  d \in told' \/ \E x \in MsgsOf(d)' : x \in last
      <3>1. d \in told \/ \E x \in MsgsOf(d) : x \in last
        BY <2>1 DEF NetInv, ClosedTold
      <3>2. CASE d = c
        BY <1>3, <1>9, <3>1, <3>2
      <3>3. CASE d # c
        BY <1>3, <1>9, <3>1, <3>3
      <3> QED
        BY <3>2, <3>3
    <2> QED
      BY <1>1, <2>1 DEF ClosedTold
  <1>16. \A d \in Conns : conn'[d] = "none" => Untouched(d)'
    BY <1>1, <1>2, <1>4, <1>5 DEF NetInv, Untouched
  <1> QED
    BY <1>3, <1>10, <1>11, <1>12, <1>13, <1>14, <1>15, <1>16 DEF NetInv

LEMMA ResultDanglingInv ==
  ASSUME NetInv, NEW m \in Msgs, ResultDangling(m)
  PROVE  NetInv'
  <1>1. /\ UNCHANGED <<conn, closing, alive, closed, noReq, peerStat, owner, last, told, cut, listening, loop>>
        /\ Pool!Answer(m) /\ ~alive[owner[m]]
    BY DEF ResultDangling, child, server
  <1>2. /\ UNCHANGED <<queue, dropped>> /\ Pending' = Pending \ {m}
        /\ \A d \in Conns \ {owner[m]} : MsgsOf(d)' = MsgsOf(d)
        /\ running' \subseteq Msgs /\ answered' \subseteq Msgs
        /\ QueueInjective' /\ (ToSet(queue) \cap running = {})' /\ IsFiniteSet(Pending')
    BY <1>1, AnswerFacts
  <1>3. TypeOK'
    BY <1>1, <1>2 DEF NetInv, TypeOK
  <1>4. RequestsCounted' /\ ClosedTold'
    BY <1>1, <1>2 DEF NetInv, RequestsCounted, ClosedTold
  <1>5. PeersCounted' /\ Alive' = Alive
    BY <1>1 DEF NetInv, PeersCounted, Alive
  <1>6. NoDangling' /\ FiltersToldFirst' /\ \A d \in Conns : conn'[d] = "none" => Untouched(d)'
    BY <1>1, <1>2 DEF NetInv, NoDangling, FiltersToldFirst, Untouched
  <1> QED
    BY <1>2, <1>3, <1>4, <1>5, <1>6 DEF NetInv

\* The signals and the end of the loop touch neither the objects nor the pool.
LEMMA ServerInv ==
  ASSUME NetInv, Sigterm \/ Sigusr1 \/ LoopEnds
  PROVE  NetInv'
  <1>1. UNCHANGED <<conn, closing, alive, closed, noReq, peerStat, owner, last, told, cut,
                    queue, running, answered, dropped>>
    BY DEF Sigterm, Sigusr1, LoopEnds, child, pool, Pool!Close
  <1>2. listening' \in BOOLEAN /\ loop' \in {"running", "returned", "done"}
    BY DEF NetInv, TypeOK, Sigterm, Sigusr1, LoopEnds
  <1>3. TypeOK'
    BY <1>1, <1>2 DEF NetInv, TypeOK
  <1> QED
    BY <1>1, <1>3, Quiet

-----------------------------------------------------------------------------
LEMMA NetInitInv == Init => NetInv
  <1> SUFFICES ASSUME Init
               PROVE  NetInv
    OBVIOUS
  <1>1. /\ conn = [c \in Conns |-> "none"]
        /\ closing = [c \in Conns |-> FALSE]
        /\ alive = [c \in Conns |-> FALSE]
        /\ closed = [c \in Conns |-> FALSE]
        /\ noReq = [c \in Conns |-> 0]
        /\ peerStat = [p \in Peers |-> 0]
        /\ owner = [m \in Msgs |-> CHOOSE c \in Conns : TRUE]
        /\ last = {} /\ listening = TRUE /\ loop = "running" /\ told = {} /\ cut = {}
        /\ queue = << >> /\ running = {} /\ answered = {} /\ dropped = {}
    BY DEF Init, Pool!Init
  <1>2. ToSet(queue) = {} /\ Pending = {}
    BY <1>1 DEF ToSet, Pending
  <1>3. owner \in [Msgs -> Conns]
    BY <1>1, SomeConnAssumption
  <1>4. TypeOK
    BY <1>1, <1>3 DEF TypeOK
  <1>5. Alive = {} /\ \A p \in Peers : {c \in Conns : alive[c] /\ PeerOf[c] = p} = {}
    BY <1>1 DEF Alive
  <1>6. IsFiniteSet({}) /\ Cardinality({}) = 0
    BY FS_EmptySet
  <1>7. PeersCounted
    <2>1. \A p \in Peers : peerStat[p] = 0 /\ peerStat[p] <= ConnectTotal
      BY <1>1, LimitAssumption
    <2> QED
      BY <1>5, <1>6, <2>1 DEF PeersCounted
  <1>8. QueueInjective /\ RequestsCounted /\ NoDangling /\ FiltersToldFirst /\ ClosedTold
    BY <1>1, <1>2 DEF QueueInjective, RequestsCounted, NoDangling, FiltersToldFirst, ClosedTold
  <1>9. \A c \in Conns : Untouched(c)
    BY <1>1 DEF Untouched
  <1> QED
    BY <1>1, <1>2, <1>4, <1>5, <1>6, <1>7, <1>8, <1>9 DEF NetInv

LEMMA NetNextInv == NetInv /\ [Next]_vars => NetInv'
  <1> SUFFICES ASSUME NetInv, [Next]_vars
               PROVE  NetInv'
    OBVIOUS
  <1>1. CASE \E c \in Conns : SessionNotify(c) \/ RecvGDU(c) \/ RecvLocal(c)
    BY <1>1, SessionNotifyInv, RecvGDUInv, RecvLocalInv
  <1>2. CASE \E c \in Conns : ConnFail(c) \/ TimeoutNotify(c) \/ CloseDone(c)
    BY <1>2, FailNotifyInv DEF ConnFail, TimeoutNotify, CloseDone, Ready
  <1>3. CASE Start
    BY <1>3, StartInv
  <1>4. CASE \E m \in Msgs : Result(m) \/ ResultDangling(m)
    BY <1>4, ResultInv, ResultDanglingInv
  <1>5. CASE Sigterm \/ Sigusr1 \/ LoopEnds
    BY <1>5, ServerInv
  <1>6. CASE UNCHANGED vars
    <2>1. /\ UNCHANGED <<conn, closing, alive, closed, noReq, peerStat, owner, last, queue>>
          /\ UNCHANGED <<running, answered, dropped, told, cut, listening, loop>>
      BY <1>6 DEF vars
    <2>2. TypeOK'
      BY <2>1 DEF NetInv, TypeOK
    <2> QED
      BY <2>1, <2>2, Quiet
  <1> QED
    BY <1>1, <1>2, <1>3, <1>4, <1>5, <1>6 DEF Next

\* The inductive invariant holds in every state of every behaviour of the
\* socket loop.
THEOREM NetInvariance == Spec => []NetInv
  BY NetInitInv, NetNextInv, PTL DEF Spec

\* m_no_requests counts an object's packages in the pool and m_peerStat a
\* client's objects, within connect-total, through put, cleanup, result,
\* failNotify and timeoutNotify in any order.
THEOREM CountsAreExact == Spec => []CountsExact
  <1>1. NetInv => CountsExact
    BY DEF NetInv, CountsExact
  <1> QED
    BY <1>1, NetInvariance, PTL

\* A ZAssocChild is deleted neither under a package that points to it nor before
\* the filters were told of its end, unless recv_GDU deletes it.
THEOREM DeletedAfterTold == Spec => []ToldThenDeleted
  <1>1. NetInv => ToldThenDeleted
    BY DEF NetInv, ToldThenDeleted
  <1> QED
    BY <1>1, NetInvariance, PTL

-----------------------------------------------------------------------------

Entered == {s \in Sessions : next[s] > 0}

\* Sessions that had target t and have it no longer
GoneOf(t) ==
    {s \in Sessions :
        /\ target[s] = 0
        /\ \E p \in P : Ses(p) = s /\ pick[p] = t /\ pc[p] = "done"}

Bounded(t) ==
    \A r \in stat[t] : /\ 1 <= r.sessions /\ r.sessions <= Cardinality(SessionsOf(t))
                       /\ r.deads <= Cardinality(GoneOf(t))

PackageOK(p) ==
    /\ pc[p] = "new" <=> p[2] > next[Ses(p)]
    /\ pc[p] \in {"choose", "initMoving"} => p[2] = 1
    /\ pc[p] = "initMoving" => pick[p] # 0
    /\ pick[p] # 0 => p[2] = 1 /\ pc[p] # "new"

SessionOK(s) ==
    target[s] # 0 => \E p \in P : Ses(p) = s /\ pc[p] = "done" /\ pick[p] = target[s]

Settled(s) == \A p \in P : Ses(p) = s => pc[p] \in {"new", "done"}

EndOK(s) ==
    s \in ended =>
        \E p \in P : /\ Ses(p) = s /\ kind[p] = "end"
                     /\ \/ pc[p] \in {"moving", "finish"}
                        \/ pc[p] = "done" /\ (s \in overtaken \/ (target[s] = 0 /\ Settled(s)))

BalanceInv ==
    /\ BalanceTypeOK
    /\ IsFiniteSet(Entered)
    /\ \A p \in P : PackageOK(p)
    /\ \A s \in Sessions : SessionOK(s) /\ EndOK(s)
    /\ \A t \in Targets : Bounded(t)

-----------------------------------------------------------------------------
(* Facts about the operators of the model.                                 *)

\* A package is a session and a number.
LEMMA Package ==
  ASSUME NEW p \in P
  PROVE  /\ Ses(p) \in Sessions
         /\ p[2] \in 1 .. MaxPkgs[Ses(p)] /\ p[2] \in Nat
         /\ p = <<Ses(p), p[2]>>
  <1>1. PICK s \in Sessions : p \in {s} \X (1 .. MaxPkgs[s])
    BY DEF P
  <1>2. p[1] = s /\ p[2] \in 1 .. MaxPkgs[s] /\ p = <<p[1], p[2]>>
    BY <1>1
  <1>3. MaxPkgs[s] \in Nat
    BY MaxPkgsAssumption
  <1> QED
    BY <1>2, <1>3 DEF Ses

LEMMA PackageOf ==
  ASSUME NEW s \in Sessions, NEW i \in 1 .. MaxPkgs[s]
  PROVE  <<s, i>> \in P /\ Ses(<<s, i>>) = s
  <1>1. <<s, i>> \in {s} \X (1 .. MaxPkgs[s])
    OBVIOUS
  <1> QED
    BY <1>1 DEF P, Ses

\* Every non-empty set of numbers has a least one.
LEMMA Least ==
  ASSUME NEW S \in SUBSET Nat, S # {}
  PROVE  \E m \in S : \A x \in S : m <= x
  <1> DEFINE less == OpToRel(<, Nat)
  <1>1. \A x, y \in Nat : <<x, y>> \in less <=> x < y
    BY DEF OpToRel
  <1>2. IsWellFoundedOn(less, Nat)
    BY NatLessThanWellFounded
  <1> HIDE DEF less
  <1>3. PICK m \in S : \A y \in S : ~(<<y, m>> \in less)
    BY <1>2, WFMin
  <1>4. ASSUME NEW y \in S
        PROVE  m <= y
    <2>1. y \in Nat /\ m \in Nat
      OBVIOUS
    <2>2. ~(y < m)
      BY <1>1, <1>3, <2>1, Zenon
    <2> QED
      BY <2>1, <2>2
  <1> QED
    BY <1>4

LEMMA CostType ==
  ASSUME BalanceTypeOK, NEW t \in Targets
  PROVE  Cost(t) \in Nat
  <1>1. CASE stat[t] = {}
    BY <1>1 DEF Cost
  <1>2. CASE stat[t] # {}
    <2>1. The(stat[t]) \in stat[t]
      BY <1>2 DEF The
    <2>2. stat[t] \subseteq Stat
      BY DEF BalanceTypeOK
    <2>3. The(stat[t]) \in Stat
      BY <2>1, <2>2
    <2> HIDE DEF The
    <2>4. Cost(t) = The(stat[t]).sessions + The(stat[t]).packages + The(stat[t]).deads
      BY <1>2 DEF Cost
    <2> QED
      BY <2>3, <2>4 DEF Stat
  <1> QED
    BY <1>1, <1>2

\* The loop over the targets finds one of them.
LEMMA CheapestFacts ==
  ASSUME BalanceTypeOK, NEW set \in SUBSET Targets, set # {}
  PROVE  Cheapest(set) \in set
  <1> DEFINE costs == {Cost(t) : t \in set}
  <1>1. costs \subseteq Nat /\ costs # {}
    BY CostType
  <1>2. PICK c \in costs : \A x \in costs : c <= x
    BY <1>1, Least
  <1> DEFINE best == {t \in set : Cost(t) = c}
  <1>3. best \subseteq Nat /\ best # {}
    BY TargetsAssumption
  <1>4. PICK t \in best : \A x \in best : t <= x
    BY <1>3, Least
  <1>5. t \in set /\ Cost(t) = c /\ c \in Nat
    BY <1>1
  <1>6. ASSUME NEW u \in set
        PROVE  Cost(t) < Cost(u) \/ (Cost(t) = Cost(u) /\ t <= u)
    <2>1. c <= Cost(u) /\ Cost(u) \in Nat
      BY <1>2, CostType
    <2>2. CASE Cost(u) = c
      BY <1>4, <1>5, <2>2
    <2>3. CASE Cost(u) # c
      BY <1>5, <2>1, <2>3
    <2> QED
      BY <2>2, <2>3
  <1> QED
    BY <1>5, <1>6 DEF Cheapest

\* The sets the statistics are compared with are finite and change by one session.
\* A package that is done or not there yet is not the one that takes a step.
OnlyPackage(p) ==
    \A q \in P \ {p} : pc'[q] = pc[q] /\ pick'[q] = pick[q] /\ kind'[q] = kind[q]

\* The sessions with, or formerly with, a target have entered the filter.
LEMMA CountedEntered ==
  ASSUME BalanceInv, NEW t \in Targets
  PROVE  /\ IsFiniteSet(SessionsOf(t)) /\ IsFiniteSet(GoneOf(t))
         /\ Cardinality(SessionsOf(t)) \in Nat /\ Cardinality(GoneOf(t)) \in Nat
  <1>1. next \in [Sessions -> Nat] /\ t # 0
    BY TargetsAssumption DEF BalanceInv, BalanceTypeOK
  <1>2. ASSUME NEW p \in P, pick[p] = t
        PROVE  Ses(p) \in Entered
    <2>1. p[2] = 1 /\ ~(p[2] > next[Ses(p)])
      BY <1>1, <1>2 DEF BalanceInv, PackageOK
    <2>2. Ses(p) \in Sessions
      BY Package
    <2> QED
      BY <1>1, <2>1, <2>2 DEF Entered
  <1>3. SessionsOf(t) \subseteq Entered
    <2>1. ASSUME NEW s \in Sessions, target[s] = t
          PROVE  s \in Entered
      <3>1. PICK p \in P : Ses(p) = s /\ pick[p] = t
        BY <1>1, <2>1 DEF BalanceInv, SessionOK
      <3> QED
        BY <1>2, <3>1
    <2> QED
      BY <2>1 DEF SessionsOf
  <1>4. GoneOf(t) \subseteq Entered
    BY <1>2 DEF GoneOf
  <1>5. IsFiniteSet(Entered)
    BY DEF BalanceInv
  <1> QED
    BY <1>3, <1>4, <1>5, FS_Subset, FS_CardinalityType

-----------------------------------------------------------------------------
(* Each action preserves the invariant.                                    *)

\* The other packages stay where they are.
LEMMA OthersKeep ==
  ASSUME BalanceInv, NEW p \in P, OnlyPackage(p), next' = next, PackageOK(p)'
  PROVE  \A q \in P : PackageOK(q)'
  BY DEF BalanceInv, PackageOK, OnlyPackage

\* The sessions that no longer have target t only get more.
LEMMA GoneGrows ==
  ASSUME BalanceInv, NEW p \in P, pc[p] # "done", OnlyPackage(p), NEW t,
         \A s \in GoneOf(t) : target'[s] = 0
  PROVE  GoneOf(t) \subseteq GoneOf(t)'
  <1> SUFFICES ASSUME NEW s \in GoneOf(t)
               PROVE  s \in GoneOf(t)'
    OBVIOUS
  <1>1. PICK q \in P : Ses(q) = s /\ pick[q] = t /\ pc[q] = "done"
    BY DEF GoneOf
  <1>2. pick'[q] = t /\ pc'[q] = "done"
    BY <1>1 DEF OnlyPackage
  <1> QED
    BY <1>1, <1>2 DEF GoneOf

\* They are among those that have entered the filter.
LEMMA GoneFinite ==
  ASSUME BalanceTypeOK', IsFiniteSet(Entered'), \A q \in P : PackageOK(q)', NEW t \in Targets
  PROVE  IsFiniteSet(GoneOf(t)')
  <1>1. GoneOf(t)' \subseteq Entered'
    <2> SUFFICES ASSUME NEW s \in GoneOf(t)'
                 PROVE  s \in Entered'
      OBVIOUS
    <2>1. PICK q \in P : Ses(q) = s /\ pick'[q] = t
      BY DEF GoneOf
    <2>2. t # 0 /\ next' \in [Sessions -> Nat] /\ s \in Sessions
      BY TargetsAssumption, <2>1, Package DEF BalanceTypeOK
    <2>3. q[2] = 1 /\ ~(q[2] > next'[s])
      BY <2>1, <2>2 DEF PackageOK
    <2> QED
      BY <2>2, <2>3 DEF Entered
  <1> QED
    BY <1>1, FS_Subset

\* A step of a package that changes neither the sessions nor what they count for.
LEMMA BalanceQuiet ==
  ASSUME BalanceInv, NEW p \in P, pc[p] \notin {"new", "done"}, OnlyPackage(p), BalanceTypeOK',
         UNCHANGED <<target, next, ended, kind, overtaken>>,
         PackageOK(p)',
         pc[p] \in {"moving", "finish"} /\ kind[p] = "end" => pc'[p] \in {"moving", "finish"},
         \A t \in Targets : \A r \in stat'[t] : \E q \in stat[t] :
             r.sessions = q.sessions /\ r.deads = q.deads
  PROVE  BalanceInv'
  <1>1. \A q \in P : PackageOK(q)'
    BY OthersKeep
  <1>2. IsFiniteSet(Entered)'
    BY DEF BalanceInv, Entered
  <1>3. ASSUME NEW s \in Sessions
        PROVE  SessionOK(s)'
    BY DEF BalanceInv, SessionOK, OnlyPackage
  <1>4. ASSUME NEW s \in Sessions, s \in ended
        PROVE  EndOK(s)'
    <2>1. PICK e \in P : /\ Ses(e) = s /\ kind[e] = "end"
                         /\ \/ pc[e] \in {"moving", "finish"}
                            \/ pc[e] = "done" /\ (s \in overtaken \/ (target[s] = 0 /\ Settled(s)))
      BY <1>4 DEF BalanceInv, EndOK
    <2>2. CASE pc[e] \in {"moving", "finish"}
      BY <2>1, <2>2 DEF EndOK, OnlyPackage
    <2>3. CASE pc[e] = "done" /\ s \in overtaken
      BY <2>1, <2>3 DEF EndOK, OnlyPackage
    <2>4. CASE pc[e] = "done" /\ target[s] = 0 /\ Settled(s)
      <3>1. Settled(s)'
        BY <2>4 DEF Settled, OnlyPackage
      <3> QED
        BY <2>1, <2>4, <3>1 DEF EndOK, OnlyPackage
    <2> QED
      BY <2>1, <2>2, <2>3, <2>4
  <1>5. ASSUME NEW t \in Targets
        PROVE  Bounded(t)'
    <2>1. SessionsOf(t)' = SessionsOf(t)
      BY DEF SessionsOf
    <2>2. GoneOf(t) \subseteq GoneOf(t)'
      BY GoneGrows DEF GoneOf
    <2>3. IsFiniteSet(GoneOf(t)')
      BY <1>1, <1>2, GoneFinite
    <2>4. /\ Cardinality(GoneOf(t)) <= Cardinality(GoneOf(t)')
          /\ Cardinality(GoneOf(t)) \in Nat /\ Cardinality(GoneOf(t)') \in Nat
      BY <2>2, <2>3, Counting
    <2>5. ASSUME NEW r \in stat'[t]
          PROVE  /\ 1 <= r.sessions /\ r.sessions <= Cardinality(SessionsOf(t))
                 /\ r.deads <= Cardinality(GoneOf(t)')
      <3>1. PICK q \in stat[t] : r.sessions = q.sessions /\ r.deads = q.deads
        OBVIOUS
      <3>2. /\ 1 <= q.sessions /\ q.sessions <= Cardinality(SessionsOf(t))
            /\ q.deads <= Cardinality(GoneOf(t))
        BY DEF BalanceInv, Bounded
      <3>3. q \in Stat
        BY DEF BalanceInv, BalanceTypeOK
      <3>4. q.deads \in Nat
        BY <3>3 DEF Stat
      <3> QED
        BY <2>4, <3>1, <3>2, <3>4
    <2> QED
      BY <2>1, <2>5 DEF Bounded
  <1>6. \A s \in Sessions : EndOK(s)'
    <2>1. ASSUME NEW s \in Sessions, s \notin ended
          PROVE  EndOK(s)'
      BY <2>1 DEF EndOK
    <2> QED
      BY <1>4, <2>1
  <1> QED
    BY <1>1, <1>2, <1>3, <1>5, <1>6 DEF BalanceInv

\* An Init package goes from target to target.
LEMMA ChooseInv ==
  ASSUME BalanceInv, NEW p \in P, Choose(p)
  PROVE  BalanceInv'
  <1>1. /\ pc[p] = "choose" /\ vhosts[p] # {}
        /\ pick' = [pick EXCEPT ![p] = Cheapest(vhosts[p])]
        /\ vhosts' = [vhosts EXCEPT ![p] = vhosts[p] \ {Cheapest(vhosts[p])}]
        /\ pc' = [pc EXCEPT ![p] = "initMoving"]
        /\ UNCHANGED <<stat, target, next, ended, kind, overtaken>>
    BY DEF Choose, Untried, Go
  <1>2. BalanceTypeOK /\ vhosts[p] \in SUBSET Targets /\ pc \in [P -> PC] /\ pick \in [P -> Targets \cup {0}]
    BY DEF BalanceInv, BalanceTypeOK
  <1>3. Cheapest(vhosts[p]) \in Targets /\ Cheapest(vhosts[p]) # 0
    <2>1. Cheapest(vhosts[p]) \in vhosts[p]
      BY <1>1, <1>2, CheapestFacts
    <2> QED
      BY <1>2, <2>1, TargetsAssumption
  <1>4. BalanceTypeOK'
    BY <1>1, <1>2, <1>3 DEF BalanceTypeOK, PC
  <1>5. OnlyPackage(p) /\ pc'[p] = "initMoving" /\ pick'[p] # 0
    BY <1>1, <1>2, <1>3 DEF OnlyPackage
  <1>6. PackageOK(p)'
    BY <1>1, <1>5 DEF BalanceInv, PackageOK
  <1> QED
    BY <1>1, <1>4, <1>5, <1>6, BalanceQuiet

LEMMA NoTargetsInv ==
  ASSUME BalanceInv, NEW p \in P, NoTargets(p)
  PROVE  BalanceInv'
  <1>1. /\ pc[p] = "choose"
        /\ pick' = [pick EXCEPT ![p] = 0]
        /\ pc' = [pc EXCEPT ![p] = "done"]
        /\ UNCHANGED <<stat, target, next, ended, kind, vhosts, overtaken>>
    BY DEF NoTargets, Go
  <1>2. pc \in [P -> PC] /\ pick \in [P -> Targets \cup {0}]
    BY DEF BalanceInv, BalanceTypeOK
  <1>3. BalanceTypeOK'
    BY <1>1, <1>2 DEF BalanceInv, BalanceTypeOK, PC
  <1>4. OnlyPackage(p) /\ pc'[p] = "done" /\ pick'[p] = 0
    BY <1>1, <1>2 DEF OnlyPackage
  <1>5. PackageOK(p)'
    BY <1>1, <1>4 DEF BalanceInv, PackageOK
  <1> QED
    BY <1>1, <1>3, <1>4, <1>5, BalanceQuiet

LEMMA InitFailedInv ==
  ASSUME BalanceInv, NEW p \in P, InitFailed(p)
  PROVE  BalanceInv'
  <1>1. /\ pc[p] = "initMoving"
        /\ pc' = [pc EXCEPT ![p] = "choose"]
        /\ UNCHANGED <<stat, target, next, ended, kind, vhosts, pick, overtaken>>
    BY DEF InitFailed, Go
  <1>2. pc \in [P -> PC]
    BY DEF BalanceInv, BalanceTypeOK
  <1>3. BalanceTypeOK'
    BY <1>1, <1>2 DEF BalanceInv, BalanceTypeOK, PC
  <1>4. OnlyPackage(p) /\ pc'[p] = "choose"
    BY <1>1, <1>2 DEF OnlyPackage
  <1>5. PackageOK(p)'
    BY <1>1, <1>4 DEF BalanceInv, PackageOK
  <1> QED
    BY <1>1, <1>3, <1>4, <1>5, BalanceQuiet

\* A record stays one with another number of packages or of dead marks.
LEMMA RecordFacts ==
  ASSUME NEW r \in Stat
  PROVE  /\ [r EXCEPT !.packages = @ + 1] \in Stat
         /\ [r EXCEPT !.packages = @ + 1].sessions = r.sessions
         /\ [r EXCEPT !.packages = @ + 1].deads = r.deads
         /\ OnePackageLess(r) \in Stat
         /\ OnePackageLess(r).sessions = r.sessions
         /\ OnePackageLess(r).deads = r.deads
         /\ [r EXCEPT !.deads = @ + 1] \in Stat
         /\ [r EXCEPT !.deads = @ + 1].sessions = r.sessions
         /\ [r EXCEPT !.deads = @ + 1].deads = r.deads + 1
         /\ [r EXCEPT !.sessions = @ + 1] \in Stat
         /\ [r EXCEPT !.sessions = @ + 1].sessions = r.sessions + 1
         /\ [r EXCEPT !.sessions = @ + 1].deads = r.deads
         /\ OneLess(r) \in Stat
         /\ OneLess(r).sessions = IF r.sessions > 0 THEN r.sessions - 1 ELSE 0
         /\ OneLess(r).deads = r.deads
         /\ r.sessions \in Nat /\ r.packages \in Nat /\ r.deads \in Nat
  BY DEF Stat, OnePackageLess, OneLess

\* The packages of a target are counted up and down; its sessions are not.
LEMMA AddPackageFacts ==
  ASSUME BalanceTypeOK, NEW s
  PROVE  /\ AddPackage(stat, s) \in [Targets -> SUBSET Stat]
         /\ \A t \in Targets : \A q, r \in AddPackage(stat, s)[t] : q = r
         /\ \A t \in Targets : \A r \in AddPackage(stat, s)[t] : \E q \in stat[t] :
                r.sessions = q.sessions /\ r.deads = q.deads
  <1>1. stat \in [Targets -> SUBSET Stat] /\ \A t \in Targets : \A q, r \in stat[t] : q = r
    BY DEF BalanceTypeOK
  <1>2. ASSUME NEW t \in Targets, NEW r \in AddPackage(stat, s)[t]
        PROVE  /\ r \in Stat
               /\ \E q \in stat[t] : /\ r = IF t \in TargetOf(s) THEN [q EXCEPT !.packages = @ + 1] ELSE q
                                     /\ r.sessions = q.sessions /\ r.deads = q.deads
    <2>1. PICK q \in stat[t] : r = IF t \in TargetOf(s) THEN [q EXCEPT !.packages = @ + 1] ELSE q
      BY DEF AddPackage
    <2>2. q \in Stat
      BY <1>1
    <2> QED
      BY <2>1, <2>2, RecordFacts
  <1>3. AddPackage(stat, s) \in [Targets -> SUBSET Stat]
    <2>1. \A t \in Targets : AddPackage(stat, s)[t] \subseteq Stat
      BY <1>2
    <2>2. AddPackage(stat, s) = [t \in Targets |-> AddPackage(stat, s)[t]]
      BY DEF AddPackage
    <2> QED
      BY <2>1, <2>2
  <1>4. \A t \in Targets : \A q, r \in AddPackage(stat, s)[t] : q = r
    BY <1>1, <1>2
  <1> QED
    BY <1>2, <1>3, <1>4

LEMMA RemovePackageFacts ==
  ASSUME BalanceTypeOK, NEW s
  PROVE  /\ RemovePackage(stat, s) \in [Targets -> SUBSET Stat]
         /\ \A t \in Targets : \A q, r \in RemovePackage(stat, s)[t] : q = r
         /\ \A t \in Targets : \A r \in RemovePackage(stat, s)[t] : \E q \in stat[t] :
                r.sessions = q.sessions /\ r.deads = q.deads
  <1>1. stat \in [Targets -> SUBSET Stat] /\ \A t \in Targets : \A q, r \in stat[t] : q = r
    BY DEF BalanceTypeOK
  <1>2. ASSUME NEW t \in Targets, NEW r \in RemovePackage(stat, s)[t]
        PROVE  /\ r \in Stat
               /\ \E q \in stat[t] : /\ r = IF t \in TargetOf(s) THEN OnePackageLess(q) ELSE q
                                     /\ r.sessions = q.sessions /\ r.deads = q.deads
    <2>1. PICK q \in stat[t] : r = IF t \in TargetOf(s) THEN OnePackageLess(q) ELSE q
      BY DEF RemovePackage
    <2>2. q \in Stat
      BY <1>1
    <2> QED
      BY <2>1, <2>2, RecordFacts
  <1>3. RemovePackage(stat, s) \in [Targets -> SUBSET Stat]
    <2>1. \A t \in Targets : RemovePackage(stat, s)[t] \subseteq Stat
      BY <1>2
    <2>2. RemovePackage(stat, s) = [t \in Targets |-> RemovePackage(stat, s)[t]]
      BY DEF RemovePackage
    <2> QED
      BY <2>1, <2>2
  <1>4. \A t \in Targets : \A q, r \in RemovePackage(stat, s)[t] : q = r
    BY <1>1, <1>2
  <1> QED
    BY <1>2, <1>3, <1>4

LEMMA CountInv ==
  ASSUME BalanceInv, NEW p \in P, Count(p)
  PROVE  BalanceInv'
  <1>1. /\ pc[p] = "start"
        /\ stat' = AddPackage(stat, Ses(p))
        /\ pc' = [pc EXCEPT ![p] = "moving"]
        /\ UNCHANGED <<target, next, ended, kind, vhosts, pick, overtaken>>
    BY DEF Count, Go
  <1>2. pc \in [P -> PC] /\ BalanceTypeOK
    BY DEF BalanceInv, BalanceTypeOK
  <1>3. /\ stat' \in [Targets -> SUBSET Stat]
        /\ \A t \in Targets : \A q, r \in stat'[t] : q = r
        /\ \A t \in Targets : \A r \in stat'[t] : \E q \in stat[t] :
               r.sessions = q.sessions /\ r.deads = q.deads
    BY <1>1, <1>2, AddPackageFacts
  <1>4. BalanceTypeOK'
    BY <1>1, <1>2, <1>3 DEF BalanceTypeOK, PC
  <1>5. OnlyPackage(p) /\ pc'[p] = "moving"
    BY <1>1, <1>2 DEF OnlyPackage
  <1>6. PackageOK(p)'
    BY <1>1, <1>5 DEF BalanceInv, PackageOK
  <1> QED
    BY <1>1, <1>3, <1>4, <1>5, <1>6, BalanceQuiet

LEMMA MovedInv ==
  ASSUME BalanceInv, NEW p \in P, NEW resp \in {"none", "close", "response"}, NEW isClosed \in BOOLEAN,
         Moved(p, resp, isClosed)
  PROVE  BalanceInv'
  <1>1. /\ pc[p] = "moving"
        /\ stat' = IF resp = "none" THEN stat ELSE RemovePackage(stat, Ses(p))
        /\ pc' = [pc EXCEPT ![p] = IF isClosed \/ resp = "close" \/ kind[p] \in ClosesFront
                                   THEN "finish" ELSE "done"]
        /\ UNCHANGED <<target, next, ended, kind, vhosts, pick, overtaken>>
    BY DEF Moved, Go
  <1>2. pc \in [P -> PC] /\ BalanceTypeOK
    BY DEF BalanceInv, BalanceTypeOK
  <1>3. /\ stat' \in [Targets -> SUBSET Stat]
        /\ \A t \in Targets : \A q, r \in stat'[t] : q = r
        /\ \A t \in Targets : \A r \in stat'[t] : \E q \in stat[t] :
               r.sessions = q.sessions /\ r.deads = q.deads
    <2>1. CASE resp = "none"
      BY <1>1, <1>2, <2>1 DEF BalanceTypeOK
    <2>2. CASE resp # "none"
      BY <1>1, <1>2, <2>2, RemovePackageFacts
    <2> QED
      BY <2>1, <2>2
  <1>4. OnlyPackage(p) /\ pc'[p] \in {"finish", "done"} /\ (kind[p] = "end" => pc'[p] = "finish")
    BY <1>1, <1>2 DEF OnlyPackage, ClosesFront
  <1>5. pc' \in [P -> PC]
    BY <1>1, <1>2 DEF PC
  <1>6. BalanceTypeOK'
    BY <1>1, <1>2, <1>3, <1>5 DEF BalanceTypeOK
  <1>7. PackageOK(p)'
    BY <1>1, <1>4 DEF BalanceInv, PackageOK
  <1> QED
    BY <1>1, <1>3, <1>4, <1>6, <1>7, BalanceQuiet

\* Only the first package of a session has a target: while it chooses, the session has
\* none and never had one.
LEMMA Choosing ==
  ASSUME BalanceInv, NEW p \in P, pc[p] \in {"choose", "initMoving"}
  PROVE  /\ target[Ses(p)] = 0
         /\ \A t \in Targets : Ses(p) \notin GoneOf(t)
  <1>1. p[2] = 1 /\ p = <<Ses(p), p[2]>> /\ Ses(p) \in Sessions
    BY Package DEF BalanceInv, PackageOK
  <1>2. ASSUME NEW q \in P, Ses(q) = Ses(p), pc[q] = "done"
        PROVE  pick[q] = 0
    <2>1. pick[q] # 0 => q[2] = 1
      BY DEF BalanceInv, PackageOK
    <2>2. q = <<Ses(q), q[2]>>
      BY Package
    <2> QED
      BY <1>1, <1>2, <2>1, <2>2
  <1>3. target[Ses(p)] = 0
    BY <1>1, <1>2 DEF BalanceInv, SessionOK
  <1>4. \A t \in Targets : Ses(p) \notin GoneOf(t)
    BY <1>2, TargetsAssumption DEF GoneOf
  <1> QED
    BY <1>3, <1>4

\* The Init is answered: the session is mapped and counted, once.
LEMMA InitMovedInv ==
  ASSUME BalanceInv, NEW p \in P, InitMoved(p)
  PROVE  BalanceInv'
  <1>0. PICK s \in Sessions, t0 \in Targets : s = Ses(p) /\ t0 = pick[p]
    <2>1. pick[p] \in Targets \cup {0} /\ pick[p] # 0
      BY DEF BalanceInv, BalanceTypeOK, PackageOK, InitMoved
    <2> QED
      BY <2>1, Package
  <1>1. pc[p] = "initMoving" /\ pc' = [pc EXCEPT ![p] = "done"]
    BY DEF InitMoved, Go
  <1>2. UNCHANGED <<next, ended, kind, vhosts, pick, overtaken>>
    BY DEF InitMoved
  <1>3. target[s] = 0 /\ \A t \in Targets : s \notin GoneOf(t)
    BY <1>0, <1>1, Choosing
  <1> DEFINE set == IF stat[t0] = {} THEN {[sessions |-> 1, packages |-> 0, deads |-> 0]}
                    ELSE {[r EXCEPT !.sessions = @ + 1] : r \in stat[t0]}
  <1>4. target' = [target EXCEPT ![s] = t0] /\ stat' = [stat EXCEPT ![t0] = set]
    BY <1>0, <1>3 DEF InitMoved, AddSession
  <1>5. /\ BalanceTypeOK /\ pc \in [P -> PC] /\ target \in [Sessions -> Targets \cup {0}]
        /\ stat \in [Targets -> SUBSET Stat]
    BY DEF BalanceInv, BalanceTypeOK
  <1>6. /\ Cardinality(SessionsOf(t0)) \in Nat /\ Cardinality(GoneOf(t0)) \in Nat
        /\ IsFiniteSet(SessionsOf(t0)) /\ IsFiniteSet(GoneOf(t0))
    BY CountedEntered
  <1>7. /\ set \subseteq Stat
        /\ \A q, r \in set : q = r
        /\ \A r \in set : /\ 1 <= r.sessions /\ r.sessions <= Cardinality(SessionsOf(t0)) + 1
                          /\ r.deads <= Cardinality(GoneOf(t0))
    <2>1. \A q \in stat[t0] : /\ q.sessions <= Cardinality(SessionsOf(t0))
                              /\ q.deads <= Cardinality(GoneOf(t0))
      BY DEF BalanceInv, Bounded
    <2>2. /\ stat[t0] = {} => set = {[sessions |-> 1, packages |-> 0, deads |-> 0]}
          /\ stat[t0] # {} =>
                 \A r \in set : \E q \in stat[t0] : r = [q EXCEPT !.sessions = @ + 1]
      OBVIOUS
    <2> HIDE DEF set
    <2>3. stat[t0] \subseteq Stat /\ \A q, r \in stat[t0] : q = r
      BY <1>5 DEF BalanceTypeOK
    <2>4. CASE stat[t0] = {}
      BY <1>6, <2>2, <2>4 DEF Stat
    <2>5. CASE stat[t0] # {}
      <3>1. ASSUME NEW r \in set
            PROVE  /\ r \in Stat /\ 1 <= r.sessions
                   /\ r.sessions <= Cardinality(SessionsOf(t0)) + 1
                   /\ r.deads <= Cardinality(GoneOf(t0))
        <4>1. PICK q \in stat[t0] : r = [q EXCEPT !.sessions = @ + 1]
          BY <2>2, <2>5
        <4>2. /\ r \in Stat /\ r.sessions = q.sessions + 1 /\ r.deads = q.deads
              /\ q.sessions \in Nat
          BY <2>3, <4>1, RecordFacts
        <4> QED
          BY <1>6, <2>1, <4>2
      <3>2. \A q, r \in set : q = r
        BY <2>2, <2>3, <2>5
      <3> QED
        BY <3>1, <3>2
    <2> QED
      BY <2>4, <2>5
  <1> HIDE DEF set
  <1>8. BalanceTypeOK'
    <2>1. stat' \in [Targets -> SUBSET Stat] /\ \A t \in Targets : \A q, r \in stat'[t] : q = r
      BY <1>4, <1>5, <1>7 DEF BalanceTypeOK
    <2>2. target' \in [Sessions -> Targets \cup {0}] /\ pc' \in [P -> PC]
      BY <1>1, <1>4, <1>5 DEF PC
    <2> QED
      BY <1>2, <1>5, <2>1, <2>2 DEF BalanceTypeOK
  <1>9. OnlyPackage(p) /\ pc'[p] = "done"
    BY <1>1, <1>2, <1>5 DEF OnlyPackage
  <1>10. PackageOK(p)'
    BY <1>1, <1>2, <1>9 DEF BalanceInv, PackageOK
  <1>11. \A q \in P : PackageOK(q)'
    BY <1>2, <1>9, <1>10, OthersKeep
  <1>12. IsFiniteSet(Entered')
    BY <1>2 DEF BalanceInv, Entered
  <1>13. ASSUME NEW u \in Sessions
         PROVE  SessionOK(u)'
    <2>1. CASE u = s
      BY <1>0, <1>2, <1>4, <1>5, <1>9, <2>1 DEF SessionOK
    <2>2. CASE u # s
      BY <1>1, <1>2, <1>4, <1>5, <1>9, <2>2 DEF SessionOK, BalanceInv, OnlyPackage
    <2> QED
      BY <2>1, <2>2
  <1>14. ASSUME NEW u \in Sessions
         PROVE  EndOK(u)'
    <2> SUFFICES ASSUME u \in ended
                 PROVE  EndOK(u)'
      BY <1>2 DEF EndOK
    <2>1. PICK e \in P : /\ Ses(e) = u /\ kind[e] = "end"
                         /\ \/ pc[e] \in {"moving", "finish"}
                            \/ pc[e] = "done" /\ (u \in overtaken \/ (target[u] = 0 /\ Settled(u)))
      BY DEF BalanceInv, EndOK
    <2>2. CASE pc[e] \in {"moving", "finish"} \/ u \in overtaken
      BY <1>1, <1>2, <1>9, <2>1, <2>2 DEF EndOK, OnlyPackage
    <2>3. CASE pc[e] = "done" /\ target[u] = 0 /\ Settled(u)
      <3>1. u # s
        BY <1>0, <1>1, <2>3 DEF Settled
      <3>2. Settled(u)' /\ target'[u] = 0
        BY <1>4, <1>5, <1>9, <2>3, <3>1 DEF Settled, OnlyPackage
      <3> QED
        BY <1>1, <1>2, <1>9, <2>1, <2>3, <3>2 DEF EndOK, OnlyPackage
    <2> QED
      BY <2>1, <2>2, <2>3
  <1>15. ASSUME NEW t \in Targets
         PROVE  Bounded(t)'
    <2>1. GoneOf(t) \subseteq GoneOf(t)'
      <3>1. \A u \in GoneOf(t) : target'[u] = 0
        BY <1>3, <1>4, <1>5 DEF GoneOf
      <3> QED
        BY <1>1, <1>9, <3>1, GoneGrows
    <2>2. IsFiniteSet(GoneOf(t)')
      BY <1>8, <1>11, <1>12, GoneFinite
    <2>3. /\ Cardinality(GoneOf(t)) <= Cardinality(GoneOf(t)')
          /\ Cardinality(GoneOf(t)) \in Nat /\ Cardinality(GoneOf(t)') \in Nat
      BY <2>1, <2>2, Counting
    <2>4. CASE t = t0
      <3>1. SessionsOf(t)' = SessionsOf(t) \cup {s} /\ s \notin SessionsOf(t)
        BY <1>3, <1>4, <1>5, <2>4, TargetsAssumption DEF SessionsOf
      <3>2. Cardinality(SessionsOf(t)') = Cardinality(SessionsOf(t)) + 1
        BY <1>6, <2>4, <3>1, Counting
      <3>3. stat'[t] = set
        BY <1>4, <1>5, <2>4
      <3>4. ASSUME NEW r \in set
            PROVE  r.deads <= Cardinality(GoneOf(t)')
        <4>1. r.deads \in Nat /\ r.deads <= Cardinality(GoneOf(t))
          BY <1>7, <2>4 DEF Stat
        <4> QED
          BY <2>3, <4>1
      <3> QED
        BY <1>7, <2>4, <3>2, <3>3, <3>4 DEF Bounded
    <2>5. CASE t # t0
      <3>1. SessionsOf(t)' = SessionsOf(t)
        BY <1>3, <1>4, <1>5, <2>5, TargetsAssumption DEF SessionsOf
      <3>2. stat'[t] = stat[t]
        BY <1>4, <1>5, <2>5
      <3>3. ASSUME NEW r \in stat[t]
            PROVE  r.deads <= Cardinality(GoneOf(t)')
        <4>1. r.deads \in Nat /\ r.deads <= Cardinality(GoneOf(t))
          BY <1>5 DEF BalanceInv, Bounded, Stat
        <4> QED
          BY <2>3, <4>1
      <3> QED
        BY <3>1, <3>2, <3>3 DEF Bounded, BalanceInv
    <2> QED
      BY <2>4, <2>5
  <1> QED
    BY <1>8, <1>11, <1>12, <1>13, <1>14, <1>15 DEF BalanceInv

\* What remove_session leaves of a record: fewer sessions, at least one, and at most
\* one dead mark more.
LEMMA RemovedFacts ==
  ASSUME NEW old \in SUBSET Stat, \A q, r \in old : q = r,
         NEW marked, marked = old \/ marked = {[r EXCEPT !.deads = @ + 1] : r \in old}
  PROVE  /\ Without(marked) \subseteq Stat
         /\ \A q, r \in Without(marked) : q = r
         /\ \A r \in Without(marked) : \E q \in old :
                1 <= r.sessions /\ r.sessions = q.sessions - 1 /\ r.deads <= q.deads + 1
  <1>1. ASSUME NEW q \in marked
        PROVE  /\ q \in Stat
               /\ \E o \in old : /\ q = o \/ q = [o EXCEPT !.deads = @ + 1]
                                 /\ q.sessions = o.sessions /\ q.deads <= o.deads + 1
    <2>1. PICK o \in old : q = o \/ q = [o EXCEPT !.deads = @ + 1]
      OBVIOUS
    <2>2. o \in Stat
      OBVIOUS
    <2>3. o.deads \in Nat /\ o.deads <= o.deads + 1
      BY <2>2 DEF Stat
    <2>4. q \in Stat /\ q.sessions = o.sessions /\ q.deads <= o.deads + 1
      <3>1. CASE q = o
        BY <2>2, <2>3, <3>1
      <3>2. CASE q = [o EXCEPT !.deads = @ + 1]
        <4>1. q \in Stat /\ q.sessions = o.sessions /\ q.deads = o.deads + 1
          BY <2>2, <3>2, RecordFacts
        <4> QED
          BY <2>3, <4>1
      <3> QED
        BY <2>1, <3>1, <3>2
    <2> QED
      BY <2>1, <2>4
  <1>2. \A q, r \in marked : q = r
    <2>1. CASE marked = old
      BY <2>1
    <2>2. CASE marked = {[r EXCEPT !.deads = @ + 1] : r \in old}
      BY <2>2
    <2> QED
      BY <2>1, <2>2
  <1>3. ASSUME NEW r \in Without(marked)
        PROVE  \E q \in marked : r = OneLess(q) /\ ~Erasable(r)
    BY DEF Without
  <1>4. ASSUME NEW r \in Without(marked)
        PROVE  /\ r \in Stat
               /\ \E q \in old :
                    1 <= r.sessions /\ r.sessions = q.sessions - 1 /\ r.deads <= q.deads + 1
    <2>1. PICK q \in marked : r = OneLess(q) /\ ~Erasable(r)
      BY <1>3
    <2>2. PICK o \in old : q.sessions = o.sessions /\ q.deads <= o.deads + 1
      BY <1>1
    <2>3. q \in Stat
      BY <1>1
    <2>4. /\ r \in Stat /\ q.sessions \in Nat /\ r.deads = q.deads
          /\ r.sessions = IF q.sessions > 0 THEN q.sessions - 1 ELSE 0
      BY <2>1, <2>3, RecordFacts
    <2>5. r.sessions # 0
      BY <2>1 DEF Erasable
    <2>6. 1 <= r.sessions /\ r.sessions = o.sessions - 1 /\ r.deads <= o.deads + 1
      BY <2>2, <2>4, <2>5
    <2> QED
      BY <2>4, <2>6
  <1>5. \A q, r \in Without(marked) : q = r
    BY <1>2, <1>3
  <1> QED
    BY <1>4, <1>5

\* The session is removed by the first of its packages that finds it closed.
LEMMA FinishInv ==
  ASSUME BalanceInv, NEW p \in P, Finish(p)
  PROVE  BalanceInv'
  <1>0. PICK s \in Sessions : s = Ses(p)
    BY Package
  <1> DEFINE st == IF kind[p] \in ClosesFront THEN stat ELSE AddDead(stat, s)
  <1>1. pc[p] = "finish" /\ pc' = [pc EXCEPT ![p] = "done"]
    BY DEF Finish, Go
  <1>2. UNCHANGED <<next, ended, kind, vhosts, pick>>
    BY DEF Finish
  <1>3. /\ target' = [target EXCEPT ![s] = 0]
        /\ stat' = IF target[s] = 0 THEN st ELSE [st EXCEPT ![target[s]] = Without(@)]
        /\ overtaken' = IF Overtakes(p) THEN overtaken \cup {s} ELSE overtaken
    BY <1>0 DEF Finish, RemoveSession
  <1>4. /\ BalanceTypeOK /\ pc \in [P -> PC] /\ target \in [Sessions -> Targets \cup {0}]
        /\ stat \in [Targets -> SUBSET Stat] /\ \A t \in Targets : \A q, r \in stat[t] : q = r
        /\ overtaken \subseteq Sessions
    BY DEF BalanceInv, BalanceTypeOK
  <1>5. /\ st \in [Targets -> SUBSET Stat]
        /\ \A t \in Targets : t # target[s] => st[t] = stat[t]
        /\ \A t \in Targets : st[t] = stat[t] \/ st[t] = {[r EXCEPT !.deads = @ + 1] : r \in stat[t]}
    <2>1. CASE kind[p] \in ClosesFront
      BY <1>4, <2>1
    <2>2. CASE kind[p] \notin ClosesFront
      <3>1. ASSUME NEW t \in Targets
            PROVE  /\ AddDead(stat, s)[t] \subseteq Stat
                   /\ t # target[s] => AddDead(stat, s)[t] = stat[t]
                   /\ \/ AddDead(stat, s)[t] = stat[t]
                      \/ AddDead(stat, s)[t] = {[r EXCEPT !.deads = @ + 1] : r \in stat[t]}
        <4>1. AddDead(stat, s)[t] =
                  {IF t \in TargetOf(s) THEN [r EXCEPT !.deads = @ + 1] ELSE r : r \in stat[t]}
          BY DEF AddDead
        <4>2. CASE t \in TargetOf(s)
          <5>1. AddDead(stat, s)[t] = {[r EXCEPT !.deads = @ + 1] : r \in stat[t]}
            BY <4>1, <4>2
          <5>2. \A r \in stat[t] : [r EXCEPT !.deads = @ + 1] \in Stat
            BY <1>4, RecordFacts
          <5>3. t = target[s]
            BY <4>2 DEF TargetOf
          <5> QED
            BY <5>1, <5>2, <5>3
        <4>3. CASE t \notin TargetOf(s)
          <5>1. AddDead(stat, s)[t] = stat[t]
            BY <4>1, <4>3
          <5> QED
            BY <1>4, <5>1
        <4> QED
          BY <4>2, <4>3
      <3>2. st = AddDead(stat, s)
        BY <2>2
      <3>3. AddDead(stat, s) = [t \in Targets |-> AddDead(stat, s)[t]]
        BY DEF AddDead
      <3>4. AddDead(stat, s) \in [Targets -> SUBSET Stat]
        BY <3>1, <3>3
      <3> QED
        BY <3>1, <3>2, <3>4
    <2> QED
      BY <2>1, <2>2
  <1> HIDE DEF st
  <1>6. ASSUME NEW t \in Targets
        PROVE  /\ t # target[s] => stat'[t] = stat[t]
               /\ t = target[s] => stat'[t] = Without(st[t])
    BY <1>3, <1>4, <1>5, TargetsAssumption
  <1>7. ASSUME NEW t \in Targets
        PROVE  /\ Without(st[t]) \subseteq Stat
               /\ \A q, r \in Without(st[t]) : q = r
               /\ \A r \in Without(st[t]) : \E q \in stat[t] :
                      1 <= r.sessions /\ r.sessions = q.sessions - 1 /\ r.deads <= q.deads + 1
    <2>1. stat[t] \in SUBSET Stat /\ \A q, r \in stat[t] : q = r
      BY <1>4
    <2>2. st[t] = stat[t] \/ st[t] = {[r EXCEPT !.deads = @ + 1] : r \in stat[t]}
      BY <1>5
    <2> QED
      BY <2>1, <2>2, RemovedFacts
  <1>8. BalanceTypeOK'
    <2>1. \A t \in Targets : stat'[t] \subseteq Stat /\ \A q, r \in stat'[t] : q = r
      BY <1>4, <1>6, <1>7, SMTT(30)
    <2>2. stat' \in [Targets -> SUBSET Stat]
      <3>1. stat' = [t \in Targets |-> stat'[t]]
        BY <1>3, <1>5
      <3> QED
        BY <2>1, <3>1
    <2>3. target' \in [Sessions -> Targets \cup {0}] /\ pc' \in [P -> PC] /\ overtaken' \subseteq Sessions
      BY <1>1, <1>3, <1>4 DEF PC
    <2> QED
      BY <1>2, <1>4, <2>1, <2>2, <2>3 DEF BalanceTypeOK
  <1>9. OnlyPackage(p) /\ pc'[p] = "done"
    BY <1>1, <1>2, <1>4 DEF OnlyPackage
  <1>10. PackageOK(p)'
    BY <1>1, <1>2, <1>9 DEF BalanceInv, PackageOK
  <1>11. \A q \in P : PackageOK(q)'
    BY <1>2, <1>9, <1>10, OthersKeep
  <1>12. IsFiniteSet(Entered')
    BY <1>2 DEF BalanceInv, Entered
  <1>13. ASSUME NEW u \in Sessions
         PROVE  SessionOK(u)'
    <2>1. CASE u = s
      BY <1>3, <1>4, <2>1 DEF SessionOK
    <2>2. CASE u # s
      BY <1>1, <1>2, <1>3, <1>4, <1>9, <2>2 DEF SessionOK, BalanceInv, OnlyPackage
    <2> QED
      BY <2>1, <2>2
  <1>14. ASSUME NEW u \in Sessions
         PROVE  EndOK(u)'
    <2> SUFFICES ASSUME u \in ended
                 PROVE  EndOK(u)'
      BY <1>2 DEF EndOK
    <2>1. CASE u = s /\ kind[p] = "end"
      <3>1. CASE Overtakes(p)
        BY <1>0, <1>2, <1>3, <1>9, <2>1, <3>1 DEF EndOK
      <3>2. CASE ~Overtakes(p)
        <4>1. Settled(s)'
          BY <1>0, <1>9, <2>1, <3>2 DEF Overtakes, Settled, OnlyPackage
        <4>2. target'[s] = 0
          BY <1>3, <1>4
        <4> QED
          BY <1>0, <1>2, <1>9, <2>1, <4>1, <4>2 DEF EndOK
      <3> QED
        BY <3>1, <3>2
    <2>2. CASE ~(u = s /\ kind[p] = "end")
      <3>1. PICK e \in P : /\ Ses(e) = u /\ kind[e] = "end"
                           /\ \/ pc[e] \in {"moving", "finish"}
                              \/ pc[e] = "done" /\ (u \in overtaken \/ (target[u] = 0 /\ Settled(u)))
        BY DEF BalanceInv, EndOK
      <3>2. e # p /\ pc'[e] = pc[e] /\ kind'[e] = kind[e]
        BY <1>0, <1>9, <2>2, <3>1 DEF OnlyPackage
      <3>3. u \in overtaken => u \in overtaken'
        BY <1>3
      <3>4. CASE pc[e] \in {"moving", "finish"} \/ u \in overtaken
        BY <1>2, <3>1, <3>2, <3>3, <3>4 DEF EndOK
      <3>5. CASE pc[e] = "done" /\ target[u] = 0 /\ Settled(u)
        <4>1. Settled(u)' /\ target'[u] = 0
          BY <1>3, <1>4, <1>9, <3>5 DEF Settled, OnlyPackage
        <4> QED
          BY <1>2, <3>1, <3>2, <3>5, <4>1 DEF EndOK
      <3> QED
        BY <3>1, <3>4, <3>5
    <2> QED
      BY <2>1, <2>2
  <1>15. ASSUME NEW t \in Targets
         PROVE  Bounded(t)'
    <2>1. GoneOf(t) \subseteq GoneOf(t)'
      <3>1. \A u \in GoneOf(t) : target'[u] = 0
        BY <1>3, <1>4 DEF GoneOf
      <3> QED
        BY <1>1, <1>9, <3>1, GoneGrows
    <2>2. IsFiniteSet(GoneOf(t)')
      BY <1>8, <1>11, <1>12, GoneFinite
    <2>3. /\ Cardinality(GoneOf(t)) <= Cardinality(GoneOf(t)')
          /\ Cardinality(GoneOf(t)) \in Nat /\ Cardinality(GoneOf(t)') \in Nat
      BY <2>1, <2>2, Counting
    <2>4. \A r \in stat[t] : /\ r.deads \in Nat /\ r.deads <= Cardinality(GoneOf(t))
                             /\ r.sessions \in Nat /\ 1 <= r.sessions
                             /\ r.sessions <= Cardinality(SessionsOf(t))
      BY <1>4 DEF BalanceInv, Bounded, Stat
    <2>5. CASE t # target[s]
      <3>1. SessionsOf(t)' = SessionsOf(t)
        BY <1>3, <1>4, <2>5, TargetsAssumption DEF SessionsOf
      <3>2. stat'[t] = stat[t]
        BY <1>6, <2>5
      <3>3. \A r \in stat[t] : r.deads <= Cardinality(GoneOf(t)')
        BY <2>3, <2>4
      <3> QED
        BY <2>4, <3>1, <3>2, <3>3 DEF Bounded
    <2>6. CASE t = target[s]
      <3>1. SessionsOf(t)' = SessionsOf(t) \ {s} /\ s \in SessionsOf(t)
        BY <1>3, <1>4, <2>6, TargetsAssumption DEF SessionsOf
      <3>2. /\ Cardinality(SessionsOf(t)') = Cardinality(SessionsOf(t)) - 1
            /\ Cardinality(SessionsOf(t)) \in Nat
        BY <3>1, Counting, CountedEntered
      <3>3. PICK q \in P : Ses(q) = s /\ pc[q] = "done" /\ pick[q] = t
        BY <2>6, TargetsAssumption DEF BalanceInv, SessionOK
      <3>4. s \in GoneOf(t)' /\ s \notin GoneOf(t)
        <4>1. pc'[q] = "done" /\ pick'[q] = t
          BY <1>1, <1>9, <3>3 DEF OnlyPackage
        <4>2. target'[s] = 0 /\ target[s] # 0
          BY <1>3, <1>4, <2>6, TargetsAssumption
        <4> QED
          BY <3>3, <4>1, <4>2 DEF GoneOf
      <3>5. Cardinality(GoneOf(t)) + 1 <= Cardinality(GoneOf(t)')
        <4>1. GoneOf(t) \cup {s} \subseteq GoneOf(t)' /\ IsFiniteSet(GoneOf(t))
          BY <2>1, <3>4, CountedEntered
        <4>2. Cardinality(GoneOf(t) \cup {s}) = Cardinality(GoneOf(t)) + 1
          BY <3>4, <4>1, Counting
        <4>3. Cardinality(GoneOf(t) \cup {s}) <= Cardinality(GoneOf(t)')
          BY <2>2, <4>1, FS_Subset
        <4> QED
          BY <4>2, <4>3
      <3>6. ASSUME NEW r \in stat'[t]
            PROVE  /\ 1 <= r.sessions /\ r.sessions <= Cardinality(SessionsOf(t)')
                   /\ r.deads <= Cardinality(GoneOf(t)')
        <4>1. r \in Without(st[t]) /\ r \in Stat
          BY <1>6, <1>7, <2>6
        <4>2. PICK o \in stat[t] :
                  1 <= r.sessions /\ r.sessions = o.sessions - 1 /\ r.deads <= o.deads + 1
          BY <1>7, <4>1
        <4>3. r.deads \in Nat /\ r.sessions \in Nat
          BY <4>1 DEF Stat
        <4> QED
          BY <2>3, <2>4, <3>2, <3>5, <4>2, <4>3
      <3> QED
        BY <3>6 DEF Bounded
    <2> QED
      BY <2>5, <2>6
  <1> QED
    BY <1>8, <1>11, <1>12, <1>13, <1>14, <1>15 DEF BalanceInv

\* A package enters, the next of its session; the first one is an Init.
LEMMA EnterInv ==
  ASSUME BalanceInv, NEW s \in Sessions, NEW k \in Kind, Enter(s, k)
  PROVE  BalanceInv'
  <1>0. next \in [Sessions -> Nat] /\ MaxPkgs[s] \in Nat /\ next[s] < MaxPkgs[s]
    BY MaxPkgsAssumption DEF BalanceInv, BalanceTypeOK, Enter
  <1>1. PICK i \in 1 .. MaxPkgs[s], p \in P : i = next[s] + 1 /\ p = <<s, i>> /\ Ses(p) = s /\ p[2] = i
    <2>1. next[s] + 1 \in 1 .. MaxPkgs[s]
      BY <1>0
    <2>2. <<s, next[s] + 1>> \in P /\ Ses(<<s, next[s] + 1>>) = s
      BY <2>1, PackageOf
    <2> QED
      BY <2>1, <2>2
  <1>2. /\ s \notin ended
        /\ (k = "init") <=> (next[s] = 0)
        /\ next' = [next EXCEPT ![s] = @ + 1]
        /\ ended' = IF k = "end" THEN ended \cup {s} ELSE ended
        /\ kind' = [kind EXCEPT ![p] = k]
        /\ pc' = [pc EXCEPT ![p] = CASE k = "init" -> "choose"
                                     [] k \in Counted -> "start"
                                     [] OTHER -> "moving"]
        /\ UNCHANGED <<stat, target, pick, overtaken>>
    BY <1>1 DEF Enter, Go
  <1>3. PICK set \in SUBSET Targets : vhosts' = [vhosts EXCEPT ![p] = set]
    <2>1. PICK set \in IF k = "init" THEN SUBSET Targets ELSE {{}} :
              vhosts' = [vhosts EXCEPT ![p] = set]
      BY <1>1 DEF Enter
    <2>2. set \in SUBSET Targets
      OBVIOUS
    <2> QED
      BY <2>1, <2>2
  <1>4. /\ pc \in [P -> PC] /\ kind \in [P -> Kind] /\ vhosts \in [P -> SUBSET Targets]
        /\ ended \subseteq Sessions
    BY DEF BalanceInv, BalanceTypeOK
  <1>5. /\ pc'[p] \in {"choose", "start", "moving"}
        /\ pc'[p] = "choose" => k = "init"
        /\ k = "end" => pc'[p] = "moving"
        /\ kind'[p] = k
        /\ OnlyPackage(p)
    BY <1>2, <1>4 DEF OnlyPackage, Counted
  <1>6. pc' \in [P -> PC]
    BY <1>2, <1>4, <1>5 DEF PC
  <1>7. kind' \in [P -> Kind] /\ vhosts' \in [P -> SUBSET Targets]
    BY <1>2, <1>3, <1>4
  <1>8. next' \in [Sessions -> Nat] /\ ended' \subseteq Sessions
    BY <1>0, <1>2, <1>4
  <1>9. BalanceTypeOK'
    BY <1>2, <1>6, <1>7, <1>8 DEF BalanceInv, BalanceTypeOK
  <1>10. next'[s] = i /\ \A u \in Sessions \ {s} : next'[u] = next[u]
    BY <1>0, <1>1, <1>2
  <1>11. pc[p] = "new" /\ pick[p] = 0
    <2>1. p[2] > next[Ses(p)]
      BY <1>0, <1>1
    <2> QED
      BY <2>1 DEF BalanceInv, PackageOK
  <1>12. PackageOK(p)'
    <2>1. ~(p[2] > next'[Ses(p)]) /\ pc'[p] # "new" /\ pc'[p] # "initMoving" /\ pick'[p] = 0
      BY <1>0, <1>1, <1>2, <1>5, <1>10, <1>11
    <2>2. pc'[p] = "choose" => p[2] = 1
      BY <1>0, <1>1, <1>2, <1>5
    <2> QED
      BY <2>1, <2>2 DEF PackageOK
  <1>13. ASSUME NEW q \in P, q # p
         PROVE  PackageOK(q)'
    <2>1. Ses(q) \in Sessions /\ q[2] \in Nat /\ q = <<Ses(q), q[2]>>
      BY Package
    <2>2. PackageOK(q) /\ pc'[q] = pc[q] /\ pick'[q] = pick[q]
      BY <1>5, <1>13 DEF BalanceInv, OnlyPackage
    <2>3. q[2] > next'[Ses(q)] <=> q[2] > next[Ses(q)]
      <3>1. CASE Ses(q) = s
        <4>1. q[2] # i
          BY <1>1, <1>13, <2>1, <3>1
        <4> QED
          BY <1>0, <1>1, <1>10, <2>1, <3>1, <4>1
      <3>2. CASE Ses(q) # s
        BY <1>10, <2>1, <3>2
      <3> QED
        BY <3>1, <3>2
    <2> QED
      BY <2>2, <2>3 DEF PackageOK
  <1>14. IsFiniteSet(Entered')
    <2>1. Entered' \subseteq Entered \cup {s}
      BY <1>10 DEF Entered
    <2>2. IsFiniteSet(Entered \cup {s})
      BY FS_AddElement DEF BalanceInv
    <2> QED
      BY <2>1, <2>2, FS_Subset
  <1>15. ASSUME NEW u \in Sessions
         PROVE  SessionOK(u)'
    <2>1. SessionOK(u)
      BY DEF BalanceInv
    <2> QED
      BY <1>2, <1>5, <1>11, <2>1 DEF SessionOK, OnlyPackage
  <1>16. ASSUME NEW u \in Sessions, u \in ended'
         PROVE  EndOK(u)'
    <2>1. CASE u = s
      <3>1. k = "end"
        BY <1>2, <1>16, <2>1
      <3> QED
        BY <1>1, <1>5, <2>1, <3>1 DEF EndOK
    <2>2. CASE u # s
      <3>1. PICK e \in P : /\ Ses(e) = u /\ kind[e] = "end"
                           /\ \/ pc[e] \in {"moving", "finish"}
                              \/ pc[e] = "done" /\ (u \in overtaken \/ (target[u] = 0 /\ Settled(u)))
        BY <1>2, <1>16, <2>2 DEF BalanceInv, EndOK
      <3>2. e # p /\ pc'[e] = pc[e] /\ kind'[e] = kind[e]
        BY <1>1, <1>5, <2>2, <3>1 DEF OnlyPackage
      <3>3. Settled(u) => Settled(u)'
        BY <1>1, <1>5, <2>2 DEF Settled, OnlyPackage
      <3> QED
        BY <1>2, <3>1, <3>2, <3>3 DEF EndOK
    <2> QED
      BY <2>1, <2>2
  <1>17. ASSUME NEW t \in Targets
         PROVE  Bounded(t)'
    <2>1. SessionsOf(t)' = SessionsOf(t)
      BY <1>2 DEF SessionsOf
    <2>2. GoneOf(t)' = GoneOf(t)
      <3>1. \A q \in P : pc'[q] = "done" <=> pc[q] = "done"
        BY <1>5, <1>11 DEF OnlyPackage
      <3> QED
        BY <1>2, <3>1 DEF GoneOf
    <2> QED
      BY <1>2, <2>1, <2>2 DEF BalanceInv, Bounded
  <1>18. \A u \in Sessions : EndOK(u)'
    <2>1. ASSUME NEW u \in Sessions, u \notin ended'
          PROVE  EndOK(u)'
      BY <2>1 DEF EndOK
    <2> QED
      BY <1>16, <2>1
  <1> QED
    BY <1>9, <1>12, <1>13, <1>14, <1>15, <1>17, <1>18 DEF BalanceInv

-----------------------------------------------------------------------------
LEMMA BalanceInitInv == BalanceInit => BalanceInv
  <1> SUFFICES ASSUME BalanceInit
               PROVE  BalanceInv
    OBVIOUS
  <1>1. BalanceTypeOK
    BY DEF BalanceInit, BalanceTypeOK, Kind, PC
  <1>2. Entered = {} /\ IsFiniteSet({})
    BY FS_EmptySet DEF BalanceInit, Entered
  <1>3. ASSUME NEW p \in P
        PROVE  PackageOK(p)
    <2>1. Ses(p) \in Sessions /\ p[2] \in Nat /\ p[2] > 0
      BY Package
    <2> QED
      BY <2>1 DEF BalanceInit, PackageOK
  <1>4. \A s \in Sessions : SessionOK(s) /\ EndOK(s)
    BY DEF BalanceInit, SessionOK, EndOK
  <1>5. \A t \in Targets : Bounded(t)
    BY DEF BalanceInit, Bounded
  <1> QED
    BY <1>1, <1>2, <1>3, <1>4, <1>5 DEF BalanceInv

LEMMA BalanceNextInv == BalanceInv /\ [BalanceNext]_balanceVars => BalanceInv'
  <1> SUFFICES ASSUME BalanceInv, [BalanceNext]_balanceVars
               PROVE  BalanceInv'
    OBVIOUS
  <1>1. CASE \E s \in Sessions, k \in Kind : Enter(s, k)
    BY <1>1, EnterInv
  <1>2. ASSUME NEW p \in P,
               Choose(p) \/ NoTargets(p) \/ InitMoved(p) \/ InitFailed(p) \/ Count(p) \/ Finish(p)
        PROVE  BalanceInv'
    BY <1>2, ChooseInv, NoTargetsInv, InitMovedInv, InitFailedInv, CountInv, FinishInv
  <1>3. ASSUME NEW p \in P, NEW resp \in {"none", "close", "response"}, NEW isClosed \in BOOLEAN,
               Moved(p, resp, isClosed)
        PROVE  BalanceInv'
    BY <1>3, MovedInv
  <1>4. CASE UNCHANGED balanceVars
    <2>1. UNCHANGED <<stat, target, next, ended, kind, vhosts, pick, pc, overtaken>>
      BY <1>4 DEF balanceVars
    <2>2. BalanceTypeOK' /\ IsFiniteSet(Entered)'
      BY <2>1 DEF BalanceInv, BalanceTypeOK, Entered
    <2>3. (\A p \in P : PackageOK(p))' /\ (\A t \in Targets : Bounded(t))'
      BY <2>1 DEF BalanceInv, PackageOK, Bounded, SessionsOf, GoneOf
    <2>4. (\A s \in Sessions : SessionOK(s) /\ EndOK(s))'
      BY <2>1 DEF BalanceInv, SessionOK, EndOK, Settled
    <2> QED
      BY <2>2, <2>3, <2>4 DEF BalanceInv
  <1> QED
    BY <1>1, <1>2, <1>3, <1>4 DEF BalanceNext

\* The inductive invariant holds in every state of every behaviour of the filter.
THEOREM BalanceInvariance == BalanceSpec => []BalanceInv
  BY BalanceInitInv, BalanceNextInv, PTL DEF BalanceSpec

\* No record of m_target_stat counts more sessions than are mapped to its target, nor
\* is it kept for a target that has none, whatever the order of Init answers and ends.
THEOREM StatsAreBounded == BalanceSpec => []StatsBounded
  <1>1. BalanceInv => StatsBounded
    BY DEF BalanceInv, StatsBounded, NotOvercounted, Bounded
  <1> QED
    BY <1>1, BalanceInvariance, PTL

\* Dead marks are of sessions that are gone, one each at most, and a session whose end
\* leaves the filter last is forgotten.
THEOREM SessionsEndOnce == BalanceSpec => []EndedOnce
  <1>1. BalanceInv => DeadOncePerSession
    BY DEF BalanceInv, DeadOncePerSession, Bounded, GoneOf
  <1>2. BalanceInv => EndedForgotten
    <2> SUFFICES ASSUME BalanceInv, NEW s \in ended, s \notin overtaken,
                        \A p \in P : Ses(p) = s => pc[p] \in {"new", "done"}
                 PROVE  target[s] = 0
      BY DEF EndedForgotten
    <2>1. s \in Sessions
      BY DEF BalanceInv, BalanceTypeOK
    <2> QED
      BY <2>1 DEF BalanceInv, EndOK
  <1> QED
    BY <1>1, <1>2, BalanceInvariance, PTL DEF EndedOnce
=============================================================================
