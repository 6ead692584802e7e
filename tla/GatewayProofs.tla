---------------------------- MODULE GatewayProofs ---------------------------
(***************************************************************************)
(* Proofs about the chain of filters of Route and Gateway, for any         *)
(* configurations of it, result set sizes, sort keys and numbers of        *)
(* packages.                                                               *)
(*                                                                         *)
(* PlaceInv says what the place of a package implies for its request and   *)
(* what sort and the target keep, AuthInv what auth_simple let pass,       *)
(* ForgetInv what the end of a session leaves.  OrderInv is about records: *)
(* those that present_chunk and sru_z3950 have collected are at their      *)
(* positions in orders that sort or the target still have (AtHand), so     *)
(* that the next ones continue them.                                       *)
(***************************************************************************)
EXTENDS Gateway, TLAPS, FiniteSetTheorems, SequenceTheorems

\* On the way down the chain; and where the package is that has the Frontend of
\* sru_z3950
Down == {"auth", "limit", "serve"}
Busy == {"sru", "release", "back", "limitout"} \cup Down
Past == {"limitout", "left", "answered"}

IsSeq(s) == \E S : s \in Seq(S)
IsReply(a) == a = [kind |-> a.kind, recs |-> a.recs, src |-> a.src] /\ IsSeq(a.recs)
IsRequest(r) == r = None \/ IsAsk(r)

IsJob(j) ==
    /\ j = [step |-> j.step, start |-> j.start, max |-> j.max, recs |-> j.recs, src |-> j.src,
            end |-> j.end]
    /\ j.step \in {"none", "pass", "init", "search", "present", "close"}
    /\ j.start \in Nat /\ j.max \in Nat /\ j.end \in {"whole", "diag", "short"}
    /\ IsSeq(j.recs)

\* The packages have their types, and the rest
PkgType(p) ==
    /\ IsRequest(req[p]) /\ IsReply(reply[p])
    /\ IsReply(got[p]) /\ got[p].kind = "present" /\ Len(got[p].recs) <= Hits + 1
    /\ IsJob(job[p])

TypeInv ==
    /\ conf \in Confs
    /\ pc \in [Pkgs -> Place]
    /\ closed \in [Pkgs -> BOOLEAN]
    /\ user \in BOOLEAN /\ ses \in BOOLEAN /\ ended \in BOOLEAN /\ late \in BOOLEAN
    /\ passed \in BOOLEAN /\ unclosed \in BOOLEAN
    /\ early \subseteq Pkgs /\ crossed \subseteq Pkgs
    /\ entry \in {"none", "idle", "used"}
    /\ DOMAIN req = Pkgs /\ DOMAIN reply = Pkgs /\ DOMAIN got = Pkgs /\ DOMAIN job = Pkgs
    /\ \A p \in Pkgs : PkgType(p)

\* What sort and the target keep: a set's lists are of the search that the target
\* has under the set's name.
TargetOK(t) == t \in [up : BOOLEAN, named : BOOLEAN, found : [BOOLEAN -> Nat]]
ListOK(l, search) ==
    /\ l = [syntax |-> l.syntax, search |-> l.search, size |-> l.size]
    /\ l.search = search /\ l.size \in 0 .. Hits
SetOK(x, t) ==
    /\ x = [name |-> x.name, hits |-> x.hits, lists |-> x.lists]
    /\ x.name \in BOOLEAN /\ x.hits \in 0 .. Hits
    /\ \A l \in x.lists : ListOK(l, t.found[x.name])
    /\ \A l, m \in x.lists : l.syntax = m.syntax => l = m
FrontOK(s, t) ==
    /\ s = [entry |-> s.entry, sets |-> s.sets]
    /\ s.entry \in {"none", "plain", "virtual"}
    /\ s.entry # "virtual" => s.sets = {}
    /\ \A x \in s.sets : SetOK(x, t)
    /\ \A x, y \in s.sets : x.name = y.name => x = y

\* A package has no request or answer before auth_simple, and a closed one no
\* request; sru_z3950 goes on with an HTTP request as long as it needs.
Located(p) ==
    /\ pc[p] \in {"new", "wait", "sru"} \/ (pc[p] = "auth" /\ conf.front = "z3950")
          => req[p] = None /\ reply[p].kind = "none"
    /\ closed[p] /\ pc[p] \in Down => req[p] = None
    /\ pc[p] \notin Busy => job[p].step = "none"
    /\ conf.front = "z3950" => pc[p] \notin {"wait", "sru", "back", "release"} /\ job[p] = NoJob
    /\ conf.front = "sru" =>
          /\ req[p].kind = "present" => job[p].step = "present"
          /\ pc[p] = "release" => job[p].step # "present"

\* One package at a time has the Frontend of sru_z3950.
OneBelow ==
    /\ entry = "used" <=> \E p \in Pkgs : pc[p] \in Busy
    /\ \A p, q \in Pkgs : pc[p] \in Busy /\ pc[q] \in Busy => p = q

PlaceInv ==
    /\ TargetOK(target) /\ FrontOK(front, target)
    /\ ~conf.sort => front = NoFrontend
    /\ conf.front = "z3950" => entry = "none"
    /\ conf.front = "sru" => crossed = {} /\ OneBelow
    /\ \A p \in Pkgs : Located(p)

\* What auth_simple let pass, and what has been answered
Allowed(p) ==
    /\ conf.auth = "users" /\ req[p].kind = "search" => req[p].db \in Granted \/ p \in early
    /\ conf.auth = "targets" /\ req[p].kind = "init" => req[p].vhosts \subseteq Granted
Authed(p) ==
    /\ pc[p] \in {"limit", "serve"} => Allowed(p)
    /\ pc[p] \in Down /\ req[p].kind \in {"init", "search"} => reply[p].kind # req[p].kind
    /\ req[p].kind \in {"init", "search"} /\ reply[p].kind = req[p].kind => Allowed(p)

AuthInv ==
    /\ conf.auth = "users" /\ passed => user
    /\ \A p \in Pkgs : Authed(p)

\* What the end of a session leaves, while a closed package is on its way and after
Leaving(p) ==
    closed[p] /\ pc[p] \in Past =>
        front.entry = "none" /\ ~target.up /\ (pc[p] # "limitout" => ~ses)
Forgetting(p) ==
    /\ pc[p] \in {"sru", "release"} => Clean \/ unclosed
    /\ pc[p] \in Busy \ {"release"} /\ job[p].step \in {"close", "pass"} =>
          /\ closed[p]
          /\ pc[p] \in {"limitout", "back"} => front.entry = "none" /\ ~target.up
          /\ pc[p] = "back" => ~ses

ForgetInv ==
    /\ conf.front = "z3950" =>
          /\ ended => \E q \in Pkgs : closed[q] /\ pc[q] # "new"
          /\ ~late => \A q \in Pkgs : Leaving(q)
    /\ conf.front = "sru" =>
          /\ entry # "used" => Clean \/ unclosed
          /\ \A p \in Pkgs : Forgetting(p)

-----------------------------------------------------------------------------
(* The order of the records.                                               *)

\* Each record is where the request has it, in one of the orders src.
Placed(recs, src, start) ==
    \A i \in DOMAIN recs : \E o \in src :
        /\ start + i - 1 \in DOMAIN Order(o)
        /\ recs[i] = Order(o)[start + i - 1]

\* The size of a list that sort has for a set and a syntax
Listed(s, name, syntax, m) ==
    \E x \in s.sets : x.name = name /\ \E l \in x.lists : l.syntax = syntax /\ l.size = m

\* The orders src are the target's own or that of sort's list; and the target's own
\* only if the list does not have the last record that is asked for.
AtHand(src, s, t, name, syntax, last) ==
    /\ \A o \in src : \/ o = <<t.found[name], 0>>
                      \/ \E m \in 1 .. Hits : Listed(s, name, syntax, m)
                                              /\ o = <<t.found[name], m>>
    /\ <<t.found[name], 0>> \in src =>
          \A m \in 1 .. Hits : Listed(s, name, syntax, m) => m < last

LastOf(r) == r.start + r.number - 1
HandOf(src, r) == AtHand(src, front, target, r.named, r.syntax, LastOf(r))

\* present_chunk between two requests
Gathering(p) ==
    /\ Offset(p) <= req[p].number
    /\ Offset(p) = 0 => got[p].src = {}
    /\ Offset(p) > 0 => req[p].start + Offset(p) <= Hits + 1
    /\ req[p].start > 0 =>
          /\ Placed(got[p].recs, got[p].src, req[p].start)
          /\ p \notin crossed => HandOf(got[p].src, req[p])

\* A response of records
Replied(p) ==
    LET r == req[p] a == reply[p]
    IN  /\ InOrder(a.recs, a.src, r.start, p \in crossed \/ PastList(a.src, LastOf(r)))
        /\ Len(a.recs) <= r.number
        /\ Chunked(p) \/ ~conf.faulty => Len(a.recs) = r.number
        /\ conf.front = "sru" => HandOf(Orders(a), r)

\* The records that sru_z3950 has so far
LastWanted(j) == j.start + max_recs(j) - 1
JobOrdered(j) ==
    j.start > 0 =>
        /\ InOrder(j.recs, j.src, j.start, PastList(j.src, LastWanted(j)))
        /\ j.step = "close" /\ j.end = "whole" => Len(j.recs) = Cardinality(Wanted(j))

Presenting(p) ==
    LET j == job[p] r == req[p]
    IN  /\ j.start <= Hits /\ j.max > 0 /\ Len(j.recs) < max_recs(j)
        /\ r.kind = "present" /\ ~r.named /\ r.syntax = "xml"
        /\ j.recs = << >> => j.src = {}
        /\ r.start = j.start + Len(j.recs) /\ r.number <= max_recs(j) - Len(j.recs)
        /\ j.start > 0 /\ ~closed[p] =>
              AtHand(j.src, front, target, FALSE, "xml", LastWanted(j))

Ordered(p) ==
    /\ pc[p] = "serve" /\ Chunked(p) => Gathering(p)
    /\ (/\ pc[p] \in {"limitout", "left", "back"}
        /\ reply[p].kind = "present" /\ req[p].kind = "present") =>
          /\ req[p].start > 0 => Replied(p)
          /\ conf.front = "sru" => ~closed[p]
    /\ job[p].step \in {"init", "search"} => job[p].recs = << >> /\ job[p].src = {}
    /\ job[p].step \in {"present", "close"} => JobOrdered(job[p])
    /\ job[p].step = "present" /\ pc[p] \in Busy => Presenting(p)
OrderInv == \A p \in Pkgs : Ordered(p)

\* The inductive invariant
IInv == TypeInv /\ PlaceInv /\ AuthInv /\ ForgetInv /\ OrderInv

-----------------------------------------------------------------------------
(* Sequences of records.                                                   *)

LEMMA SeqFacts ==
  ASSUME NEW s, IsSeq(s)
  PROVE  Len(s) \in Nat /\ DOMAIN s = 1 .. Len(s) /\ (Len(s) = 0 <=> s = << >>)
  <1>1. PICK S : s \in Seq(S)
    BY DEF IsSeq
  <1> QED
    BY <1>1

LEMMA EmptyIsSeq == IsSeq(<< >>) /\ Len(<< >>) = 0 /\ DOMAIN << >> = {}
  <1>1. << >> \in Seq({})
    OBVIOUS
  <1> QED
    BY <1>1 DEF IsSeq

\* k records from the m-th on
Slice(s, m, k) == SubSeq(s, m, m + k - 1)

LEMMA Cut ==
  ASSUME NEW s, NEW m, NEW k, m \in Nat, k \in Nat, NEW c, c = Slice(s, m, k)
  PROVE  /\ IsSeq(c) /\ Len(c) = k /\ DOMAIN c = 1 .. k
         /\ \A i \in 1 .. k : c[i] = s[m + i - 1]
  <1> DEFINE S == {s[i] : i \in m .. m + k - 1}
  <1>1. \A i \in m .. m + k - 1 : s[i] \in S
    OBVIOUS
  <1> HIDE DEF S
  <1>2. /\ c \in Seq(S)
        /\ Len(c) = IF m <= m + k - 1 THEN m + k - 1 - m + 1 ELSE 0
        /\ \A i \in 1 .. m + k - 1 - m + 1 : c[i] = s[m + i - 1]
    BY <1>1, SubSeqProperties DEF Slice
  <1> QED
    BY <1>2 DEF IsSeq

LEMMA Joined ==
  ASSUME NEW s, NEW t, IsSeq(s), IsSeq(t), NEW u, u = s \o t
  PROVE  /\ IsSeq(u) /\ Len(u) = Len(s) + Len(t)
         /\ \A i \in DOMAIN u : u[i] = IF i <= Len(s) THEN s[i] ELSE t[i - Len(s)]
  <1>1. PICK S : s \in Seq(S)
    BY DEF IsSeq
  <1>2. PICK T : t \in Seq(T)
    BY DEF IsSeq
  <1>3. PICK U : U = S \cup T
    OBVIOUS
  <1>4. s \in Seq(U) /\ t \in Seq(U)
    BY <1>1, <1>2, <1>3
  <1> QED
    BY <1>4, ConcatProperties DEF IsSeq

\* Records put after others go on where those end.
LEMMA PlacedJoined ==
  ASSUME NEW s, NEW t, IsSeq(s), IsSeq(t), NEW u, u = s \o t, NEW start \in Nat,
         NEW src1, NEW src2, Placed(s, src1, start), Placed(t, src2, start + Len(s))
  PROVE  Placed(u, src1 \cup src2, start)
  <1>1. /\ Len(s) \in Nat /\ DOMAIN s = 1 .. Len(s) /\ Len(t) \in Nat /\ DOMAIN t = 1 .. Len(t)
        /\ DOMAIN u = 1 .. Len(s) + Len(t)
        /\ \A i \in DOMAIN u : u[i] = IF i <= Len(s) THEN s[i] ELSE t[i - Len(s)]
    BY SeqFacts, Joined
  <1> SUFFICES ASSUME NEW i \in DOMAIN u
               PROVE  \E o \in src1 \cup src2 : /\ start + i - 1 \in DOMAIN Order(o)
                                                /\ u[i] = Order(o)[start + i - 1]
    BY DEF Placed
  <1>2. CASE i <= Len(s)
    <2>1. i \in DOMAIN s /\ u[i] = s[i]
      BY <1>1, <1>2
    <2> QED
      BY <2>1 DEF Placed
  <1>3. CASE i > Len(s)
    <2>1. PICK k : k = i - Len(s)
      OBVIOUS
    <2>2. k \in DOMAIN t /\ u[i] = t[k] /\ start + Len(s) + k - 1 = start + i - 1
      BY <1>1, <1>3, <2>1
    <2> QED
      BY <2>2 DEF Placed
  <1> QED
    BY <1>1, <1>2, <1>3

LEMMA OrderFacts ==
  ASSUME NEW search, NEW m \in Nat
  PROVE  /\ DOMAIN Order(<<search, m>>) = 1 .. (IF m = 0 THEN Hits ELSE m)
         /\ m = 0 => \A i \in 1 .. Hits : Order(<<search, m>>)[i] = <<search, i>>
         /\ m # 0 => Order(<<search, m>>) = Sorted(search, m)
         /\ DOMAIN Sorted(search, m) = 1 .. m
  BY DEF Order, Natural, Sorted

-----------------------------------------------------------------------------
(* The target.                                                             *)

LEMMA PlainFacts ==
  ASSUME NEW kind
  PROVE  /\ IsReply(Plain(kind)) /\ Plain(kind).kind = kind /\ Plain(kind).src = {}
         /\ Plain(kind).recs = << >>
  BY EmptyIsSeq DEF Plain, Reply, IsReply

\* Records of a search in the target's own order, as fetch returns them
Fetched(f, search, start, number, faulty) ==
    /\ f.kind = "present" =>
          /\ start >= 1 /\ number + start - 1 <= Hits
          /\ f.src = {<<search, 0>>}
          /\ Len(f.recs) <= number /\ (~faulty => Len(f.recs) = number)
          /\ Placed(f.recs, {<<search, 0>>}, start)
    /\ f.kind # "present" => f.src = {} /\ f.recs = << >>

LEMMA FetchFacts ==
  ASSUME NEW search, NEW syntax, NEW start \in Nat, NEW number \in Nat, NEW faulty \in BOOLEAN,
         NEW f \in fetch(search, syntax, start, number, faulty)
  PROVE  /\ IsReply(f) /\ f.kind \in {"present", "diag", "empty"}
         /\ f.kind = "empty" => faulty
         /\ Fetched(f, search, start, number, faulty)
  <1>1. CASE f = Plain("diag") \/ (faulty /\ f = Plain("empty"))
    BY <1>1, PlainFacts DEF Fetched
  <1>2. CASE /\ start >= 1 /\ number + start - 1 <= Hits
             /\ \E n \in IF faulty THEN 0 .. number ELSE {number} :
                   f = Reply("present", SubSeq(Natural(search), start, start + n - 1),
                             {<<search, 0>>})
    <2>1. PICK n \in 0 .. number : /\ ~faulty => n = number
                                   /\ f = Reply("present",
                                                SubSeq(Natural(search), start, start + n - 1),
                                                {<<search, 0>>})
      BY <1>2
    <2>0. n \in Nat /\ n <= number
      BY <2>1
    <2>2. PICK c : c = Slice(Natural(search), start, n)
      OBVIOUS
    <2>3. /\ IsSeq(c) /\ Len(c) = n /\ DOMAIN c = 1 .. n
          /\ \A i \in 1 .. n : c[i] = Natural(search)[start + i - 1]
      <3>1. PICK s : s = Natural(search)
        OBVIOUS
      <3>2. c = Slice(s, start, n) /\ start \in Nat /\ n \in Nat
        BY <2>0, <2>2, <3>1
      <3>3. /\ IsSeq(c) /\ Len(c) = n /\ DOMAIN c = 1 .. n
            /\ \A i \in 1 .. n : c[i] = s[start + i - 1]
        BY <3>2, Cut
      <3> QED
        BY <3>1, <3>3
    <2>4. f.kind = "present" /\ f.recs = c /\ f.src = {<<search, 0>>} /\ IsReply(f)
      BY <2>1, <2>2, <2>3 DEF Reply, IsReply, Slice
    <2>5. Placed(c, {<<search, 0>>}, start)
      <3>1. ASSUME NEW i \in DOMAIN c
            PROVE  start + i - 1 \in 1 .. Hits /\ c[i] = <<search, start + i - 1>>
        <4>1. start + i - 1 \in 1 .. Hits
          <5>1. \A s, k, m, j, h \in Nat :
                  s >= 1 /\ k + s - 1 <= h /\ m <= k /\ j \in 1 .. m => s + j - 1 \in 1 .. h
            OBVIOUS
          <5>2. /\ start \in Nat /\ number \in Nat /\ n \in Nat /\ n <= number /\ Hits \in Nat
                /\ i \in 1 .. n /\ i \in Nat /\ start >= 1 /\ number + start - 1 <= Hits
            BY <1>2, <2>0, <2>3, SortedTargetAssumption
          <5> QED
            BY <5>1, <5>2, Zenon
        <4> QED
          BY <2>3, <4>1 DEF Natural
      <3> QED
        BY <3>1, OrderFacts DEF Placed
    <2> QED
      BY <1>2, <2>0, <2>1, <2>3, <2>4, <2>5 DEF Fetched
  <1>3. \/ f = Plain("diag") \/ (faulty /\ f = Plain("empty"))
        \/ /\ ~(start < 1 \/ number + start - 1 > Hits)
           /\ f \in {Reply("present", SubSeq(Natural(search), start, start + n - 1),
                           {<<search, 0>>}) : n \in IF faulty THEN 0 .. number ELSE {number}}
    BY Zenon DEF fetch
  <1>4. ~(start < 1 \/ number + start - 1 > Hits) => start >= 1 /\ number + start - 1 <= Hits
    BY SortedTargetAssumption
  <1> QED
    BY <1>1, <1>2, <1>3, <1>4, Zenon

LEMMA NewSetFacts ==
  ASSUME NEW t, TargetOK(t), NEW name \in BOOLEAN
  PROVE  /\ TargetOK(NewSet(t, name)) /\ NewSet(t, name).up = t.up
         /\ \A n \in BOOLEAN \ {name} : NewSet(t, name).found[n] = t.found[n]
  <1>1. t.found \in [BOOLEAN -> Nat] /\ t.up \in BOOLEAN /\ t.named \in BOOLEAN
    BY DEF TargetOK
  <1>2. PICK x : x = t.found[TRUE]
    OBVIOUS
  <1>3. PICK y : y = t.found[FALSE]
    OBVIOUS
  <1>7. x \in Nat /\ y \in Nat
    BY <1>1, <1>2, <1>3, Zenon
  <1>8. PICK n \in Nat : n = x + y + 1
    BY <1>7
  <1>4. PICK f : f = [t.found EXCEPT ![name] = n]
    OBVIOUS
  <1>5. f \in [BOOLEAN -> Nat] /\ \A m \in BOOLEAN \ {name} : f[m] = t.found[m]
    BY <1>1, <1>4
  <1>6. NewSet(t, name) = [t EXCEPT !.found = f]
    BY <1>2, <1>3, <1>4, <1>8, Zenon DEF NewSet
  <1> QED
    BY <1>5, <1>6 DEF TargetOK

\* What is found after a search
LEMMA AfterFacts ==
  ASSUME NEW t, TargetOK(t), NEW r, r.named \in BOOLEAN
  PROVE  /\ TargetOK(After(t, r)) /\ After(t, r).up = t.up
         /\ \A n \in BOOLEAN \ {r.named} : After(t, r).found[n] = t.found[n]
  <1>1. CASE Unnamed(t, r)
    BY <1>1 DEF After
  <1>2. CASE ~Unnamed(t, r)
    BY <1>2, NewSetFacts DEF After
  <1> QED
    BY <1>1, <1>2

\* The reply f to a search r has the first records, as many as asked for, or fewer
\* from a faulty target, in one order.
FirstOnes(f, r, faulty) ==
    /\ Len(f.recs) <= r.piggy /\ (~faulty => Len(f.recs) = r.piggy)
    /\ f.src = {} \/ \E o : f.src = {o}
    /\ Placed(f.recs, f.src, 1)

\* The reply to a search or present, by what the target has then
Records(a, r, faulty) ==
    /\ r.kind \notin {"search", "present"} => a.reply.src = {}
    /\ r.kind = "search" /\ a.reply.src # {} =>
          Len(a.reply.recs) <= Hits /\ a.reply.kind = "search"
    /\ r.kind = "search" /\ a.reply.kind = "search" => FirstOnes(a.reply, r, faulty)
    /\ r.kind = "present" /\ a.reply.src # {} => a.reply.kind = "present"
    /\ r.kind = "present" =>
          Fetched(a.reply, a.target.found[r.named], r.start, r.number, faulty)

LEMMA AnswerFacts ==
  ASSUME NEW t, TargetOK(t), NEW c \in BOOLEAN, NEW reply0, NEW a, a = Answer(reply0, c, t)
  PROVE  /\ a = [reply |-> reply0, closed |-> c, target |-> a.target]
         /\ a.reply = reply0 /\ a.closed = c /\ TargetOK(a.target)
         /\ a.target.found = t.found /\ a.target.up = (t.up /\ ~c)
  BY DEF Answer, TargetOK

TargetAnswered(a, r, c, t, faulty) ==
    /\ a = [reply |-> a.reply, closed |-> a.closed, target |-> a.target]
    /\ IsReply(a.reply) /\ a.closed \in BOOLEAN /\ TargetOK(a.target)
    /\ c => a.closed
    /\ a.closed => ~a.target.up
    /\ a.closed /\ ~c => a.reply.kind # "present"
    /\ r.kind = "none" => a.reply.kind = "none"
    /\ r.kind # "search" => a.target.found = t.found
    /\ r.kind = "search" => \A n \in BOOLEAN \ {r.named} : a.target.found[n] = t.found[n]
    /\ Records(a, r, faulty)

\* An answer without records
LEMMA PlainAnswered ==
  ASSUME NEW t, TargetOK(t), NEW c \in BOOLEAN, NEW faulty \in BOOLEAN, NEW r, NEW d \in BOOLEAN,
         NEW kind, NEW t2, TargetOK(t2), t2.found = t.found, NEW a, a = Answer(Plain(kind), d, t2),
         c => d, kind # "present", kind # "search",
         r.kind = "none" => kind = "none"
  PROVE  TargetAnswered(a, r, c, t, faulty)
  <1>1. /\ a = [reply |-> a.reply, closed |-> a.closed, target |-> a.target]
        /\ a.reply = Plain(kind) /\ a.closed = d /\ TargetOK(a.target)
        /\ a.target.found = t.found /\ a.target.up = (t2.up /\ ~d)
    BY AnswerFacts
  <1>2. IsReply(a.reply) /\ a.reply.kind = kind /\ a.reply.src = {} /\ a.reply.recs = << >>
    BY <1>1, PlainFacts
  <1>3. Records(a, r, faulty)
    BY <1>2 DEF Records, Fetched
  <1> QED
    BY <1>1, <1>2, <1>3 DEF TargetAnswered

LEMMA SearchAnswered ==
  ASSUME NEW t, TargetOK(t), NEW c \in BOOLEAN, NEW faulty \in BOOLEAN, NEW r,
         r.kind = "search", r.named \in BOOLEAN, r.piggy \in Nat,
         NEW s \in Searched(t, r, faulty), NEW a, a = Answer(s, c, After(t, r))
  PROVE  TargetAnswered(a, r, c, t, faulty)
  <1>1. PICK t2 : t2 = After(t, r)
    OBVIOUS
  <1>2. TargetOK(t2) /\ \A n \in BOOLEAN \ {r.named} : t2.found[n] = t.found[n]
    BY <1>1, AfterFacts
  <1>3. /\ a = [reply |-> a.reply, closed |-> a.closed, target |-> a.target]
        /\ a.reply = s /\ a.closed = c /\ TargetOK(a.target)
        /\ a.target.found = t2.found /\ a.target.up = (t2.up /\ ~c)
    BY <1>1, <1>2, AnswerFacts
  <1>4. CASE s = Plain("diag") \/ (r.piggy = 0 /\ s = Plain("search"))
    <2>1. IsReply(s) /\ s.src = {} /\ s.kind # "present" /\ s.recs = << >>
          /\ (s.kind = "search" => r.piggy = 0)
      BY <1>4, PlainFacts
    <2>2. s.kind = "search" => FirstOnes(s, r, faulty)
      BY <2>1, EmptyIsSeq DEF FirstOnes, Placed
    <2> QED
      BY <1>2, <1>3, <2>1, <2>2 DEF TargetAnswered, Records
  <1>5. ASSUME NEW search, NEW f \in fetch(search, r.syntax, 1, r.piggy, faulty),
               s = IF f.kind = "diag" THEN f ELSE [f EXCEPT !.kind = "search"]
        PROVE  TargetAnswered(a, r, c, t, faulty)
    <2>1. /\ IsReply(f) /\ f.kind \in {"present", "diag", "empty"}
          /\ f.kind = "empty" => faulty
          /\ Fetched(f, search, 1, r.piggy, faulty)
      BY <1>5, FetchFacts
    <2>2. IsReply(s) /\ s.src = f.src /\ s.recs = f.recs /\ s.kind \in {"diag", "search"}
          /\ (s.kind = "diag" <=> f.kind = "diag")
      BY <1>5, <2>1 DEF IsReply
    <2>3. s.src # {} => Len(s.recs) <= Hits /\ s.kind = "search"
      <3> SUFFICES ASSUME s.src # {}
                   PROVE  Len(s.recs) <= Hits /\ s.kind = "search"
        OBVIOUS
      <3>1. f.kind = "present"
        BY <2>1, <2>2 DEF Fetched
      <3>2. r.piggy + 1 - 1 <= Hits /\ Len(f.recs) <= r.piggy /\ Len(f.recs) \in Nat
        BY <2>1, <3>1, SeqFacts DEF Fetched, IsReply
      <3> QED
        BY <2>2, <3>1, <3>2, SortedTargetAssumption
    <2>4. s.kind = "search" => FirstOnes(s, r, faulty)
      <3>1. CASE f.kind = "present"
        BY <2>1, <2>2, <3>1 DEF Fetched, FirstOnes
      <3>2. CASE f.kind = "empty"
        <4>1. s.recs = << >> /\ s.src = {} /\ faulty
          BY <2>1, <2>2, <3>2 DEF Fetched
        <4> QED
          BY <4>1, EmptyIsSeq DEF FirstOnes, Placed
      <3> QED
        BY <2>1, <2>2, <3>1, <3>2
    <2>5. Records(a, r, faulty)
      BY <1>3, <2>3, <2>4 DEF Records
    <2> QED
      BY <1>2, <1>3, <2>2, <2>5 DEF TargetAnswered
  <1>6. \/ s = Plain("diag") \/ (r.piggy = 0 /\ s = Plain("search"))
        \/ \E f \in fetch(After(t, r).found[r.named], r.syntax, 1, r.piggy, faulty) :
              s = IF f.kind = "diag" THEN f ELSE [f EXCEPT !.kind = "search"]
    BY Zenon DEF Searched
  <1> QED
    BY <1>4, <1>5, <1>6

LEMMA TargetFacts ==
  ASSUME NEW t, TargetOK(t), NEW c \in BOOLEAN, NEW faulty \in BOOLEAN, NEW r, IsRequest(r),
         NEW a \in TargetAnswers(r, c, t, faulty)
  PROVE  TargetAnswered(a, r, c, t, faulty)
  <1>1. CASE a \in Dropped(r, t, faulty)
    <2>1. r.kind # "none" /\ a = Answer(Plain("none"), TRUE, t)
      BY <1>1 DEF Dropped
    <2> QED
      BY <2>1, PlainAnswered
  <1>2. CASE r.kind = "none" /\ a = Answer(Plain("none"), c, t)
    BY <1>2, PlainAnswered
  <1>3. CASE /\ r.kind = "init"
             /\ \/ a = Answer(Plain("init"), c, [t EXCEPT !.up = TRUE, !.named = t.named \/ r.named])
                \/ a = Answer(Plain("refused"), c, t)
    <2>1. PICK t2 : t2 = [t EXCEPT !.up = TRUE, !.named = t.named \/ r.named]
      OBVIOUS
    <2>2. TargetOK(t2) /\ t2.found = t.found
      BY <2>1 DEF TargetOK
    <2>3. CASE a = Answer(Plain("init"), c, t2)
      BY <1>3, <2>2, <2>3, PlainAnswered
    <2>4. CASE a = Answer(Plain("refused"), c, t)
      BY <1>3, <2>4, PlainAnswered
    <2> QED
      BY <1>3, <2>1, <2>3, <2>4
  <1>4. CASE r.kind # "none" /\ a = Answer(Plain("close"), TRUE, t)
    BY <1>4, PlainAnswered
  <1>5. CASE /\ r.kind = "search"
             /\ a \in {Answer(s, c, After(t, r)) : s \in Searched(t, r, faulty)}
    <2>1. r.named \in BOOLEAN /\ r.piggy \in Nat
      BY <1>5 DEF IsRequest, IsAsk, None
    <2> QED
      BY <1>5, <2>1, SearchAnswered
  <1>6. CASE /\ r.kind = "present"
             /\ a \in {Answer(f, c, t) :
                          f \in fetch(t.found[r.named], r.syntax, r.start, r.number, faulty)}
    <2>1. r.start \in Nat /\ r.number \in Nat
      BY <1>6 DEF IsRequest, IsAsk, None
    <2>2. PICK f \in fetch(t.found[r.named], r.syntax, r.start, r.number, faulty) :
              a = Answer(f, c, t)
      BY <1>6
    <2>3. /\ IsReply(f) /\ f.kind \in {"present", "diag", "empty"}
          /\ Fetched(f, t.found[r.named], r.start, r.number, faulty)
      BY <2>1, <2>2, FetchFacts
    <2>4. /\ a = [reply |-> a.reply, closed |-> a.closed, target |-> a.target]
          /\ a.reply = f /\ a.closed = c /\ TargetOK(a.target)
          /\ a.target.found = t.found /\ a.target.up = (t.up /\ ~c)
      BY <2>2, AnswerFacts
    <2>5. Records(a, r, faulty)
      BY <1>6, <2>3, <2>4 DEF Records, Fetched
    <2> QED
      BY <1>6, <2>3, <2>4, <2>5 DEF TargetAnswered
  <1>7. CASE a \notin Dropped(r, t, faulty)
    <2>1. CASE r.kind = "none"
      BY <1>2, <1>7, <2>1 DEF TargetAnswers
    <2>2. CASE r.kind = "init"
      BY <1>3, <1>7, <2>2 DEF TargetAnswers
    <2>3. CASE r.kind \notin {"none", "init"} /\ ~t.up
      BY <1>4, <1>7, <2>3 DEF TargetAnswers
    <2>4. CASE r.kind = "search" /\ t.up
      BY <1>5, <1>7, <2>4 DEF TargetAnswers
    <2>5. CASE r.kind = "present" /\ t.up
      BY <1>6, <1>7, <2>5 DEF TargetAnswers
    <2>6. CASE r.kind \notin {"none", "init", "search", "present"} /\ t.up
      BY <1>4, <1>7, <2>6 DEF TargetAnswers
    <2> QED
      BY <2>1, <2>2, <2>3, <2>4, <2>5, <2>6
  <1> QED
    BY <1>1, <1>7

-----------------------------------------------------------------------------
(* sort.                                                                   *)

\* A list of the first m records is made, and the records are those of the list.
AddList(s, set, l) ==
    [s EXCEPT !.sets = (s.sets \ {set}) \cup {[set EXCEPT !.lists = set.lists \cup {l}]}]
ListedAnswer(a, s, set, r, m, t2) ==
    LET n == a.target.found[r.named]
    IN  [a EXCEPT !.target = t2,
                  !.reply = [a.reply EXCEPT !.recs = SubSeq(Sorted(n, m), 1, Len(a.reply.recs)),
                                            !.src = {<<n, m>>}],
                  !.sort = AddList(s, set, [syntax |-> r.syntax, search |-> n, size |-> m])]

MakesList(b, a, s, set, r, start) ==
    /\ a.reply.src # {} /\ start = 1 /\ ListOf(set, r.syntax) = {}
    /\ \E m \in Len(a.reply.recs) .. Hits, t2 \in {a.target, [a.target EXCEPT !.up = FALSE]} :
          b = ListedAnswer(a, s, set, r, m, t2)

LEMMA HandleRecordsCases ==
  ASSUME NEW a, NEW s, NEW set, NEW r, NEW start, NEW faulty \in BOOLEAN,
         set.hits \in 0 .. Hits, Len(a.reply.recs) \in 0 .. Hits,
         NEW b \in handle_records(a, s, set, r, start, faulty)
  PROVE  b = a \/ MakesList(b, a, s, set, r, start)
  <1> DEFINE k == Len(a.reply.recs)
             last == IF Prefetch > set.hits THEN set.hits ELSE Prefetch
             L(m, t2) == ListedAnswer(a, s, set, r, m, t2)
             ts == {a.target, [a.target EXCEPT !.up = FALSE]}
             none == a.reply.src = {} \/ start # 1 \/ ListOf(set, r.syntax) # {}
             full == k = 0 \/ k >= last
             fewer == UNION {{L(m, t2) : m \in k .. last - 1} : t2 \in ts}
  <1>1. handle_records(a, s, set, r, start, faulty)
          = IF none THEN {a}
            ELSE IF full THEN {L(k, a.target)}
            ELSE {L(last, a.target)} \cup (IF faulty THEN fewer ELSE {})
    BY DEF handle_records, ListedAnswer, AddList
  <1>2. CASE none
    <2> HIDE DEF full, fewer, last, k, L
    <2> QED
      BY <1>1, <1>2
  <1>3. CASE ~none
    <2>1. last \in 0 .. Hits /\ k \in 0 .. Hits /\ Hits \in Nat
      BY SortedTargetAssumption
    <2>2. a.target \in ts
      OBVIOUS
    <2> HIDE DEF full, last, k, L, ts
    <2>3. \/ b = L(k, a.target) \/ (~full /\ b = L(last, a.target)) \/ (~full /\ b \in fewer)
      <3> HIDE DEF fewer, none
      <3> QED
        BY <1>1, <1>3
    <2>4. \E m \in k .. Hits, t2 \in ts : b = L(m, t2)
      <3>1. k \in k .. Hits /\ (~full => last \in k .. Hits)
        BY <2>1 DEF full
      <3>2. ASSUME NEW m \in k .. last - 1
            PROVE  m \in k .. Hits
        BY <2>1
      <3> QED
        BY <2>2, <2>3, <3>1, <3>2, Zenon
    <2> QED
      BY <1>3, <2>4, Zenon DEF k, L, ts, MakesList
  <1> QED
    BY <1>2, <1>3

\* With a list more, sort has still one list for a set and a syntax.
LEMMA AddListFacts ==
  ASSUME NEW s, NEW t, TargetOK(t), FrontOK(s, t), NEW set \in s.sets, NEW syntax,
         ListOf(set, syntax) = {}, NEW m, m \in 0 .. Hits,
         NEW s2, s2 = AddList(s, set, [syntax |-> syntax, search |-> t.found[set.name], size |-> m])
  PROVE  /\ FrontOK(s2, t) /\ s2.entry = s.entry
         /\ Listed(s2, set.name, syntax, m)
         /\ \A n, y, k : Listed(s, n, y, k) => Listed(s2, n, y, k)
  <1>1. PICK l : l = [syntax |-> syntax, search |-> t.found[set.name], size |-> m]
    OBVIOUS
  <1>2. PICK x : x = [set EXCEPT !.lists = set.lists \cup {l}]
    OBVIOUS
  <1>3. SetOK(set, t)
    BY DEF FrontOK
  <1>4. /\ x = [name |-> x.name, hits |-> x.hits, lists |-> x.lists]
        /\ x.hits \in 0 .. Hits /\ x.name = set.name /\ x.lists = set.lists \cup {l} /\ x.name \in BOOLEAN
    BY <1>2, <1>3 DEF SetOK
  <1>5. l.syntax = syntax /\ l.size = m /\ ListOK(l, t.found[set.name])
    BY <1>1 DEF ListOK
  <1>6. \A y \in set.lists : y.syntax # syntax
    BY DEF ListOf
  <1>7. SetOK(x, t)
    <2>1. \A y \in x.lists : ListOK(y, t.found[x.name])
      BY <1>3, <1>4, <1>5, Zenon DEF SetOK
    <2>2. \A y, z \in x.lists : y.syntax = z.syntax => y = z
      BY <1>3, <1>4, <1>5, <1>6, Zenon DEF SetOK
    <2> QED
      BY <1>4, <2>1, <2>2 DEF SetOK
  <1>8. /\ s2 = [entry |-> s2.entry, sets |-> s2.sets]
        /\ s2.entry = s.entry /\ s2.sets = (s.sets \ {set}) \cup {x}
    BY <1>1, <1>2 DEF AddList, FrontOK
  <1>9. FrontOK(s2, t)
    <2>1. \A y \in s2.sets : SetOK(y, t)
      BY <1>7, <1>8, Zenon DEF FrontOK
    <2>2. \A y, z \in s2.sets : y.name = z.name => y = z
      <3>1. \A y, z \in s.sets : y.name = z.name => y = z
        BY DEF FrontOK
      <3>2. \A y \in s.sets \ {set} : y.name # x.name
        BY <1>4, <3>1
      <3> QED
        BY <1>8, <3>1, <3>2
    <2>3. s2.entry \in {"none", "plain", "virtual"} /\ s2.entry = "virtual"
      BY <1>8 DEF FrontOK
    <2> QED
      BY <1>8, <2>1, <2>2, <2>3 DEF FrontOK
  <1>10. Listed(s2, set.name, syntax, m)
    BY <1>4, <1>5, <1>8, Zenon DEF Listed
  <1>11. ASSUME NEW n, NEW y, NEW k, Listed(s, n, y, k)
         PROVE  Listed(s2, n, y, k)
    BY <1>4, <1>8, <1>11, Zenon DEF Listed
  <1> QED
    BY <1>8, <1>9, <1>10, <1>11

\* What handle_records makes of the answer a from below
Handled(b, a, s, set, r, start) ==
    /\ b = [reply |-> b.reply, closed |-> b.closed, sort |-> b.sort, target |-> b.target]
    /\ IsReply(b.reply) /\ b.reply.kind = a.reply.kind
    /\ Len(b.reply.recs) = Len(a.reply.recs) /\ b.closed = a.closed
    /\ TargetOK(b.target) /\ b.target.found = a.target.found
    /\ FrontOK(b.sort, b.target) /\ b.sort.entry = s.entry
    /\ start # 1 => b.sort = s
    /\ \A n, y, k : Listed(s, n, y, k) => Listed(b.sort, n, y, k)
    /\ \/ b = a
       \/ /\ start = 1
          /\ \E m \in Len(a.reply.recs) .. Hits :
                /\ b.reply.src = {<<a.target.found[r.named], m>>}
                /\ Placed(b.reply.recs, b.reply.src, 1)
                /\ Listed(b.sort, r.named, r.syntax, m)

LEMMA HandleRecords ==
  ASSUME NEW a, NEW s, NEW set \in s.sets, NEW r, NEW start, NEW faulty \in BOOLEAN,
         a = [reply |-> a.reply, closed |-> a.closed, sort |-> s, target |-> a.target],
         IsReply(a.reply), TargetOK(a.target), FrontOK(s, a.target), set.name = r.named,
         Len(a.reply.recs) <= Hits, NEW b \in handle_records(a, s, set, r, start, faulty)
  PROVE  Handled(b, a, s, set, r, start)
  <1>0. Len(a.reply.recs) \in 0 .. Hits /\ Hits \in Nat
    BY SeqFacts, SortedTargetAssumption DEF IsReply
  <1>1. CASE b = a
    <2>1. b.sort = s
      BY <1>1
    <2> QED
      BY <1>1, <2>1, Zenon DEF Handled
  <1>2. CASE MakesList(b, a, s, set, r, start)
    <2>0. start = 1 /\ ListOf(set, r.syntax) = {}
      BY <1>2 DEF MakesList
    <2>1. PICK m \in Len(a.reply.recs) .. Hits, t2 \in {a.target, [a.target EXCEPT !.up = FALSE]} :
              b = ListedAnswer(a, s, set, r, m, t2)
      BY <1>2 DEF MakesList
    <2>3. TargetOK(t2) /\ t2.found = a.target.found
      BY <2>1 DEF TargetOK
    <2>4. PICK n : n = a.target.found[r.named]
      OBVIOUS
    <2>5. PICK s2 : s2 = AddList(s, set, [syntax |-> r.syntax, search |-> n, size |-> m])
      OBVIOUS
    <2>6. PICK k : k = Len(a.reply.recs)
      OBVIOUS
    <2>7. PICK c : c = Slice(Sorted(n, m), 1, k)
      OBVIOUS
    <2>8. k \in Nat /\ m \in Nat /\ m \in 0 .. Hits /\ k <= m
      BY <1>0, <2>1, <2>6
    <2>9. IsSeq(c) /\ Len(c) = k /\ DOMAIN c = 1 .. k /\ \A i \in 1 .. k : c[i] = Sorted(n, m)[1 + i - 1]
      BY <2>7, <2>8, Cut
    <2>10. c = SubSeq(Sorted(n, m), 1, k)
      BY <2>7, <2>8 DEF Slice
    <2>11. /\ b = [reply |-> b.reply, closed |-> b.closed, sort |-> b.sort, target |-> b.target]
           /\ b.target = t2 /\ b.sort = s2 /\ b.closed = a.closed
           /\ b.reply = [kind |-> a.reply.kind, recs |-> c, src |-> {<<n, m>>}]
      BY <2>1, <2>4, <2>5, <2>6, <2>10 DEF ListedAnswer, IsReply
    <2>12. IsReply(b.reply) /\ b.reply.kind = a.reply.kind /\ b.reply.recs = c
           /\ b.reply.src = {<<n, m>>}
      BY <2>9, <2>11 DEF IsReply
    <2>13. FrontOK(s, t2)
      BY <2>3 DEF FrontOK, SetOK
    <2>14. /\ FrontOK(s2, t2) /\ s2.entry = s.entry /\ Listed(s2, r.named, r.syntax, m)
           /\ \A x, y, z : Listed(s, x, y, z) => Listed(s2, x, y, z)
      BY <2>0, <2>3, <2>4, <2>5, <2>8, <2>13, AddListFacts
    <2>15. Placed(c, {<<n, m>>}, 1)
      <3>1. ASSUME NEW i \in DOMAIN c
            PROVE  1 + i - 1 \in DOMAIN Order(<<n, m>>) /\ c[i] = Order(<<n, m>>)[1 + i - 1]
        <4>1. i \in 1 .. k /\ m # 0 /\ 1 + i - 1 \in 1 .. m
          BY <2>8, <2>9
        <4> QED
          BY <2>8, <2>9, <4>1, OrderFacts
      <3> QED
        BY <3>1 DEF Placed
    <2> QED
      BY <2>0, <2>1, <2>3, <2>4, <2>6, <2>9, <2>11, <2>12, <2>14, <2>15 DEF Handled
  <1>3. set.hits \in 0 .. Hits
    BY DEF FrontOK, SetOK
  <1> QED
    BY <1>0, <1>1, <1>2, <1>3, HandleRecordsCases

\* The answer a to a present: as many records as asked for, or fewer from a faulty
\* target, at their positions, in an order at hand
Presented(a, r, faulty) ==
    /\ Len(a.reply.recs) <= r.number /\ (~faulty => Len(a.reply.recs) = r.number)
    /\ Len(a.reply.recs) > 0 => r.start + Len(a.reply.recs) <= Hits + 1
    /\ r.start > 0 =>
          /\ \E o : a.reply.src = {o}
          /\ Placed(a.reply.recs, a.reply.src, r.start)
          /\ AtHand(Orders(a.reply), a.sort, a.target, r.named, r.syntax, LastOf(r))

\* The lists of s are in s2; they are the only ones unless first records were asked for.
ListsKept(s, s2, r) ==
    /\ \A n, y, k : Listed(s, n, y, k) => Listed(s2, n, y, k)
    /\ r.start # 1 => s2.sets = s.sets

\* The answer a of sort, or of the target without sort
Answered(a, r, c, s, t, faulty) ==
    /\ a = [reply |-> a.reply, closed |-> a.closed, sort |-> a.sort, target |-> a.target]
    /\ IsReply(a.reply) /\ a.closed \in BOOLEAN
    /\ TargetOK(a.target) /\ FrontOK(a.sort, a.target)
    /\ c => a.closed
    /\ a.closed => ~a.target.up /\ a.reply.kind # "present"
    /\ r.kind # "search" => a.target.found = t.found
    /\ r.kind = "present" /\ ~a.closed => ListsKept(s, a.sort, r)
    /\ r.kind = "present" /\ a.reply.kind = "present" => Presented(a, r, faulty)
    /\ r.kind = "search" /\ a.reply.kind = "search" => FirstOnes(a.reply, r, faulty)

LEMMA RequestFacts ==
  ASSUME NEW r, IsRequest(r)
  PROVE  /\ r.kind = "search" => r.named \in BOOLEAN /\ r.piggy \in Nat
         /\ r.kind = "present" => r.named \in BOOLEAN /\ r.start \in Nat /\ r.number \in Nat
         /\ r.kind \in {"none", "init", "search", "present", "scan", "close"}
         /\ r.kind = "none" => r = None
  BY DEF IsRequest, IsAsk, None

\* The found sets decide which lists are right.
LEMMA FrontKept ==
  ASSUME NEW s, NEW t, NEW t2, FrontOK(s, t), t2.found = t.found
  PROVE  FrontOK(s, t2)
  BY DEF FrontOK, SetOK

LEMMA SearchKept ==
  ASSUME NEW r, r.kind = "search", NEW s, NEW t, NEW faulty, NEW b,
         b = [reply |-> b.reply, closed |-> b.closed, sort |-> b.sort, target |-> b.target],
         IsReply(b.reply), b.closed = FALSE, TargetOK(b.target), FrontOK(b.sort, b.target),
         b.reply.kind = "search" => FirstOnes(b.reply, r, faulty)
  PROVE  Answered(b, r, FALSE, s, t, faulty)
  BY DEF Answered

\* What sort makes a list of are still the first records.
LEMMA FirstHandled ==
  ASSUME NEW a, NEW b, NEW s, NEW set, NEW r, NEW faulty, Handled(b, a, s, set, r, 1),
         FirstOnes(a.reply, r, faulty)
  PROVE  FirstOnes(b.reply, r, faulty)
  BY DEF Handled, FirstOnes

LEMMA HandleSearch ==
  ASSUME NEW r, IsRequest(r), r.kind = "search", NEW s, NEW t, TargetOK(t), FrontOK(s, t),
         s.entry = "virtual", NEW faulty \in BOOLEAN, NEW b \in handle_search(r, FALSE, s, t, faulty)
  PROVE  Answered(b, r, FALSE, s, t, faulty)
  <1>1. CASE b = Refuse(FALSE, s, t)
    BY <1>1, PlainFacts DEF Refuse, Answered
  <1> DEFINE newOf(h) == [name |-> r.named, hits |-> h, lists |-> {}]
             frontOf(h) == [s EXCEPT !.sets = (s.sets \ SetOf(s, r.named)) \cup {newOf(h)}]
  <1>2. ASSUME NEW h \in 0 .. Hits, NEW new, new = newOf(h), NEW s2, s2 = frontOf(h),
               NEW a \in Below(r, FALSE, s2, t, faulty), b \in handle_records(a, s2, new, r, 1, faulty)
        PROVE  Answered(b, r, FALSE, s, t, faulty)
    <2>1. PICK x \in TargetAnswers(r, FALSE, t, faulty) :
              a = [reply |-> x.reply, closed |-> FALSE, sort |-> s2, target |-> x.target]
      BY <1>2 DEF Below
    <2>2. TargetAnswered(x, r, FALSE, t, faulty)
      BY <2>1, TargetFacts
    <2>3. /\ IsReply(x.reply) /\ TargetOK(x.target) /\ Records(x, r, faulty)
          /\ \A n \in BOOLEAN \ {r.named} : x.target.found[n] = t.found[n]
      BY <2>2 DEF TargetAnswered
    <2>4. /\ new.name = r.named /\ new = [name |-> new.name, hits |-> new.hits, lists |-> new.lists]
          /\ new.lists = {} /\ r.named \in BOOLEAN /\ new.hits \in 0 .. Hits
      BY <1>2, RequestFacts
    <2>5. /\ s2 = [entry |-> "virtual", sets |-> s2.sets] /\ s2.entry = "virtual"
          /\ s2.sets = (s.sets \ SetOf(s, r.named)) \cup {new}
      BY <1>2 DEF FrontOK
    <2> HIDE DEF newOf, frontOf
    <2>6. SetOK(new, x.target)
      BY <2>4, Zenon DEF SetOK
    <2>7. ASSUME NEW y \in s.sets \ SetOf(s, r.named)
          PROVE  SetOK(y, x.target) /\ y.name # r.named
      <3>1. SetOK(y, t) /\ y.name # r.named
        BY <2>7, Zenon DEF FrontOK, SetOf
      <3>2. x.target.found[y.name] = t.found[y.name]
        BY <2>3, <3>1 DEF SetOK
      <3> QED
        BY <3>1, <3>2, Zenon DEF SetOK
    <2>8. FrontOK(s2, x.target)
      <3>1. \A y \in s2.sets : SetOK(y, x.target)
        BY <2>5, <2>6, <2>7, Zenon
      <3>2. \A y, z \in s.sets : y.name = z.name => y = z
        BY DEF FrontOK
      <3>3. \A y, z \in s2.sets : y.name = z.name => y = z
        BY <2>4, <2>5, <2>7, <3>2
      <3> QED
        BY <2>5, <3>1, <3>3 DEF FrontOK
    <2>9. /\ a = [reply |-> a.reply, closed |-> a.closed, sort |-> s2, target |-> a.target]
          /\ a.reply = x.reply /\ a.target = x.target /\ a.closed = FALSE
      BY <2>1
    <2>10. CASE Len(x.reply.recs) <= Hits
      <3>1. new \in s2.sets
        BY <2>5
      <3>2. Handled(b, a, s2, new, r, 1)
        BY <1>2, <2>3, <2>4, <2>8, <2>9, <2>10, <3>1, HandleRecords
      <3>3. /\ b = [reply |-> b.reply, closed |-> b.closed, sort |-> b.sort, target |-> b.target]
            /\ IsReply(b.reply) /\ b.closed = FALSE /\ TargetOK(b.target)
            /\ FrontOK(b.sort, b.target) /\ b.reply.kind = a.reply.kind
        BY <2>9, <3>2, Zenon DEF Handled
      <3>4. a.reply.kind = "search" => FirstOnes(a.reply, r, faulty)
        BY <2>3, <2>9 DEF Records
      <3>5. b.reply.kind = "search" => FirstOnes(b.reply, r, faulty)
        BY <3>2, <3>3, <3>4, FirstHandled
      <3> QED
        BY <3>3, <3>5, SearchKept
    <2>11. CASE ~(Len(x.reply.recs) <= Hits)
      <3>1. a.reply.src = {}
        BY <2>3, <2>9, <2>11 DEF Records
      <3>2. b = a
        BY <1>2, <3>1 DEF handle_records
      <3>3. /\ b = [reply |-> b.reply, closed |-> b.closed, sort |-> b.sort, target |-> b.target]
            /\ b.reply = x.reply /\ b.target = x.target /\ b.sort = s2 /\ b.closed = FALSE
        BY <2>9, <3>2
      <3>4. b.reply.kind = "search" => FirstOnes(b.reply, r, faulty)
        BY <2>3, <3>3 DEF Records
      <3> QED
        BY <2>3, <2>8, <3>3, <3>4, SearchKept
    <2> QED
      BY <2>10, <2>11
  <1>3. \/ b = Refuse(FALSE, s, t)
        \/ \E h \in 0 .. Hits : \E a \in Below(r, FALSE, frontOf(h), t, faulty) :
              b \in handle_records(a, frontOf(h), newOf(h), r, 1, faulty)
    <2> DEFINE some(h) == {x \in Below(r, FALSE, frontOf(h), t, faulty) : h \in HitCounts(r, t, x.reply)}
               of(h) == UNION {handle_records(a, frontOf(h), newOf(h), r, 1, faulty) : a \in some(h)}
    <2>1. b = Refuse(FALSE, s, t) \/ b \in UNION {of(h) : h \in 0 .. Hits}
      BY Zenon DEF handle_search
    <2> HIDE DEF frontOf, newOf
    <2>2. ASSUME NEW h \in 0 .. Hits, b \in of(h)
          PROVE  \E a \in Below(r, FALSE, frontOf(h), t, faulty) :
                    b \in handle_records(a, frontOf(h), newOf(h), r, 1, faulty)
      BY <2>2, Zenon
    <2> HIDE DEF of
    <2>3. ASSUME b \in UNION {of(h) : h \in 0 .. Hits}
          PROVE  \E h \in 0 .. Hits : b \in of(h)
      BY <2>3, Zenon
    <2> QED
      BY <2>1, <2>2, <2>3, Zenon
  <1> QED
    BY <1>1, <1>2, <1>3, Zenon

\* A position of a list is one of the records that were sorted.
LEMMA FromListFacts ==
  ASSUME NEW r, r.kind = "present", r.start \in Nat, r.number \in Nat, NEW l, l.size \in 0 .. Hits,
         r.start + r.number <= l.size + 1, NEW a, a = FromList(l, r)
  PROVE  /\ IsReply(a) /\ a.kind = "present" /\ a.src = {<<l.search, l.size>>}
         /\ Len(a.recs) = r.number
         /\ r.start > 0 => Placed(a.recs, a.src, r.start)
  <1>1. PICK e : e = [i \in 1 .. r.number |-> Get(l, r.start + i - 1)]
    OBVIOUS
  <1>2. PICK S : S = {Get(l, r.start + i - 1) : i \in 1 .. r.number}
    OBVIOUS
  <1>3. e \in Seq(S) /\ Len(e) = r.number /\ DOMAIN e = 1 .. r.number
    BY <1>1, <1>2
  <1>4. a.recs = e /\ a.kind = "present" /\ a.src = {<<l.search, l.size>>} /\ IsReply(a)
    BY <1>1, <1>3, Zenon DEF FromList, Reply, IsReply, IsSeq
  <1>5. ASSUME r.start > 0, NEW i \in 1 .. r.number
        PROVE  /\ r.start + i - 1 \in DOMAIN Order(<<l.search, l.size>>)
               /\ e[i] = Order(<<l.search, l.size>>)[r.start + i - 1]
    <2>1. PICK k : k = r.start + i - 1
      OBVIOUS
    <2>2. k \in 1 .. l.size /\ l.size \in Nat /\ l.size # 0 /\ ~(k < 1)
      <3>1. \A s, n, j, z \in Nat :
              s > 0 /\ s + n <= z + 1 /\ j \in 1 .. n =>
                s + j - 1 \in 1 .. z /\ z # 0 /\ ~(s + j - 1 < 1)
        OBVIOUS
      <3>2. i \in Nat /\ l.size \in Nat
        BY SortedTargetAssumption
      <3> QED
        BY <1>5, <2>1, <3>1, <3>2, Zenon
    <2>3. e[i] = Get(l, k)
      BY <1>1, <2>1
    <2>4. Get(l, k) = Sorted(l.search, l.size)[k]
      BY <2>2 DEF Get
    <2>5. DOMAIN Order(<<l.search, l.size>>) = 1 .. l.size
          /\ Order(<<l.search, l.size>>) = Sorted(l.search, l.size)
      BY <2>2, OrderFacts
    <2> QED
      BY <2>1, <2>2, <2>3, <2>4, <2>5
  <1> QED
    BY <1>3, <1>4, <1>5 DEF Placed

\* Of a set with one list in a syntax, that is the size listed.
LEMMA ListedOne ==
  ASSUME NEW s, NEW t, FrontOK(s, t), NEW x \in s.sets, NEW y, NEW m, Listed(s, x.name, y, m)
  PROVE  \E l \in ListOf(x, y) : l.size = m
  BY Zenon DEF Listed, ListOf, FrontOK

LEMMA HandlePresent ==
  ASSUME NEW r, IsRequest(r), r.kind = "present", NEW s, NEW t, TargetOK(t), FrontOK(s, t),
         s.entry = "virtual", NEW faulty \in BOOLEAN, NEW b \in handle_present(r, FALSE, s, t, faulty)
  PROVE  Answered(b, r, FALSE, s, t, faulty)
  <1>0. r.start \in Nat /\ r.number \in Nat /\ r.named \in BOOLEAN /\ Hits \in Nat
    BY RequestFacts, SortedTargetAssumption
  <1>00. ListsKept(s, s, r)
    BY DEF ListsKept
  <1>1. CASE b = Refuse(FALSE, s, t)
    BY <1>00, <1>1, PlainFacts DEF Refuse, Answered
  <1>2. CASE SetOf(s, r.named) # {}
    <2>1. PICK set : set = CHOOSE x \in SetOf(s, r.named) : TRUE
      OBVIOUS
    <2>2. set \in s.sets /\ set.name = r.named
      BY <1>2, <2>1, Zenon DEF SetOf
    <2>3. SetOK(set, t)
      BY <2>2 DEF FrontOK
    <2>4. PICK fit : fit = {l \in ListOf(set, r.syntax) : r.start + r.number <= l.size + 1}
      OBVIOUS
    <2>5. CASE \E l \in fit : b = [Refuse(FALSE, s, t) EXCEPT !.reply = FromList(l, r)]
      <3>1. PICK l \in fit : b = [Refuse(FALSE, s, t) EXCEPT !.reply = FromList(l, r)]
        BY <2>5
      <3>2. l \in set.lists /\ l.syntax = r.syntax /\ r.start + r.number <= l.size + 1
        BY <2>4, <3>1 DEF ListOf
      <3>3. l.size \in 0 .. Hits /\ l.search = t.found[r.named]
        BY <2>2, <2>3, <3>2 DEF SetOK, ListOK
      <3>4. /\ b = [reply |-> b.reply, closed |-> FALSE, sort |-> s, target |-> t]
            /\ b.reply = FromList(l, r) /\ b.sort = s /\ b.target = t /\ b.closed = FALSE
        BY <3>1 DEF Refuse
      <3>5. /\ IsReply(b.reply) /\ b.reply.kind = "present" /\ b.reply.src = {<<l.search, l.size>>}
            /\ Len(b.reply.recs) = r.number
            /\ r.start > 0 => Placed(b.reply.recs, b.reply.src, r.start)
        BY <1>0, <3>2, <3>3, <3>4, FromListFacts
      <3>6. ASSUME r.start > 0
            PROVE  AtHand(Orders(b.reply), s, t, r.named, r.syntax, LastOf(r))
        <4>1. Listed(s, r.named, r.syntax, l.size)
          BY <2>2, <3>2, Zenon DEF Listed
        <4>2. CASE r.number = 0
          <5>1. b.reply.recs = << >>
            BY <3>5, <4>2, SeqFacts DEF IsReply
          <5> QED
            BY <5>1 DEF Orders, AtHand
        <4>3. CASE r.number # 0
          <5>1. l.size \in 1 .. Hits
            BY <1>0, <3>2, <3>3, <3>6, <4>3
          <5>2. Orders(b.reply) \subseteq {<<t.found[r.named], l.size>>}
            BY <3>3, <3>5 DEF Orders
          <5>3. <<t.found[r.named], 0>> \notin Orders(b.reply)
            BY <5>1, <5>2
          <5> QED
            BY <4>1, <5>1, <5>2, <5>3, Zenon DEF AtHand
        <4> QED
          BY <4>2, <4>3
      <3>7. Presented(b, r, faulty)
        <4>1. Len(b.reply.recs) > 0 => r.start + Len(b.reply.recs) <= Hits + 1
          BY <1>0, <3>2, <3>3, <3>5
        <4>2. Len(b.reply.recs) <= r.number
          BY <1>0, <3>5
        <4> QED
          BY <3>4, <3>5, <3>6, <4>1, <4>2 DEF Presented
      <3> QED
        BY <1>00, <3>4, <3>5, <3>7 DEF Answered
    <2>6. ASSUME fit = {}, NEW a \in Below(r, FALSE, s, t, faulty),
                 b \in handle_records(a, s, set, r, r.start, faulty)
          PROVE  Answered(b, r, FALSE, s, t, faulty)
      <3>1. PICK x \in TargetAnswers(r, FALSE, t, faulty) :
                a = [reply |-> x.reply, closed |-> FALSE, sort |-> s, target |-> x.target]
        BY <2>6 DEF Below
      <3>2. TargetAnswered(x, r, FALSE, t, faulty)
        BY <3>1, TargetFacts
      <3>3. PICK n : n = t.found[r.named]
        OBVIOUS
      <3>4. /\ IsReply(x.reply) /\ TargetOK(x.target) /\ x.target.found = t.found
            /\ Fetched(x.reply, n, r.start, r.number, faulty)
        BY <3>2, <3>3 DEF TargetAnswered, Records
      <3>5. /\ a = [reply |-> a.reply, closed |-> a.closed, sort |-> s, target |-> a.target]
            /\ a.reply = x.reply /\ a.target = x.target /\ a.closed = FALSE /\ a.sort = s
        BY <3>1
      <3>6. Len(a.reply.recs) \in Nat /\ Len(a.reply.recs) <= Hits
        <4>1. Len(a.reply.recs) \in Nat
          BY <3>4, <3>5, SeqFacts DEF IsReply
        <4>2. CASE a.reply.kind = "present"
          BY <1>0, <3>4, <3>5, <4>1, <4>2 DEF Fetched
        <4>3. CASE a.reply.kind # "present"
          BY <1>0, <3>4, <3>5, <4>3, EmptyIsSeq DEF Fetched
        <4> QED
          BY <4>1, <4>2, <4>3
      <3>7. FrontOK(s, a.target)
        BY <3>4, <3>5, FrontKept
      <3>8. Handled(b, a, s, set, r, r.start)
        BY <2>2, <2>6, <3>4, <3>5, <3>6, <3>7, HandleRecords
      <3>9. /\ b = [reply |-> b.reply, closed |-> b.closed, sort |-> b.sort, target |-> b.target]
            /\ IsReply(b.reply) /\ b.closed = FALSE /\ TargetOK(b.target)
            /\ b.target.found = t.found /\ FrontOK(b.sort, b.target)
            /\ b.reply.kind = x.reply.kind /\ Len(b.reply.recs) = Len(x.reply.recs)
            /\ ListsKept(s, b.sort, r)
        BY <3>4, <3>5, <3>8, Zenon DEF Handled, ListsKept
      <3>10. ASSUME b.reply.kind = "present"
             PROVE  Presented(b, r, faulty)
        <4>1. /\ r.start >= 1 /\ r.number + r.start - 1 <= Hits /\ x.reply.src = {<<n, 0>>}
              /\ Len(x.reply.recs) <= r.number /\ (~faulty => Len(x.reply.recs) = r.number)
              /\ Placed(x.reply.recs, {<<n, 0>>}, r.start)
          BY <3>4, <3>9, <3>10 DEF Fetched
        <4>2. PICK k : k = Len(b.reply.recs)
          OBVIOUS
        <4>3. k \in Nat /\ k <= r.number /\ r.start + k <= Hits + 1
          BY <1>0, <3>5, <3>6, <3>9, <4>1, <4>2
        <4>4. /\ \E o : b.reply.src = {o}
              /\ Placed(b.reply.recs, b.reply.src, r.start)
              /\ AtHand(Orders(b.reply), b.sort, b.target, r.named, r.syntax, LastOf(r))
          <5>1. CASE b = a
            <6>1. ASSUME NEW m \in 1 .. Hits, Listed(s, r.named, r.syntax, m)
                  PROVE  m < LastOf(r)
              <7>1. PICK l \in ListOf(set, r.syntax) : l.size = m
                <8>1. Listed(s, set.name, r.syntax, m)
                  BY <2>2, <6>1
                <8> QED
                  BY <2>2, <8>1, ListedOne
              <7>2. ~(r.start + r.number <= m + 1)
                BY <2>4, <2>6, <7>1
              <7> QED
                BY <1>0, <7>2 DEF LastOf
            <6>2. Orders(b.reply) \subseteq {<<n, 0>>} /\ b.reply.src = {<<n, 0>>}
              BY <3>5, <4>1, <5>1 DEF Orders
            <6>3. b.sort = s /\ b.target.found[r.named] = n /\ b.reply = x.reply
              BY <3>3, <3>4, <3>5, <5>1
            <6>4. AtHand(Orders(b.reply), b.sort, b.target, r.named, r.syntax, LastOf(r))
              BY <6>1, <6>2, <6>3, Zenon DEF AtHand
            <6> QED
              BY <4>1, <6>2, <6>3, <6>4
          <5>2. ASSUME r.start = 1, NEW m \in Len(a.reply.recs) .. Hits,
                       b.reply.src = {<<a.target.found[r.named], m>>},
                       Placed(b.reply.recs, b.reply.src, 1), Listed(b.sort, r.named, r.syntax, m)
                PROVE  /\ \E o : b.reply.src = {o}
                       /\ Placed(b.reply.recs, b.reply.src, r.start)
                       /\ AtHand(Orders(b.reply), b.sort, b.target, r.named, r.syntax, LastOf(r))
            <6>1. b.target.found[r.named] = n /\ a.target.found[r.named] = n
              BY <3>3, <3>4, <3>5, <3>9
            <6>2. CASE b.reply.recs = << >>
              BY <5>2, <6>2 DEF Orders, AtHand
            <6>3. CASE b.reply.recs # << >>
              <7>1. Len(a.reply.recs) # 0
                BY <3>5, <3>9, <6>3, SeqFacts DEF IsReply
              <7>2. m \in 1 .. Hits
                BY <1>0, <3>6, <5>2, <7>1
              <7>3. Orders(b.reply) = {<<n, m>>} /\ <<n, 0>> \notin Orders(b.reply)
                BY <5>2, <6>1, <6>3, <7>2 DEF Orders
              <7>4. AtHand(Orders(b.reply), b.sort, b.target, r.named, r.syntax, LastOf(r))
                BY <5>2, <6>1, <7>2, <7>3, Zenon DEF AtHand
              <7> QED
                BY <5>2, <7>4
            <6> QED
              BY <6>2, <6>3
          <5> QED
            BY <3>8, <5>1, <5>2, Zenon DEF Handled
        <4> QED
          BY <3>5, <3>9, <4>1, <4>2, <4>3, <4>4 DEF Presented
      <3> QED
        BY <3>9, <3>10 DEF Answered
    <2>7. b \in IF fit # {}
                THEN {[Refuse(FALSE, s, t) EXCEPT !.reply = FromList(l, r)] : l \in fit}
                ELSE UNION {handle_records(a, s, set, r, r.start, faulty) :
                               a \in Below(r, FALSE, s, t, faulty)}
      BY <1>2, <2>1, <2>4, Zenon DEF handle_present
    <2> QED
      BY <2>5, <2>6, <2>7, Zenon
  <1>3. SetOf(s, r.named) = {} => b = Refuse(FALSE, s, t)
    BY DEF handle_present
  <1> QED
    BY <1>1, <1>2, <1>3

\* A request that sort passes on
LEMMA PassedOn ==
  ASSUME NEW r, IsRequest(r), NEW c \in BOOLEAN, c => r = None, NEW s, NEW t, TargetOK(t),
         FrontOK(s, t), r.kind \in {"search", "present"} => s.sets = {}, NEW faulty \in BOOLEAN,
         NEW s2, s2 = s \/ s2 = [s EXCEPT !.entry = "plain"] \/ s2 = [s EXCEPT !.entry = "virtual"],
         s.entry = "virtual" => s2 = s,
         NEW x \in TargetAnswers(r, c, t, faulty), NEW a,
         a = [reply |-> x.reply, closed |-> x.closed, target |-> x.target, sort |-> s2]
  PROVE  Answered(a, r, c, s, t, faulty)
  <1>1. TargetAnswered(x, r, c, t, faulty)
    BY TargetFacts
  <1>2. /\ a = [reply |-> a.reply, closed |-> a.closed, sort |-> a.sort, target |-> a.target]
        /\ a.reply = x.reply /\ a.closed = x.closed /\ a.target = x.target /\ a.sort = s2
    OBVIOUS
  <1>3. /\ IsReply(a.reply) /\ a.closed \in BOOLEAN /\ TargetOK(a.target) /\ (c => a.closed)
        /\ (a.closed => ~a.target.up) /\ (a.closed /\ ~c => a.reply.kind # "present")
        /\ (r.kind = "none" => a.reply.kind = "none")
        /\ (r.kind # "search" => a.target.found = t.found)
        /\ Records(x, r, faulty)
    BY <1>1, <1>2, Zenon DEF TargetAnswered
  <1>4. a.closed => a.reply.kind # "present"
    BY <1>3 DEF None
  <1>5. /\ s2.sets = s.sets /\ s2 = [entry |-> s2.entry, sets |-> s2.sets]
        /\ s2.entry \in {"none", "plain", "virtual"} /\ (s2.entry # "virtual" => s2.sets = {})
    BY DEF FrontOK
  <1>6. FrontOK(s2, a.target)
    <2>1. \A y \in s2.sets : SetOK(y, a.target)
      <3>1. CASE r.kind = "search"
        BY <1>5, <3>1
      <3>2. CASE r.kind # "search"
        BY <1>3, <1>5, <3>2 DEF FrontOK, SetOK
      <3> QED
        BY <3>1, <3>2
    <2>2. \A y, z \in s2.sets : y.name = z.name => y = z
      BY <1>5 DEF FrontOK
    <2> QED
      BY <1>5, <2>1, <2>2 DEF FrontOK
  <1>7. r.kind = "present" => ListsKept(s, a.sort, r)
    BY <1>2, <1>5, Zenon DEF ListsKept, Listed
  <1>8. ASSUME r.kind = "present", a.reply.kind = "present"
        PROVE  Presented(a, r, faulty)
    <2>0. r.start \in Nat /\ r.number \in Nat /\ Hits \in Nat
      BY <1>8, RequestFacts, SortedTargetAssumption
    <2>1. PICK n : n = a.target.found[r.named]
      OBVIOUS
    <2>2. /\ r.start >= 1 /\ r.number + r.start - 1 <= Hits /\ a.reply.src = {<<n, 0>>}
          /\ Len(a.reply.recs) <= r.number /\ (~faulty => Len(a.reply.recs) = r.number)
          /\ Placed(a.reply.recs, {<<n, 0>>}, r.start)
      BY <1>2, <1>3, <1>8, <2>1 DEF Records, Fetched
    <2>3. Len(a.reply.recs) \in Nat
      BY <1>3, SeqFacts DEF IsReply
    <2>4. r.start + Len(a.reply.recs) <= Hits + 1
      BY <2>0, <2>2, <2>3
    <2>5. Orders(a.reply) \subseteq {<<n, 0>>}
      BY <2>2 DEF Orders
    <2>6. AtHand(Orders(a.reply), a.sort, a.target, r.named, r.syntax, LastOf(r))
      <3>1. \A m : ~Listed(s2, r.named, r.syntax, m)
        BY <1>5, <1>8 DEF Listed
      <3> QED
        BY <1>2, <2>1, <2>5, <3>1, Zenon DEF AtHand
    <2> QED
      BY <2>2, <2>4, <2>6 DEF Presented
  <1>9. r.kind = "search" /\ a.reply.kind = "search" => FirstOnes(a.reply, r, faulty)
    BY <1>2, <1>3 DEF Records
  <1> QED
    BY <1>2, <1>3, <1>4, <1>6, <1>7, <1>8, <1>9, Zenon DEF Answered

\* What sort and the target answer, and what they forget with a closed session
LEMMA AnswersFacts ==
  ASSUME NEW r, IsRequest(r), NEW c \in BOOLEAN, c => r = None, NEW s, NEW t, TargetOK(t),
         FrontOK(s, t), NEW sorting \in BOOLEAN, ~sorting => s = NoFrontend, NEW faulty \in BOOLEAN,
         NEW a \in Answers(r, c, s, t, sorting, faulty)
  PROVE  /\ Answered(a, r, c, s, t, faulty)
         /\ a.closed => a.sort.entry = "none"
         /\ ~sorting => a.sort = NoFrontend
  <1>1. CASE ~sorting
    <2>1. PICK x \in TargetAnswers(r, c, t, faulty) :
              a = [reply |-> x.reply, closed |-> x.closed, target |-> x.target, sort |-> s]
      BY <1>1 DEF Answers
    <2>2. s.sets = {} /\ s.entry = "none"
      BY <1>1 DEF NoFrontend
    <2>3. Answered(a, r, c, s, t, faulty)
      BY <2>1, <2>2, PassedOn
    <2> QED
      BY <1>1, <2>1, <2>2, <2>3
  <1>2. CASE sorting
    <2>1. PICK s1 : s1 = IF s.entry = "none" THEN [s EXCEPT !.entry = "plain"] ELSE s
      OBVIOUS
    <2>2. /\ FrontOK(s1, t) /\ s1.sets = s.sets /\ (s.entry = "virtual" => s1 = s)
          /\ (s1.entry = "virtual" => s1 = s)
      <3>1. /\ s1 = [entry |-> s1.entry, sets |-> s1.sets] /\ s1.sets = s.sets
            /\ s1.entry \in {"none", "plain", "virtual"} /\ (s1.entry # "virtual" => s1.sets = {})
            /\ (s.entry = "virtual" => s1 = s) /\ (s1.entry = "virtual" => s1 = s)
        BY <2>1 DEF FrontOK
      <3> QED
        BY <3>1 DEF FrontOK
    <2>3. PICK b : /\ a = Released(b)
                   /\ \/ s1.entry = "virtual" /\ r.kind = "search"
                         /\ b \in handle_search(r, c, s1, t, faulty)
                      \/ s1.entry = "virtual" /\ r.kind = "present"
                         /\ b \in handle_present(r, c, s1, t, faulty)
                      \/ /\ ~(s1.entry = "virtual" /\ r.kind \in {"search", "present"})
                         /\ b \in {[reply |-> x.reply, closed |-> x.closed, target |-> x.target,
                                    sort |-> IF r.kind = "init" THEN [s1 EXCEPT !.entry = "virtual"]
                                             ELSE s1] :
                                      x \in TargetAnswers(r, c, t, faulty)}
      <3> DEFINE ps == {[reply |-> x.reply, closed |-> x.closed, target |-> x.target,
                         sort |-> IF r.kind = "init" THEN [s1 EXCEPT !.entry = "virtual"] ELSE s1] :
                           x \in TargetAnswers(r, c, t, faulty)}
                 bs == IF s1.entry = "virtual" /\ r.kind = "search"
                       THEN handle_search(r, c, s1, t, faulty)
                       ELSE IF s1.entry = "virtual" /\ r.kind = "present"
                       THEN handle_present(r, c, s1, t, faulty)
                       ELSE ps
      <3>1. a \in {Released(b) : b \in bs}
        BY <1>2, <2>1, Zenon DEF Answers, SortAnswers
      <3> HIDE DEF ps
      <3>2. PICK b \in bs : a = Released(b)
        BY <3>1
      <3>3. \/ s1.entry = "virtual" /\ r.kind = "search" /\ b \in handle_search(r, c, s1, t, faulty)
            \/ s1.entry = "virtual" /\ r.kind = "present" /\ b \in handle_present(r, c, s1, t, faulty)
            \/ ~(s1.entry = "virtual" /\ r.kind \in {"search", "present"}) /\ b \in ps
        BY <3>2
      <3> QED
        BY <3>2, <3>3, Zenon DEF ps
    <2>4. r.kind # "none" => c = FALSE
      BY DEF None
    <2>5. Answered(b, r, c, s1, t, faulty)
      <3>1. CASE s1.entry = "virtual" /\ r.kind = "search" /\ b \in handle_search(r, c, s1, t, faulty)
        BY <2>2, <2>4, <3>1, HandleSearch
      <3>2. CASE s1.entry = "virtual" /\ r.kind = "present" /\ b \in handle_present(r, c, s1, t, faulty)
        BY <2>2, <2>4, <3>2, HandlePresent
      <3>3. CASE /\ ~(s1.entry = "virtual" /\ r.kind \in {"search", "present"})
                 /\ b \in {[reply |-> x.reply, closed |-> x.closed, target |-> x.target,
                            sort |-> IF r.kind = "init" THEN [s1 EXCEPT !.entry = "virtual"]
                                     ELSE s1] :
                              x \in TargetAnswers(r, c, t, faulty)}
        <4>1. PICK s2 : s2 = IF r.kind = "init" THEN [s1 EXCEPT !.entry = "virtual"] ELSE s1
          OBVIOUS
        <4>2. PICK x \in TargetAnswers(r, c, t, faulty) :
                  b = [reply |-> x.reply, closed |-> x.closed, target |-> x.target, sort |-> s2]
          BY <3>3, <4>1, Zenon
        <4>3. /\ s2 = s1 \/ s2 = [s1 EXCEPT !.entry = "virtual"]
              /\ s1.entry = "virtual" => s2 = s1
              /\ r.kind \in {"search", "present"} => s1.sets = {}
          BY <2>2, <3>3, <4>1 DEF FrontOK
        <4> QED
          BY <2>2, <4>2, <4>3, PassedOn
      <3> QED
        BY <2>3, <3>1, <3>2, <3>3, Zenon
    <2>6. /\ b = [reply |-> b.reply, closed |-> b.closed, sort |-> b.sort, target |-> b.target]
          /\ IsReply(b.reply) /\ b.closed \in BOOLEAN /\ TargetOK(b.target)
          /\ FrontOK(b.sort, b.target) /\ (c => b.closed)
          /\ (b.closed => ~b.target.up /\ b.reply.kind # "present")
          /\ (r.kind # "search" => b.target.found = t.found)
          /\ (r.kind = "search" /\ b.reply.kind = "search" => FirstOnes(b.reply, r, faulty))
      BY <2>5, Zenon DEF Answered
    <2>7. CASE b.closed
      <3>1. /\ a = [reply |-> a.reply, closed |-> a.closed, sort |-> a.sort, target |-> a.target]
            /\ a.reply = b.reply /\ a.closed = b.closed /\ a.target = b.target /\ a.sort = NoFrontend
        BY <2>3, <2>6, <2>7 DEF Released
      <3>2. FrontOK(NoFrontend, a.target) /\ NoFrontend.entry = "none"
        BY DEF FrontOK, NoFrontend
      <3> QED
        BY <1>2, <2>6, <2>7, <3>1, <3>2 DEF Answered
    <2>8. CASE ~b.closed
      <3>1. a = b
        BY <2>3, <2>8 DEF Released
      <3>2. \A s2 : ListsKept(s1, s2, r) => ListsKept(s, s2, r)
        <4>1. \A n, y, k : Listed(s1, n, y, k) <=> Listed(s, n, y, k)
          BY <2>2 DEF Listed
        <4> QED
          BY <2>2, <4>1 DEF ListsKept
      <3> QED
        BY <1>2, <2>5, <2>8, <3>1, <3>2, Zenon DEF Answered
    <2> QED
      BY <2>6, <2>7, <2>8
  <1> QED
    BY <1>1, <1>2

-----------------------------------------------------------------------------
(* Orders at hand.                                                         *)

LEMMA AtHandNone ==
  ASSUME NEW s, NEW t, NEW name, NEW syntax, NEW last
  PROVE  AtHand({}, s, t, name, syntax, last)
  BY Zenon DEF AtHand

LEMMA AtHandUpTo ==
  ASSUME NEW src, NEW s, NEW t, NEW name, NEW syntax, NEW last, NEW last2, last \in Int,
         last2 \in Int, last <= last2, AtHand(src, s, t, name, syntax, last)
  PROVE  AtHand(src, s, t, name, syntax, last2)
  <1>1. Hits \in Nat
    BY SortedTargetAssumption
  <1>2. \A m \in 1 .. Hits : m < last => m < last2
    BY <1>1
  <1> QED
    BY <1>2, Zenon DEF AtHand

LEMMA AtHandUnion ==
  ASSUME NEW src1, NEW src2, NEW s, NEW t, NEW name, NEW syntax, NEW last,
         AtHand(src1, s, t, name, syntax, last), AtHand(src2, s, t, name, syntax, last)
  PROVE  AtHand(src1 \cup src2, s, t, name, syntax, last)
  BY Zenon DEF AtHand

LEMMA AtHandSame ==
  ASSUME NEW src, NEW s, NEW t, NEW s2, NEW t2, NEW name, NEW syntax, NEW last,
         s2.sets = s.sets, t2.found = t.found, AtHand(src, s, t, name, syntax, last)
  PROVE  AtHand(src, s2, t2, name, syntax, last)
  <1>1. \A m : Listed(s2, name, syntax, m) <=> Listed(s, name, syntax, m)
    BY DEF Listed
  <1>2. t2.found[name] = t.found[name]
    OBVIOUS
  <1> QED
    BY <1>1, <1>2, Zenon DEF AtHand

\* There is one list, so that two orders are the target's own and that of the list.
LEMMA OneList ==
  ASSUME NEW s, NEW t, FrontOK(s, t), NEW name, NEW syntax, NEW m, NEW k,
         Listed(s, name, syntax, m), Listed(s, name, syntax, k)
  PROVE  m = k
  <1>1. PICK x \in s.sets : x.name = name /\ \E l \in x.lists : l.syntax = syntax /\ l.size = m
    BY DEF Listed
  <1>2. PICK y \in s.sets : y.name = name /\ \E l \in y.lists : l.syntax = syntax /\ l.size = k
    BY DEF Listed
  <1>3. x = y /\ SetOK(x, t)
    BY <1>1, <1>2 DEF FrontOK
  <1> QED
    BY <1>1, <1>2, <1>3, Zenon DEF SetOK

LEMMA AtHandPast ==
  ASSUME NEW s, NEW t, FrontOK(s, t), NEW src, NEW name, NEW syntax, NEW last,
         AtHand(src, s, t, name, syntax, last), Cardinality(src) > 1
  PROVE  PastList(src, last)
  <1>1. PICK n : n = t.found[name]
    OBVIOUS
  <1>2. ~(src = {}) /\ ~(\E o : src = {o})
    <2>1. Cardinality({}) = 0 /\ \A o : Cardinality({o}) = 1
      BY FS_EmptySet, FS_Singleton
    <2>2. src # {}
      BY <2>1
    <2>3. ASSUME NEW o, src = {o}
          PROVE  FALSE
      <3>1. Cardinality(src) = 1
        BY <2>1, <2>3
      <3> QED
        BY <3>1
    <2> QED
      BY <2>2, <2>3
  <1>3. \A o \in src : o = <<n, 0>> \/ \E m \in 1 .. Hits : Listed(s, name, syntax, m) /\ o = <<n, m>>
    BY <1>1, Zenon DEF AtHand
  <1>4. <<n, 0>> \in src
    <2> SUFFICES ASSUME <<n, 0>> \notin src
                 PROVE  FALSE
      OBVIOUS
    <2>1. PICK o \in src : TRUE
      BY <1>2
    <2>2. PICK m \in 1 .. Hits : Listed(s, name, syntax, m) /\ o = <<n, m>>
      BY <1>3, <2>1, Zenon
    <2>3. \A w \in src : w = o
      <3> SUFFICES ASSUME NEW w \in src
                   PROVE  w = o
        OBVIOUS
      <3>1. PICK k \in 1 .. Hits : Listed(s, name, syntax, k) /\ w = <<n, k>>
        BY <1>3, Zenon
      <3>2. k = m
        BY <2>2, <3>1, OneList
      <3> QED
        BY <2>2, <3>1, <3>2
    <2>4. src = {o}
      BY <2>1, <2>3
    <2> QED
      BY <1>2, <2>4
  <1>5. PICK o \in src : o # <<n, 0>>
    BY <1>2, <1>4
  <1>6. PICK m \in 1 .. Hits : Listed(s, name, syntax, m) /\ o = <<n, m>>
    BY <1>3, <1>5, Zenon
  <1>7. m < last
    BY <1>1, <1>4, <1>6, Zenon DEF AtHand
  <1>8. src = {o, <<n, 0>>}
    <2> SUFFICES ASSUME NEW w \in src, w # <<n, 0>>
                 PROVE  w = o
      BY <1>4, <1>5
    <2>1. PICK k \in 1 .. Hits : Listed(s, name, syntax, k) /\ w = <<n, k>>
      BY <1>3, Zenon
    <2>2. k = m
      BY <1>6, <2>1, OneList
    <2> QED
      BY <1>6, <2>1, <2>2
  <1>9. o[1] = n /\ o[2] = m
    BY <1>6
  <1> QED
    BY <1>7, <1>8, <1>9 DEF PastList

\* Records in orders at hand
LEMMA HandInOrder ==
  ASSUME NEW s, NEW t, FrontOK(s, t), NEW src, NEW name, NEW syntax, NEW last, NEW recs, NEW start,
         Placed(recs, src, start), NEW mix, AtHand(src, s, t, name, syntax, last) \/ mix
  PROVE  InOrder(recs, src, start, mix \/ PastList(src, last))
  <1>1. Cardinality(src) > 1 => mix \/ PastList(src, last)
    BY AtHandPast
  <1> QED
    BY <1>1, Zenon DEF InOrder, Placed

\* The orders of a reply's records are enough for their places.
LEMMA OrdersFacts ==
  ASSUME NEW a, IsReply(a), NEW start
  PROVE  /\ Orders(a) \subseteq a.src
         /\ a.recs = << >> => Orders(a) = {}
         /\ Placed(a.recs, a.src, start) => Placed(a.recs, Orders(a), start)
  <1>1. CASE a.recs = << >>
    <2>1. DOMAIN a.recs = {}
      BY <1>1, EmptyIsSeq
    <2> QED
      BY <1>1, <2>1, Zenon DEF Orders, Placed
  <1>2. CASE a.recs # << >>
    BY <1>2 DEF Orders
  <1> QED
    BY <1>1, <1>2

\* A searchRetrieve asks for max_recs records, when its start is not out of range.
LEMMA WantedFacts ==
  ASSUME NEW j, IsJob(j)
  PROVE  /\ max_recs(j) \in Int
         /\ j.max > 0 /\ j.start <= Hits => max_recs(j) > 0
         /\ Hits = 0 \/ j.max = 0 => Cardinality(Wanted(j)) = 0
         /\ j.start \in 1 .. Hits /\ j.max > 0 => Cardinality(Wanted(j)) = max_recs(j)
  <1>1. j.start \in Nat /\ j.max \in Nat /\ Hits \in Nat /\ MaxRecs \in Nat
    BY SortedTargetAssumption, GatewayAssumption DEF IsJob
  <1>2. PICK most : most = Most(j)
    OBVIOUS
  <1>3. most \in Nat /\ (j.max > 0 => most > 0)
    BY <1>1, <1>2 DEF Most
  <1>4. PICK k : k = max_recs(j)
    OBVIOUS
  <1>5. k = IF most > Hits - j.start THEN Hits + 1 - j.start ELSE most
    BY <1>2, <1>4 DEF max_recs
  <1>6. k \in Int /\ (j.max > 0 /\ j.start <= Hits => k > 0)
    BY <1>1, <1>3, <1>5
  <1>7. ASSUME Hits = 0 \/ j.max = 0
        PROVE  Cardinality(Wanted(j)) = 0
    <2>1. Wanted(j) = {}
      BY <1>1, <1>7 DEF Wanted
    <2> QED
      BY <2>1, FS_EmptySet
  <1>8. ASSUME j.start \in 1 .. Hits, j.max > 0
        PROVE  Cardinality(Wanted(j)) = k
    <2>1. \A i \in Int : /\ i \in 1 .. Hits /\ i >= j.start /\ i < j.start + j.max
                         /\ MaxRecs > 0 => i < j.start + MaxRecs
                         <=> i \in j.start .. j.start + k - 1
      <3>1. most = IF MaxRecs > 0 /\ j.max > MaxRecs THEN MaxRecs ELSE j.max
        BY <1>2 DEF Most
      <3> QED
        BY <1>1, <1>3, <1>5, <1>8, <3>1
    <2>2. Wanted(j) = j.start .. j.start + k - 1
      <3>1. \A i \in Wanted(j) : i \in Int
        BY <1>1 DEF Wanted
      <3>2. \A i \in j.start .. j.start + k - 1 : i \in Int
        BY <1>1, <1>6
      <3>3. \A i \in Int : i \in Wanted(j) <=> i \in j.start .. j.start + k - 1
        BY <2>1, Zenon DEF Wanted
      <3> QED
        BY <3>1, <3>2, <3>3
    <2>3. j.start \in Int /\ j.start + k - 1 \in Int /\ j.start <= j.start + k - 1
      BY <1>1, <1>6, <1>8
    <2>4. PICK e : e = j.start + k - 1
      OBVIOUS
    <2>5. Cardinality(j.start .. e) = IF j.start > e THEN 0 ELSE e - j.start + 1
      BY <2>3, <2>4, FS_Interval, Zenon
    <2> QED
      BY <1>1, <1>6, <2>2, <2>3, <2>4, <2>5
  <1> QED
    BY <1>4, <1>6, <1>7, <1>8

-----------------------------------------------------------------------------
(* Packages that a step leaves as they are.                                *)

Same(q) ==
    /\ pc'[q] = pc[q] /\ req'[q] = req[q] /\ reply'[q] = reply[q] /\ got'[q] = got[q]
    /\ closed'[q] = closed[q] /\ job'[q] = job[q]

LEMMA SamePkgType ==
  ASSUME NEW q, Same(q), PkgType(q)
  PROVE  PkgType(q)'
  BY DEF Same, PkgType

LEMMA SameLocated ==
  ASSUME NEW q, Same(q), conf' = conf, Located(q)
  PROVE  Located(q)'
  BY DEF Same, Located

LEMMA SameAuthed ==
  ASSUME NEW q, Same(q), conf' = conf, q \in early => q \in early', Authed(q)
  PROVE  Authed(q)'
  BY DEF Same, Authed, Allowed

LEMMA SameForgetting ==
  ASSUME NEW q, Same(q), pc[q] \notin Busy
  PROVE  Forgetting(q)'
  BY DEF Same, Forgetting, Busy

\* What sort and the target have matters while records are collected.
LEMMA SameGathering ==
  ASSUME NEW q, Same(q), conf' = conf, PkgType(q), Gathering(q),
         q \in crossed => q \in crossed',
         q \in crossed' \/ Offset(q) = 0 \/ (front'.sets = front.sets /\ target'.found = target.found)
  PROVE  Gathering(q)'
  <1>1. Offset(q)' = Offset(q)
    BY DEF Same, Offset
  <1>2. ASSUME req[q].start > 0, q \notin crossed'
        PROVE  HandOf(got[q].src, req[q])'
    <2>1. HandOf(got[q].src, req[q])
      BY <1>2 DEF Gathering
    <2>2. CASE Offset(q) = 0
      <3>1. got'[q].src = {}
        BY <2>2 DEF Same, Gathering
      <3> QED
        BY <3>1, AtHandNone DEF HandOf
    <2>3. CASE front'.sets = front.sets /\ target'.found = target.found
      BY <2>1, <2>3, AtHandSame DEF HandOf, Same
    <2> QED
      BY <1>2, <2>2, <2>3
  <1> QED
    BY <1>1, <1>2 DEF Gathering, Same

LEMMA SameReplied ==
  ASSUME NEW q, Same(q), conf' = conf, Replied(q), q \in crossed => q \in crossed',
         conf.front = "sru" => front'.sets = front.sets /\ target'.found = target.found
  PROVE  Replied(q)'
  <1>1. conf.front = "sru" => HandOf(Orders(reply[q]), req[q])'
    <2> SUFFICES ASSUME conf.front = "sru"
                 PROVE  HandOf(Orders(reply[q]), req[q])'
      OBVIOUS
    <2>1. HandOf(Orders(reply[q]), req[q])
      BY DEF Replied
    <2>2. Orders(reply'[q]) = Orders(reply[q]) /\ req'[q] = req[q]
      BY DEF Same
    <2> QED
      BY <2>1, <2>2, AtHandSame DEF HandOf
  <1>2. Chunked(q)' <=> Chunked(q)
    BY DEF Chunked, Same
  <1>3. InOrder(reply[q].recs, reply[q].src, req[q].start,
                q \in crossed \/ PastList(reply[q].src, LastOf(req[q])))'
    <2>1. InOrder(reply[q].recs, reply[q].src, req[q].start,
                  q \in crossed \/ PastList(reply[q].src, LastOf(req[q])))
      BY DEF Replied
    <2> QED
      BY <2>1 DEF Same, InOrder
  <1> QED
    BY <1>1, <1>2, <1>3 DEF Replied, Same

LEMMA SamePresenting ==
  ASSUME NEW q, Same(q), Presenting(q), front'.sets = front.sets /\ target'.found = target.found
  PROVE  Presenting(q)'
  <1>1. ASSUME job[q].start > 0, ~closed[q]
        PROVE  AtHand(job'[q].src, front', target', FALSE, "xml", LastWanted(job'[q]))
    <2>1. AtHand(job[q].src, front, target, FALSE, "xml", LastWanted(job[q]))
      BY <1>1 DEF Presenting
    <2> QED
      BY <2>1, AtHandSame DEF Same
  <1> QED
    BY <1>1 DEF Presenting, Same

LEMMA SameOrdered ==
  ASSUME NEW q, Same(q), conf' = conf, PkgType(q), Ordered(q),
         q \in crossed => q \in crossed',
         q \in crossed' \/ Offset(q) = 0 \/ pc[q] # "serve"
           \/ (front'.sets = front.sets /\ target'.found = target.found),
         conf.front = "sru" /\ pc[q] \in Busy \cup {"left"}
           => req[q].kind # "present" \/ (front'.sets = front.sets /\ target'.found = target.found),
         job[q].step # "present" \/ (front'.sets = front.sets /\ target'.found = target.found)
  PROVE  Ordered(q)'
  <1>1. pc'[q] = "serve" /\ Chunked(q)' => Gathering(q)'
    BY SameGathering DEF Same, Chunked, Ordered
  <1>2. ASSUME (pc[q] \in {"limitout", "left", "back"} /\ reply[q].kind = "present"
                /\ req[q].kind = "present")'
        PROVE  /\ req'[q].start > 0 => Replied(q)'
               /\ conf'.front = "sru" => ~closed'[q]
    <2>1. /\ pc[q] \in {"limitout", "left", "back"} /\ reply[q].kind = "present"
          /\ req[q].kind = "present" /\ pc[q] \in Busy \cup {"left"}
      BY <1>2 DEF Same, Busy
    <2>2. /\ req[q].start > 0 => Replied(q)
          /\ conf.front = "sru" => ~closed[q]
      BY <2>1 DEF Ordered
    <2> QED
      BY <2>1, <2>2, SameReplied DEF Same
  <1>3. job'[q].step = "present" /\ pc'[q] \in Busy => Presenting(q)'
    BY SamePresenting DEF Same, Ordered
  <1> QED
    BY <1>1, <1>2, <1>3 DEF Ordered, Same

-----------------------------------------------------------------------------
(* Steps of one package.                                                   *)

LEMMA ConfFacts ==
  ASSUME TypeInv
  PROVE  /\ conf.front \in {"z3950", "sru"} /\ conf.auth \in {"none", "users", "targets"}
         /\ conf.retrieve \in Nat /\ conf.chunk \in Nat
         /\ conf.sort \in BOOLEAN /\ conf.faulty \in BOOLEAN
         /\ \A r \in conf.asks : IsAsk(r)
  BY RouteAssumption DEF TypeInv

PkgInv(p) == PkgType(p) /\ Located(p) /\ Authed(p) /\ Ordered(p)

LEMMA PkgInvs ==
  ASSUME IInv
  PROVE  \A p \in Pkgs : PkgInv(p)
  BY Zenon DEF IInv, TypeInv, PlaceInv, AuthInv, OrderInv, PkgInv

\* The other packages stay in order when sort and the target do not change.
LEMMA OnePackage ==
  ASSUME IInv, NEW p \in Pkgs, conf' = conf, \A q \in Pkgs \ {p} : Same(q),
         front'.sets = front.sets, target'.found = target.found,
         \A q \in Pkgs \ {p} : q \in early => q \in early',
         \A q \in Pkgs \ {p} : q \in crossed => q \in crossed',
         PkgInv(p)'
  PROVE  \A q \in Pkgs : PkgInv(q)'
  <1> SUFFICES ASSUME NEW q \in Pkgs \ {p}
               PROVE  PkgInv(q)'
    BY Zenon
  <1>1. PkgInv(q) /\ Same(q)
    BY PkgInvs
  <1>2. PkgType(q)' /\ Located(q)' /\ Authed(q)'
    BY <1>1, SamePkgType, SameLocated, SameAuthed DEF PkgInv
  <1>3. Ordered(q)'
    BY <1>1, SameOrdered DEF PkgInv
  <1> QED
    BY <1>2, <1>3 DEF PkgInv

LEMMA StillOneBelow ==
  ASSUME NEW p \in Pkgs, OneBelow, pc[p] \in Busy, pc'[p] \in Busy, entry' = entry,
         \A q \in Pkgs \ {p} : Same(q)
  PROVE  OneBelow'
  BY DEF OneBelow, Same

LEMMA NotBusy ==
  ASSUME IInv, conf.front = "sru", NEW p \in Pkgs, NEW q \in Pkgs \ {p}, pc[p] \in Busy
  PROVE  pc[q] \notin Busy
  BY DEF IInv, PlaceInv, OneBelow

\* A filter is not told last that the session is closed.
LEMMA LateLeaving ==
  ASSUME NEW p \in Pkgs, conf.front = "z3950", late' = Late(p), ~late', NEW q \in Pkgs \ {p},
         Same(q)
  PROVE  Leaving(q)'
  BY DEF Late, Same, Leaving, Past

\* The invariant after a step of package p on the chain
LEMMA ChainStepInv ==
  ASSUME IInv, NEW p \in Pkgs, conf' = conf, UNCHANGED <<entry, unclosed, ended>>,
         \A q \in Pkgs \ {p} : Same(q), TypeInv', \A q \in Pkgs : PkgInv(q)',
         pc[p] \in Busy, pc[p] # "new", pc'[p] # "new", conf.front = "sru" => pc'[p] \in Busy,
         closed[p] => closed'[p],
         conf'.front = "sru" => crossed' = {} /\ Forgetting(p)',
         conf'.front = "z3950" /\ ~late' => \A q \in Pkgs : Leaving(q)',
         TargetOK(target'), FrontOK(front', target'), ~conf.sort => front' = NoFrontend,
         conf.auth = "users" /\ passed' => user'
  PROVE  IInv'
  <1>1. PlaceInv'
    <2>1. conf.front = "z3950" => entry' = "none"
      BY DEF IInv, PlaceInv
    <2>2. conf.front = "sru" => OneBelow'
      BY StillOneBelow DEF IInv, PlaceInv
    <2> QED
      BY <2>1, <2>2 DEF PlaceInv, PkgInv
  <1>2. AuthInv' /\ OrderInv'
    BY DEF AuthInv, OrderInv, PkgInv
  <1>3. ForgetInv'
    <2>1. ASSUME conf.front = "z3950", ended'
          PROVE  \E q \in Pkgs : closed'[q] /\ pc'[q] # "new"
      <3>1. PICK q \in Pkgs : closed[q] /\ pc[q] # "new"
        BY <2>1 DEF IInv, ForgetInv
      <3>2. closed'[q] /\ pc'[q] # "new"
        BY <3>1 DEF Same
      <3> QED
        BY <3>2
    <2>2. ASSUME conf.front = "sru"
          PROVE  entry' = "used" /\ \A q \in Pkgs : Forgetting(q)'
      <3>1. entry = "used"
        BY <2>2 DEF IInv, PlaceInv, OneBelow
      <3>2. \A q \in Pkgs \ {p} : pc[q] \notin Busy
        BY <2>2, NotBusy
      <3> QED
        BY <2>2, <3>1, <3>2, SameForgetting
    <2> QED
      BY <2>1, <2>2 DEF ForgetInv
  <1> QED
    BY <1>1, <1>2, <1>3 DEF IInv

LEMMA LimitInInv ==
  ASSUME IInv, NEW p \in Pkgs, LimitIn(p), UNCHANGED sruVars
  PROVE  IInv'
  <1>0. TypeInv /\ PlaceInv /\ PkgInv(p) /\ (conf.auth = "users" /\ passed => user)
    BY PkgInvs DEF IInv, AuthInv
  <1>1. /\ pc[p] = "limit" /\ pc' = [pc EXCEPT ![p] = "serve"] /\ ses' = TRUE
        /\ req' = [req EXCEPT ![p] = Capped(req[p])]
        /\ got' = [got EXCEPT ![p] = Plain("present")] /\ late' = Late(p)
        /\ UNCHANGED <<conf, closed, reply, user, front, target, ended, passed, early, crossed>>
        /\ UNCHANGED <<entry, job, unclosed>>
    BY DEF LimitIn, Go, sruVars
  <1>2. /\ pc'[p] = "serve" /\ req'[p] = Capped(req[p]) /\ got'[p] = Plain("present")
        /\ reply'[p] = reply[p] /\ closed'[p] = closed[p] /\ job'[p] = job[p]
        /\ \A q \in Pkgs \ {p} : Same(q)
    BY <1>0, <1>1 DEF TypeInv, Same
  <1>3. PICK r : r = Capped(req[p])
    OBVIOUS
  <1>4. /\ IsRequest(req[p]) /\ conf.retrieve \in Nat
        /\ req[p].kind = "present" => req[p].start \in Nat /\ req[p].number \in Nat
    BY <1>0, ConfFacts, RequestFacts DEF PkgInv, PkgType
  <1>6. /\ IsRequest(r) /\ r.kind = req[p].kind
        /\ r.kind # "present" => r = req[p]
        /\ r.kind = "present" => /\ r.named = req[p].named /\ r.start = req[p].start
                                 /\ r.syntax = req[p].syntax /\ r.number <= req[p].number
                                 /\ r.number \in Nat
    <2>1. CASE r = req[p]
      BY <1>4, <2>1
    <2>2. CASE r # req[p]
      <3>1. /\ req[p].kind = "present" /\ req[p].number > conf.retrieve
            /\ r = [req[p] EXCEPT !.number = conf.retrieve]
        BY <1>3, <2>2 DEF Capped
      <3> QED
        BY <1>4, <3>1 DEF IsRequest, IsAsk, None
    <2> QED
      BY <2>1, <2>2
  <1>7. PkgType(p)'
    BY <1>0, <1>2, <1>3, <1>6, PlainFacts, EmptyIsSeq, SortedTargetAssumption DEF PkgInv, PkgType
  <1>8. Located(p)' /\ Authed(p)'
    <2>1. Located(p)'
      BY <1>0, <1>1, <1>2, <1>3, <1>6 DEF PkgInv, Located, Down, Busy, None
    <2>2. Allowed(p)'
      BY <1>0, <1>1, <1>2, <1>3, <1>6 DEF PkgInv, Authed, Allowed
    <2>3. Authed(p)'
      BY <1>0, <1>1, <1>2, <1>3, <1>6, <2>2 DEF PkgInv, Authed, Down
    <2> QED
      BY <2>1, <2>3
  <1>9. Ordered(p)'
    <2>1. got'[p].recs = << >> /\ got'[p].src = {} /\ Offset(p)' = 0
      BY <1>2, PlainFacts, EmptyIsSeq DEF Offset
    <2>2. ASSUME Chunked(p)'
          PROVE  Gathering(p)'
      <3>1. r.number \in Nat
        BY <1>2, <1>3, <1>6, <2>2 DEF Chunked
      <3>2. Placed(got[p].recs, got[p].src, req[p].start)'
        BY <2>1, EmptyIsSeq DEF Placed
      <3>3. HandOf(got[p].src, req[p])'
        BY <2>1, AtHandNone DEF HandOf
      <3>4. Offset(p)' <= req'[p].number /\ ~(Offset(p)' > 0)
        BY <1>2, <1>3, <2>1, <3>1
      <3> QED
        BY <2>1, <3>2, <3>3, <3>4 DEF Gathering
    <2>3. ASSUME job[p].step = "present"
          PROVE  Presenting(p)'
      <3>1. Presenting(p)
        BY <1>0, <1>1, <2>3 DEF PkgInv, Ordered, Busy, Down
      <3>2. IsJob(job[p])
        BY <1>0 DEF PkgInv, PkgType
      <3>3. max_recs(job[p]) \in Int /\ Len(job[p].recs) \in Nat
        BY <3>2, WantedFacts, SeqFacts DEF IsJob
      <3>4. r.number <= max_recs(job[p]) - Len(job[p].recs)
        BY <1>4, <1>6, <3>1, <3>3 DEF Presenting
      <3> QED
        BY <1>1, <1>2, <1>3, <1>6, <3>1, <3>4 DEF Presenting
    <2> QED
      BY <1>0, <1>2, <2>2, <2>3 DEF PkgInv, Ordered
  <1>10. \A q \in Pkgs : PkgInv(q)'
    BY <1>1, <1>2, <1>7, <1>8, <1>9, OnePackage DEF PkgInv
  <1>11. TypeInv'
    <2>1. late' \in BOOLEAN
      BY <1>0, <1>1 DEF TypeInv, Late
    <2>2. pc' \in [Pkgs -> Place]
      BY <1>0, <1>1 DEF TypeInv, Place
    <2> QED
      BY <1>0, <1>1, <1>10, <2>1, <2>2 DEF TypeInv, PkgInv
  <1>12. ASSUME conf.front = "sru"
         PROVE  Forgetting(p)'
    BY <1>0, <1>1, <1>2, <1>12 DEF IInv, ForgetInv, Forgetting, Busy, Down
  <1>13. ASSUME conf.front = "z3950", ~late', NEW q \in Pkgs
         PROVE  Leaving(q)'
    BY <1>1, <1>2, <1>13, LateLeaving DEF Leaving, Past
  <1> QED
    BY <1>0, <1>1, <1>2, <1>10, <1>11, <1>12, <1>13, ChainStepInv DEF PlaceInv, Busy, Down

LEMMA LimitOutInv ==
  ASSUME IInv, NEW p \in Pkgs, LimitOut(p), UNCHANGED sruVars
  PROVE  IInv'
  <1>0. TypeInv /\ PlaceInv /\ PkgInv(p) /\ (conf.auth = "users" /\ passed => user)
        /\ conf.front \in {"z3950", "sru"}
    BY PkgInvs, ConfFacts DEF IInv, AuthInv
  <1>1. PICK up : up = IF conf.front = "sru" THEN "back" ELSE "left"
    OBVIOUS
  <1>2. /\ pc[p] = "limitout" /\ pc' = [pc EXCEPT ![p] = up] /\ ses' = ~closed[p] /\ late' = Late(p)
        /\ UNCHANGED <<conf, closed, req, reply, got, user, front, target>>
        /\ UNCHANGED <<ended, passed, early, crossed>>
        /\ UNCHANGED <<entry, job, unclosed>>
    BY <1>1 DEF LimitOut, Up, Go, sruVars
  <1>3. /\ pc'[p] = up /\ closed[p] \in BOOLEAN
        /\ \A q \in Pkgs \ {p} : Same(q)
    BY <1>0, <1>2 DEF TypeInv, Same
  <1>4. PkgType(p)'
    BY <1>0, <1>2 DEF PkgInv, PkgType
  <1>5. Located(p)' /\ Authed(p)'
    <2>1. Located(p)'
      BY <1>0, <1>1, <1>2, <1>3 DEF PkgInv, Located, Down, Busy, NoJob
    <2>2. Authed(p)'
      BY <1>0, <1>1, <1>2, <1>3 DEF PkgInv, Authed, Allowed, Down
    <2> QED
      BY <2>1, <2>2
  <1>6. Ordered(p)'
    <2>1. Replied(p) => Replied(p)'
      BY <1>2 DEF Replied, HandOf, Chunked
    <2>2. Presenting(p) => Presenting(p)'
      BY <1>2 DEF Presenting
    <2> QED
      BY <1>0, <1>1, <1>2, <1>3, <2>1, <2>2 DEF PkgInv, Ordered, Busy
  <1>7. \A q \in Pkgs : PkgInv(q)'
    BY <1>2, <1>3, <1>4, <1>5, <1>6, OnePackage DEF PkgInv
  <1>8. TypeInv'
    <2>1. late' \in BOOLEAN /\ ses' \in BOOLEAN
      BY <1>0, <1>2 DEF TypeInv, Late
    <2>2. pc' \in [Pkgs -> Place]
      BY <1>0, <1>1, <1>2 DEF TypeInv, Place
    <2> QED
      BY <1>0, <1>2, <1>7, <2>1, <2>2 DEF TypeInv, PkgInv
  <1>9. ASSUME conf.front = "sru"
        PROVE  Forgetting(p)'
    <2>1. Forgetting(p)
      BY <1>9 DEF IInv, ForgetInv
    <2>2. job[p].step \in {"close", "pass"} =>
             closed[p] /\ ses' = FALSE /\ front.entry = "none" /\ ~target.up
      BY <1>2, <1>3, <2>1 DEF Forgetting, Busy
    <2> QED
      BY <1>1, <1>2, <1>3, <1>9, <2>2 DEF Forgetting
  <1>10. ASSUME conf.front = "z3950", ~late', NEW q \in Pkgs
         PROVE  Leaving(q)'
    <2>1. CASE q # p
      BY <1>2, <1>3, <1>10, <2>1, LateLeaving
    <2>2. CASE q = p
      <3>1. ~late
        BY <1>2, <1>10 DEF Late
      <3>2. Leaving(p)
        BY <1>10, <3>1 DEF IInv, ForgetInv
      <3> QED
        BY <1>1, <1>2, <1>3, <1>10, <2>2, <3>2 DEF Leaving, Past
    <2> QED
      BY <2>1, <2>2
  <1> QED
    BY <1>0, <1>1, <1>2, <1>3, <1>7, <1>8, <1>9, <1>10, ChainStepInv DEF PlaceInv, Busy

\* What auth_simple does: it passes a request on, perhaps with fewer targets, or
\* rejects it.
Passes(p, r, r2) ==
    /\ Pass(p, r2) /\ r2.kind = r.kind /\ IsRequest(r2) /\ (r.kind # "init" => r2 = r)
    /\ user' \in BOOLEAN
    /\ conf.auth = "users" /\ (passed \/ r.kind = "init") => user'
    /\ conf.auth = "users" /\ r.kind = "search" => ~user \/ r2.db \in Granted
    /\ conf.auth = "targets" /\ r.kind = "init" => r2.vhosts \subseteq Granted
Rejects(p, r) ==
    /\ r.kind \in {"init", "search", "scan"} /\ user' = user
    /\ \E kind \in {"refused", "diag"} : Reject(p, r, kind)

LEMMA AuthShape ==
  ASSUME IInv, NEW p \in Pkgs, Auth(p)
  PROVE  \E r : /\ IsRequest(r) /\ (conf.front = "sru" \/ closed[p] => r = req[p])
                /\ (\E r2 : Passes(p, r, r2)) \/ Rejects(p, r)
  <1>0. TypeInv /\ IsRequest(req[p]) /\ (conf.auth = "users" /\ passed => user)
        /\ user \in BOOLEAN /\ passed \in BOOLEAN /\ conf.auth \in {"none", "users", "targets"}
    BY ConfFacts DEF IInv, TypeInv, PkgType, AuthInv
  <1>1. PICK r : /\ r \in IF conf.front = "sru" \/ closed[p] THEN {req[p]} ELSE conf.asks
                 /\ \/ conf.auth = "users" /\ r.kind = "init" /\ process_init(p, r)
                    \/ conf.auth = "users" /\ r.kind \in {"search", "scan"} /\ process_search(p, r)
                    \/ conf.auth = "targets" /\ r.kind = "init" /\ check_targets(p, r)
                    \/ /\ \/ conf.auth = "none" \/ r.kind \notin {"init", "search", "scan"}
                          \/ conf.auth = "targets" /\ r.kind # "init"
                       /\ Pass(p, r)
                       /\ UNCHANGED user
    BY Zenon DEF Auth
  <1>2. IsRequest(r) /\ (conf.front = "sru" \/ closed[p] => r = req[p])
    <2>1. CASE conf.front = "sru" \/ closed[p]
      BY <1>0, <1>1, <2>1
    <2>2. CASE ~(conf.front = "sru" \/ closed[p])
      BY <1>0, <1>1, <2>2, ConfFacts DEF IsRequest
    <2> QED
      BY <2>1, <2>2
  <1>3. CASE conf.auth = "users" /\ r.kind = "init" /\ process_init(p, r)
    <2>1. CASE Pass(p, r) /\ user' = TRUE
      BY <1>0, <1>2, <1>3, <2>1 DEF Passes
    <2>2. CASE Reject(p, r, "refused") /\ UNCHANGED user
      BY <1>2, <1>3, <2>2 DEF Rejects
    <2> QED
      BY <1>3, <2>1, <2>2 DEF process_init
  <1>4. CASE conf.auth = "users" /\ r.kind \in {"search", "scan"} /\ process_search(p, r)
    <2>1. CASE (~user \/ r.db \in Granted) /\ Pass(p, r) /\ UNCHANGED user
      BY <1>0, <1>2, <1>4, <2>1 DEF Passes
    <2>2. CASE Reject(p, r, "diag") /\ UNCHANGED user
      BY <1>2, <1>4, <2>2 DEF Rejects
    <2> QED
      BY <1>4, <2>1, <2>2 DEF process_search
  <1>5. CASE conf.auth = "targets" /\ r.kind = "init" /\ check_targets(p, r)
    <2>1. PICK allowed : allowed = IF r.cred = "good" THEN r.vhosts \cap Granted ELSE {}
      OBVIOUS
    <2>2. CASE Reject(p, r, "refused") /\ UNCHANGED user
      BY <1>2, <1>5, <2>2 DEF Rejects
    <2>3. CASE Pass(p, [r EXCEPT !.vhosts = allowed]) /\ UNCHANGED user
      <3>1. PICK r2 : r2 = [r EXCEPT !.vhosts = allowed]
        OBVIOUS
      <3>2. IsRequest(r2) /\ r2.kind = r.kind /\ r2.vhosts = allowed
        BY <1>2, <1>5, <3>1 DEF IsRequest, IsAsk, None
      <3>3. allowed \subseteq Granted
        BY <2>1
      <3> QED
        BY <1>0, <1>2, <1>5, <2>3, <3>1, <3>2, <3>3 DEF Passes
    <2> QED
      BY <1>5, <2>1, <2>2, <2>3, Zenon DEF check_targets
  <1>6. CASE /\ \/ conf.auth = "none" \/ r.kind \notin {"init", "search", "scan"}
                \/ conf.auth = "targets" /\ r.kind # "init"
             /\ Pass(p, r)
             /\ UNCHANGED user
    BY <1>0, <1>2, <1>6 DEF Passes
  <1> QED
    BY <1>1, <1>3, <1>4, <1>5, <1>6, Zenon

LEMMA AuthStepInv ==
  ASSUME IInv, NEW p \in Pkgs, Auth(p), UNCHANGED sruVars
  PROVE  IInv'
  <1>0. TypeInv /\ PlaceInv /\ PkgInv(p) /\ (conf.auth = "users" /\ passed => user)
        /\ conf.front \in {"z3950", "sru"} /\ closed[p] \in BOOLEAN
    BY PkgInvs, ConfFacts DEF IInv, AuthInv, TypeInv
  <1>1. PICK r : /\ IsRequest(r) /\ (conf.front = "sru" \/ closed[p] => r = req[p])
                 /\ (\E r2 : Passes(p, r, r2)) \/ Rejects(p, r)
    BY AuthShape
  <1>2. /\ pc[p] = "auth" /\ early' = (IF passed THEN early ELSE early \cup {p})
        /\ UNCHANGED <<conf, got, ses, front, target, ended, crossed>>
        /\ UNCHANGED <<entry, job, unclosed>>
    BY DEF Auth, sruVars
  <1>3. closed[p] => r = None /\ r.kind = "none"
    BY <1>0, <1>1, <1>2 DEF PkgInv, Located, Down, None
  <1>4. early' \subseteq Pkgs /\ \A q \in Pkgs : q \in early => q \in early'
    BY <1>0, <1>2 DEF TypeInv
  <1>5. ASSUME NEW r2, Passes(p, r, r2)
        PROVE  IInv'
    <2>1. /\ pc' = [pc EXCEPT ![p] = "limit"] /\ req' = [req EXCEPT ![p] = r2]
          /\ passed' = (passed \/ r2.kind = "init") /\ late' = late
          /\ UNCHANGED <<closed, reply>>
      BY <1>5 DEF Passes, Pass, Go
    <2>2. pc'[p] = "limit" /\ req'[p] = r2 /\ \A q \in Pkgs \ {p} : Same(q)
      BY <1>0, <1>2, <2>1 DEF TypeInv, Same
    <2>3. r2.kind = r.kind /\ IsRequest(r2) /\ (r.kind # "init" => r2 = r)
      BY <1>5 DEF Passes
    <2>4. PkgType(p)'
      BY <1>0, <1>2, <2>1, <2>2, <2>3 DEF PkgInv, PkgType
    <2>5. Located(p)'
      BY <1>0, <1>1, <1>2, <1>3, <2>1, <2>2, <2>3 DEF PkgInv, Located, Busy, Down
    <2>6. Allowed(p)'
      <3>1. conf.auth = "users" /\ r2.kind = "search" => r2.db \in Granted \/ p \in early'
        BY <1>0, <1>2, <1>5 DEF Passes
      <3>2. conf.auth = "targets" /\ r2.kind = "init" => r2.vhosts \subseteq Granted
        BY <1>5 DEF Passes
      <3> QED
        BY <1>2, <2>2, <3>1, <3>2 DEF Allowed
    <2>7. Authed(p)'
      <3>1. r2.kind \in {"init", "search"} => reply[p].kind # r2.kind
        <4>1. CASE conf.front = "sru"
          BY <1>0, <1>1, <1>2, <2>3, <4>1 DEF PkgInv, Authed, Down
        <4>2. CASE conf.front = "z3950"
          BY <1>0, <1>2, <4>2 DEF PkgInv, Located
        <4> QED
          BY <1>0, <4>1, <4>2
      <3> QED
        BY <2>1, <2>2, <2>6, <3>1 DEF Authed
    <2>8. Ordered(p)'
      <3>1. ASSUME job[p].step = "present"
            PROVE  Presenting(p)'
        <4>1. Presenting(p) /\ job[p] # NoJob
          BY <1>0, <1>2, <3>1 DEF PkgInv, Ordered, Busy, Down, NoJob
        <4>2. conf.front = "sru"
          BY <1>0, <4>1 DEF PkgInv, Located
        <4>3. r2 = req[p]
          BY <1>1, <2>3, <4>1, <4>2 DEF Presenting
        <4> QED
          BY <1>2, <2>1, <2>2, <4>1, <4>3 DEF Presenting
      <3> QED
        BY <1>0, <1>2, <2>2, <3>1 DEF PkgInv, Ordered
    <2>9. \A q \in Pkgs : PkgInv(q)'
      BY <1>2, <1>4, <2>2, <2>4, <2>5, <2>7, <2>8, OnePackage DEF PkgInv
    <2>10. passed' \in BOOLEAN /\ user' \in BOOLEAN /\ (conf.auth = "users" /\ passed' => user')
      <3>1. passed' = (passed \/ r.kind = "init") /\ user' \in BOOLEAN
        BY <2>1, <2>3, <1>5 DEF Passes
      <3>2. conf.auth = "users" /\ (passed \/ r.kind = "init") => user'
        BY <1>5 DEF Passes
      <3> QED
        BY <3>1, <3>2
    <2>11. TypeInv'
      <3>1. pc' \in [Pkgs -> Place]
        BY <1>0, <2>1 DEF TypeInv, Place
      <3> QED
        BY <1>0, <1>2, <1>4, <2>1, <2>9, <2>10, <3>1 DEF TypeInv, PkgInv
    <2>12. ASSUME conf.front = "sru"
           PROVE  Forgetting(p)'
      BY <1>2, <2>1, <2>2, <2>12 DEF IInv, ForgetInv, Forgetting, Busy, Down
    <2>13. ASSUME conf.front = "z3950", ~late', NEW q \in Pkgs
           PROVE  Leaving(q)'
      <3>1. Leaving(q)
        BY <2>1, <2>13 DEF IInv, ForgetInv
      <3> QED
        BY <1>2, <2>1, <2>2, <3>1 DEF Leaving, Same, Past
    <2> QED
      BY <1>0, <1>2, <2>1, <2>2, <2>9, <2>10, <2>11, <2>12, <2>13, ChainStepInv
      DEF PlaceInv, Busy, Down
  <1>6. CASE Rejects(p, r)
    <2>1. PICK kind \in {"refused", "diag"} : Reject(p, r, kind)
      BY <1>6 DEF Rejects
    <2>2. PICK up : up = IF conf.front = "sru" THEN "back" ELSE "left"
      OBVIOUS
    <2>3. /\ pc' = [pc EXCEPT ![p] = up] /\ req' = [req EXCEPT ![p] = r]
          /\ reply' = [reply EXCEPT ![p] = Plain(kind)] /\ closed' = [closed EXCEPT ![p] = TRUE]
          /\ late' = (conf.front = "z3950") /\ passed' = passed /\ user' = user
      BY <1>6, <2>1, <2>2 DEF Rejects, Reject, Up, Go, Close
    <2>4. /\ pc'[p] = up /\ req'[p] = r /\ reply'[p] = Plain(kind) /\ closed'[p] = TRUE
          /\ \A q \in Pkgs \ {p} : Same(q)
      BY <1>0, <1>2, <2>3 DEF TypeInv, Same
    <2>5. r.kind \in {"init", "search", "scan"} /\ ~closed[p]
      BY <1>3, <1>6 DEF Rejects
    <2>6. IsReply(Plain(kind)) /\ Plain(kind).kind = kind
      BY PlainFacts
    <2>7. PkgType(p)'
      BY <1>0, <1>1, <1>2, <2>4, <2>6 DEF PkgInv, PkgType
    <2>8. Located(p)'
      BY <1>0, <1>1, <1>2, <2>2, <2>4, <2>5 DEF PkgInv, Located, Busy, Down, NoJob
    <2>9. Authed(p)'
      BY <2>2, <2>4, <2>5, <2>6 DEF Authed, Down
    <2>10. job[p].step # "present"
      <3> SUFFICES ASSUME job[p].step = "present"
                   PROVE  FALSE
        OBVIOUS
      <3>1. Presenting(p) /\ job[p] # NoJob
        BY <1>0, <1>2 DEF PkgInv, Ordered, Busy, Down, NoJob
      <3>2. conf.front = "sru"
        BY <1>0, <3>1 DEF PkgInv, Located
      <3> QED
        BY <1>1, <2>5, <3>1, <3>2 DEF Presenting
    <2>11. Ordered(p)'
      BY <1>0, <1>2, <2>1, <2>2, <2>4, <2>6, <2>10 DEF PkgInv, Ordered
    <2>12. \A q \in Pkgs : PkgInv(q)'
      BY <1>2, <1>4, <2>4, <2>7, <2>8, <2>9, <2>11, OnePackage DEF PkgInv
    <2>13. TypeInv'
      <3>1. pc' \in [Pkgs -> Place] /\ closed' \in [Pkgs -> BOOLEAN] /\ late' \in BOOLEAN
        BY <1>0, <2>2, <2>3 DEF TypeInv, Place
      <3> QED
        BY <1>0, <1>2, <1>4, <2>3, <2>12, <3>1 DEF TypeInv, PkgInv
    <2>14. ASSUME conf.front = "sru"
           PROVE  Forgetting(p)'
      BY <1>2, <2>2, <2>4, <2>5, <2>14 DEF IInv, ForgetInv, Forgetting, Busy, Down
    <2>15. /\ conf.front = "z3950" => late'
           /\ conf.front = "sru" => pc'[p] \in Busy
           /\ pc'[p] # "new" /\ pc[p] \in Busy /\ pc[p] # "new"
      <3>1. conf.front = "z3950" => late'
        BY <2>3, Zenon
      <3> QED
        BY <1>2, <2>2, <2>4, <3>1 DEF Busy, Down
    <2>16. /\ TargetOK(target') /\ FrontOK(front', target') /\ (~conf.sort => front' = NoFrontend)
           /\ (conf.front = "sru" => crossed' = {}) /\ (conf.auth = "users" /\ passed' => user')
      BY <1>0, <1>2, <2>3 DEF PlaceInv
    <2> QED
      BY <1>2, <2>4, <2>12, <2>13, <2>14, <2>15, <2>16, ChainStepInv
  <1> QED
    BY <1>1, <1>5, <1>6

LEMMA ChunksDoneInv ==
  ASSUME IInv, NEW p \in Pkgs, ChunksDone(p), UNCHANGED sruVars
  PROVE  IInv'
  <1>0. TypeInv /\ PlaceInv /\ PkgInv(p) /\ (conf.auth = "users" /\ passed => user)
        /\ conf.front \in {"z3950", "sru"} /\ closed[p] \in BOOLEAN
    BY PkgInvs, ConfFacts DEF IInv, AuthInv, TypeInv
  <1>1. /\ pc[p] = "serve" /\ Chunked(p) /\ Offset(p) >= req[p].number
        /\ pc' = [pc EXCEPT ![p] = "limitout"] /\ reply' = [reply EXCEPT ![p] = got[p]]
        /\ UNCHANGED <<conf, closed, req, got, user, ses, front, target, ended, passed, early,
                       crossed, late>>
        /\ UNCHANGED <<entry, job, unclosed>>
    BY DEF ChunksDone, Return, Go, sruVars
  <1>2. pc'[p] = "limitout" /\ reply'[p] = got[p] /\ \A q \in Pkgs \ {p} : Same(q)
    BY <1>0, <1>1 DEF TypeInv, Same
  <1>3. /\ req[p].kind = "present" /\ ~closed[p] /\ Gathering(p)
        /\ IsReply(got[p]) /\ got[p].kind = "present" /\ req[p].number \in Nat
    BY <1>0, <1>1, RequestFacts DEF Chunked, PkgInv, PkgType, Located, Ordered, Down, None
  <1>4. PkgType(p)'
    BY <1>0, <1>1, <1>2 DEF PkgInv, PkgType
  <1>5. Located(p)' /\ Authed(p)'
    BY <1>0, <1>1, <1>2, <1>3 DEF PkgInv, Located, Authed, Down, Busy
  <1>6. ASSUME req[p].start > 0
        PROVE  Replied(p)'
    <2>1. Len(got[p].recs) = req[p].number
      <3>1. Len(got[p].recs) \in Nat
        BY <1>3, SeqFacts DEF IsReply
      <3> QED
        BY <1>1, <1>3, <3>1 DEF Gathering, Offset
    <2>2. /\ Placed(got[p].recs, got[p].src, req[p].start)
          /\ p \notin crossed => HandOf(got[p].src, req[p])
      BY <1>3, <1>6 DEF Gathering
    <2>3. InOrder(got[p].recs, got[p].src, req[p].start,
                  p \in crossed \/ PastList(got[p].src, LastOf(req[p])))
      BY <1>0, <2>2, HandInOrder DEF HandOf, PlaceInv
    <2>4. conf.front = "sru" => HandOf(Orders(got[p]), req[p])
      <3> SUFFICES ASSUME conf.front = "sru"
                   PROVE  HandOf(Orders(got[p]), req[p])
        OBVIOUS
      <3>1. HandOf(got[p].src, req[p])
        BY <1>0, <2>2 DEF PlaceInv
      <3>2. Orders(got[p]) \subseteq got[p].src
        BY <1>3, OrdersFacts
      <3> QED
        BY <3>1, <3>2, Zenon DEF HandOf, AtHand
    <2>5. Len(got[p].recs) <= req[p].number
      BY <1>3, <2>1
    <2> QED
      BY <1>1, <1>2, <2>1, <2>3, <2>4, <2>5 DEF Replied, HandOf
  <1>7. Ordered(p)'
    <2>1. Presenting(p) => Presenting(p)'
      BY <1>1 DEF Presenting
    <2> QED
      BY <1>0, <1>1, <1>2, <1>3, <1>6, <2>1 DEF PkgInv, Ordered, Busy, Down
  <1>8. \A q \in Pkgs : PkgInv(q)'
    BY <1>1, <1>2, <1>4, <1>5, <1>7, OnePackage DEF PkgInv
  <1>9. TypeInv'
    <2>1. pc' \in [Pkgs -> Place]
      BY <1>0, <1>1 DEF TypeInv, Place
    <2> QED
      BY <1>0, <1>1, <1>8, <2>1 DEF TypeInv, PkgInv
  <1>10. ASSUME conf.front = "sru"
         PROVE  Forgetting(p)'
    <2>1. Forgetting(p)
      BY <1>10 DEF IInv, ForgetInv
    <2>2. job[p].step \notin {"close", "pass"}
      BY <1>1, <1>3, <2>1 DEF Forgetting, Busy, Down
    <2> QED
      BY <1>1, <1>2, <2>2 DEF Forgetting
  <1>11. ASSUME conf.front = "z3950", ~late', NEW q \in Pkgs
         PROVE  Leaving(q)'
    <2>1. Leaving(q)
      BY <1>1, <1>11 DEF IInv, ForgetInv
    <2> QED
      BY <1>1, <1>2, <1>3, <2>1 DEF Leaving, Same
  <1>12. /\ pc[p] \in Busy /\ pc[p] # "new" /\ pc'[p] # "new" /\ pc'[p] \in Busy
         /\ TargetOK(target') /\ FrontOK(front', target') /\ (~conf.sort => front' = NoFrontend)
         /\ (conf.front = "sru" => crossed' = {}) /\ (conf.auth = "users" /\ passed' => user')
    BY <1>0, <1>1, <1>2 DEF PlaceInv, Busy, Down
  <1> QED
    BY <1>1, <1>2, <1>8, <1>9, <1>10, <1>11, <1>12, ChainStepInv

LEMMA OtherInitInv ==
  ASSUME IInv, OtherInit, UNCHANGED sruVars
  PROVE  IInv'
  <1>1. /\ target' = [target EXCEPT !.named = TRUE]
        /\ UNCHANGED <<conf, pc, req, closed, reply, got, user, ses, front, ended, passed, early,
                       crossed, late>>
        /\ UNCHANGED <<entry, job, unclosed>>
    BY DEF OtherInit, sruVars
  <1>2. TargetOK(target') /\ target'.found = target.found /\ target'.up = target.up
    BY <1>1 DEF IInv, PlaceInv, TargetOK
  <1>3. FrontOK(front', target')
    BY <1>1, <1>2, FrontKept DEF IInv, PlaceInv
  <1>4. \A q \in Pkgs : Same(q) /\ PkgInv(q)
    BY <1>1, PkgInvs DEF Same
  <1>5. \A q \in Pkgs : PkgInv(q)'
    BY <1>1, <1>2, <1>4, SamePkgType, SameLocated, SameAuthed, SameOrdered DEF PkgInv
  <1>6. TypeInv' /\ AuthInv' /\ OrderInv'
    BY <1>1, <1>5 DEF IInv, TypeInv, AuthInv, OrderInv, PkgInv
  <1>7. PlaceInv'
    <2>1. OneBelow' <=> OneBelow
      BY <1>1 DEF OneBelow
    <2> QED
      BY <1>1, <1>2, <1>3, <1>5, <2>1 DEF IInv, PlaceInv, PkgInv
  <1>8. ForgetInv'
    <2>1. \A q \in Pkgs : (Leaving(q)' <=> Leaving(q)) /\ (Forgetting(q)' <=> Forgetting(q))
      BY <1>1, <1>2 DEF Leaving, Forgetting, Clean
    <2>2. Clean' <=> Clean
      BY <1>1, <1>2 DEF Clean
    <2> QED
      BY <1>1, <2>1, <2>2 DEF IInv, ForgetInv
  <1> QED
    BY <1>6, <1>7, <1>8 DEF IInv

\* The invariant after a step that leaves the filters below sru_z3950 as they are
LEMMA AboveStepInv ==
  ASSUME IInv, NEW p \in Pkgs,
         UNCHANGED <<conf, user, ses, front, target, passed, late>>,
         crossed' \subseteq crossed, \A q \in Pkgs \ {p} : q \in crossed => q \in crossed',
         \A q \in Pkgs \ {p} : Same(q), TypeInv', PkgInv(p)',
         \A q \in Pkgs \ {p} : q \in early => q \in early',
         conf.front = "z3950" => entry' = "none",
         conf.front = "sru" => OneBelow',
         ForgetInv'
  PROVE  IInv'
  <1>1. \A q \in Pkgs : PkgInv(q)'
    BY OnePackage
  <1>2. PlaceInv' /\ AuthInv' /\ OrderInv'
    BY <1>1 DEF IInv, PlaceInv, AuthInv, OrderInv, PkgInv
  <1> QED
    BY <1>2 DEF IInv

LEMMA PutInv ==
  ASSUME IInv, NEW end \in BOOLEAN, Put(end), UNCHANGED sruVars
  PROVE  IInv'
  <1>0. PICK p \in At("new") : /\ pc' = [pc EXCEPT ![p] = IF conf.front = "sru" THEN "wait" ELSE "auth"]
                               /\ closed' = [closed EXCEPT ![p] = end]
    BY DEF Put, Go
  <1>1. p \in Pkgs /\ pc[p] = "new" /\ TypeInv /\ PlaceInv /\ ForgetInv /\ PkgInv(p)
        /\ conf.front \in {"z3950", "sru"}
    BY <1>0, PkgInvs, ConfFacts DEF At, IInv
  <1>2. PICK up : up = IF conf.front = "sru" THEN "wait" ELSE "auth"
    OBVIOUS
  <1>3. /\ ended' = end
        /\ UNCHANGED <<conf, req, reply, got, user, ses, front, target, passed, early, crossed, late>>
        /\ UNCHANGED <<entry, job, unclosed>>
    BY DEF Put, chainVars, sruVars
  <1>4. pc'[p] = up /\ closed'[p] = end /\ \A q \in Pkgs \ {p} : Same(q)
    BY <1>0, <1>1, <1>2, <1>3 DEF TypeInv, Same
  <1>5. PkgType(p)'
    BY <1>1, <1>3 DEF PkgInv, PkgType
  <1>6. req[p] = None /\ reply[p].kind = "none" /\ job[p].step = "none" /\ req[p].kind = "none"
    BY <1>1 DEF PkgInv, Located, Busy, Down, None
  <1>7. Located(p)'
    BY <1>1, <1>2, <1>3, <1>4, <1>6 DEF PkgInv, Located, Busy, Down
  <1>8. Authed(p)' /\ Ordered(p)'
    BY <1>2, <1>3, <1>4, <1>6 DEF Authed, Ordered, Down
  <1>9. TypeInv'
    <2>1. pc' \in [Pkgs -> Place] /\ closed' \in [Pkgs -> BOOLEAN]
      BY <1>0, <1>1 DEF TypeInv, Place
    <2>2. \A q \in Pkgs : PkgType(q)'
      BY <1>1, <1>4, <1>5, SamePkgType DEF TypeInv
    <2> QED
      BY <1>1, <1>3, <2>1, <2>2 DEF TypeInv
  <1>10. conf.front = "sru" => OneBelow'
    BY <1>1, <1>2, <1>3, <1>4 DEF PlaceInv, OneBelow, Same, Busy, Down
  <1>11. ForgetInv'
    <2>1. ASSUME conf.front = "z3950", ended'
          PROVE  \E q \in Pkgs : closed'[q] /\ pc'[q] # "new"
      BY <1>1, <1>2, <1>3, <1>4, <2>1
    <2>2. ASSUME conf.front = "z3950", ~late', NEW q \in Pkgs
          PROVE  Leaving(q)'
      <3>1. Leaving(q)
        BY <1>1, <1>3, <2>2 DEF ForgetInv
      <3> QED
        BY <1>1, <1>2, <1>3, <1>4, <3>1 DEF Leaving, Past, Same
    <2>3. Clean' <=> Clean
      BY <1>3 DEF Clean
    <2>4. ASSUME conf.front = "sru", NEW q \in Pkgs
          PROVE  Forgetting(q)'
      <3>1. Forgetting(q)
        BY <1>1, <2>4 DEF ForgetInv
      <3> QED
        BY <1>1, <1>2, <1>3, <1>4, <2>3, <2>4, <3>1 DEF Forgetting, Same, Busy, Down
    <2> QED
      BY <1>1, <1>3, <2>1, <2>2, <2>3, <2>4 DEF ForgetInv
  <1> QED
    BY <1>1, <1>3, <1>4, <1>5, <1>7, <1>8, <1>9, <1>10, <1>11, AboveStepInv DEF PkgInv, PlaceInv

LEMMA ResultInv ==
  ASSUME IInv, NEW p \in Pkgs, Result(p), UNCHANGED sruVars
  PROVE  IInv'
  <1>0. TypeInv /\ PlaceInv /\ ForgetInv /\ PkgInv(p) /\ conf.front \in {"z3950", "sru"}
    BY PkgInvs, ConfFacts DEF IInv
  <1>1. /\ pc[p] = "left" /\ pc' = [pc EXCEPT ![p] = "answered"]
        /\ ended' = (ended \/ (closed[p] /\ InPool = {p}))
        /\ req' = [req EXCEPT ![p] = None] /\ reply' = [reply EXCEPT ![p] = Plain("none")]
        /\ got' = [got EXCEPT ![p] = Plain("present")]
        /\ early' = early \ {p} /\ crossed' = crossed \ {p}
        /\ UNCHANGED <<conf, closed, user, ses, front, target, passed, late>>
        /\ UNCHANGED <<entry, job, unclosed>>
    BY DEF Result, Go, sruVars
  <1>2. /\ pc'[p] = "answered" /\ req'[p] = None /\ reply'[p] = Plain("none")
        /\ got'[p] = Plain("present") /\ closed[p] \in BOOLEAN
        /\ \A q \in Pkgs \ {p} : Same(q)
    BY <1>0, <1>1 DEF TypeInv, Same
  <1>3. PkgType(p)'
    <2>1. IsRequest(None)
      BY DEF IsRequest
    <2> QED
      BY <1>0, <1>1, <1>2, <2>1, PlainFacts, EmptyIsSeq, SortedTargetAssumption DEF PkgInv, PkgType
  <1>4. Located(p)'
    BY <1>0, <1>1, <1>2 DEF PkgInv, Located, Busy, Down, None
  <1>5. Authed(p)' /\ Ordered(p)'
    BY <1>0, <1>1, <1>2, PlainFacts DEF PkgInv, Located, Authed, Ordered, Busy, Down, None
  <1>6. TypeInv'
    <2>1. pc' \in [Pkgs -> Place]
      BY <1>0, <1>1 DEF TypeInv, Place
    <2>2. \A q \in Pkgs : PkgType(q)'
      BY <1>0, <1>2, <1>3, SamePkgType DEF TypeInv
    <2>3. ended' \in BOOLEAN
      BY <1>0, <1>1, <1>2 DEF TypeInv
    <2> QED
      BY <1>0, <1>1, <2>1, <2>2, <2>3 DEF TypeInv
  <1>7. conf.front = "sru" => OneBelow'
    BY <1>0, <1>1, <1>2 DEF PlaceInv, OneBelow, Same, Busy, Down
  <1>8. ForgetInv'
    <2>1. ASSUME conf.front = "z3950", ended'
          PROVE  \E q \in Pkgs : closed'[q] /\ pc'[q] # "new"
      <3>1. CASE closed[p]
        BY <1>1, <1>2, <3>1
      <3>2. CASE ~closed[p]
        <4>1. ended
          BY <1>1, <2>1, <3>2
        <4>2. PICK q \in Pkgs : closed[q] /\ pc[q] # "new"
          BY <1>0, <2>1, <4>1 DEF ForgetInv
        <4>3. closed'[q] /\ pc'[q] # "new"
          BY <1>1, <1>2, <4>2 DEF Same
        <4> QED
          BY <4>3
      <3> QED
        BY <3>1, <3>2
    <2>2. ASSUME conf.front = "z3950", ~late', NEW q \in Pkgs
          PROVE  Leaving(q)'
      <3>1. Leaving(q)
        BY <1>0, <1>1, <2>2 DEF ForgetInv
      <3> QED
        BY <1>1, <1>2, <3>1 DEF Leaving, Past, Same
    <2>3. Clean' <=> Clean
      BY <1>1 DEF Clean
    <2>4. ASSUME conf.front = "sru", NEW q \in Pkgs
          PROVE  Forgetting(q)'
      <3>1. Forgetting(q)
        BY <1>0, <2>4 DEF ForgetInv
      <3> QED
        BY <1>1, <1>2, <2>3, <2>4, <3>1 DEF Forgetting, Same, Busy, Down
    <2> QED
      BY <1>0, <1>1, <2>1, <2>2, <2>3, <2>4 DEF ForgetInv
  <1> QED
    BY <1>0, <1>1, <1>2, <1>3, <1>4, <1>5, <1>6, <1>7, <1>8, AboveStepInv DEF PkgInv, PlaceInv

\* Steps of sru_z3950 are not those of other front ends.
LEMMA InSru ==
  ASSUME IInv, NEW p \in Pkgs, pc[p] \in {"wait", "sru", "back", "release"}
  PROVE  conf.front = "sru"
  BY PkgInvs, ConfFacts DEF PkgInv, Located, IInv

LEMMA GetFrontendInv ==
  ASSUME IInv, NEW p \in Pkgs, GetFrontend(p)
  PROVE  IInv'
  <1>1. /\ pc[p] = "wait" /\ entry # "used" /\ entry' = "used" /\ pc' = [pc EXCEPT ![p] = "sru"]
        /\ UNCHANGED <<closed, req, job, unclosed>>
        /\ UNCHANGED <<conf, reply, got, user, ses, front, target, passed, early, crossed, late, ended>>
    BY DEF GetFrontend, Go, unchangedBelow
  <1>0. TypeInv /\ PlaceInv /\ ForgetInv /\ PkgInv(p) /\ conf.front = "sru"
    BY <1>1, PkgInvs, InSru DEF IInv
  <1>2. pc'[p] = "sru" /\ \A q \in Pkgs \ {p} : Same(q)
    BY <1>0, <1>1 DEF TypeInv, Same
  <1>3. PkgType(p)'
    BY <1>0, <1>1 DEF PkgInv, PkgType
  <1>4. req[p] = None /\ reply[p].kind = "none" /\ job[p].step = "none" /\ req[p].kind = "none"
    BY <1>0, <1>1 DEF PkgInv, Located, Busy, Down, None
  <1>5. Located(p)' /\ Authed(p)' /\ Ordered(p)'
    BY <1>0, <1>1, <1>2, <1>4 DEF Located, Authed, Ordered, Down, Busy
  <1>6. TypeInv'
    <2>1. pc' \in [Pkgs -> Place]
      BY <1>0, <1>1 DEF TypeInv, Place
    <2>2. \A q \in Pkgs : PkgType(q)'
      BY <1>0, <1>2, <1>3, SamePkgType DEF TypeInv
    <2> QED
      BY <1>0, <1>1, <2>1, <2>2 DEF TypeInv
  <1>7. \A q \in Pkgs : pc[q] \notin Busy
    BY <1>0, <1>1 DEF PlaceInv, OneBelow
  <1>8. OneBelow'
    BY <1>1, <1>2, <1>7 DEF OneBelow, Same, Busy
  <1>9. ForgetInv'
    <2>1. Clean \/ unclosed
      BY <1>0, <1>1 DEF ForgetInv
    <2>2. (Clean \/ unclosed)'
      BY <1>1, <2>1 DEF Clean
    <2>3. Forgetting(p)'
      BY <1>1, <1>2, <1>4, <2>2 DEF Forgetting
    <2>4. \A q \in Pkgs : Forgetting(q)'
      BY <1>2, <1>7, <2>3, SameForgetting
    <2> QED
      BY <1>0, <1>1, <2>4 DEF ForgetInv
  <1> QED
    BY <1>0, <1>1, <1>2, <1>3, <1>5, <1>6, <1>8, <1>9, AboveStepInv DEF PkgInv

LEMMA ReleaseFrontendInv ==
  ASSUME IInv, NEW p \in Pkgs, ReleaseFrontend(p)
  PROVE  IInv'
  <1>1. /\ pc[p] = "release" /\ entry' = (IF closed[p] THEN "none" ELSE "idle")
        /\ job' = [job EXCEPT ![p] = NoJob] /\ pc' = [pc EXCEPT ![p] = "left"]
        /\ UNCHANGED <<closed, req, unclosed>>
        /\ UNCHANGED <<conf, reply, got, user, ses, front, target, passed, early, crossed, late, ended>>
    BY DEF ReleaseFrontend, Go, unchangedBelow
  <1>0. TypeInv /\ PlaceInv /\ ForgetInv /\ PkgInv(p) /\ conf.front = "sru"
    BY <1>1, PkgInvs, InSru DEF IInv
  <1>2. pc'[p] = "left" /\ job'[p] = NoJob /\ \A q \in Pkgs \ {p} : Same(q)
    BY <1>0, <1>1 DEF TypeInv, Same
  <1>3. PkgType(p)' /\ NoJob.step = "none"
    <2>1. IsJob(NoJob)
      BY EmptyIsSeq DEF IsJob, NoJob
    <2> QED
      BY <1>0, <1>1, <1>2, <2>1 DEF PkgInv, PkgType, NoJob
  <1>4. req[p].kind # "present"
    BY <1>0, <1>1 DEF PkgInv, Located
  <1>5. Located(p)' /\ Authed(p)' /\ Ordered(p)'
    BY <1>0, <1>1, <1>2, <1>3, <1>4 DEF PkgInv, Located, Authed, Allowed, Ordered, Down, Busy
  <1>6. TypeInv'
    <2>1. pc' \in [Pkgs -> Place] /\ entry' \in {"none", "idle", "used"} /\ DOMAIN job' = Pkgs
      BY <1>0, <1>1 DEF TypeInv, Place
    <2>2. \A q \in Pkgs : PkgType(q)'
      BY <1>0, <1>2, <1>3, SamePkgType DEF TypeInv
    <2> QED
      BY <1>0, <1>1, <2>1, <2>2 DEF TypeInv
  <1>7. \A q \in Pkgs \ {p} : pc[q] \notin Busy
    BY <1>0, <1>1, NotBusy DEF Busy
  <1>8. OneBelow'
    BY <1>1, <1>2, <1>7 DEF OneBelow, Same, Busy, Down
  <1>9. ForgetInv'
    <2>1. Clean \/ unclosed
      BY <1>0, <1>1 DEF ForgetInv, Forgetting
    <2>2. (Clean \/ unclosed)'
      BY <1>1, <2>1 DEF Clean
    <2>3. Forgetting(p)'
      BY <1>1, <1>2, <1>3 DEF Forgetting
    <2>4. \A q \in Pkgs : Forgetting(q)'
      BY <1>2, <1>7, <2>3, SameForgetting
    <2> QED
      BY <1>0, <1>1, <2>2, <2>4 DEF ForgetInv
  <1> QED
    BY <1>0, <1>1, <1>2, <1>3, <1>5, <1>6, <1>8, <1>9, AboveStepInv DEF PkgInv

-----------------------------------------------------------------------------
(* Steps of sru_z3950.                                                     *)

LEMMA SruStepInv ==
  ASSUME IInv, NEW p \in Pkgs, pc[p] \in {"sru", "back"}, pc' \in [Pkgs -> Place],
         closed' \in [Pkgs -> BOOLEAN], DOMAIN req' = Pkgs, DOMAIN job' = Pkgs,
         unclosed' \in BOOLEAN, unchangedBelow, entry' = entry,
         \A q \in Pkgs \ {p} : Same(q), pc'[p] \in Busy, PkgInv(p)', Forgetting(p)'
  PROVE  IInv'
  <1>0. TypeInv /\ PlaceInv /\ conf.front = "sru" /\ pc[p] \in Busy
    BY InSru DEF IInv, Busy
  <1>1. UNCHANGED <<conf, reply, got, user, ses, front, target, passed, early, crossed, late, ended>>
    BY DEF unchangedBelow
  <1>2. OneBelow'
    BY <1>0, StillOneBelow DEF PlaceInv
  <1>3. entry' = "used"
    BY <1>0 DEF PlaceInv, OneBelow
  <1>4. ForgetInv'
    <2>1. \A q \in Pkgs \ {p} : pc[q] \notin Busy
      BY <1>0, NotBusy
    <2>2. \A q \in Pkgs : Forgetting(q)'
      BY <2>1, SameForgetting
    <2> QED
      BY <1>0, <1>1, <1>3, <2>2 DEF ForgetInv
  <1>5. TypeInv'
    <2>1. \A q \in Pkgs : PkgType(q)'
      BY <1>0, SamePkgType DEF TypeInv, PkgInv
    <2> QED
      BY <1>0, <1>1, <1>3, <2>1 DEF TypeInv
  <1> QED
    BY <1>0, <1>1, <1>2, <1>4, <1>5, AboveStepInv

\* What of a job decides which records are wanted
LEMMA SameWanted ==
  ASSUME NEW j, NEW k, k.start = j.start, k.max = j.max
  PROVE  max_recs(k) = max_recs(j) /\ Wanted(k) = Wanted(j) /\ LastWanted(k) = LastWanted(j)
  BY DEF max_recs, Most, Wanted, LastWanted

\* No records are in order.
LEMMA EmptyInOrder ==
  ASSUME NEW start, NEW mix
  PROVE  InOrder(<< >>, {}, start, mix)
  BY FS_EmptySet, EmptyIsSeq DEF InOrder

JobInv(j) ==
    /\ j.step \in {"init", "search"} => j.recs = << >> /\ j.src = {}
    /\ j.step \in {"present", "close"} => JobOrdered(j)

\* A package is sent down the chain.
LEMMA SendInv ==
  ASSUME IInv, NEW p \in Pkgs, pc[p] \in {"sru", "back"}, NEW r, NEW j, Send(p, r, j),
         unclosed' \in BOOLEAN, unchangedBelow, IsRequest(r), IsJob(j),
         j.step \in {"init", "search", "present", "close"}, j.step = "close" => r = None,
         r.kind = "present" => j.step = "present",
         r.kind \in {"init", "search"} => reply[p].kind # r.kind,
         JobInv(j), j.step = "present" => Presenting(p)'
  PROVE  IInv'
  <1>0. TypeInv /\ PkgInv(p) /\ conf.front = "sru"
    BY PkgInvs, InSru DEF IInv
  <1>1. /\ req' = [req EXCEPT ![p] = r] /\ closed' = [closed EXCEPT ![p] = j.step = "close"]
        /\ job' = [job EXCEPT ![p] = j] /\ pc' = [pc EXCEPT ![p] = "auth"] /\ entry' = entry
        /\ UNCHANGED <<conf, reply, got, user, ses, front, target, passed, early, crossed, late, ended>>
    BY DEF Send, Go, unchangedBelow
  <1>2. /\ req'[p] = r /\ job'[p] = j /\ pc'[p] = "auth" /\ closed'[p] = (j.step = "close")
        /\ reply'[p] = reply[p] /\ got'[p] = got[p] /\ \A q \in Pkgs \ {p} : Same(q)
    BY <1>0, <1>1 DEF TypeInv, Same
  <1>3. /\ pc' \in [Pkgs -> Place] /\ closed' \in [Pkgs -> BOOLEAN]
        /\ DOMAIN req' = Pkgs /\ DOMAIN job' = Pkgs
    BY <1>0, <1>1 DEF TypeInv, Place
  <1>4. closed'[p] <=> j.step = "close"
    BY <1>2, <1>3, Zenon
  <1>5. PkgType(p)'
    BY <1>0, <1>2 DEF PkgInv, PkgType
  <1>6. Located(p)'
    BY <1>0, <1>1, <1>2, <1>4 DEF Located, Busy, Down
  <1>7. Authed(p)'
    BY <1>2 DEF Authed
  <1>8. Ordered(p)'
    BY <1>2 DEF Ordered, JobInv
  <1>9. Forgetting(p)'
    BY <1>2, <1>4 DEF Forgetting
  <1>10. pc'[p] \in Busy
    BY <1>2 DEF Busy, Down
  <1> QED
    BY <1>1, <1>2, <1>3, <1>5, <1>6, <1>7, <1>8, <1>9, <1>10, SruStepInv DEF PkgInv

\* The HTTP request is answered.
LEMMA RespondInv ==
  ASSUME IInv, NEW p \in Pkgs, pc[p] \in {"sru", "back"}, NEW j, Respond(p, j),
         unclosed' \in BOOLEAN, unchangedBelow, IsJob(j), j.step # "present",
         job[p].step # "present", JobInv(j), Clean \/ unclosed'
  PROVE  IInv'
  <1>0. TypeInv /\ PkgInv(p) /\ conf.front = "sru"
    BY PkgInvs, InSru DEF IInv
  <1>1. PICK close \in BOOLEAN : closed' = [closed EXCEPT ![p] = close]
    BY DEF Respond
  <1>2. /\ job' = [job EXCEPT ![p] = j] /\ pc' = [pc EXCEPT ![p] = "release"]
        /\ entry' = entry /\ req' = req
        /\ UNCHANGED <<conf, reply, got, user, ses, front, target, passed, early, crossed, late, ended>>
    BY DEF Respond, Go, unchangedBelow
  <1>3. job'[p] = j /\ pc'[p] = "release" /\ \A q \in Pkgs \ {p} : Same(q)
    BY <1>0, <1>1, <1>2 DEF TypeInv, Same
  <1>4. /\ pc' \in [Pkgs -> Place] /\ closed' \in [Pkgs -> BOOLEAN]
        /\ DOMAIN req' = Pkgs /\ DOMAIN job' = Pkgs
    BY <1>0, <1>1, <1>2 DEF TypeInv, Place
  <1>5. PkgType(p)'
    BY <1>0, <1>2, <1>3 DEF PkgInv, PkgType
  <1>6. req[p].kind # "present"
    BY <1>0 DEF PkgInv, Located
  <1>7. Located(p)'
    BY <1>0, <1>2, <1>3, <1>6 DEF Located, Busy, Down
  <1>8. Authed(p)'
    BY <1>0, <1>2, <1>3 DEF PkgInv, Authed, Allowed, Down
  <1>9. Ordered(p)'
    BY <1>3 DEF Ordered, JobInv
  <1>10. Forgetting(p)'
    <2>1. Clean' <=> Clean
      BY <1>2 DEF Clean
    <2> QED
      BY <1>3, <2>1 DEF Forgetting
  <1>11. pc'[p] \in Busy
    BY <1>3 DEF Busy
  <1> QED
    BY <1>2, <1>3, <1>4, <1>5, <1>7, <1>8, <1>9, <1>10, <1>11, SruStepInv DEF PkgInv

LEMMA SruInv ==
  ASSUME IInv, NEW p \in Pkgs, Sru(p)
  PROVE  IInv'
  <1>1. pc[p] = "sru" /\ unchangedBelow
    BY DEF Sru
  <1>0. TypeInv /\ PlaceInv /\ ForgetInv /\ PkgInv(p) /\ conf.front = "sru" /\ closed[p] \in BOOLEAN
        /\ unclosed \in BOOLEAN
    BY <1>1, PkgInvs, InSru DEF IInv, TypeInv
  <1>2. req[p] = None /\ req[p].kind = "none" /\ reply[p].kind = "none" /\ (Clean \/ unclosed)
    BY <1>0, <1>1 DEF PkgInv, Located, None, ForgetInv, Forgetting
  <1>3. IsJob(NoJob) /\ NoJob.step = "none"
    BY EmptyIsSeq DEF IsJob, NoJob
  <1>4. CASE /\ closed[p]
             /\ job' = [job EXCEPT ![p] = [NoJob EXCEPT !.step = "pass"]]
             /\ Go(p, "auth")
             /\ UNCHANGED <<closed, req, entry>>
             /\ unclosed' = FALSE
    <2>1. PICK j : j = [NoJob EXCEPT !.step = "pass"]
      OBVIOUS
    <2>2. IsJob(j) /\ j.step = "pass"
      BY <2>1, EmptyIsSeq DEF NoJob, IsJob
    <2>3. UNCHANGED <<conf, reply, got, user, ses, front, target, passed, early, crossed, late, ended>>
      BY <1>1 DEF unchangedBelow
    <2>4. job'[p] = j /\ pc'[p] = "auth" /\ \A q \in Pkgs \ {p} : Same(q)
      BY <1>0, <1>4, <2>1, <2>3 DEF TypeInv, Same, Go
    <2>5. /\ pc' \in [Pkgs -> Place] /\ closed' \in [Pkgs -> BOOLEAN]
          /\ DOMAIN req' = Pkgs /\ DOMAIN job' = Pkgs
      BY <1>0, <1>4 DEF TypeInv, Place, Go
    <2>6. PkgType(p)'
      BY <1>0, <1>4, <2>2, <2>3, <2>4 DEF PkgInv, PkgType
    <2>7. Located(p)' /\ Authed(p)' /\ Ordered(p)'
      BY <1>0, <1>2, <1>4, <2>2, <2>3, <2>4 DEF Located, Authed, Ordered, Busy, Down
    <2>8. Forgetting(p)' /\ pc'[p] \in Busy
      BY <1>4, <2>4 DEF Forgetting, Busy, Down
    <2> QED
      BY <1>1, <1>4, <2>4, <2>5, <2>6, <2>7, <2>8, SruStepInv DEF PkgInv
  <1>5. CASE ~closed[p] /\ Respond(p, NoJob) /\ UNCHANGED unclosed
    <2>1. job[p].step # "present"
      <3> SUFFICES ASSUME job[p].step = "present"
                   PROVE  FALSE
        OBVIOUS
      <3>1. Presenting(p)
        BY <1>0, <1>1 DEF PkgInv, Ordered, Busy
      <3> QED
        BY <1>2, <3>1 DEF Presenting
    <2>2. JobInv(NoJob)
      BY <1>3 DEF JobInv
    <2> QED
      BY <1>0, <1>1, <1>2, <1>3, <1>5, <2>1, <2>2, RespondInv
  <1>6. ASSUME ~closed[p], NEW h \in HttpRequests, NEW cred \in {"good", "bad"},
               Send(p, InitRequest(cred), [NoJob EXCEPT !.step = "init", !.start = h.start,
                                                        !.max = h.max]),
               UNCHANGED unclosed
        PROVE  IInv'
    <2>1. PICK j : j = [NoJob EXCEPT !.step = "init", !.start = h.start, !.max = h.max]
      OBVIOUS
    <2>2. h.start \in Nat /\ h.max \in Nat
      BY GatewayAssumption
    <2>3. IsJob(j) /\ j.step = "init" /\ j.recs = << >> /\ j.src = {}
      BY <2>1, <2>2, EmptyIsSeq DEF NoJob, IsJob
    <2>4. IsRequest(InitRequest(cred)) /\ InitRequest(cred).kind = "init"
      BY DEF InitRequest, IsRequest, IsAsk
    <2>5. Send(p, InitRequest(cred), j) /\ unclosed' \in BOOLEAN /\ JobInv(j)
      BY <1>0, <1>6, <2>1, <2>3 DEF JobInv
    <2> QED
      BY <1>1, <1>2, <2>3, <2>4, <2>5, SendInv
  <1> QED
    BY <1>4, <1>5, <1>6 DEF Sru

\* The last package of an HTTP request is sent when its records are in order.
LEMMA CloseInv ==
  ASSUME IInv, NEW p \in Pkgs, pc[p] = "back", NEW j, SendClose(p, j), UNCHANGED unclosed,
         unchangedBelow, IsJob(j),
         j.start > 0 => /\ InOrder(j.recs, j.src, j.start, PastList(j.src, LastWanted(j)))
                        /\ j.end = "whole" => Len(j.recs) = Cardinality(Wanted(j))
  PROVE  IInv'
  <1>1. PICK k : k = [j EXCEPT !.step = "close"]
    OBVIOUS
  <1>2. /\ IsJob(k) /\ k.step = "close" /\ k.start = j.start /\ k.max = j.max
        /\ k.recs = j.recs /\ k.src = j.src /\ k.end = j.end
    BY <1>1 DEF IsJob
  <1>3. Wanted(k) = Wanted(j) /\ LastWanted(k) = LastWanted(j)
    BY <1>2, SameWanted
  <1>4. JobInv(k)
    BY <1>2, <1>3 DEF JobInv, JobOrdered
  <1>5. Send(p, None, k) /\ IsRequest(None) /\ None.kind = "none" /\ unclosed' \in BOOLEAN
    BY <1>1 DEF SendClose, IsRequest, None, IInv, TypeInv
  <1> QED
    BY <1>2, <1>4, <1>5, SendInv

LEMMA FailedFacts ==
  ASSUME NEW j, IsJob(j), NEW k, k = Failed(j) \/ k = Stopped(j)
  PROVE  /\ IsJob(k) /\ k.step = j.step /\ k.start = j.start /\ k.max = j.max
         /\ k.recs = j.recs /\ k.src = j.src /\ k.end # "whole"
  <1>1. CASE k = Failed(j)
    BY <1>1 DEF Failed, IsJob
  <1>2. CASE k = Stopped(j)
    BY <1>2 DEF Stopped, IsJob
  <1> QED
    BY <1>1, <1>2

\* The records so far stay in order, whatever becomes of the rest.
LEMMA FailedClose ==
  ASSUME IInv, NEW p \in Pkgs, pc[p] = "back", UNCHANGED unclosed, unchangedBelow,
         SendClose(p, Failed(job[p])) \/ SendClose(p, Stopped(job[p])),
         job[p].step \in {"init", "search", "present"}
  PROVE  IInv'
  <1>1. PkgInv(p)
    BY PkgInvs
  <1>2. PICK j : (j = Failed(job[p]) \/ j = Stopped(job[p])) /\ SendClose(p, j)
    OBVIOUS
  <1>3. /\ IsJob(j) /\ j.step = job[p].step /\ j.start = job[p].start /\ j.max = job[p].max
        /\ j.recs = job[p].recs /\ j.src = job[p].src /\ j.end # "whole"
    BY <1>1, <1>2, FailedFacts DEF PkgInv, PkgType
  <1>4. LastWanted(j) = LastWanted(job[p])
    BY <1>3, SameWanted
  <1>5. j.start > 0 => InOrder(j.recs, j.src, j.start, PastList(j.src, LastWanted(j)))
    <2>1. CASE job[p].step \in {"init", "search"}
      BY <1>1, <1>3, <2>1, EmptyInOrder DEF PkgInv, Ordered
    <2>2. CASE job[p].step = "present"
      BY <1>1, <1>3, <1>4, <2>2 DEF PkgInv, Ordered, JobOrdered
    <2> QED
      BY <2>1, <2>2
  <1> QED
    BY <1>2, <1>3, <1>5, CloseInv

LEMMA PresentRequestFacts ==
  ASSUME NEW j, IsJob(j), Len(j.recs) < max_recs(j)
  PROVE  /\ IsRequest(PresentRequest(j)) /\ PresentRequest(j).kind = "present"
         /\ ~PresentRequest(j).named /\ PresentRequest(j).syntax = "xml"
         /\ PresentRequest(j).start = j.start + Len(j.recs)
         /\ PresentRequest(j).number = max_recs(j) - Len(j.recs)
  <1>1. Len(j.recs) \in Nat /\ j.start \in Nat /\ max_recs(j) \in Int
    BY SeqFacts, WantedFacts DEF IsJob
  <1>2. PICK start \in Nat : start = j.start + Len(j.recs)
    BY <1>1
  <1>3. PICK number \in Nat : number = max_recs(j) - Len(j.recs)
    BY <1>1
  <1>4. PresentRequest(j) = [kind |-> "present", named |-> FALSE, syntax |-> "xml",
                             start |-> start, number |-> number]
    BY <1>2, <1>3 DEF PresentRequest
  <1> QED
    BY <1>2, <1>3, <1>4 DEF IsRequest, IsAsk

\* sru_z3950 asks for the rest of the records.
LEMMA PresentInv ==
  ASSUME IInv, NEW p \in Pkgs, pc[p] = "back", NEW j, NEW k, Send(p, PresentRequest(j), k),
         UNCHANGED unclosed, unchangedBelow, IsJob(j), IsJob(k), k.step = "present",
         k.start = j.start, k.max = j.max, k.recs = j.recs, k.src = j.src,
         j.start <= Hits, j.max > 0, Len(j.recs) < max_recs(j), j.recs = << >> => j.src = {},
         j.start > 0 => /\ InOrder(j.recs, j.src, j.start, PastList(j.src, LastWanted(j)))
                        /\ AtHand(j.src, front, target, FALSE, "xml", LastWanted(j))
  PROVE  IInv'
  <1>1. PICK r : r = PresentRequest(j)
    OBVIOUS
  <1>2. /\ IsRequest(r) /\ r.kind = "present" /\ ~r.named /\ r.syntax = "xml"
        /\ r.start = j.start + Len(j.recs) /\ r.number = max_recs(j) - Len(j.recs)
    BY <1>1, PresentRequestFacts
  <1>3. max_recs(k) = max_recs(j) /\ LastWanted(k) = LastWanted(j)
    BY SameWanted
  <1>4. JobInv(k)
    BY <1>3 DEF JobInv, JobOrdered
  <1>5. TypeInv /\ unclosed' \in BOOLEAN
    BY DEF IInv, TypeInv
  <1>6. /\ req'[p] = r /\ job'[p] = k /\ front' = front /\ target' = target
    BY <1>1, <1>5 DEF Send, unchangedBelow, TypeInv
  <1>7. Len(j.recs) \in Nat /\ max_recs(j) \in Int
    BY SeqFacts, WantedFacts DEF IsJob
  <1>8. r.number <= max_recs(k) - Len(k.recs)
    BY <1>2, <1>3, <1>7
  <1>9. Presenting(p)'
    BY <1>2, <1>3, <1>6, <1>8 DEF Presenting
  <1> QED
    BY <1>1, <1>2, <1>4, <1>5, <1>9, SendInv

LEMMA InitBackInv ==
  ASSUME IInv, NEW p \in Pkgs, pc[p] = "back", job[p].step = "init", InitBack(p, job[p]),
         unchangedBelow
  PROVE  IInv'
  <1>1. PkgInv(p) /\ unclosed \in BOOLEAN
    BY PkgInvs DEF IInv, TypeInv
  <1>2. IsJob(job[p]) /\ job[p].recs = << >> /\ job[p].src = {}
    BY <1>1 DEF PkgInv, PkgType, Ordered
  <1>3. CASE Respond(p, Failed(job[p])) /\ unclosed' = TRUE
    <2>1. PICK j : j = Failed(job[p])
      OBVIOUS
    <2>2. /\ IsJob(j) /\ j.step = "init" /\ JobInv(j)
      <3>1. PICK k : k = job[p] /\ IsJob(k) /\ k.step = "init" /\ k.recs = << >> /\ k.src = {}
        BY <1>2
      <3>2. j = Failed(k)
        BY <2>1, <3>1
      <3>3. IsJob(j) /\ j.step = "init" /\ j.recs = << >> /\ j.src = {}
        BY <3>1, <3>2, FailedFacts, Zenon
      <3>4. j.step # "present" /\ j.step # "close"
        BY <3>3
      <3> QED
        BY <3>3, <3>4, Zenon DEF JobInv
    <2> QED
      BY <1>3, <2>1, <2>2, RespondInv
  <1>4. CASE /\ reply[p].kind = "init" /\ Send(p, SearchRequest, [job[p] EXCEPT !.step = "search"])
             /\ unclosed' = unclosed
    <2>1. PICK j : j = [job[p] EXCEPT !.step = "search"]
      OBVIOUS
    <2>2. IsJob(j) /\ j.step = "search" /\ JobInv(j)
      BY <1>2, <2>1 DEF IsJob, JobInv
    <2>3. IsRequest(SearchRequest) /\ SearchRequest.kind = "search"
      BY DEF IsRequest, IsAsk, SearchRequest
    <2> QED
      BY <1>1, <1>4, <2>1, <2>2, <2>3, SendInv
  <1>5. CASE SendClose(p, Failed(job[p])) /\ unclosed' = unclosed
    BY <1>5, FailedClose
  <1> QED
    BY <1>3, <1>4, <1>5 DEF InitBack

LEMMA SearchBackInv ==
  ASSUME IInv, NEW p \in Pkgs, pc[p] = "back", job[p].step = "search", SearchBack(p, job[p]),
         UNCHANGED unclosed, unchangedBelow
  PROVE  IInv'
  <1>1. PkgInv(p)
    BY PkgInvs
  <1>2. IsJob(job[p]) /\ job[p].recs = << >> /\ job[p].src = {} /\ Len(job[p].recs) = 0
    BY <1>1, EmptyIsSeq DEF PkgInv, PkgType, Ordered
  <1>3. CASE SendClose(p, Failed(job[p]))
    BY <1>3, FailedClose
  <1>4. CASE (Hits = 0 \/ job[p].max = 0) /\ SendClose(p, job[p])
    <2>1. Cardinality(Wanted(job[p])) = 0
      BY <1>2, <1>4, WantedFacts
    <2> QED
      BY <1>2, <1>4, <2>1, EmptyInOrder, CloseInv
  <1>5. CASE /\ job[p].max > 0 /\ job[p].start <= Hits
             /\ Send(p, PresentRequest(job[p]), [job[p] EXCEPT !.step = "present"])
    <2>1. PICK k : k = [job[p] EXCEPT !.step = "present"]
      OBVIOUS
    <2>2. /\ IsJob(k) /\ k.step = "present" /\ k.start = job[p].start /\ k.max = job[p].max
          /\ k.recs = job[p].recs /\ k.src = job[p].src
      BY <1>2, <2>1 DEF IsJob
    <2>3. max_recs(job[p]) > 0
      BY <1>2, <1>5, WantedFacts
    <2>4. AtHand({}, front, target, FALSE, "xml", LastWanted(job[p]))
      BY AtHandNone
    <2>5. PICK j : j = job[p]
      OBVIOUS
    <2>6. PICK mix : mix = PastList(j.src, LastWanted(j))
      OBVIOUS
    <2>7. /\ InOrder(j.recs, j.src, j.start, mix)
          /\ AtHand(j.src, front, target, FALSE, "xml", LastWanted(j))
      BY <1>2, <2>4, <2>5, EmptyInOrder, Zenon
    <2>8. /\ Send(p, PresentRequest(j), k) /\ IsJob(j) /\ j.start <= Hits /\ j.max > 0
          /\ Len(j.recs) < max_recs(j) /\ j.src = {}
          /\ k.start = j.start /\ k.max = j.max /\ k.recs = j.recs /\ k.src = j.src
      BY <1>2, <1>5, <2>1, <2>2, <2>3, <2>5, Zenon
    <2> QED
      BY <2>2, <2>6, <2>7, <2>8, PresentInv, Zenon
  <1> QED
    BY <1>3, <1>4, <1>5 DEF SearchBack

\* The records that have come are put after those there were.
LEMMA PresentBackInv ==
  ASSUME IInv, NEW p \in Pkgs, pc[p] = "back", job[p].step = "present", PresentBack(p, job[p]),
         UNCHANGED unclosed, unchangedBelow
  PROVE  IInv'
  <1>0. TypeInv /\ PlaceInv /\ PkgInv(p) /\ conf.front = "sru"
    BY PkgInvs, InSru DEF IInv
  <1>1. PICK j : j = job[p]
    OBVIOUS
  <1>2. IsJob(j) /\ JobOrdered(j) /\ Presenting(p) /\ IsReply(reply[p]) /\ IsRequest(req[p])
    BY <1>0, <1>1 DEF PkgInv, PkgType, Ordered, Busy
  <1>3. CASE SendClose(p, Failed(job[p])) \/ SendClose(p, Stopped(job[p]))
    BY <1>3, FailedClose
  <1>4. CASE reply[p].kind = "present"
    <2>1. PICK r : r = req[p]
      OBVIOUS
    <2>2. PICK a : a = reply[p]
      OBVIOUS
    <2>3. PICK k : k = Collected(j, a)
      OBVIOUS
    <2>4. /\ j.start <= Hits /\ j.max > 0 /\ Len(j.recs) < max_recs(j)
          /\ r.kind = "present" /\ ~r.named /\ r.syntax = "xml" /\ (j.recs = << >> => j.src = {})
          /\ r.start = j.start + Len(j.recs) /\ r.number <= max_recs(j) - Len(j.recs)
          /\ j.start > 0 /\ ~closed[p] => AtHand(j.src, front, target, FALSE, "xml", LastWanted(j))
      BY <1>1, <1>2, <2>1, Zenon DEF Presenting
    <2>5. /\ r.start > 0 => Replied(p)
          /\ ~closed[p]
      BY <1>0, <1>4, <2>1, <2>4 DEF PkgInv, Ordered
    <2>6. /\ IsSeq(j.recs) /\ IsSeq(a.recs) /\ j.start \in Nat /\ j.max \in Nat
          /\ Len(j.recs) \in Nat /\ Len(a.recs) \in Nat /\ max_recs(j) \in Int
          /\ r.start \in Nat /\ r.number \in Nat /\ r.named = FALSE
      BY <1>2, <2>1, <2>2, <2>4, SeqFacts, WantedFacts, RequestFacts DEF IsJob, IsReply
    <2>7. /\ k.recs = j.recs \o a.recs /\ k.src = j.src \cup Orders(a)
          /\ k.start = j.start /\ k.max = j.max /\ k.step = "present" /\ k.end = j.end
          /\ k = [step |-> k.step, start |-> k.start, max |-> k.max, recs |-> k.recs,
                  src |-> k.src, end |-> k.end]
      BY <1>1, <1>2, <2>3 DEF Collected, IsJob
    <2>8. IsSeq(k.recs) /\ Len(k.recs) = Len(j.recs) + Len(a.recs)
      <3>1. PICK u : u = j.recs \o a.recs
        OBVIOUS
      <3>2. PICK s, t : s = j.recs /\ t = a.recs
        OBVIOUS
      <3>3. IsSeq(s) /\ IsSeq(t) /\ u = s \o t
        BY <2>6, <3>1, <3>2
      <3>4. IsSeq(u) /\ Len(u) = Len(s) + Len(t)
        BY <3>3, Joined
      <3> QED
        BY <2>7, <3>1, <3>2, <3>4
    <2>9. IsJob(k)
      BY <1>2, <2>7, <2>8 DEF IsJob
    <2>10. max_recs(k) = max_recs(j) /\ Wanted(k) = Wanted(j) /\ LastWanted(k) = LastWanted(j)
      BY <2>7, SameWanted
    <2>11. k.recs = << >> => k.src = {}
      <3> SUFFICES ASSUME k.recs = << >>
                   PROVE  k.src = {}
        OBVIOUS
      <3>0. Len(k.recs) = 0
        BY EmptyIsSeq
      <3>1. Len(j.recs) = 0 /\ Len(a.recs) = 0
        <4>1. \A m, n \in Nat : m + n = 0 => m = 0 /\ n = 0
          OBVIOUS
        <4> QED
          BY <2>6, <2>8, <3>0, <4>1, Zenon
      <3>2. j.recs = << >> /\ a.recs = << >>
        BY <2>6, <3>1, SeqFacts
      <3> QED
        BY <2>4, <2>7, <3>2 DEF Orders
    <2>12. ASSUME j.start > 0
           PROVE  /\ InOrder(k.recs, k.src, k.start, PastList(k.src, LastWanted(k)))
                  /\ AtHand(k.src, front, target, FALSE, "xml", LastWanted(k))
                  /\ Len(a.recs) <= r.number
      <3>1. /\ InOrder(a.recs, a.src, r.start, p \in crossed \/ PastList(a.src, LastOf(r)))
            /\ Len(a.recs) <= r.number /\ HandOf(Orders(a), r)
        BY <1>0, <2>1, <2>2, <2>4, <2>5, <2>6, <2>12 DEF Replied
      <3>2. Placed(a.recs, a.src, r.start)
        BY <3>1, Zenon DEF InOrder, Placed
      <3>3. Placed(a.recs, Orders(a), j.start + Len(j.recs))
        BY <1>2, <2>2, <2>4, <3>2, OrdersFacts
      <3>4. Placed(j.recs, j.src, j.start)
        BY <1>2, <2>12, Zenon DEF JobOrdered, InOrder, Placed
      <3>5. Placed(k.recs, k.src, j.start)
        <4>1. PICK u : u = j.recs \o a.recs
          OBVIOUS
        <4>2. PICK src : src = Orders(a)
          OBVIOUS
        <4>3. Placed(u, j.src \cup src, j.start)
          <5>1. PICK s, t, src1, start : s = j.recs /\ t = a.recs /\ src1 = j.src /\ start = j.start
            OBVIOUS
          <5>2. /\ IsSeq(s) /\ IsSeq(t) /\ u = s \o t /\ start \in Nat
                /\ Placed(s, src1, start) /\ Placed(t, src, start + Len(s))
            BY <2>6, <3>3, <3>4, <4>1, <4>2, <5>1
          <5>3. Placed(u, src1 \cup src, start)
            BY <5>2, PlacedJoined
          <5> QED
            BY <5>1, <5>3
        <4> QED
          BY <2>7, <4>1, <4>2, <4>3
      <3>6. LastOf(r) \in Int /\ LastWanted(j) \in Int /\ LastOf(r) <= LastWanted(j)
        <4>1. LastOf(r) = r.start + r.number - 1 /\ LastWanted(j) = j.start + max_recs(j) - 1
          BY Zenon DEF LastOf, LastWanted
        <4>2. \A s, n, i \in Nat : \A m \in Int :
                n <= m - i => /\ s + i + n - 1 \in Int /\ s + m - 1 \in Int
                              /\ s + i + n - 1 <= s + m - 1
          OBVIOUS
        <4>3. PICK s, i, n, m :
                s = j.start /\ i = Len(j.recs) /\ n = r.number /\ m = max_recs(j)
          OBVIOUS
        <4>4. /\ s \in Nat /\ i \in Nat /\ n \in Nat /\ m \in Int /\ n <= m - i
              /\ LastOf(r) = s + i + n - 1 /\ LastWanted(j) = s + m - 1
          BY <2>4, <2>6, <4>1, <4>3, Zenon
        <4>5. /\ s + i + n - 1 \in Int /\ s + m - 1 \in Int
              /\ s + i + n - 1 <= s + m - 1
          BY <4>2, <4>4
        <4> QED
          BY <4>4, <4>5
      <3>7. AtHand(Orders(a), front, target, FALSE, "xml", LastWanted(j))
        BY <2>4, <2>6, <3>1, <3>6, AtHandUpTo DEF HandOf
      <3>8. AtHand(k.src, front, target, FALSE, "xml", LastWanted(k))
        <4>1. AtHand(j.src, front, target, FALSE, "xml", LastWanted(j))
          BY <2>4, <2>5, <2>12
        <4>2. AtHand(j.src \cup Orders(a), front, target, FALSE, "xml", LastWanted(j))
          BY <3>7, <4>1, AtHandUnion, Zenon
        <4> QED
          BY <2>7, <2>10, <4>2
      <3>9. Cardinality(k.src) > 1 => PastList(k.src, LastWanted(k))
        BY <1>0, <3>8, AtHandPast DEF PlaceInv
      <3>10. InOrder(k.recs, k.src, k.start, PastList(k.src, LastWanted(k)))
        BY <2>7, <3>5, <3>9 DEF InOrder, Placed
      <3> QED
        BY <3>1, <3>8, <3>10
    <2>13. CASE Len(k.recs) < max_recs(k) /\ Send(p, PresentRequest(k), k)
      BY <2>4, <2>7, <2>9, <2>10, <2>11, <2>12, <2>13, PresentInv
    <2>14. CASE ~(Len(k.recs) < max_recs(k)) /\ SendClose(p, k)
      <3>1. ASSUME k.start > 0
            PROVE  Len(k.recs) = Cardinality(Wanted(k))
        <4>0. Len(a.recs) <= r.number
          BY <2>7, <2>12, <3>1
        <4>1. Len(k.recs) = max_recs(k)
          <5>1. \A n, m, number \in Nat, k0, most \in Int :
                   /\ k0 = n + m /\ m <= number /\ number <= most - n /\ ~(k0 < most)
                   => k0 = most
            OBVIOUS
          <5>2. Len(k.recs) \in Int
            BY <2>6, <2>8
          <5> QED
            BY <2>4, <2>6, <2>8, <2>10, <2>14, <4>0, <5>1, <5>2, Zenon
        <4>2. k.start \in 1 .. Hits
          BY <2>4, <2>6, <2>7, <3>1, SortedTargetAssumption
        <4> QED
          BY <2>4, <2>7, <2>9, <4>1, <4>2, WantedFacts
      <3> QED
        BY <2>7, <2>9, <2>12, <2>14, <3>1, CloseInv
    <2>15. \/ Len(k.recs) < max_recs(k) /\ Send(p, PresentRequest(k), k)
           \/ ~(Len(k.recs) < max_recs(k)) /\ SendClose(p, k)
      BY <1>1, <1>4, <2>2, <2>3, Zenon DEF PresentBack
    <2> QED
      BY <2>13, <2>14, <2>15
  <1> QED
    BY <1>3, <1>4 DEF PresentBack

LEMMA BackInv ==
  ASSUME IInv, NEW p \in Pkgs, Back(p)
  PROVE  IInv'
  <1>1. pc[p] = "back" /\ unchangedBelow
    BY DEF Back
  <1>0. /\ TypeInv /\ PkgInv(p) /\ conf.front = "sru" /\ Forgetting(p) /\ IsJob(job[p])
        /\ unclosed \in BOOLEAN
    BY <1>1, PkgInvs, InSru DEF IInv, ForgetInv, TypeInv, PkgType
  <1>2. job[p].step \in {"close", "pass"} => Clean
    BY <1>0, <1>1 DEF Forgetting, Clean, Busy
  <1>3. CASE job[p].step = "pass" /\ Go(p, "release") /\ UNCHANGED <<closed, req, sruVars>>
    <2>1. UNCHANGED <<conf, reply, got, user, ses, front, target, passed, early, crossed, late, ended>>
          /\ UNCHANGED <<closed, req, entry, job, unclosed>>
      BY <1>1, <1>3 DEF unchangedBelow, sruVars
    <2>2. pc'[p] = "release" /\ (\A q \in Pkgs \ {p} : Same(q)) /\ pc' \in [Pkgs -> Place]
      BY <1>0, <1>3, <2>1 DEF TypeInv, Same, Go, Place
    <2>3. PkgType(p)'
      BY <1>0, <2>1 DEF PkgInv, PkgType
    <2>4. Located(p)'
      BY <1>0, <1>1, <1>3, <2>1, <2>2 DEF PkgInv, Located, Busy, Down
    <2>5. Authed(p)'
      BY <1>0, <2>1, <2>2 DEF PkgInv, Authed, Allowed, Down
    <2>6. Ordered(p)'
      BY <1>3, <2>1, <2>2 DEF Ordered
    <2>7. Forgetting(p)' /\ pc'[p] \in Busy
      BY <1>2, <1>3, <2>1, <2>2 DEF Forgetting, Clean, Busy
    <2>8. closed' \in [Pkgs -> BOOLEAN] /\ DOMAIN req' = Pkgs /\ DOMAIN job' = Pkgs
          /\ unclosed' \in BOOLEAN
      BY <1>0, <2>1 DEF TypeInv
    <2> QED
      BY <1>1, <2>1, <2>2, <2>3, <2>4, <2>5, <2>6, <2>7, <2>8, SruStepInv DEF PkgInv
  <1>4. CASE job[p].step = "init" /\ InitBack(p, job[p])
    BY <1>1, <1>4, InitBackInv
  <1>5. CASE job[p].step = "search" /\ SearchBack(p, job[p]) /\ UNCHANGED unclosed
    BY <1>1, <1>5, SearchBackInv
  <1>6. CASE job[p].step = "present" /\ PresentBack(p, job[p]) /\ UNCHANGED unclosed
    BY <1>1, <1>6, PresentBackInv
  <1>7. CASE job[p].step = "close" /\ Respond(p, job[p]) /\ unclosed' = FALSE
    <2>1. JobInv(job[p])
      BY <1>0, <1>7 DEF PkgInv, Ordered, JobInv
    <2> QED
      BY <1>0, <1>1, <1>2, <1>7, <2>1, RespondInv
  <1> QED
    BY <1>3, <1>4, <1>5, <1>6, <1>7, Zenon DEF Back

-----------------------------------------------------------------------------
(* present_chunk and the filters below it.                                 *)

\* The request that present_chunk sends
LEMMA SentFacts ==
  ASSUME IInv, NEW p \in Pkgs, pc[p] = "serve", Chunked(p) => Offset(p) < req[p].number,
         NEW r, r = Sent(p)
  PROVE  /\ IsRequest(r) /\ r.kind = req[p].kind /\ (closed[p] => r = None)
         /\ ~Chunked(p) => r = req[p]
         /\ Chunked(p) => /\ r.named = req[p].named /\ r.syntax = req[p].syntax
                          /\ r.start = req[p].start + Offset(p)
                          /\ r.number <= req[p].number - Offset(p)
                          /\ Offset(p) \in Nat /\ req[p].start \in Nat /\ req[p].number \in Nat
  <1>0. PkgInv(p) /\ conf.chunk \in Nat
    BY PkgInvs, ConfFacts DEF IInv
  <1>1. IsRequest(req[p]) /\ Offset(p) \in Nat /\ (closed[p] => req[p] = None)
    BY <1>0, SeqFacts DEF PkgInv, PkgType, Located, Down, IsReply, Offset
  <1>2. CASE ~Chunked(p)
    BY <1>1, <1>2 DEF Sent
  <1>3. CASE Chunked(p)
    <2>1. req[p].kind = "present" /\ ~closed[p]
      BY <1>1, <1>3 DEF Chunked, None
    <2>2. req[p].start \in Nat /\ req[p].number \in Nat
      BY <1>1, <2>1, RequestFacts
    <2>3. PICK start \in Nat : start = req[p].start + Offset(p)
      BY <1>1, <2>2
    <2>4. PICK number : number = IF req[p].number - Offset(p) > conf.chunk THEN conf.chunk
                                 ELSE req[p].number - Offset(p)
      OBVIOUS
    <2>5. number \in Nat /\ number <= req[p].number - Offset(p)
      BY <1>0, <1>1, <1>3, <2>2, <2>4
    <2>6. r = [req[p] EXCEPT !.start = start, !.number = number]
      BY <1>3, <2>3, <2>4 DEF Sent, Chunk
    <2>7. req[p] = [kind |-> "present", named |-> req[p].named, start |-> req[p].start,
                    number |-> req[p].number, syntax |-> req[p].syntax] /\ req[p].named \in BOOLEAN
      BY <1>1, <2>1 DEF IsRequest, IsAsk, None
    <2>8. /\ r = [kind |-> r.kind, named |-> r.named, start |-> r.start, number |-> r.number,
                  syntax |-> r.syntax]
          /\ r.kind = "present" /\ r.named = req[p].named /\ r.syntax = req[p].syntax
          /\ r.start = start /\ r.number = number
      <3>1. PICK s : s = [req[p] EXCEPT !.start = start]
        OBVIOUS
      <3>2. /\ s = [kind |-> s.kind, named |-> s.named, start |-> s.start, number |-> s.number,
                    syntax |-> s.syntax]
            /\ s.kind = "present" /\ s.named = req[p].named /\ s.syntax = req[p].syntax
            /\ s.start = start
        BY <2>7, <3>1
      <3>3. r = [s EXCEPT !.number = number]
        BY <2>6, <3>1
      <3> QED
        BY <3>2, <3>3
    <2>9. IsRequest(r)
      BY <2>3, <2>5, <2>7, <2>8 DEF IsRequest, IsAsk
    <2> QED
      BY <1>1, <1>3, <2>1, <2>2, <2>3, <2>5, <2>8, <2>9
  <1> QED
    BY <1>2, <1>3

\* What was at hand stays at hand, when more than the first records are asked for.
LEMMA StaysAtHand ==
  ASSUME NEW r, NEW s, NEW t, NEW s2, NEW t2, NEW src, NEW name, NEW syntax, NEW last,
         ListsKept(s, s2, r), t2.found = t.found, r.start = 1 => src = {},
         AtHand(src, s, t, name, syntax, last)
  PROVE  AtHand(src, s2, t2, name, syntax, last)
  <1>1. CASE r.start = 1
    BY <1>1, AtHandNone
  <1>2. CASE r.start # 1
    BY <1>2, AtHandSame DEF ListsKept
  <1> QED
    BY <1>1, <1>2

\* The answer that present_chunk gets
Got(p, a) ==
    /\ Answered(a, Sent(p), closed[p], front, target, conf.faulty)
    /\ a.closed => a.sort.entry = "none"
    /\ ~conf.sort => a.sort = NoFrontend
    /\ front' = a.sort /\ target' = a.target
    /\ closed' = [closed EXCEPT ![p] = a.closed]
    /\ \/ /\ ~Chunked(p) /\ Return(p, a.reply) /\ UNCHANGED got
       \/ /\ Chunked(p) /\ a.closed /\ Return(p, Plain("none")) /\ UNCHANGED got
       \/ /\ Chunked(p) /\ ~a.closed /\ a.reply.kind = "present"
          /\ got' = [got EXCEPT ![p] = Appended(p, a)] /\ UNCHANGED <<pc, reply>>
       \/ /\ Chunked(p) /\ a.reply.kind # "present" /\ Return(p, a.reply) /\ UNCHANGED got

LEMMA ServeShape ==
  ASSUME IInv, NEW p \in Pkgs, Serve(p)
  PROVE  /\ pc[p] = "serve" /\ (Chunked(p) => Offset(p) < req[p].number)
         /\ crossed' = crossed \cup {q \in At("serve") \ {p} : Offset(q) > 0}
         /\ late' = Late(p)
         /\ UNCHANGED <<conf, req, user, ses, ended, passed, early>>
         /\ \E a : Got(p, a)
  <1>1. /\ pc[p] = "serve" /\ (Chunked(p) => Offset(p) < req[p].number)
        /\ crossed' = crossed \cup {q \in At("serve") \ {p} : Offset(q) > 0}
        /\ late' = Late(p)
        /\ UNCHANGED <<conf, req, user, ses, ended, passed, early>>
    BY DEF Serve
  <1>2. PICK a \in Answers(Sent(p), closed[p], front, target, conf.sort, conf.faulty) :
          /\ front' = a.sort
          /\ target' = a.target
          /\ closed' = [closed EXCEPT ![p] = a.closed]
          /\ IF ~Chunked(p) THEN Return(p, a.reply) /\ UNCHANGED got
             ELSE IF a.closed THEN Return(p, Plain("none")) /\ UNCHANGED got
             ELSE IF a.reply.kind = "present"
             THEN got' = [got EXCEPT ![p] = Appended(p, a)] /\ UNCHANGED <<pc, reply>>
             ELSE Return(p, a.reply) /\ UNCHANGED got
    BY Zenon DEF Serve
  <1>3. /\ TargetOK(target) /\ FrontOK(front, target) /\ (~conf.sort => front = NoFrontend)
        /\ conf.sort \in BOOLEAN /\ conf.faulty \in BOOLEAN /\ closed[p] \in BOOLEAN
    BY ConfFacts DEF IInv, PlaceInv, TypeInv
  <1>4. IsRequest(Sent(p)) /\ (closed[p] => Sent(p) = None)
    BY <1>1, SentFacts
  <1>5. /\ Answered(a, Sent(p), closed[p], front, target, conf.faulty)
        /\ a.closed => a.sort.entry = "none"
        /\ ~conf.sort => a.sort = NoFrontend
    BY <1>2, <1>3, <1>4, AnswersFacts
  <1>6. Got(p, a)
    BY <1>2, <1>5, Zenon DEF Got
  <1> QED
    BY <1>1, <1>6

LEMMA GotFacts ==
  ASSUME NEW p, NEW a, Got(p, a)
  PROVE  /\ IsReply(a.reply) /\ a.closed \in BOOLEAN
         /\ TargetOK(a.target) /\ FrontOK(a.sort, a.target) /\ (closed[p] => a.closed)
         /\ a.closed => ~a.target.up /\ a.reply.kind # "present" /\ a.sort.entry = "none"
         /\ Sent(p).kind # "search" => a.target.found = target.found
         /\ Sent(p).kind = "present" /\ ~a.closed => ListsKept(front, a.sort, Sent(p))
         /\ Sent(p).kind = "present" /\ a.reply.kind = "present" => Presented(a, Sent(p), conf.faulty)
         /\ front' = a.sort /\ target' = a.target
  BY Zenon DEF Got, Answered

\* sru_z3950 asks for more than the first records once it has some.
LEMMA ServePresenting ==
  ASSUME IInv, NEW p \in Pkgs, pc[p] = "serve", Chunked(p) => Offset(p) < req[p].number,
         NEW a, Got(p, a), job[p].step = "present", req' = req, job' = job, closed'[p] = a.closed
  PROVE  Presenting(p)'
  <1>1. Presenting(p) /\ IsJob(job[p])
    BY PkgInvs DEF PkgInv, PkgType, Ordered, Busy, Down
  <1>2. PICK j : j = job[p]
    OBVIOUS
  <1>3. PICK r : r = Sent(p)
    OBVIOUS
  <1>4. /\ req[p].kind = "present" /\ r.kind = "present"
        /\ req[p].start = j.start + Len(j.recs) /\ (j.recs = << >> => j.src = {})
        /\ j.start \in Nat /\ Len(j.recs) \in Nat /\ (Len(j.recs) = 0 => j.recs = << >>)
    BY <1>1, <1>2, <1>3, SentFacts, SeqFacts DEF Presenting, IsJob
  <1>5. r.start = req[p].start \/ (Offset(p) \in Nat /\ r.start = req[p].start + Offset(p))
    BY <1>3, SentFacts
  <1>6. ASSUME j.start > 0, ~a.closed
        PROVE  AtHand(j.src, a.sort, a.target, FALSE, "xml", LastWanted(j))
    <2>1. r.start = 1 => Len(j.recs) = 0
      BY <1>4, <1>5, <1>6
    <2>2. r.start = 1 => j.src = {}
      BY <1>4, <2>1
    <2>3. ListsKept(front, a.sort, r) /\ a.target.found = target.found /\ ~closed[p]
      BY <1>3, <1>4, <1>6, GotFacts
    <2>4. AtHand(j.src, front, target, FALSE, "xml", LastWanted(j))
      BY <1>1, <1>2, <1>6, <2>3 DEF Presenting
    <2> QED
      BY <2>2, <2>3, <2>4, StaysAtHand
  <1>7. front' = a.sort /\ target' = a.target
    BY GotFacts
  <1> QED
    BY <1>1, <1>2, <1>6, <1>7 DEF Presenting

\* present_chunk returns an answer.
LEMMA ServeReturned ==
  ASSUME IInv, NEW p \in Pkgs, pc[p] = "serve", Chunked(p) => Offset(p) < req[p].number,
         NEW a, Got(p, a), UNCHANGED <<conf, req, job, early, got>>,
         closed'[p] = a.closed, NEW answer, IsReply(answer), pc'[p] = "limitout",
         reply'[p] = answer, answer.kind = "present" => ~Chunked(p) /\ answer = a.reply
  PROVE  PkgInv(p)'
  <1>0. PkgInv(p) /\ conf.front \in {"z3950", "sru"} /\ conf.faulty \in BOOLEAN /\ TypeInv
    BY PkgInvs, ConfFacts DEF IInv
  <1>1. PkgType(p)'
    BY <1>0 DEF PkgInv, PkgType
  <1>2. Located(p)'
    BY <1>0 DEF PkgInv, Located, Busy, Down
  <1>3. Authed(p)'
    BY <1>0 DEF PkgInv, Authed, Allowed, Down
  <1>4. ASSUME answer.kind = "present", req[p].kind = "present"
        PROVE  /\ ~a.closed
               /\ req[p].start > 0 => Replied(p)'
    <2>1. Sent(p) = req[p] /\ ~Chunked(p) /\ answer = a.reply
      BY <1>4, SentFacts
    <2>2. Presented(a, req[p], conf.faulty) /\ ~a.closed /\ front' = a.sort /\ target' = a.target
          /\ a.closed \in BOOLEAN
      BY <1>4, <2>1, GotFacts
    <2>3. ASSUME req[p].start > 0
          PROVE  Replied(p)'
      <3>1. /\ Len(answer.recs) <= req[p].number /\ (~conf.faulty => Len(answer.recs) = req[p].number)
            /\ \E o : answer.src = {o}
            /\ Placed(answer.recs, answer.src, req[p].start)
            /\ AtHand(Orders(answer), a.sort, a.target, req[p].named, req[p].syntax, LastOf(req[p]))
        BY <2>1, <2>2, <2>3 DEF Presented
      <3>2. ~(Cardinality(answer.src) > 1)
        <4>1. PICK o : answer.src = {o}
          BY <3>1
        <4>2. Cardinality({o}) = 1
          BY FS_Singleton
        <4> QED
          BY <4>1, <4>2
      <3>3. \A mix : InOrder(answer.recs, answer.src, req[p].start, mix)
        BY <3>1, <3>2, Zenon DEF InOrder, Placed
      <3>4. HandOf(Orders(reply[p]), req[p])'
        BY <2>2, <3>1 DEF HandOf
      <3>5. Chunked(p)' <=> FALSE
        BY <2>1 DEF Chunked
      <3>6. reply'[p] = answer /\ req'[p] = req[p] /\ conf' = conf
        OBVIOUS
      <3> QED
        BY <3>1, <3>3, <3>4, <3>5, <3>6 DEF Replied
    <2> QED
      BY <2>2, <2>3
  <1>5. Ordered(p)'
    <2>1. job[p].step = "present" => Presenting(p)'
      BY ServePresenting
    <2> QED
      BY <1>0, <1>4, <2>1 DEF PkgInv, Ordered
  <1> QED
    BY <1>1, <1>2, <1>3, <1>5 DEF PkgInv

\* present_chunk goes on collecting.
LEMMA ServeGathered ==
  ASSUME IInv, NEW p \in Pkgs, pc[p] = "serve", Chunked(p), Offset(p) < req[p].number,
         NEW a, Got(p, a), UNCHANGED <<conf, req, job, early, pc, reply>>,
         p \in crossed <=> p \in crossed',
         closed'[p] = a.closed, ~a.closed, a.reply.kind = "present", got'[p] = Appended(p, a)
  PROVE  PkgInv(p)'
  <1>0. PkgInv(p) /\ Gathering(p) /\ IsReply(got[p]) /\ got[p].kind = "present" /\ Hits \in Nat
    BY PkgInvs, SortedTargetAssumption DEF PkgInv, PkgType, Ordered
  <1>1. PICK r : r = Sent(p)
    OBVIOUS
  <1>2. PICK b : b = a.reply
    OBVIOUS
  <1>3. PICK n : n = Offset(p)
    OBVIOUS
  <1>4. /\ r.kind = "present" /\ r.named = req[p].named /\ r.syntax = req[p].syntax
        /\ r.start = req[p].start + n /\ r.number <= req[p].number - n
        /\ n \in Nat /\ req[p].start \in Nat /\ req[p].number \in Nat
        /\ req[p].kind = "present" /\ IsRequest(r)
    BY <1>1, <1>3, SentFacts DEF Chunked
  <1>5. /\ IsReply(b) /\ Presented(a, r, conf.faulty) /\ front' = a.sort /\ target' = a.target
        /\ a.target.found = target.found /\ ListsKept(front, a.sort, r)
    BY <1>1, <1>2, <1>4, GotFacts
  <1>6. PICK m : m = Len(b.recs)
    OBVIOUS
  <1>7. /\ m \in Nat /\ m <= r.number /\ (m > 0 => r.start + m <= Hits + 1) /\ r.number \in Nat
        /\ IsSeq(b.recs) /\ IsSeq(got[p].recs) /\ Len(got[p].recs) = n
    BY <1>0, <1>2, <1>3, <1>4, <1>5, <1>6, SeqFacts, RequestFacts DEF Presented, IsReply, Offset
  <1>8. PICK u : u = got[p].recs \o b.recs
    OBVIOUS
  <1>9. /\ got'[p].recs = u /\ got'[p].src = got[p].src \cup Orders(b) /\ got'[p].kind = "present"
        /\ got'[p] = [kind |-> "present", recs |-> u, src |-> got'[p].src]
    BY <1>0, <1>2, <1>8 DEF Appended, IsReply
  <1>10. IsSeq(u) /\ Len(u) = n + m
    <2>1. PICK s : s = got[p].recs
      OBVIOUS
    <2>2. PICK t : t = b.recs
      OBVIOUS
    <2>3. IsSeq(s) /\ IsSeq(t) /\ u = s \o t /\ Len(s) = n /\ Len(t) = m
      BY <1>6, <1>7, <1>8, <2>1, <2>2
    <2>4. IsSeq(u) /\ Len(u) = Len(s) + Len(t)
      BY <2>3, Joined
    <2> QED
      BY <2>3, <2>4
  <1>11. IsReply(got'[p]) /\ Offset(p)' = n + m
    BY <1>9, <1>10 DEF IsReply, Offset
  <1>12. n + m <= req[p].number /\ (n + m > 0 => req[p].start + (n + m) <= Hits + 1)
    <2>1. n > 0 => req[p].start + n <= Hits + 1
      BY <1>0, <1>3 DEF Gathering
    <2> QED
      BY <1>0, <1>4, <1>7, <2>1
  <1>13. PkgType(p)'
    <2>1. Len(u) <= Hits + 1
      BY <1>0, <1>4, <1>7, <1>10, <1>12
    <2> QED
      BY <1>0, <1>9, <1>11, <2>1 DEF PkgInv, PkgType
  <1>14. Located(p)' /\ Authed(p)'
    BY <1>0, <1>4, GotFacts DEF PkgInv, Located, Authed, Allowed, Busy, Down
  <1>15. Gathering(p)'
    <2>1. n + m = 0 => got'[p].src = {}
      <3> SUFFICES ASSUME n + m = 0
                   PROVE  got'[p].src = {}
        OBVIOUS
      <3>1. n = 0 /\ m = 0
        BY <1>4, <1>7
      <3>2. b.recs = << >> /\ got[p].src = {}
        BY <1>0, <1>3, <1>6, <1>7, <3>1, SeqFacts DEF Gathering
      <3> QED
        BY <1>9, <3>2 DEF Orders
    <2>2. ASSUME req[p].start > 0
          PROVE  /\ Placed(u, got'[p].src, req[p].start)
                 /\ p \notin crossed' => HandOf(got[p].src, req[p])'
      <3>1. r.start > 0
        BY <1>4, <2>2
      <3>2. /\ Placed(b.recs, b.src, r.start)
            /\ AtHand(Orders(b), a.sort, a.target, r.named, r.syntax, LastOf(r))
        BY <1>2, <1>5, <3>1 DEF Presented
      <3>3. Placed(b.recs, Orders(b), req[p].start + Len(got[p].recs))
        BY <1>4, <1>5, <1>7, <3>2, OrdersFacts
      <3>4. /\ Placed(got[p].recs, got[p].src, req[p].start)
            /\ p \notin crossed => HandOf(got[p].src, req[p])
        BY <1>0, <2>2 DEF Gathering
      <3>5. Placed(u, got'[p].src, req[p].start)
        <4>1. PICK src : src = Orders(b)
          OBVIOUS
        <4>2. Placed(u, got[p].src \cup src, req[p].start)
          BY <1>4, <1>7, <1>8, <3>3, <3>4, <4>1, PlacedJoined, Zenon
        <4> QED
          BY <1>9, <4>1, <4>2
      <3>6. ASSUME p \notin crossed'
            PROVE  HandOf(got[p].src, req[p])'
        <4>1. r.start = 1 => got[p].src = {}
          <5>1. r.start = 1 => n = 0
            BY <1>4, <2>2
          <5> QED
            BY <1>0, <1>3, <5>1 DEF Gathering
        <4>2. PICK last : last = LastOf(req[p])
          OBVIOUS
        <4>3. AtHand(got[p].src, front, target, r.named, r.syntax, last)
          BY <1>4, <3>4, <3>6, <4>2 DEF HandOf
        <4>4. AtHand(got[p].src, a.sort, a.target, r.named, r.syntax, last)
          BY <1>5, <4>1, <4>3, StaysAtHand
        <4>5. LastOf(r) \in Int /\ last \in Int /\ LastOf(r) <= last
          <5>1. last = req[p].start + req[p].number - 1 /\ LastOf(r) = r.start + r.number - 1
            BY <4>2, Zenon DEF LastOf
          <5>2. \A s, k, s2, k2, i \in Nat :
                  s2 = s + i /\ k2 <= k - i => s2 + k2 - 1 <= s + k - 1
            OBVIOUS
          <5>3. r.start \in Nat
            BY <1>4
          <5>4. LastOf(r) <= last
            <6>1. PICK s, k, k2 : s = req[p].start /\ k = req[p].number /\ k2 = r.number
              OBVIOUS
            <6>2. /\ s \in Nat /\ k \in Nat /\ k2 \in Nat /\ n \in Nat /\ r.start = s + n
                  /\ k2 <= k - n
              BY <1>4, <1>7, <6>1, Zenon
            <6>3. r.start + k2 - 1 <= s + k - 1
              BY <5>2, <5>3, <6>2, Zenon
            <6> QED
              BY <5>1, <6>1, <6>3, Zenon
          <5>5. \A s, k \in Nat : s + k - 1 \in Int
            OBVIOUS
          <5> QED
            BY <1>4, <1>7, <5>1, <5>3, <5>4, <5>5, Zenon
        <4>6. AtHand(Orders(b), a.sort, a.target, r.named, r.syntax, last)
          BY <3>2, <4>5, AtHandUpTo
        <4>7. AtHand(got[p].src \cup Orders(b), a.sort, a.target, r.named, r.syntax, last)
          BY <4>4, <4>6, AtHandUnion, Zenon
        <4> QED
          BY <1>4, <1>5, <1>9, <4>2, <4>7 DEF HandOf
      <3> QED
        BY <3>5, <3>6
    <2> QED
      BY <1>9, <1>11, <1>12, <2>1, <2>2 DEF Gathering
  <1>16. Ordered(p)'
    <2>1. job[p].step = "present" => Presenting(p)'
      BY ServePresenting
    <2> QED
      BY <1>0, <1>15, <2>1 DEF PkgInv, Ordered
  <1> QED
    BY <1>13, <1>14, <1>16 DEF PkgInv

LEMMA ServeInv ==
  ASSUME IInv, NEW p \in Pkgs, Serve(p), UNCHANGED sruVars
  PROVE  IInv'
  <1>0. /\ TypeInv /\ PlaceInv /\ (conf.auth = "users" /\ passed => user)
        /\ conf.front \in {"z3950", "sru"} /\ \A q \in Pkgs : PkgInv(q)
    BY PkgInvs, ConfFacts DEF IInv, AuthInv
  <1>1. /\ pc[p] = "serve" /\ (Chunked(p) => Offset(p) < req[p].number)
        /\ crossed' = crossed \cup {q \in At("serve") \ {p} : Offset(q) > 0}
        /\ late' = Late(p)
        /\ conf' = conf /\ req' = req /\ user' = user /\ ses' = ses /\ ended' = ended
        /\ passed' = passed /\ early' = early
        /\ entry' = entry /\ job' = job /\ unclosed' = unclosed
    BY ServeShape DEF sruVars
  <1>2. PICK a : Got(p, a)
    BY ServeShape
  <1>3. /\ IsReply(a.reply) /\ a.closed \in BOOLEAN
        /\ TargetOK(target') /\ FrontOK(front', target') /\ (closed[p] => a.closed)
        /\ a.closed => ~target'.up /\ a.reply.kind # "present" /\ front'.entry = "none"
        /\ closed' = [closed EXCEPT ![p] = a.closed] /\ (~conf.sort => front' = NoFrontend)
    BY <1>2, GotFacts DEF Got
  <1>4. closed' \in [Pkgs -> BOOLEAN] /\ closed'[p] = a.closed
    BY <1>0, <1>3 DEF TypeInv
  <1>5. \/ /\ ~Chunked(p) /\ Return(p, a.reply) /\ got' = got
        \/ /\ Chunked(p) /\ a.closed /\ Return(p, Plain("none")) /\ got' = got
        \/ /\ Chunked(p) /\ ~a.closed /\ a.reply.kind = "present"
           /\ got' = [got EXCEPT ![p] = Appended(p, a)] /\ pc' = pc /\ reply' = reply
        \/ /\ Chunked(p) /\ a.reply.kind # "present" /\ Return(p, a.reply) /\ got' = got
    BY <1>2, Zenon DEF Got
  <1>6. ASSUME NEW answer, Return(p, answer), got' = got
        PROVE  /\ pc' \in [Pkgs -> Place] /\ DOMAIN reply' = Pkgs /\ DOMAIN got' = Pkgs
               /\ pc'[p] = "limitout" /\ reply'[p] = answer
               /\ \A q \in Pkgs \ {p} : Same(q)
    BY <1>0, <1>1, <1>3, <1>6 DEF Return, Go, TypeInv, Place, Same
  <1>7. /\ pc' \in [Pkgs -> Place] /\ DOMAIN reply' = Pkgs /\ DOMAIN got' = Pkgs
        /\ pc'[p] \in {"serve", "limitout"}
        /\ \A q \in Pkgs \ {p} : Same(q)
    <2>1. ASSUME got' = [got EXCEPT ![p] = Appended(p, a)], pc' = pc, reply' = reply
          PROVE  /\ pc' \in [Pkgs -> Place] /\ DOMAIN reply' = Pkgs /\ DOMAIN got' = Pkgs
                 /\ pc'[p] = "serve"
                 /\ \A q \in Pkgs \ {p} : Same(q)
      BY <1>0, <1>1, <1>3, <2>1 DEF TypeInv, Same
    <2> QED
      BY <1>5, <1>6, <2>1
  <1>8. PkgInv(p)'
    <2>1. ASSUME NEW answer, Return(p, answer), got' = got, IsReply(answer),
                 answer.kind = "present" => ~Chunked(p) /\ answer = a.reply
          PROVE  PkgInv(p)'
      <3>1. pc'[p] = "limitout" /\ reply'[p] = answer
        BY <1>6, <2>1
      <3> QED
        BY <1>1, <1>2, <1>4, <2>1, <3>1, ServeReturned
    <2>2. CASE ~Chunked(p) /\ Return(p, a.reply) /\ got' = got
      BY <1>3, <2>1, <2>2, Zenon
    <2>3. CASE Chunked(p) /\ a.closed /\ Return(p, Plain("none")) /\ got' = got
      <3>1. IsReply(Plain("none")) /\ Plain("none").kind # "present"
        BY PlainFacts
      <3> QED
        BY <2>1, <2>3, <3>1, Zenon
    <2>4. CASE /\ Chunked(p) /\ ~a.closed /\ a.reply.kind = "present"
               /\ got' = [got EXCEPT ![p] = Appended(p, a)] /\ pc' = pc /\ reply' = reply
      <3>1. got'[p] = Appended(p, a)
        BY <1>0, <2>4 DEF TypeInv
      <3>2. p \in crossed <=> p \in crossed'
        BY <1>1
      <3> QED
        BY <1>1, <1>2, <1>4, <2>4, <3>1, <3>2, ServeGathered
    <2>5. CASE Chunked(p) /\ a.reply.kind # "present" /\ Return(p, a.reply) /\ got' = got
      BY <1>3, <2>1, <2>5, Zenon
    <2> QED
      BY <1>5, <2>2, <2>3, <2>4, <2>5, Zenon
  <1>9. ASSUME NEW q \in Pkgs \ {p}
        PROVE  PkgInv(q)'
    <2>1. PkgInv(q) /\ Same(q)
      BY <1>0, <1>7
    <2>2. PkgType(q)' /\ Located(q)' /\ Authed(q)'
      BY <1>1, <2>1, SamePkgType, SameLocated, SameAuthed DEF PkgInv
    <2>3. q \in crossed => q \in crossed'
      BY <1>1
    <2>4. q \in crossed' \/ Offset(q) = 0 \/ pc[q] # "serve"
      <3>1. Offset(q) \in Nat
        BY <2>1, SeqFacts DEF PkgInv, PkgType, IsReply, Offset
      <3> QED
        BY <1>1, <3>1 DEF At
    <2>5. conf.front = "sru" => pc[q] \notin Busy /\ job[q].step = "none"
      BY <1>1, <2>1, NotBusy DEF PkgInv, Located, Busy, Down
    <2>6. job[q].step # "present" /\ (conf.front = "sru" => req[q].kind # "present")
      BY <1>0, <2>1, <2>5 DEF PkgInv, Located, NoJob
    <2>7. Ordered(q)'
      BY <1>1, <2>1, <2>3, <2>4, <2>6, SameOrdered DEF PkgInv
    <2> QED
      BY <2>2, <2>7 DEF PkgInv
  <1>10. \A q \in Pkgs : PkgInv(q)'
    BY <1>8, <1>9, Zenon
  <1>11. TypeInv'
    <2>1. late' \in BOOLEAN /\ crossed' \subseteq Pkgs
      BY <1>0, <1>1 DEF TypeInv, Late, At
    <2> QED
      BY <1>0, <1>1, <1>4, <1>7, <1>10, <2>1 DEF TypeInv, PkgInv
  <1>12. ASSUME conf.front = "sru"
         PROVE  crossed' = {} /\ Forgetting(p)'
    <2>1. crossed = {} /\ Forgetting(p)
      BY <1>0, <1>12 DEF IInv, ForgetInv, PlaceInv
    <2>2. \A q \in Pkgs \ {p} : pc[q] \notin Busy
      BY <1>1, <1>12, NotBusy DEF Busy, Down
    <2>3. crossed' = {}
      BY <1>1, <2>1, <2>2 DEF At, Busy, Down
    <2>4. job[p].step \in {"close", "pass"} => closed[p]
      BY <1>1, <2>1 DEF Forgetting, Busy, Down
    <2> QED
      BY <1>1, <1>3, <1>4, <1>7, <2>3, <2>4 DEF Forgetting
  <1>13. ASSUME conf.front = "z3950", ~late', NEW q \in Pkgs
         PROVE  Leaving(q)'
    <2>1. CASE q # p
      BY <1>1, <1>7, <1>13, <2>1, LateLeaving
    <2>2. CASE q = p
      BY <1>3, <1>4, <1>7, <2>2 DEF Leaving, Past
    <2> QED
      BY <2>1, <2>2
  <1>14. /\ pc[p] \in Busy /\ pc[p] # "new" /\ pc'[p] # "new" /\ pc'[p] \in Busy
         /\ closed[p] => closed'[p]
    BY <1>1, <1>3, <1>4, <1>7 DEF Busy, Down
  <1> QED
    BY <1>0, <1>1, <1>3, <1>7, <1>10, <1>11, <1>12, <1>13, <1>14, ChainStepInv

-----------------------------------------------------------------------------
(* The theorems.                                                           *)

LEMMA InitInv ==
  ASSUME Init
  PROVE  IInv
  <1>1. /\ conf \in Confs
        /\ pc = [p \in Pkgs |-> "new"]
        /\ req = [p \in Pkgs |-> None]
        /\ closed = [p \in Pkgs |-> FALSE]
        /\ reply = [p \in Pkgs |-> Plain("none")]
        /\ got = [p \in Pkgs |-> Plain("present")]
        /\ user = FALSE /\ ses = FALSE /\ ended = FALSE /\ late = FALSE /\ passed = FALSE
        /\ front = NoFrontend /\ target = NoTarget
        /\ early = {} /\ crossed = {}
        /\ entry = "none" /\ job = [p \in Pkgs |-> NoJob] /\ unclosed = FALSE
    BY Zenon DEF Init, RouteInit
  <1>2. Hits \in Nat
    BY SortedTargetAssumption
  <1>3. ASSUME NEW p \in Pkgs
        PROVE  PkgInv(p)
    <2>1. /\ pc[p] = "new" /\ req[p] = None /\ closed[p] = FALSE /\ job[p] = NoJob
          /\ reply[p] = Plain("none") /\ got[p] = Plain("present")
      BY <1>1
    <2>2. /\ IsReply(reply[p]) /\ reply[p].kind = "none"
          /\ IsReply(got[p]) /\ got[p].kind = "present" /\ got[p].recs = << >>
      BY <2>1, PlainFacts
    <2>3. IsJob(NoJob) /\ NoJob.step = "none"
      BY EmptyIsSeq DEF IsJob, NoJob
    <2>4. PkgType(p)
      <3>1. IsRequest(req[p])
        BY <2>1 DEF IsRequest
      <3>2. Len(got[p].recs) <= Hits + 1
        BY <1>2, <2>2, EmptyIsSeq
      <3> QED
        BY <2>1, <2>2, <2>3, <3>1, <3>2 DEF PkgType
    <2>5. req[p].kind = "none"
      BY <2>1 DEF None
    <2>6. Located(p)
      BY <2>1, <2>2, <2>3, <2>5 DEF Located, Busy, Down
    <2>7. Authed(p)
      BY <2>1, <2>5 DEF Authed, Down
    <2>8. Ordered(p)
      BY <2>1, <2>3 DEF Ordered, Busy, Down
    <2> QED
      BY <2>4, <2>6, <2>7, <2>8 DEF PkgInv
  <1>4. TypeInv
    BY <1>1, <1>3 DEF TypeInv, PkgInv, Place
  <1>5. PlaceInv
    <2>1. TargetOK(target) /\ FrontOK(front, target)
      BY <1>1 DEF NoTarget, NoFrontend, TargetOK, FrontOK
    <2>2. OneBelow
      BY <1>1 DEF OneBelow, Busy, Down
    <2> QED
      BY <1>1, <1>3, <2>1, <2>2 DEF PlaceInv, PkgInv
  <1>6. AuthInv /\ OrderInv
    BY <1>1, <1>3 DEF AuthInv, OrderInv, PkgInv
  <1>7. ForgetInv
    BY <1>1, ConfFacts, <1>4 DEF ForgetInv, Leaving, Forgetting, Clean, Past, Busy, Down,
       NoFrontend, NoTarget
  <1> QED
    BY <1>4, <1>5, <1>6, <1>7 DEF IInv

LEMMA NextInv ==
  ASSUME IInv, Next
  PROVE  IInv'
  <1>1. CASE RouteNext /\ UNCHANGED sruVars
    <2>1. ASSUME NEW end \in BOOLEAN, Put(end)
          PROVE  IInv'
      BY <1>1, <2>1, PutInv
    <2>2. CASE OtherInit
      BY <1>1, <2>2, OtherInitInv
    <2>3. ASSUME NEW p \in Pkgs, ChainStep(p)
          PROVE  IInv'
      BY <1>1, <2>3, AuthStepInv, LimitInInv, ServeInv, ChunksDoneInv, LimitOutInv DEF ChainStep
    <2>4. ASSUME NEW p \in Pkgs, Result(p)
          PROVE  IInv'
      BY <1>1, <2>4, ResultInv
    <2> QED
      BY <1>1, <2>1, <2>2, <2>3, <2>4 DEF RouteNext
  <1>2. ASSUME NEW p \in Pkgs, SruStep(p)
        PROVE  IInv'
    BY <1>2, GetFrontendInv, SruInv, BackInv, ReleaseFrontendInv DEF SruStep
  <1> QED
    BY <1>1, <1>2 DEF Next

LEMMA StutterInv ==
  ASSUME IInv, UNCHANGED vars
  PROVE  IInv'
  <1>1. /\ conf' = conf /\ pc' = pc /\ closed' = closed /\ ended' = ended /\ req' = req
        /\ reply' = reply /\ got' = got /\ user' = user /\ ses' = ses /\ front' = front
        /\ target' = target /\ passed' = passed /\ early' = early /\ crossed' = crossed
        /\ late' = late /\ entry' = entry /\ job' = job /\ unclosed' = unclosed
    BY DEF vars, routeVars, chainVars, sruVars
  <1>2. TypeInv'
    BY <1>1 DEF IInv, TypeInv, PkgType
  <1>3. PlaceInv'
    BY <1>1 DEF IInv, PlaceInv, Located, OneBelow
  <1>4. AuthInv'
    BY <1>1 DEF IInv, AuthInv, Authed, Allowed
  <1>5. ForgetInv'
    BY <1>1 DEF IInv, ForgetInv, Leaving, Forgetting, Clean
  <1>6. OrderInv'
    <2>1. ASSUME NEW p \in Pkgs
          PROVE  Ordered(p)'
      BY <1>1, PkgInvs, SameOrdered DEF Same, PkgInv
    <2> QED
      BY <2>1 DEF OrderInv
  <1> QED
    BY <1>2, <1>3, <1>4, <1>5, <1>6 DEF IInv

\* The inductive invariant holds of every behaviour of the chain with or without
\* sru_z3950: every step of every filter (filter_auth_simple.cpp, filter_limit.cpp,
\* filter_present_chunk.cpp, filter_sort.cpp, filter_sru_to_z3950.cpp) keeps it.
THEOREM Invariance == Spec => []IInv
  <1>1. Init => IInv
    BY InitInv
  <1>2. IInv /\ [Next]_vars => IInv'
    BY NextInv, StutterInv
  <1> QED
    BY <1>1, <1>2, PTL DEF Spec

-----------------------------------------------------------------------------
(* The records that come with a search response.                           *)

Piggybacked(p) ==
    req[p].kind = "search" /\ reply[p].kind = "search" =>
        FirstOnes(reply[p], req[p], conf.faulty)
FirstInv == \A p \in Pkgs : Piggybacked(p)

\* sru_z3950 changes a request only when it sends one.
LEMMA SruShape ==
  ASSUME NEW q \in Pkgs, SruStep(q)
  PROVE  /\ conf' = conf /\ reply' = reply
         /\ req' = req \/ \E r, j : Send(q, r, j)
  <1>1. CASE GetFrontend(q)
    BY <1>1 DEF GetFrontend, unchangedBelow
  <1>2. CASE Sru(q)
    BY <1>2 DEF Sru, Respond, unchangedBelow
  <1>3. CASE Back(q)
    <2>1. conf' = conf /\ reply' = reply
      BY <1>3 DEF Back, unchangedBelow
    <2>2. CASE job[q].step = "pass" /\ UNCHANGED <<closed, req, sruVars>>
      BY <2>1, <2>2
    <2>3. CASE InitBack(q, job[q])
      BY <2>1, <2>3 DEF InitBack, Respond, SendClose
    <2>4. CASE SearchBack(q, job[q])
      BY <2>1, <2>4 DEF SearchBack, SendClose
    <2>5. CASE PresentBack(q, job[q])
      BY <2>1, <2>5 DEF PresentBack, SendClose
    <2>6. CASE Respond(q, job[q])
      BY <2>1, <2>6 DEF Respond
    <2> QED
      BY <1>3, <2>2, <2>3, <2>4, <2>5, <2>6 DEF Back
  <1>4. CASE ReleaseFrontend(q)
    BY <1>4 DEF ReleaseFrontend, unchangedBelow
  <1> QED
    BY <1>1, <1>2, <1>3, <1>4 DEF SruStep

LEMMA FirstNext ==
  ASSUME IInv, IInv', FirstInv, [Next]_vars
  PROVE  FirstInv'
  <1> SUFFICES ASSUME NEW p \in Pkgs, req'[p].kind = "search", reply'[p].kind = "search"
               PROVE  FirstOnes(reply'[p], req'[p], conf'.faulty)
    BY DEF FirstInv, Piggybacked
  <1>1. pc'[p] \notin Down
    BY DEF IInv, AuthInv, Authed
  <1>2. pc \in [Pkgs -> Place] /\ DOMAIN req = Pkgs /\ DOMAIN reply = Pkgs
    BY DEF IInv, TypeInv
  <1>3. CASE conf' = conf /\ req'[p] = req[p] /\ reply'[p] = reply[p]
    BY <1>3 DEF FirstInv, Piggybacked
  <1>4. CASE UNCHANGED vars
    BY <1>3, <1>4 DEF vars, routeVars, chainVars
  <1>5. ASSUME NEW end \in BOOLEAN, Put(end)
        PROVE  FirstOnes(reply'[p], req'[p], conf'.faulty)
    BY <1>3, <1>5 DEF Put, chainVars
  <1>6. CASE OtherInit
    BY <1>3, <1>6 DEF OtherInit
  <1>7. ASSUME NEW q \in Pkgs, Auth(q)
        PROVE  FirstOnes(reply'[p], req'[p], conf'.faulty)
    <2>1. conf' = conf
      BY <1>7 DEF Auth
    <2>2. PICK r : (\E r2 : Passes(q, r, r2)) \/ Rejects(q, r)
      BY <1>7, AuthShape
    <2>3. ASSUME NEW r2, Passes(q, r, r2)
          PROVE  req'[p] = req[p] /\ reply'[p] = reply[p]
      BY <1>1, <1>2, <2>3 DEF Passes, Pass, Go, Down
    <2>4. ASSUME NEW kind \in {"refused", "diag"}, Reject(q, r, kind)
          PROVE  req'[p] = req[p] /\ reply'[p] = reply[p]
      <3>1. q = p => reply'[p].kind = kind
        BY <1>2, <2>4, PlainFacts DEF Reject
      <3>2. q # p
        BY <2>4, <3>1
      <3> QED
        BY <1>2, <2>4, <3>2 DEF Reject
    <2> QED
      BY <1>3, <2>1, <2>2, <2>3, <2>4 DEF Rejects
  <1>8. ASSUME NEW q \in Pkgs, LimitIn(q)
        PROVE  FirstOnes(reply'[p], req'[p], conf'.faulty)
    <2>1. pc'[q] = "serve" /\ conf' = conf /\ reply' = reply
          /\ req' = [req EXCEPT ![q] = Capped(req[q])]
      BY <1>2, <1>8 DEF LimitIn, Go
    <2>2. q # p
      BY <1>1, <2>1 DEF Down
    <2> QED
      BY <1>2, <1>3, <2>1, <2>2
  <1>9. ASSUME NEW q \in Pkgs, LimitOut(q)
        PROVE  FirstOnes(reply'[p], req'[p], conf'.faulty)
    BY <1>3, <1>9 DEF LimitOut
  <1>10. ASSUME NEW q \in Pkgs, Serve(q)
         PROVE  FirstOnes(reply'[p], req'[p], conf'.faulty)
    <2>1. /\ pc[q] = "serve" /\ conf' = conf /\ req' = req
          /\ Chunked(q) => Offset(q) < req[q].number
      BY <1>10, ServeShape
    <2>2. PICK a : Got(q, a)
      BY <1>10, ServeShape
    <2>3. CASE q # p
      <3>1. reply'[p] = reply[p]
        BY <1>2, <2>2, <2>3 DEF Got, Return
      <3> QED
        BY <1>3, <2>1, <3>1
    <2>4. CASE q = p
      <3>1. ~Chunked(p) /\ Sent(p) = req[p]
        BY <2>1, <2>4 DEF Chunked, Sent
      <3>2. Return(p, a.reply) /\ Answered(a, req[p], closed[p], front, target, conf.faulty)
        BY <2>2, <2>4, <3>1 DEF Got
      <3>3. reply'[p] = a.reply
        BY <1>2, <3>2 DEF Return
      <3> QED
        BY <2>1, <3>2, <3>3 DEF Answered
    <2> QED
      BY <2>3, <2>4
  <1>11. ASSUME NEW q \in Pkgs, ChunksDone(q)
         PROVE  FirstOnes(reply'[p], req'[p], conf'.faulty)
    <2>1. /\ conf' = conf /\ req' = req /\ req[q].kind = "present"
          /\ reply' = [reply EXCEPT ![q] = got[q]]
      BY <1>11 DEF ChunksDone, Chunked, Return
    <2>2. q # p
      BY <2>1
    <2> QED
      BY <1>2, <1>3, <2>1, <2>2
  <1>12. ASSUME NEW q \in Pkgs, Result(q)
         PROVE  FirstOnes(reply'[p], req'[p], conf'.faulty)
    <2>1. /\ conf' = conf /\ req' = [req EXCEPT ![q] = None]
          /\ reply' = [reply EXCEPT ![q] = Plain("none")]
      BY <1>12 DEF Result
    <2>2. q # p
      BY <1>2, <2>1 DEF None
    <2> QED
      BY <1>2, <1>3, <2>1, <2>2
  <1>13. ASSUME NEW q \in Pkgs, SruStep(q)
         PROVE  FirstOnes(reply'[p], req'[p], conf'.faulty)
    <2>1. conf' = conf /\ reply' = reply /\ (req' = req \/ \E r, j : Send(q, r, j))
      BY <1>13, SruShape
    <2>2. ASSUME NEW r, NEW j, Send(q, r, j)
          PROVE  req'[p] = req[p]
      <3>1. pc'[q] = "auth" /\ req' = [req EXCEPT ![q] = r]
        BY <1>2, <2>2 DEF Send, Go
      <3>2. q # p
        BY <1>1, <3>1 DEF Down
      <3> QED
        BY <1>2, <3>1, <3>2
    <2> QED
      BY <1>3, <2>1, <2>2
  <1> QED
    BY <1>4, <1>5, <1>6, <1>7, <1>8, <1>9, <1>10, <1>11, <1>12, <1>13
       DEF Next, RouteNext, ChainStep

LEMMA FirstAlways == Spec => []FirstInv
  <1>1. Init => FirstInv
    <2> SUFFICES ASSUME Init, NEW p \in Pkgs
                 PROVE  Piggybacked(p)
      BY DEF FirstInv
    <2>1. req[p] = None
      BY DEF Init, RouteInit
    <2> QED
      BY <2>1 DEF Piggybacked, None
  <1>2. IInv /\ IInv' /\ FirstInv /\ [Next]_vars => FirstInv'
    BY FirstNext
  <1> QED
    BY <1>1, <1>2, Invariance, PTL DEF Spec

LEMMA FirstInOrder ==
  ASSUME NEW f, NEW r, NEW faulty, FirstOnes(f, r, faulty)
  PROVE  InOrder(f.recs, f.src, 1, FALSE)
  <1>1. ~(Cardinality(f.src) > 1)
    <2>1. CASE f.src = {}
      BY <2>1, FS_EmptySet
    <2>2. ASSUME NEW o, f.src = {o}
          PROVE  Cardinality(f.src) = 1
      <3>1. Cardinality({o}) = 1
        BY FS_Singleton
      <3> QED
        BY <2>2, <3>1
    <2> QED
      BY <2>1, <2>2 DEF FirstOnes
  <1> QED
    BY <1>1 DEF FirstOnes, InOrder, Placed

\* A client gets the records at the positions it asks for, as many as it asks for,
\* in one order of one search, however limit, present_chunk, sort and sru_z3950 cut
\* the request up; two orders only when another package was served between two
\* chunks or the request goes beyond sort's list.  With a search response come the
\* first records, and sort keeps no list of a search that was replaced.
THEOREM RecordsInOrder == Spec => []RightRecords
  <1>1. ASSUME IInv, FirstInv
        PROVE  RightRecords
    <2>1. \A x \in front.sets : \A l \in x.lists : l.search = target.found[x.name]
      BY <1>1 DEF IInv, PlaceInv, FrontOK, SetOK, ListOK
    <2>2. ASSUME NEW p \in Pkgs, reply[p].kind = "present", req[p].kind = "present",
                 req[p].start > 0, pc[p] \in {"limitout", "left"}
          PROVE  /\ InOrder(reply[p].recs, reply[p].src, req[p].start,
                            p \in crossed
                              \/ PastList(reply[p].src, req[p].start + req[p].number - 1))
                 /\ Chunked(p) \/ ~conf.faulty => Len(reply[p].recs) = req[p].number
      <3>1. Ordered(p)
        BY <1>1, PkgInvs DEF PkgInv
      <3>2. Replied(p)
        BY <2>2, <3>1 DEF Ordered
      <3> QED
        BY <3>2, Zenon DEF Replied, LastOf
    <2>3. ASSUME NEW p \in Pkgs, reply[p].kind = "search", req[p].kind = "search"
          PROVE  /\ InOrder(reply[p].recs, reply[p].src, 1, FALSE)
                 /\ Len(reply[p].recs) <= req[p].piggy
                 /\ ~conf.faulty => Len(reply[p].recs) = req[p].piggy
      <3>1. FirstOnes(reply[p], req[p], conf.faulty)
        BY <1>1, <2>3 DEF FirstInv, Piggybacked
      <3> QED
        BY <3>1, FirstInOrder DEF FirstOnes
    <2>4. ASSUME NEW p \in Pkgs, job[p].step = "close", job[p].start > 0
          PROVE  /\ InOrder(job[p].recs, job[p].src, job[p].start,
                            PastList(job[p].src, job[p].start + max_recs(job[p]) - 1))
                 /\ job[p].end = "whole" => Len(job[p].recs) = Cardinality(Wanted(job[p]))
      <3>1. Ordered(p)
        BY <1>1, PkgInvs DEF PkgInv
      <3>2. JobOrdered(job[p])
        BY <2>4, <3>1 DEF Ordered
      <3> QED
        BY <2>4, <3>2, Zenon DEF JobOrdered, LastWanted
    <2> QED
      BY <2>1, <2>2, <2>3, <2>4, Zenon DEF RightRecords
  <1> QED
    BY <1>1, Invariance, FirstAlways, PTL

\* When a session is over, limit, sort and the target have forgotten it, unless a
\* package came down the chain after a closed one or auth_simple closed the session;
\* below sru_z3950 each HTTP request leaves nothing behind unless its Init was refused.
THEOREM SessionsForgotten == Spec => []Forgotten
  <1>1. ASSUME IInv
        PROVE  Forgotten
    <2>1. TypeOK
      <3>1. \A p \in Pkgs : /\ Len(got[p].recs) <= Hits + 1
                            /\ job[p].step \in {"none", "pass", "init", "search", "present", "close"}
        BY <1>1 DEF IInv, TypeInv, PkgType, IsJob
      <3>2. front.entry \in {"none", "plain", "virtual"}
        BY <1>1 DEF IInv, PlaceInv, FrontOK
      <3> QED
        BY <1>1, <3>1, <3>2 DEF IInv, TypeInv, TypeOK, RouteTypeOK
    <2>2. ASSUME conf.front = "z3950", ended, InPool = {}
          PROVE  Clean \/ late
      <3>1. PICK q \in Pkgs : closed[q] /\ pc[q] # "new"
        BY <1>1, <2>2 DEF IInv, ForgetInv
      <3>2. pc[q] = "answered"
        BY <2>2, <3>1 DEF InPool
      <3>3. ~late => Leaving(q)
        BY <1>1, <2>2 DEF IInv, ForgetInv
      <3> QED
        BY <3>1, <3>2, <3>3 DEF Leaving, Past, Clean
    <2>3. conf.front = "sru" /\ entry # "used" => Clean \/ unclosed
      BY <1>1 DEF IInv, ForgetInv
    <2> QED
      BY <2>1, <2>2, <2>3 DEF Forgotten
  <1> QED
    BY <1>1, Invariance, PTL

\* With a user register (userRegister of auth_simple) a search of a database that is
\* not the user's is answered only if it overtook the Init at auth_simple; with a
\* target register only targets of the user get past it.
THEOREM OnlyAuthorised == Spec => []Authorised
  <1>1. IInv => Authorised
    BY DEF IInv, AuthInv, Authed, Allowed, Authorised
  <1> QED
    BY <1>1, Invariance, PTL
=============================================================================
