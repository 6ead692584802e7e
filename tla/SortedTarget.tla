---------------------------- MODULE SortedTarget ----------------------------
(***************************************************************************)
(* What the last two filters of the chain of Route answer to a request:    *)
(* sort (src/src/filter_sort.cpp) and below it backend_test                *)
(* (src/src/filter_backend_test.cpp), or another target that may also drop *)
(* the connection, refuse an Init or return fewer records than asked for.  *)
(*                                                                         *)
(* An answer is the reply, whether the package's session is closed, and    *)
(* the state that sort and target keep of the session afterwards.  sort    *)
(* holds the Frontend of the session from get_frontend to                  *)
(* release_frontend and nothing else leads to the target, so that the      *)
(* requests it makes meanwhile are one step of the package.                *)
(***************************************************************************)
EXTENDS Naturals, Sequences, FiniteSetsExt, SequencesExt

CONSTANTS
    Hits,        \* result_set_size
    Prefetch,    \* m_prefetch
    Key,         \* what the XPath expression finds in record 1 .. Hits
    Supported    \* record syntaxes that the target has

ASSUME SortedTargetAssumption ==
    /\ Hits \in Nat
    /\ Prefetch \in Nat
    /\ Key \in [1 .. Hits -> Nat]

\* A record is <<search, position>>.  src names the orders in which the records
\* of a reply were counted: <<search, 0>> is the target's own, <<search, m>> that
\* of sort's list of m records.
Reply(kind, recs, src) == [kind |-> kind, recs |-> recs, src |-> src]
Plain(kind) == Reply(kind, << >>, {})

Natural(search) == [i \in 1 .. Hits |-> <<search, i>>]

\* RecordList::sort, which is stable: the positions of the first m records
SortedPositions(m) ==
    LET before(i, j) == Key[i] < Key[j] \/ (Key[i] = Key[j] /\ i < j)
    IN  SetToSortSeq(1 .. m, before)
Sorted(search, m) == [i \in 1 .. m |-> <<search, SortedPositions(m)[i]>>]

\* The orders that a reply's records are in
Orders(reply) == IF reply.recs = << >> THEN {} ELSE reply.src

Order(src) == IF src[2] = 0 THEN Natural(src[1]) ELSE Sorted(src[1], src[2])

-----------------------------------------------------------------------------
(* backend_test.  up: in m_sessions; named: m_support_named_result_sets,   *)
(* which is of the filter and not of the session; found: the search that   *)
(* the default set and the named one are of, which backend_test itself     *)
(* does not tell apart.                                                    *)

NoTarget == [up |-> FALSE, named |-> FALSE, found |-> [n \in BOOLEAN |-> 0]]

\* A search is known by a number that no other has.
NewSet(t, name) == [t EXCEPT !.found[name] = t.found[TRUE] + t.found[FALSE] + 1]

\* fetch; from another target fewer records, or a response with none ("empty")
fetch(search, syntax, start, number, faulty) ==
    IF start < 1 \/ number + start - 1 > Hits \/ syntax \notin Supported
    THEN {Plain("diag")}
    ELSE {Reply("present", SubSeq(Natural(search), start, start + n - 1), {<<search, 0>>}) :
            n \in IF faulty THEN 0 .. number ELSE {number}}
         \cup (IF faulty THEN {Plain("empty")} ELSE {})

\* A search that is refused leaves the sets as they are and has no hits; a
\* diagnostic in place of the records does not change that there is a set.
Unnamed(t, r) == r.named /\ ~t.named
After(t, r) == IF Unnamed(t, r) THEN t ELSE NewSet(t, r.named)

Searched(t, r, faulty) ==
    IF Unnamed(t, r) THEN {Plain("diag")}
    ELSE IF r.piggy = 0 THEN {Plain("search")}
    ELSE {IF f.kind = "diag" THEN f ELSE [f EXCEPT !.kind = "search"] :
            f \in fetch(After(t, r).found[r.named], r.syntax, 1, r.piggy, faulty)}

\* The reply, and m_sessions.release of a closed session
Answer(reply, closed, t) ==
    [reply |-> reply, closed |-> closed, target |-> [t EXCEPT !.up = @ /\ ~closed]]

\* A target that does not answer: z3950_client closes the session.
Dropped(r, t, faulty) ==
    IF faulty /\ r.kind # "none" THEN {Answer(Plain("none"), TRUE, t)} ELSE {}

TargetAnswers(r, closed, t, faulty) ==
    Dropped(r, t, faulty) \cup
    CASE r.kind = "none" -> {Answer(Plain("none"), closed, t)}
      [] r.kind = "init" ->
            {Answer(Plain("init"), closed, [t EXCEPT !.up = TRUE, !.named = @ \/ r.named])}
            \cup IF faulty THEN {Answer(Plain("refused"), closed, t)} ELSE {}
      [] r.kind \notin {"none", "init"} /\ ~t.up -> {Answer(Plain("close"), TRUE, t)}
      [] r.kind = "search" /\ t.up ->
            {Answer(s, closed, After(t, r)) : s \in Searched(t, r, faulty)}
      [] r.kind = "present" /\ t.up ->
            {Answer(f, closed, t) :
                f \in fetch(t.found[r.named], r.syntax, r.start, r.number, faulty)}
      [] OTHER -> {Answer(Plain("close"), TRUE, t)}

-----------------------------------------------------------------------------
(* sort.  The Frontend of the session: absent, not virtual until an Init   *)
(* has passed; sets: the names in m_sets with their hit_count and their    *)
(* record_lists, each of a syntax and of the first size records of a       *)
(* search.                                                                 *)

NoFrontend == [entry |-> "none", sets |-> {}]

ListOf(set, syntax) == {l \in set.lists : l.syntax = syntax}
SetOf(s, name) == {x \in s.sets : x.name = name}

\* RecordList::get: a position before the first is the first, if there is one
NoRecord == <<0, 0>>
Get(l, pos) ==
    IF l.size = 0 THEN NoRecord ELSE Sorted(l.search, l.size)[IF pos < 1 THEN 1 ELSE pos]

\* The resultCount of a search response.  Without one hit_count is not initialised;
\* what is outside of 0 .. Hits has the effect of one of these.
HitCounts(r, t, reply) ==
    IF reply.kind = "search" THEN {Hits}
    ELSE IF reply.kind = "diag" THEN {IF Unnamed(t, r) THEN 0 ELSE Hits}
    ELSE 0 .. Hits

\* handle_records: the first records of a set in a syntax are the reason to fetch
\* up to m_prefetch of them, until one answer has none, and to sort those.
handle_records(a, s, set, r, start, faulty) ==
    LET k == Len(a.reply.recs)
        last == IF Prefetch > set.hits THEN set.hits ELSE Prefetch
        n == a.target.found[r.named]
        Listed(m, t) ==
            [a EXCEPT !.target = t,
                      !.reply = [@ EXCEPT !.recs = SubSeq(Sorted(n, m), 1, k), !.src = {<<n, m>>}],
                      !.sort = [s EXCEPT !.sets = (@ \ {set}) \cup
                          {[set EXCEPT !.lists = @ \cup {[syntax |-> r.syntax, search |-> n,
                                                           size |-> m]}]}]]
    IN  IF a.reply.src = {} \/ start # 1 \/ ListOf(set, r.syntax) # {} THEN {a}
        ELSE IF k = 0 \/ k >= last THEN {Listed(k, a.target)}
        ELSE {Listed(last, a.target)} \cup
             (IF faulty
              THEN UNION {{Listed(m, t) : m \in k .. last - 1} :
                            t \in {a.target, [a.target EXCEPT !.up = FALSE]}}
              ELSE {})

\* What comes back from below in a package of its own: that its session was
\* closed stays with that package.
Below(r, closed, s, t, faulty) ==
    {[reply |-> a.reply, closed |-> closed, sort |-> s, target |-> a.target] :
        a \in TargetAnswers(r, closed, t, faulty)}

Refuse(closed, s, t) == [reply |-> Plain("diag"), closed |-> closed, sort |-> s, target |-> t]

\* handle_search
handle_search(r, closed, s, t, faulty) ==
    IF SetOf(s, r.named) # {} /\ ~r.replace THEN {Refuse(closed, s, t)}
    ELSE UNION {LET new == [name |-> r.named, hits |-> h, lists |-> {}]
                    s2 == [s EXCEPT !.sets = (@ \ SetOf(s, r.named)) \cup {new}]
                IN  UNION {handle_records(a, s2, new, r, 1, faulty) :
                               a \in {b \in Below(r, closed, s2, t, faulty) :
                                        h \in HitCounts(r, t, b.reply)}} :
                    h \in 0 .. Hits}

\* handle_present: from the list when it has all that is asked for
FromList(l, r) ==
    Reply("present", [i \in 1 .. r.number |-> Get(l, r.start + i - 1)], {<<l.search, l.size>>})

handle_present(r, closed, s, t, faulty) ==
    IF SetOf(s, r.named) = {} THEN {Refuse(closed, s, t)}
    ELSE LET set == CHOOSE x \in SetOf(s, r.named) : TRUE
             fit == {l \in ListOf(set, r.syntax) : r.start + r.number <= l.size + 1}
         IN  IF fit # {}
             THEN {[Refuse(closed, s, t) EXCEPT !.reply = FromList(l, r)] : l \in fit}
             ELSE UNION {handle_records(a, s, set, r, r.start, faulty) :
                            a \in Below(r, closed, s, t, faulty)}

\* process, from get_frontend to release_frontend
Released(a) == IF a.closed THEN [a EXCEPT !.sort = NoFrontend] ELSE a

SortAnswers(r, closed, s0, t, faulty) ==
    LET s == IF s0.entry = "none" THEN [s0 EXCEPT !.entry = "plain"] ELSE s0
        passed == {[reply |-> a.reply, closed |-> a.closed, target |-> a.target,
                    sort |-> IF r.kind = "init" THEN [s EXCEPT !.entry = "virtual"] ELSE s] :
                      a \in TargetAnswers(r, closed, t, faulty)}
    IN  {Released(a) : a \in
            IF s.entry = "virtual" /\ r.kind = "search"
            THEN handle_search(r, closed, s, t, faulty)
            ELSE IF s.entry = "virtual" /\ r.kind = "present"
            THEN handle_present(r, closed, s, t, faulty)
            ELSE passed}

\* Without a sort filter in the chain
Answers(r, closed, s, t, sorting, faulty) ==
    IF sorting THEN SortAnswers(r, closed, s, t, faulty)
    ELSE {[reply |-> a.reply, closed |-> a.closed, target |-> a.target, sort |-> s] :
            a \in TargetAnswers(r, closed, t, faulty)}
=============================================================================
