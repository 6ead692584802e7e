---------------------------- MODULE MultiSearch -----------------------------
(***************************************************************************)
(* The multi filter (src/src/filter_multi.cpp) but for the merge of a      *)
(* Present, which is MultiPresent: the client names several targets at     *)
(* Init, each of which is given a session; Search, Present and Scan go to  *)
(* all of them at the same time and the answers are put together.          *)
(*                                                                         *)
(* One client session, with the packages of Clients.  The threads that     *)
(* multi_move starts are joined before the answers are looked at, and the  *)
(* Frontend is the package's own while it is worked on: the work of a      *)
(* package is one action, with an answer of each target chosen.            *)
(***************************************************************************)
EXTENDS Clients, Piggyback, Sequences, FiniteSetsExt, Functions, SequencesExt

CONSTANTS
    SetNames,    \* result set names
    TargetLists, \* the lists of targets that a client may name at Init
    MaxHits,     \* bound: hits at one target
    Index,       \* [target -> [term -> number of occurrences]]; terms are numbers
    PiggyBounds, \* piggyback bounds of search requests
    ScanArgs     \* Scan requests: [term, number, position]; scan takes it that there is a
                 \* position and that it is among the entries or next to them

ASSUME MultiSearchAssumption ==
    /\ \A ts \in TargetLists : ts \in Seq(DOMAIN Index)
    /\ PiggyBounds \subseteq Bounds
    /\ \A a \in ScanArgs : a.number \in Nat \ {0} /\ a.position \in 0 .. a.number + 1

VARIABLES
    hide,        \* m_hide_unavailable and m_hide_errors
    multi,       \* m_is_multi
    list,        \* m_backend_list
    sets,        \* m_sets: the hits at each backend, or << >>
    be,          \* every backend session that was made, and what it is at the target
    want,        \* the search each of the client's sets stands for, or 0
    shown,       \* the records in the last response: set, search and backend
    scanned      \* the last Scan response: what was asked of whom, and the entries

multiVars == <<hide, multi, list, sets, be, want, shown, scanned>>
vars == <<clientVars, multiVars>>

Targets == DOMAIN Index
NoSet == [n \in SetNames |-> << >>]
NoSearch == [n \in SetNames |-> 0]
NoScan == [from |-> {}, args |-> << >>, entries |-> << >>]

TypeOK ==
    /\ ClientsTypeOK
    /\ hide \in [unavailable : BOOLEAN, errors : BOOLEAN]
    /\ multi \in BOOLEAN
    /\ list \subseteq DOMAIN be
    /\ \A n \in SetNames : DOMAIN sets[n] \subseteq list
    /\ \A b \in DOMAIN be : be[b].target \in Targets /\ be[b].open \in BOOLEAN
                            /\ be[b].sets \in [SetNames -> 0 .. MaxPkgs]
    /\ want \in [SetNames -> 0 .. MaxPkgs]

Init ==
    /\ ClientsInit
    /\ hide \in [unavailable : BOOLEAN, errors : BOOLEAN]
    /\ multi = FALSE
    /\ list = {}
    /\ sets = NoSet
    /\ be = << >>
    /\ want = NoSearch
    /\ shown = {}
    /\ scanned = NoScan

-----------------------------------------------------------------------------
get_frontend(p) ==
    /\ Get(p)
    /\ UNCHANGED multiVars

\* Frontend::close: every backend is told with a closed package.
close == [b \in DOMAIN be |-> [be[b] EXCEPT !.open = @ /\ b \notin list]]

\* Sessions are forgotten when the last of them has ended.
Remaining(bes) == IF \A b \in DOMAIN bes : ~bes[b].open THEN << >> ELSE bes

release_frontend(p) ==
    /\ Release(p)
    /\ IF closed[p]
       THEN /\ be' = Remaining(close)
            /\ list' = {}
            /\ multi' = FALSE
            /\ sets' = NoSet
            /\ want' = NoSearch
       ELSE UNCHANGED <<multi, list, sets, be, want>>
    /\ shown' = {}
    /\ scanned' = NoScan
    /\ UNCHANGED hide

\* What the backends bs answer to a package that multi_move sends to them: a
\* closed one has no answer to give but that it is closed.
multi_move(bs, kinds) ==
    {a \in [bs -> kinds] : \A b \in bs : ~be[b].open => a[b] = "closed"}

Of(answer, kind) == {b \in DOMAIN answer : answer[b] = kind}

\* The sessions of backends bs have ended
EndIn(bes, bs) == [b \in DOMAIN bes |-> [bes[b] EXCEPT !.open = @ /\ b \notin bs]]

\* record_diagnostics: a failure that some target has is told to the client; one
\* that is to be hidden, if nobody was successful
Told(failed, hidden, successful) == failed # {} /\ (successful = {} \/ ~hidden)

-----------------------------------------------------------------------------
\* init: a session for each target.  The ones that are closed are not kept in the
\* list; those that refuse are.  A mutant that keeps none that failed.
KeptAccepted(new, answer) == Of(answer, "accepted")
Kept(new, answer) == new \ Of(answer, "closed")

init(p, targets) ==
    LET new == {Len(be) + i : i \in DOMAIN targets}
        made == be \o [i \in DOMAIN targets |->
                          [target |-> targets[i], open |-> TRUE, sets |-> NoSearch]]
    IN  \E answer \in [new -> {"accepted", "rejected", "closed"}] :
           /\ multi' = TRUE
           /\ be' = EndIn(made, Of(answer, "closed"))
           /\ list' = Kept(new, answer)
           /\ Handled(p, Told(new \ Of(answer, "accepted"), hide.unavailable,
                              Of(answer, "accepted")))

InitRequest(p) ==
    /\ \/ \E targets \in TargetLists : targets # << >> /\ init(p, targets)
       \/ \E shut \in BOOLEAN : Handled(p, shut) /\ UNCHANGED <<multi, list, be>>
    /\ UNCHANGED <<hide, sets, want, shown, scanned>>

-----------------------------------------------------------------------------
\* The records of a set that backends bs give, as they are at the targets
RecordsOf(n, bs, bes) == {[set |-> n, search |-> bes[b].sets[n], b |-> b] : b \in bs}

\* present: those of the set's backends that have a record wanted are asked, and
\* the records of those that answer are given.  (MultiPresent has the order, and
\* what becomes of a closed backend that hide.errors hides.)
PresentAt(p, n, hits, bes) ==
    \E asked \in SUBSET {b \in DOMAIN hits : hits[b] > 0} :
    \E answer \in [asked -> {"records", "diag", "closed"}] :
        LET ok == Of(answer, "records")
            failed == Told(Of(answer, "diag"), hide.errors, ok)
            shut == Told(Of(answer, "closed"), hide.errors, ok)
        IN  /\ \A b \in asked : answer[b] = "closed" \/ bes[b].open
            /\ be' = EndIn(bes, Of(answer, "closed"))
            /\ shown' = IF shut \/ failed THEN {} ELSE RecordsOf(n, ok, bes)
            /\ Handled(p, shut)

present(p, n) ==
    /\ \/ /\ sets[n] = << >>
          /\ Handled(p, FALSE)
          /\ UNCHANGED <<be, shown>>
       \/ /\ sets[n] # << >>
          /\ PresentAt(p, n, sets[n], be)
    /\ UNCHANGED <<hide, multi, list, sets, want, scanned>>

\* m_sets[name] = resultSet, whatever was told; a mutant that does it only if all
\* targets found the set
StoredIfOK(n, hits, failed) == IF failed = {} THEN [sets EXCEPT ![n] = hits] ELSE sets
Stored(n, hits, failed) == [sets EXCEPT ![n] = hits]

\* The sets at the targets when search p has been answered: hold have the set of
\* that search, lost none any more, others that failed the set of an earlier search
Searched(p, n, hold, lost, gone) ==
    [b \in DOMAIN be |->
        IF b \in hold THEN [be[b] EXCEPT !.sets[n] = p]
        ELSE IF b \in lost THEN [be[b] EXCEPT !.sets[n] = 0]
        ELSE [be[b] EXCEPT !.open = @ /\ b \notin gone]]

\* A target that gives a diagnostic may count hits all the same, in a set that it
\* then has; if it counts none it has what it likes.
search(p, n, bounds) ==
    /\ \E answer \in multi_move(list, {"found", "diag", "closed"}) :
       LET found == Of(answer, "found")
           failed == Of(answer, "diag")
           gone == Of(answer, "closed")
           shut == Told(gone, hide.unavailable, found)
       IN  \E hits \in [found \cup failed -> 0 .. MaxHits], lost \in SUBSET failed :
              LET bes == Searched(p, n, found \cup {b \in failed : hits[b] > 0}, lost, gone)
              IN  \/ /\ shut
                     /\ be' = bes
                     /\ Handled(p, TRUE)
                     /\ UNCHANGED <<sets, want, shown>>
                  \/ /\ ~shut
                     /\ sets' = Stored(n, hits, failed)
                     /\ want' = [want EXCEPT ![n] = p]
                     /\ IF failed = {} /\ piggyback(bounds, SumFunction(hits)) > 0
                        THEN PresentAt(p, n, hits, bes)
                        ELSE be' = bes /\ Handled(p, FALSE) /\ UNCHANGED shown
    /\ UNCHANGED <<hide, multi, list, scanned>>

-----------------------------------------------------------------------------
(* Scan.                                                                   *)

\* How many entries are ahead of the term in a response
Ahead(args, before) == Min({Max({args.position - 1, 0}), Len(before)})

\* (external) The entries of an index around a term: up to position - 1 before it,
\* then the rest; and the place of the term among them.  At position 0 are the
\* entries after the term.
ScanOf(index, args) ==
    LET there == {t \in DOMAIN index : index[t] > 0}
        first == IF args.position = 0 THEN args.term + 1 ELSE args.term
        below == SetToSortSeq({t \in there : t < first}, <)
        above == SetToSortSeq({t \in there : t >= first}, <)
        k == Ahead(args, below)
        terms == SubSeq(below, Len(below) - k + 1, Len(below))
                 \o SubSeq(above, 1, Min({args.number - k, Len(above)}))
    IN  [entries |-> [i \in DOMAIN terms |-> [term |-> terms[i], count |-> index[terms[i]]]],
         position |-> IF args.position = 0 THEN 0 ELSE k + 1]

\* Where an entry goes into entries_before, which descends, and into
\* entries_after, which ascends
PlaceBefore(entries, e) == 1 + Cardinality({i \in DOMAIN entries : e.term < entries[i].term})
PlaceAfter(entries, e) == 1 + Cardinality({i \in DOMAIN entries : entries[i].term < e.term})

\* An entry that is there already is counted, another inserted; and a mutant that
\* forgets to count
InsertOnce(entries, i, e) ==
    IF i <= Len(entries) /\ entries[i].term = e.term THEN entries ELSE InsertAt(entries, i, e)
Insert(entries, i, e) ==
    IF i <= Len(entries) /\ entries[i].term = e.term
    THEN [entries EXCEPT ![i].count = @ + e.count]
    ELSE InsertAt(entries, i, e)

InsertBefore(entries, e) == Insert(entries, PlaceBefore(entries, e), e)
InsertAfter(entries, e) == Insert(entries, PlaceAfter(entries, e), e)

\* The entries of all responses before and after the term, put together
Before(responses) ==
    FoldLeft(InsertBefore, << >>,
             FlattenSeq([i \in DOMAIN responses |->
                            SubSeq(responses[i].entries, 1, responses[i].position - 1)]))
After(responses) ==
    FoldLeft(InsertAfter, << >>,
             FlattenSeq([i \in DOMAIN responses |->
                            SubSeq(responses[i].entries, Max({responses[i].position, 1}),
                                   Len(responses[i].entries))]))

\* position_returned and the entries in the response
MergedScan(responses, args) ==
    LET before == Before(responses)
        after == After(responses)
        k == Ahead(args, before)
    IN  Reverse(SubSeq(before, 1, k)) \o SubSeq(after, 1, Min({args.number - k, Len(after)}))

\* The backends in the order of the list
InOrder(bs) == SetToSortSeq(bs, <)

\* The first target that does not return entries decides.
scan(p, args) ==
    /\ \E answer \in multi_move(list, {"entries", "diag", "closed"}) :
       LET bad == list \ Of(answer, "entries")
       IN  /\ be' = EndIn(be, Of(answer, "closed"))
           /\ Handled(p, bad # {} /\ answer[Min(bad)] = "closed")
           /\ scanned' =
                IF bad # {} THEN NoScan
                ELSE [from |-> list, args |-> args,
                      entries |-> MergedScan([i \in 1 .. Cardinality(list) |->
                                    ScanOf(Index[be[InOrder(list)[i]].target], args)], args)]
    /\ UNCHANGED <<hide, multi, list, sets, want, shown>>

-----------------------------------------------------------------------------
\* relay_apdu: a Close goes to all; if one closes, so does the client's session.
relay_apdu(p) ==
    /\ \E answer \in multi_move(list, {"open", "closed"}) :
           /\ be' = EndIn(be, Of(answer, "closed"))
           /\ Handled(p, Of(answer, "closed") # {})
    /\ UNCHANGED <<hide, multi, list, sets, want, shown, scanned>>

\* A session that is not multi is passed on; a second Init, and what is not
\* supported, is answered with Close.
Untouched == UNCHANGED multiVars
PassOn(p) == Untouched /\ \E shut \in BOOLEAN : Handled(p, shut)
BadRequest(p) == Untouched /\ Handled(p, TRUE)
NoRequest(p) == Untouched /\ Handled(p, FALSE)

process(p) ==
    \/ ~multi /\ ~closed[p] /\ InitRequest(p)
    \/ ~multi /\ PassOn(p)
    \/ /\ multi /\ ~closed[p]
       /\ \/ \E n \in SetNames, bounds \in PiggyBounds : search(p, n, bounds)
          \/ \E n \in SetNames : present(p, n)
          \/ \E args \in ScanArgs : scan(p, args)
          \/ relay_apdu(p)
          \/ BadRequest(p)
    \/ multi /\ closed[p] /\ NoRequest(p)

Environment ==
    /\ \/ \E end \in BOOLEAN : Put(end)
       \/ \E p \in Pkgs : Result(p)
    /\ UNCHANGED multiVars

Step(p) ==
    \/ get_frontend(p)
    \/ stage[p] = "held" /\ process(p)
    \/ release_frontend(p)

Next == Environment \/ \E p \in Pkgs : Step(p)

Spec == Init /\ [][Next]_vars

-----------------------------------------------------------------------------
\* A set that the filter keeps for the client has every target that is still open,
\* and a target that counts in it holds the set of that very search: neither a
\* failing target, which may keep the set of an earlier search, nor one that is
\* hidden, leaves its old hits in m_sets.  Records come from the last search and no
\* other.  A session that is being closed is excepted: its search returns before
\* the set is stored.
SetsMatchTargets ==
    /\ TypeOK
    /\ (\A p \in Pkgs : stage[p] = "handled" => ~closed[p]) =>
          \A n \in SetNames : \A b \in list :
              /\ be[b].open => (b \in DOMAIN sets[n] <=> want[n] # 0)
              /\ b \in DOMAIN sets[n] /\ sets[n][b] > 0 => be[b].sets[n] = want[n]
    /\ \A r \in shown : r.search = want[r.set] /\ r.search # 0

\* A session with a target that is open is in the list of a Frontend that is
\* there, which is used by one package at a time; so the target is told when the
\* client's session ends, whether it accepted the Init or not.
NoBackendLeft ==
    /\ HeldByOne
    /\ \A b \in DOMAIN be : be[b].open => b \in list /\ entry # "none"

\* The merged Scan response is what a single target would answer that has the
\* terms of all of them: the same entries, in order, with their counts added.
ScanExact ==
    scanned # NoScan =>
        LET merged == [t \in UNION {DOMAIN Index[g] : g \in Targets} |->
                         SumFunction([b \in scanned.from |-> Index[be[b].target][t]])]
        IN  scanned.entries = ScanOf(merged, scanned.args).entries
=============================================================================
