---------------------------- MODULE MultiPresent ----------------------------
(***************************************************************************)
(* A Present request in the multi filter (src/src/filter_multi.cpp):       *)
(* Frontend::present merges the result sets that several targets have for  *)
(* one search.  round_robin or serve_order lists the records to fetch (the *)
(* jobs), each target is asked, by a thread of its own, for the range that *)
(* covers its jobs, and the answers are put together in the order of the   *)
(* jobs.                                                                   *)
(*                                                                         *)
(* The two listing algorithms are modelled by their loops, one iteration a *)
(* step, and compared with a definition of the merge orders (Rank).        *)
(***************************************************************************)
EXTENDS Integers, Sequences, FiniteSets, FiniteSetsExt, Functions, SequencesExt

CONSTANTS
    NoSets,       \* number of targets
    MaxCount,     \* bound: hits at one target
    BelowFirst,   \* bound: how far below the first record a start point is
    MaxNumber     \* bound: records requested

ASSUME BoundsAssumption ==
    /\ NoSets \in Nat \ {0}
    /\ MaxCount \in Nat
    /\ BelowFirst \in Nat
    /\ MaxNumber \in Nat

VARIABLES
    counts,  \* m_count of each of m_backend_sets
    start,   \* resultSetStartPoint
    number,  \* numberOfRecordsRequested
    merge,   \* m_merge_type
    hide,    \* m_hide_errors
    phase,   \* where present() is
    p,       \* position, in the merged set, of the next record looked at
    pos,     \* position of the next record of each set
    omin,    \* hit count that the skipping has dealt with
    bs,      \* bsit, or i in serve_order
    more,    \* the round has found a record
    jobs,    \* the jobs: a set, and a position in it
    reply,   \* what each target that was asked answered
    result   \* the response

vars == <<counts, start, number, merge, hide, phase, p, pos, omin, bs, more,
          jobs, reply, result>>
request == <<counts, start, number, merge, hide>>

Sets == 1 .. NoSets
Job == [set : Sets, pos : Int]

Phase == {"skip", "fetch", "serve", "ask", "move", "merge", "done"}
Reply == [kind : {"none", "records", "diag", "closed"}, num : Nat]
Response == [kind : {"none", "records", "diag", "close", "outOfRange", "crash"},
             recs : Seq(Job)]

Answer(kind, recs) == [kind |-> kind, recs |-> recs]

TypeOK ==
    /\ counts \in [Sets -> 0 .. MaxCount]
    /\ start \in Int
    /\ number \in Int
    /\ merge \in {"round_robin", "serve_order"}
    /\ hide \in BOOLEAN
    /\ phase \in Phase
    /\ p \in Int
    /\ pos \in [Sets -> Int]
    /\ omin \in 0 .. MaxCount
    /\ bs \in Nat
    /\ more \in BOOLEAN
    /\ jobs \in Seq(Job)
    /\ reply \in [Sets -> Reply]
    /\ result \in Response

\* A request for some records of some merged result set, its end included.  The
\* start point and the number are whatever the client sends.
Init ==
    /\ counts \in [Sets -> 0 .. MaxCount]
    /\ start \in 1 - BelowFirst .. NoSets * MaxCount + 1
    /\ number \in -1 .. MaxNumber
    /\ merge \in {"round_robin", "serve_order"}
    /\ hide \in BOOLEAN
    /\ phase = IF merge = "round_robin" THEN "skip" ELSE "serve"
    /\ p = 1
    /\ pos = [i \in Sets |-> 1]
    /\ omin = 0
    /\ bs = IF merge = "round_robin" THEN 1 ELSE 0
    /\ more = FALSE
    /\ jobs = << >>
    /\ reply = [i \in Sets |-> [kind |-> "none", num |-> 0]]
    /\ result = Answer("none", << >>)

-----------------------------------------------------------------------------
(* round_robin: the "optimization step", one class of sets an iteration.   *)

Larger == {i \in Sets : counts[i] > omin}
NoLeft == Cardinality(Larger)
MinCount == Min({counts[i] : i \in Larger})

\* The rounds to skip inside the range; the division of C rounds towards 0
WholeRounds == IF start >= p THEN (start - p) \div NoLeft
               ELSE -((p - start) \div NoLeft)

\* Every set moves on by k records, although some may have ended.
Advance(k) ==
    /\ p' = p + NoLeft * k
    /\ pos' = [i \in Sets |-> pos[i] + k]

NextClass == omin' = MinCount

SkipClass ==
    /\ phase = "skip"
    /\ \/ /\ Larger = {}
          /\ phase' = "fetch"
          /\ UNCHANGED <<p, pos, omin>>
       \/ /\ Larger # {}
          /\ p + NoLeft * MinCount > start
          /\ Advance(WholeRounds)
          /\ phase' = "fetch"
          /\ UNCHANGED omin
       \/ /\ Larger # {}
          /\ p + NoLeft * MinCount <= start
          /\ Advance(MinCount)
          /\ NextClass
          /\ UNCHANGED phase
    /\ UNCHANGED <<request, bs, more, jobs, reply, result>>

\* ... and its main loop, one set an iteration, one record of each set a round.
FetchOne ==
    /\ phase = "fetch"
    /\ bs <= NoSets
    /\ Len(jobs) < number
    /\ LET there == pos[bs] <= counts[bs]
       IN  /\ jobs' = IF there /\ p >= start
                      THEN Append(jobs, [set |-> bs, pos |-> pos[bs]]) ELSE jobs
           /\ pos' = IF there THEN [pos EXCEPT ![bs] = @ + 1] ELSE pos
           /\ p' = IF there THEN p + 1 ELSE p
           /\ more' = (more \/ there)
    /\ bs' = bs + 1
    /\ UNCHANGED <<request, phase, omin, reply, result>>

\* more = false, at the start of a round; a mutant that forgets it
KeepMore == UNCHANGED more
NoMoreYet == more' = FALSE

NextRound ==
    /\ phase = "fetch"
    /\ bs > NoSets
    /\ more
    /\ NoMoreYet
    /\ bs' = 1
    /\ UNCHANGED <<request, phase, p, pos, omin, jobs, reply, result>>

FetchEnd ==
    /\ phase = "fetch"
    /\ \/ bs <= NoSets /\ Len(jobs) >= number
       \/ bs > NoSets /\ ~more
    /\ phase' = "ask"
    /\ UNCHANGED <<request, p, pos, omin, bs, more, jobs, reply, result>>

-----------------------------------------------------------------------------
(* serve_order: one record an iteration.                                   *)

Before(i) == SumFunctionOnSet(counts, 1 .. i - 1)

\* The sets that have the record at an offset
Having(offset) == {i \in Sets : offset >= Before(i) /\ offset < Before(i) + counts[i]}

ServeOne ==
    /\ phase = "serve"
    /\ bs < number
    /\ LET offset == start + bs - 1
       IN  jobs' = IF Having(offset) = {} THEN jobs
                   ELSE LET i == Min(Having(offset))
                        IN  Append(jobs, [set |-> i, pos |-> offset - Before(i) + 1])
    /\ bs' = bs + 1
    /\ UNCHANGED <<request, phase, p, pos, omin, more, reply, result>>

ServeEnd ==
    /\ phase = "serve"
    /\ bs >= number
    /\ phase' = "ask"
    /\ UNCHANGED <<request, p, pos, omin, bs, more, jobs, reply, result>>

-----------------------------------------------------------------------------
(* present: the range asked of each target, the answers, the response.     *)

JobsOf(i) == SelectSeq(jobs, LAMBDA j : j.set = i)

\* start and end of the jobs of a set, where -1 stands for none so far
RangeStart(i) ==
    FoldLeft(LAMBDA s, j : IF s = -1 \/ j.pos < s THEN j.pos ELSE s, -1, JobsOf(i))
RangeEnd(i) ==
    FoldLeft(LAMBDA e, j : IF e = -1 \/ j.pos > e THEN j.pos ELSE e, -1, JobsOf(i))

Asked == {i \in Sets : RangeStart(i) # -1}

\* end - start + 1; a mutant without the 1
RangeSizeShort(i) == RangeEnd(i) - RangeStart(i)
RangeSize(i) == RangeEnd(i) - RangeStart(i) + 1

\* multi_move: the targets answer in any order.
Ask ==
    /\ phase = "ask"
    /\ phase' = "move"
    /\ UNCHANGED <<request, p, pos, omin, bs, more, jobs, reply, result>>

\* (external) records, the ones asked for or fewer, a diagnostic, or the end of
\* the session; there are no records to return before the first.
Answers(i) ==
    [kind : {"diag", "closed"}, num : {0}] \union
    IF RangeStart(i) < 1 THEN {} ELSE [kind : {"records"}, num : 0 .. RangeSize(i)]

TargetAnswers(i) ==
    /\ phase = "move"
    /\ i \in Asked
    /\ reply[i].kind = "none"
    /\ \E r \in Answers(i) : reply' = [reply EXCEPT ![i] = r]
    /\ UNCHANGED <<request, phase, p, pos, omin, bs, more, jobs, result>>

JoinAll ==
    /\ phase = "move"
    /\ \A i \in Asked : reply[i].kind # "none"
    /\ phase' = "merge"
    /\ UNCHANGED <<request, p, pos, omin, bs, more, jobs, reply, result>>

Failed(kind) == \E i \in Asked : reply[i].kind = kind
Reported == hide => \A i \in Asked : reply[i].kind # "records"

\* The record of a job in its target's answer, by inside_pos; jobs of a target
\* that answered a diagnostic, or fewer records, are passed over.
Start(j) == IF j.pos \in RangeStart(j.set) .. RangeEnd(j.set)
            THEN RangeStart(j.set) ELSE 0
Inside(j) == j.pos - Start(j)
Found(j) == reply[j.set].kind = "records" /\ Inside(j) < reply[j.set].num
RecordOf(j) == [set |-> j.set, pos |-> RangeStart(j.set) + Inside(j)]

Records == LET found == SelectSeq(jobs, Found)
           IN  [n \in DOMAIN found |-> RecordOf(found[n])]

\* A hidden target that closed, and one with jobs that was not asked, has no
\* Present response to look into.
NoResponse == \E n \in DOMAIN jobs : reply[jobs[n].set].kind \in {"none", "closed"}

Merged == IF NoResponse THEN Answer("crash", << >>) ELSE Answer("records", Records)

Merge ==
    /\ phase = "merge"
    /\ result' =
        CASE Failed("closed") /\ Reported -> Answer("close", << >>)
          [] ~(Failed("closed") /\ Reported) /\ Failed("diag") /\ Reported ->
                Answer("diag", << >>)
          [] ~((Failed("closed") \/ Failed("diag")) /\ Reported)
             /\ (number < 0 \/ number > Len(jobs)) -> Answer("outOfRange", << >>)
          [] OTHER -> Merged
    /\ phase' = "done"
    /\ UNCHANGED <<request, p, pos, omin, bs, more, jobs, reply>>

-----------------------------------------------------------------------------
Next == \/ SkipClass
        \/ FetchOne
        \/ NextRound
        \/ FetchEnd
        \/ ServeOne
        \/ ServeEnd
        \/ Ask
        \/ \E i \in Sets : TargetAnswers(i)
        \/ JoinAll
        \/ Merge

Spec == Init /\ [][Next]_vars

\* present() runs, and every target answers or is given up by its filters.
FairSpec == Spec /\ WF_vars(Next)

-----------------------------------------------------------------------------
(* The orders that the two merge types stand for.                          *)

Record == {r \in [set : Sets, pos : 1 .. MaxCount] : r.pos <= counts[r.set]}

\* Which of two records comes first: all first records, then all second ones, and
\* so on; or all of one target, then all of the next.
Precedes(r, s) ==
    IF merge = "round_robin"
    THEN r.pos < s.pos \/ (r.pos = s.pos /\ r.set < s.set)
    ELSE r.set < s.set \/ (r.set = s.set /\ r.pos < s.pos)

Rank(r) == 1 + Cardinality({s \in Record : Precedes(s, r)})
Wanted == {r \in Record : Rank(r) >= start /\ Rank(r) < start + number}

\* The skipping counts p and the positions on by the rounds of a class, although
\* the rounds of the classes before are done already.  This shows once it has gone
\* past two classes and records of a third are left.
Misjudged ==
    /\ Cardinality({counts[i] : i \in Sets} \intersect 1 .. omin) >= 2
    /\ Larger # {}

\* For a start inside the merged set, the skipping never goes past the records
\* asked for and is exact: p is the place, in the merged set, of the first record
\* left.
SkippingExact ==
    merge = "round_robin" /\ start \in 1 .. Cardinality(Record) =>
        /\ jobs = << >> => p <= start
        /\ p = 1 + Cardinality({r \in Record : r.pos < pos[r.set]})

\* When round_robin or serve_order is done, the jobs are the records wanted, each
\* once and in the merge order.
JobsRight ==
    phase \in {"ask", "move", "merge", "done"} /\ start >= 1 =>
        /\ \A n \in DOMAIN jobs : jobs[n] \in Record /\ Rank(jobs[n]) = start + n - 1
        /\ Len(jobs) = Cardinality(Wanted)

\* A target is asked for a range without holes, which begins and ends with a job:
\* all of the records that come back are used.  (A start point below 0 can give the
\* position -1, which stands for no job.)
RangesExact ==
    phase \in {"move", "merge"} /\ start >= 0 =>
        \A i \in Sets : {j.pos : j \in ToSet(JobsOf(i))} =
            IF i \in Asked THEN RangeStart(i) .. RangeStart(i) + RangeSize(i) - 1 ELSE {}

\* The response with records has the records that the targets returned for the
\* jobs, in the merge order, and no others, whichever answers are hidden.
RightRecords ==
    result.kind = "records" =>
        /\ \A m, n \in DOMAIN result.recs :
                m < n => Precedes(result.recs[m], result.recs[n])
        /\ ToSet(result.recs) =
                {r \in Record : /\ r \in ToSet(jobs)
                                /\ reply[r.set].kind = "records"
                                /\ r.pos < RangeStart(r.set) + reply[r.set].num}

\* The loops end, and the client gets a response.
Responds == <>(phase = "done")

\* The "optimization step!" (filter_multi.cpp:310) is one: with it, too, the listing
\* is that of the merge order, for any hit counts and any start point, so that
\* 'Present Out of Range' is thrown when appropriate (NEWS:1380).
OptimizationSound == JobsRight

\* Targets whose errors are hidden are simply ignored.
HiddenErrorsIgnored == start >= 1 => result.kind # "crash"


\* From the jobs, right or wrong, to the response: the range asked of each target
\* covers its jobs, and what is picked from the answers by offset are the records of
\* the jobs.
ResponseExact == RangesExact /\ RightRecords
=============================================================================
