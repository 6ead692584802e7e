-------------------------- MODULE ThreadPoolService --------------------------
(***************************************************************************)
(* What ThreadPoolSocketObserver promises its only client, the frontend's  *)
(* socket loop: a message that is put is queued; queued messages are       *)
(* started in the order they were put; a queued message may be dropped by  *)
(* cleanup() but a started one may not; each started message is answered   *)
(* (result() is called) at most once; nothing is started, dropped or       *)
(* answered after the pool is destroyed.                                   *)
(***************************************************************************)
EXTENDS Sequences, SequencesExt

CONSTANT Msgs

VARIABLES queue,     \* the messages accepted and not yet started
          running,   \* the messages a worker has taken
          answered,  \* the messages whose result() was called
          dropped,   \* the messages deleted by cleanup()
          closed     \* the pool's destructor has begun

svars == <<queue, running, answered, dropped, closed>>

Init == /\ queue = << >>
        /\ running = {}
        /\ answered = {}
        /\ dropped = {}
        /\ closed = FALSE

Submit(m) ==
    /\ ~closed
    /\ m \notin ToSet(queue) \cup running \cup answered \cup dropped
    /\ queue' = Append(queue, m)
    /\ UNCHANGED <<running, answered, dropped, closed>>

Start ==
    /\ ~closed
    /\ queue # << >>
    /\ running' = running \cup {Head(queue)}
    /\ queue' = Tail(queue)
    /\ UNCHANGED <<answered, dropped, closed>>

Drop(i) ==
    /\ ~closed
    /\ dropped' = dropped \cup {queue[i]}
    /\ queue' = RemoveAt(queue, i)
    /\ UNCHANGED <<running, answered, closed>>

Answer(m) ==
    /\ ~closed
    /\ m \in running
    /\ running' = running \ {m}
    /\ answered' = answered \cup {m}
    /\ UNCHANGED <<queue, dropped, closed>>

Close ==
    /\ ~closed
    /\ closed' = TRUE
    /\ UNCHANGED <<queue, running, answered, dropped>>

Next == \/ \E m \in Msgs : Submit(m) \/ Answer(m)
        \/ Start
        \/ \E i \in DOMAIN queue : Drop(i)
        \/ Close

Spec == Init /\ [][Next]_svars
=============================================================================
