----------------------------- MODULE ThreadPool -----------------------------
(***************************************************************************)
(* ThreadPoolSocketObserver (src/src/thread_pool_observer.cpp): the pool   *)
(* of worker threads behind the frontend_net filter.  One "main" thread,   *)
(* the socket loop, puts messages, drops the queued messages of a dead     *)
(* session (cleanup), is notified through a pipe that answers are ready    *)
(* and calls result() for each, and finally destroys the pool.  Workers    *)
(* take messages from m_input, handle them and put them on m_output.       *)
(*                                                                         *)
(* A critical section that cannot block inside is one action.  The output  *)
(* mutex is held across the pipe write, which can block, so a worker that  *)
(* is "writing" is its owner.  The input mutex is held by the main thread  *)
(* all through the cleanup loop ("cleaning").                              *)
(***************************************************************************)
EXTENDS Naturals, Sequences, FiniteSets, SequencesExt

CONSTANTS
    Msgs,          \* the IThreadPoolMsg objects of a run
    NoMsg,         \* the null message
    Sessions,      \* what cleanup() compares messages by
    NoSession,     \* no cleanup() in progress
    SessionOf,     \* [Msgs -> Sessions]
    MinThreads,    \* min_threads: workers started by the constructor
    MaxThreads,    \* max_threads: put() adds workers up to this many
    QueueSize,     \* queue_size_per_thread (64 in the code)
    PipeCap        \* bytes the notification pipe holds before write() blocks

ASSUME MsgsAssumption ==
    NoMsg \notin Msgs /\ NoSession \notin Sessions /\ SessionOf \in [Msgs -> Sessions]
ASSUME ThreadsAssumption ==
    /\ MinThreads \in Nat \ {0}
    /\ MaxThreads \in Nat \ {0}
    /\ QueueSize \in Nat \ {0}
    /\ PipeCap \in Nat \ {0}

VARIABLES
    input,      \* m_input
    output,     \* m_output
    stop,       \* m_stop_flag
    noThreads,  \* m_no_threads
    waiting,    \* m_waiting_threads
    pipe,       \* number of unread bytes in m_pipe
    pc,         \* where each worker is in run()
    job,        \* in / out of run(): the message a worker holds
    main,       \* what the main thread is doing in the pool
    arg,        \* m, the argument of the put() in progress
    gone,       \* info, the argument of the cleanup() in progress
    it,         \* the iterator of cleanup()
    fresh,      \* messages not yet handed to put()
    answered,   \* messages whose result() has been called
    dropped     \* messages deleted by cleanup()

vars == <<input, output, stop, noThreads, waiting, pipe, pc, job, main, arg,
          gone, it, fresh, answered, dropped>>

\* The constructor starts MinThreads workers whatever MaxThreads says.
Workers == 1 .. IF MinThreads > MaxThreads THEN MinThreads ELSE MaxThreads

WorkerState == {"absent", "start", "asleep", "woken", "handling", "output",
                "writing", "exited"}
MainState == {"loop", "putAsleep", "putWoken", "draining", "cleaning",
              "joining", "joined"}

TypeOK ==
    /\ input \in Seq(Msgs)
    /\ output \in Seq(Msgs)
    /\ stop \in BOOLEAN
    /\ noThreads \in Nat
    /\ waiting \in Nat
    /\ pipe \in 0 .. PipeCap
    /\ pc \in [Workers -> WorkerState]
    /\ job \in [Workers -> Msgs \cup {NoMsg}]
    /\ main \in MainState
    /\ arg \in Msgs \cup {NoMsg}
    /\ gone \in Sessions \cup {NoSession}
    /\ it \in Nat \ {0}
    /\ fresh \subseteq Msgs
    /\ answered \subseteq Msgs
    /\ dropped \subseteq Msgs

Init ==
    /\ input = << >>
    /\ output = << >>
    /\ stop = FALSE
    /\ noThreads = MinThreads
    /\ waiting = 0
    /\ pipe = 0
    /\ pc = [w \in Workers |-> IF w <= MinThreads THEN "start" ELSE "absent"]
    /\ job = [w \in Workers |-> NoMsg]
    /\ main = "loop"
    /\ arg = NoMsg
    /\ gone = NoSession
    /\ it = 1
    /\ fresh = Msgs
    /\ answered = {}
    /\ dropped = {}

Asleep == {w \in Workers : pc[w] = "asleep"}
Woken == {w \in Workers : pc[w] = "woken"}

InputMutexFree == main # "cleaning"
OutputMutexFree == \A w \in Workers : pc[w] # "writing"

-----------------------------------------------------------------------------
(* The workers: run().                                                     *)

\* m_cond_input_full.notify_all(), and a mutant that wakes nobody
NotifyRoomForgotten == UNCHANGED main
NotifyRoom == main' = IF main = "putAsleep" THEN "putWoken" ELSE main

\* Mutant of Take: the newest message first.
TakeLast(w) ==
    /\ job' = [job EXCEPT ![w] = Last(input)]
    /\ input' = Front(input)
    /\ pc' = [pc EXCEPT ![w] = "handling"]
    /\ NotifyRoom

\* m_input.front(); pop_front(); m_cond_input_full.notify_all()
Take(w) ==
    /\ job' = [job EXCEPT ![w] = Head(input)]
    /\ input' = Tail(input)
    /\ pc' = [pc EXCEPT ![w] = "handling"]
    /\ NotifyRoom

\* m_waiting_threads++ and m_waiting_threads--, and a mutant that forgets the latter
BeginWait == waiting' = waiting + 1

EndWaitUncounted == UNCHANGED waiting
EndWait == waiting' = waiting - 1

\* The top of the loop, with the input mutex taken for the first time.
WorkerEnter(w) ==
    /\ pc[w] = "start"
    /\ InputMutexFree
    /\ \/ /\ ~stop /\ input = << >>
          /\ pc' = [pc EXCEPT ![w] = "asleep"]
          /\ BeginWait
          /\ UNCHANGED <<input, job, main>>
       \/ /\ stop
          /\ pc' = [pc EXCEPT ![w] = "exited"]
          /\ UNCHANGED <<input, job, main, waiting>>
       \/ /\ ~stop /\ input # << >>
          /\ Take(w)
          /\ UNCHANGED waiting
    /\ UNCHANGED <<output, stop, noThreads, pipe, arg, gone, it, fresh,
                   answered, dropped>>

\* A notified worker has the input mutex back and evaluates the wait loop's
\* condition again.
WorkerWake(w) ==
    /\ pc[w] = "woken"
    /\ InputMutexFree
    /\ \/ /\ ~stop /\ input = << >>
          /\ pc' = [pc EXCEPT ![w] = "asleep"]
          /\ UNCHANGED <<input, job, main, waiting>>
       \/ /\ stop
          /\ pc' = [pc EXCEPT ![w] = "exited"]
          /\ EndWait
          /\ UNCHANGED <<input, job, main>>
       \/ /\ ~stop /\ input # << >>
          /\ Take(w)
          /\ EndWait
    /\ UNCHANGED <<output, stop, noThreads, pipe, arg, gone, it, fresh,
                   answered, dropped>>

\* in->handle() returns (ThreadPoolPackage::handle returns its own message).
Handle(w) ==
    /\ pc[w] = "handling"
    /\ pc' = [pc EXCEPT ![w] = "output"]
    /\ UNCHANGED <<input, output, stop, noThreads, waiting, pipe, job, main,
                   arg, gone, it, fresh, answered, dropped>>

\* The output mutex is taken and the message appended ...
PushOutput(w) ==
    /\ pc[w] = "output"
    /\ OutputMutexFree
    /\ output' = Append(output, job[w])
    /\ job' = [job EXCEPT ![w] = NoMsg]
    /\ pc' = [pc EXCEPT ![w] = "writing"]
    /\ UNCHANGED <<input, stop, noThreads, waiting, pipe, main, arg, gone, it,
                   fresh, answered, dropped>>

\* ... and one byte written while the mutex is still held.
PipeWrite(w) ==
    /\ pc[w] = "writing"
    /\ pipe < PipeCap
    /\ pipe' = pipe + 1
    /\ pc' = [pc EXCEPT ![w] = "start"]
    /\ UNCHANGED <<input, output, stop, noThreads, waiting, job, main, arg,
                   gone, it, fresh, answered, dropped>>

\* boost::condition may return without a notification, from either wait.
SpuriousWake ==
    /\ \/ \E w \in Asleep : pc' = [pc EXCEPT ![w] = "woken"] /\ UNCHANGED main
       \/ main = "putAsleep" /\ main' = "putWoken" /\ UNCHANGED pc
    /\ UNCHANGED <<input, output, stop, noThreads, waiting, pipe, job, arg,
                   gone, it, fresh, answered, dropped>>

-----------------------------------------------------------------------------
(* The main thread.                                                        *)

\* Mutant of NotifyOne: no notification.
NotifyNone(p) == {p}

\* Mutant of NotifyOne: notify only when the queue was empty before.
NotifyIfEmpty(p) ==
    IF input # << >> \/ \A w \in Workers : p[w] # "asleep" THEN {p}
    ELSE {[p EXCEPT ![w] = "woken"] : w \in {v \in Workers : p[v] = "asleep"}}

\* m_cond_input_data.notify_one(), on the worker states p
NotifyOne(p) ==
    IF \A w \in Workers : p[w] # "asleep" THEN {p}
    ELSE {[p EXCEPT ![w] = "woken"] : w \in {v \in Workers : p[v] = "asleep"}}

InputFull(n) == Len(input) >= n * QueueSize

\* put(), up to its wait loop: add_worker() when nobody waits and there is
\* room for another thread.
AddWorker ==
    waiting = 0 /\ noThreads < MaxThreads

Put(m) ==
    /\ main = "loop"
    /\ m \in fresh
    /\ fresh' = fresh \ {m}
    /\ LET n == IF AddWorker THEN noThreads + 1 ELSE noThreads
           p == IF AddWorker THEN [pc EXCEPT ![n] = "start"] ELSE pc
       IN  /\ noThreads' = n
           /\ \/ /\ InputFull(n)
                 /\ main' = "putAsleep"
                 /\ arg' = m
                 /\ pc' = p
                 /\ UNCHANGED input
              \/ /\ ~InputFull(n)
                 /\ input' = Append(input, m)
                 /\ pc' \in NotifyOne(p)
                 /\ UNCHANGED <<main, arg>>
    /\ UNCHANGED <<output, stop, waiting, pipe, job, gone, it, answered, dropped>>

\* put(), woken in its wait loop
PutResume ==
    /\ main = "putWoken"
    /\ \/ /\ InputFull(noThreads)
          /\ main' = "putAsleep"
          /\ UNCHANGED <<input, arg, pc>>
       \/ /\ ~InputFull(noThreads)
          /\ main' = "loop"
          /\ input' = Append(input, arg)
          /\ arg' = NoMsg
          /\ pc' \in NotifyOne(pc)
    /\ UNCHANGED <<output, stop, noThreads, waiting, pipe, job, gone, it, fresh,
                   answered, dropped>>

\* socketNotify(): the pipe is readable; ONE byte is read ...
SocketNotify ==
    /\ main = "loop"
    /\ pipe > 0
    /\ pipe' = pipe - 1
    /\ main' = "draining"
    /\ UNCHANGED <<input, output, stop, noThreads, waiting, pc, job, arg, gone,
                   it, fresh, answered, dropped>>

\* A mutant: the loop stops one answer early.
MoreThanOneOutput == Len(output) > 1

MoreOutput == output # << >>
PopOutput == answered' = answered \cup {Head(output)} /\ output' = Tail(output)

\* ... and then ALL of m_output is emptied, one locked pop at a time, with
\* result() called outside the lock.
Drain ==
    /\ main = "draining"
    /\ OutputMutexFree
    /\ \/ /\ ~MoreOutput
          /\ main' = "loop"
          /\ UNCHANGED <<output, answered>>
       \/ /\ MoreOutput
          /\ PopOutput
          /\ UNCHANGED main
    /\ UNCHANGED <<input, stop, noThreads, waiting, pipe, pc, job, arg, gone, it,
                   fresh, dropped>>

\* cleanup(m, info): the loop over m_input, one element a step, with the
\* input mutex held from the first to the last.
CleanupBegin(s) ==
    /\ main = "loop"
    /\ main' = "cleaning"
    /\ gone' = s
    /\ UNCHANGED <<input, output, stop, noThreads, waiting, pipe, pc, job, arg,
                   it, fresh, answered, dropped>>

CleanupStep ==
    /\ main = "cleaning"
    /\ \/ /\ it > Len(input)
          /\ main' = "loop"
          /\ gone' = NoSession
          /\ it' = 1
          /\ UNCHANGED <<input, dropped>>
       \/ /\ it <= Len(input)
          /\ SessionOf[input[it]] = gone
          /\ dropped' = dropped \cup {input[it]}
          /\ input' = RemoveAt(input, it)
          /\ UNCHANGED <<main, gone, it>>
       \/ /\ it <= Len(input)
          /\ SessionOf[input[it]] # gone
          /\ it' = it + 1
          /\ UNCHANGED <<main, gone, input, dropped>>
    /\ UNCHANGED <<output, stop, noThreads, waiting, pipe, pc, job, arg, fresh,
                   answered>>

\* m_cond_input_data.notify_all(), and a mutant that wakes nobody
NotifyAllForgotten(p) == p
NotifyAll(p) == [w \in Workers |-> IF p[w] = "asleep" THEN "woken" ELSE p[w]]

\* The destructor: stop, wake everybody, join.
Destroy ==
    /\ main = "loop"
    /\ main' = "joining"
    /\ stop' = TRUE
    /\ pc' = NotifyAll(pc)
    /\ UNCHANGED <<input, output, noThreads, waiting, pipe, job, arg, gone, it,
                   fresh, answered, dropped>>

JoinAll ==
    /\ main = "joining"
    /\ \A w \in Workers : pc[w] \in {"absent", "exited"}
    /\ main' = "joined"
    /\ UNCHANGED <<input, output, stop, noThreads, waiting, pipe, pc, job, arg,
                   gone, it, fresh, answered, dropped>>

-----------------------------------------------------------------------------
WorkerStep(w) == WorkerEnter(w) \/ WorkerWake(w) \/ Handle(w)
                 \/ PushOutput(w) \/ PipeWrite(w)

Next == \/ \E w \in Workers : WorkerStep(w)
        \/ SpuriousWake
        \/ \E m \in Msgs : Put(m)
        \/ PutResume
        \/ SocketNotify
        \/ Drain
        \/ \E s \in Sessions : CleanupBegin(s)
        \/ CleanupStep
        \/ Destroy
        \/ JoinAll

Spec == Init /\ [][Next]_vars

\* Threads are scheduled and handle() returns (weak fairness).  Two things are
\* asked of the platform beyond that (strong fairness): the input mutex, which
\* cleanup() may take any number of times, is in the end obtained by a worker
\* that wants it; and the socket loop, which serves every ready descriptor in
\* turn, comes back to a pipe that stays readable.
FairSpec ==
    /\ Spec
    /\ \A w \in Workers :
        /\ SF_vars(WorkerEnter(w) \/ WorkerWake(w))
        /\ WF_vars(Handle(w) \/ PushOutput(w) \/ PipeWrite(w))
    /\ SF_vars(SocketNotify)
    /\ WF_vars(PutResume \/ Drain \/ CleanupStep \/ JoinAll)

-----------------------------------------------------------------------------
(* Safety.                                                                 *)

Held == {job[w] : w \in Workers} \ {NoMsg}

\* m_waiting_threads, which put() reads to decide whether to start another
\* thread, counts exactly the workers inside the wait loop: the ones asleep and
\* the ones notified that have not got the mutex back yet.
WaitingCounted == waiting = Cardinality(Asleep \cup Woken)

\* No lost wake-up on m_cond_input_data: while a worker sleeps, each queued
\* message has a notified worker of its own on the way to it, although put()
\* notifies one worker only, workers that never slept steal messages, and
\* cleanup() removes messages without telling anybody.
NoLostWakeup == Asleep # {} => Len(input) <= Cardinality(Woken)

\* No lost wake-up on m_cond_input_full: the main thread sleeps in put() only
\* while the queue is at its limit.
PutSleepsOnlyWhenFull == main = "putAsleep" => InputFull(noThreads)

\* An answer in m_output is never forgotten: a byte that announces it is in the
\* pipe, or its worker is about to write one, or the main thread is emptying
\* m_output now.  (socketNotify reads one byte and takes all the answers, so
\* bytes and answers do not correspond one to one.)
OutputSignalled ==
    output # << >> => \/ pipe > 0
                      \/ main = "draining"
                      \/ \E w \in Workers : pc[w] = "writing"

\* What the proofs need besides: the workers that exist are the first
\* noThreads, a worker between the queues and a put() that waits have a message,
\* and nobody sleeps for input once the destructor has begun.
ThreadsStarted == \A w \in Workers : pc[w] = "absent" <=> w > noThreads
MessagesHeld ==
    /\ \A w \in Workers : pc[w] \in {"handling", "output"} => job[w] \in Msgs
    /\ main \in {"putAsleep", "putWoken"} => arg \in Msgs
NobodySleepsAfterStop ==
    /\ stop <=> main \in {"joining", "joined"}
    /\ stop => Asleep = {}

\* The inductive invariant.
IInv == /\ TypeOK
        /\ ThreadsStarted
        /\ MessagesHeld
        /\ NobodySleepsAfterStop
        /\ WaitingCounted
        /\ NoLostWakeup
        /\ PutSleepsOnlyWhenFull
        /\ OutputSignalled

-----------------------------------------------------------------------------
(* The promise to the client, and liveness.                                *)

Service == INSTANCE ThreadPoolService WITH
    queue <- input,
    running <- Held \cup ToSet(output),
    closed <- stop

\* The pool implements the service: FIFO start, at most one answer, only queued
\* messages dropped, nothing after the destructor has begun.
ImplementsService == Service!Spec

\* How the pool seizes up: the pipe is full, a worker is blocked in write() with
\* the output mutex, and the main thread, the only reader of the pipe, waits
\* for that mutex in socketNotify() or for room in the queue in put() while
\* every worker waits for the pipe or the mutex.
Wedged ==
    /\ pipe = PipeCap
    /\ \E w \in Workers : pc[w] = "writing"
    /\ \/ main = "draining"
       \/ /\ main = "putAsleep"
          /\ \A w \in Workers : pc[w] \in {"absent", "output", "writing"}

\* Each message handed to put() is answered or dropped in the end, unless the
\* pool is destroyed first or wedges on the pipe.
EveryPutAnswered ==
    \A m \in Msgs :
        m \notin fresh ~> m \in answered \cup dropped \/ stop \/ Wedged

\* The same without the excuse: as long as the pool is not destroyed, every
\* message put is answered or dropped in the end.
EveryMessageAnswered ==
    \A m \in Msgs : m \notin fresh ~> m \in answered \cup dropped \/ stop

\* The destructor's join_all() ends, unless the pipe is full: then a worker may
\* never get out of its write, since nobody reads the pipe any more.
DestroyEnds == stop ~> main = "joined" \/ pipe = PipeCap
=============================================================================
