-------------------------- MODULE ThreadPoolProofs --------------------------
(***************************************************************************)
(* Proofs about the thread pool, for any number of messages, threads and   *)
(* sessions and any sizes of the queue and the pipe.  The inductive        *)
(* invariant is ThreadPool!IInv; there is one lemma for each action.       *)
(***************************************************************************)
EXTENDS ThreadPool, TLAPS, FiniteSetTheorems

-----------------------------------------------------------------------------
(* Facts about the operators of the model.                                 *)

\* There are finitely many workers, and they are numbered.
LEMMA WorkersFinite == IsFiniteSet(Workers) /\ Workers \subseteq Nat
  <1> DEFINE n == IF MinThreads > MaxThreads THEN MinThreads ELSE MaxThreads
  <1>1. n \in Nat
    BY ThreadsAssumption
  <1>2. IsFiniteSet(1 .. n)
    BY <1>1, FS_Interval
  <1> QED
    BY <1>1, <1>2 DEF Workers

\* How the size of a set of workers changes with one worker.
LEMMA Counting ==
  ASSUME NEW S \in SUBSET Workers, NEW w \in Workers
  PROVE  /\ IsFiniteSet(S)
         /\ Cardinality(S) \in Nat
         /\ w \notin S => Cardinality(S \cup {w}) = Cardinality(S) + 1
         /\ w \in S => /\ Cardinality(S) > 0
                       /\ Cardinality(S \ {w}) = Cardinality(S) - 1
  <1>1. IsFiniteSet(S)
    BY WorkersFinite, FS_Subset
  <1>2. Cardinality(S) \in Nat /\ Cardinality(S \ {w}) \in Nat
    BY <1>1, FS_CardinalityType, FS_RemoveElement
  <1>3. Cardinality(S \cup {w}) = IF w \in S THEN Cardinality(S) ELSE Cardinality(S) + 1
    BY <1>1, FS_AddElement
  <1>4. Cardinality(S \ {w}) = IF w \in S THEN Cardinality(S) - 1 ELSE Cardinality(S)
    BY <1>1, FS_RemoveElement
  <1> QED
    BY <1>1, <1>2, <1>3, <1>4

\* cleanup()'s erase leaves a queue of messages, one shorter.
LEMMA RemoveAtType ==
  ASSUME NEW S, NEW s \in Seq(S), NEW i \in 1 .. Len(s)
  PROVE  RemoveAt(s, i) \in Seq(S) /\ Len(RemoveAt(s, i)) = Len(s) - 1
  <1> DEFINE a == SubSeq(s, 1, i - 1)
             b == SubSeq(s, i + 1, Len(s))
  <1>1. a \in Seq(S) /\ Len(a) = i - 1
    OBVIOUS
  <1>2. b \in Seq(S) /\ Len(b) = Len(s) - i
    OBVIOUS
  <1>3. a \o b \in Seq(S) /\ Len(a \o b) = Len(a) + Len(b)
    BY <1>1, <1>2
  <1>4. RemoveAt(s, i) = a \o b
    BY DEF RemoveAt
  <1>5. Len(s) \in Nat /\ i \in Nat
    OBVIOUS
  <1> HIDE DEF a, b
  <1>6. Len(a \o b) = (i - 1) + (Len(s) - i)
    BY <1>1, <1>2, <1>3
  <1>7. Len(a \o b) = Len(s) - 1
    BY <1>5, <1>6
  <1> QED
    BY <1>3, <1>4, <1>7

\* The workers in the wait loop, and their number.
LEMMA Waiters ==
  /\ Asleep \subseteq Workers
  /\ Woken \subseteq Workers
  /\ Asleep \cap Woken = {}
  BY DEF Asleep, Woken

LEMMA WokenCount ==
  ASSUME NEW w \in Workers
  PROVE  /\ Cardinality(Woken) \in Nat
         /\ Cardinality(Asleep \cup Woken) \in Nat
  BY Waiters, Counting

\* One worker moves, outside the wait loop.
LEMMA OneMovesOutside ==
  ASSUME NEW w \in Workers, NEW s \in WorkerState \ {"asleep", "woken"},
         pc \in [Workers -> WorkerState], pc' = [pc EXCEPT ![w] = s],
         pc[w] \notin {"asleep", "woken"}
  PROVE  pc' \in [Workers -> WorkerState] /\ Asleep' = Asleep /\ Woken' = Woken
  BY DEF Asleep, Woken

\* notify_one(), on the worker states p: the workers in the wait loop stay the
\* same, and if some sleep on then one more is awake.
LEMMA Notified ==
  ASSUME NEW p \in [Workers -> WorkerState], pc' \in NotifyOne(p),
         {v \in Workers : p[v] = "asleep"} = Asleep,
         {v \in Workers : p[v] = "woken"} = Woken
  PROVE  /\ pc' \in [Workers -> WorkerState]
         /\ \A v \in Workers :
                pc'[v] = p[v] \/ (p[v] = "asleep" /\ pc'[v] = "woken")
         /\ Asleep' \cup Woken' = Asleep \cup Woken
         /\ Asleep' \subseteq Asleep
         /\ Asleep' # {} => Cardinality(Woken') = Cardinality(Woken) + 1
  <1>1. CASE pc' = p /\ \A w \in Workers : p[w] # "asleep"
    BY <1>1 DEF Asleep, Woken
  <1>2. CASE \E w \in Workers : p[w] = "asleep" /\ pc' = [p EXCEPT ![w] = "woken"]
    <2> PICK w \in Workers : p[w] = "asleep" /\ pc' = [p EXCEPT ![w] = "woken"]
      BY <1>2
    <2>1. pc' \in [Workers -> WorkerState]
      BY DEF WorkerState
    <2>2. \A v \in Workers : pc'[v] = IF v = w THEN "woken" ELSE p[v]
      OBVIOUS
    <2>3. w \in Asleep /\ w \notin Woken
      OBVIOUS
    <2>4. Asleep' = Asleep \ {w}
      BY <2>2 DEF Asleep
    <2>5. Woken' = Woken \cup {w}
      BY <2>2 DEF Woken
    <2>6. Cardinality(Woken \cup {w}) = Cardinality(Woken) + 1
      BY <2>3, Waiters, Counting
    <2> QED
      BY <2>1, <2>2, <2>3, <2>4, <2>5, <2>6
  <1> QED
    BY <1>1, <1>2 DEF NotifyOne

-----------------------------------------------------------------------------
(* The workers.                                                            *)

\* Taking a message shortens the queue, and wakes a put() that waits.
LEMMA TakeShortens ==
  ASSUME input \in Seq(Msgs), input # << >>, NEW w \in Workers, Take(w)
  PROVE  /\ Head(input) \in Msgs
         /\ input' \in Seq(Msgs)
         /\ Len(input') = Len(input) - 1
         /\ Len(input) \in Nat \ {0}
  BY DEF Take

\* run(), from the top of the loop: going to sleep, leaving or taking a message.
LEMMA WorkerEnterInv ==
  ASSUME IInv, NEW w \in Workers, WorkerEnter(w)
  PROVE  IInv'
  <1> USE DEF IInv
  <1>0. pc[w] = "start" /\ w \notin Asleep /\ w \notin Woken
    BY DEF WorkerEnter, Asleep, Woken
  <1>1. pc \in [Workers -> WorkerState] /\ input \in Seq(Msgs) /\ waiting \in Nat
    BY DEF TypeOK
  <1>a. CASE ~stop /\ input = << >>
    <2>0. /\ pc' = [pc EXCEPT ![w] = "asleep"]
          /\ waiting' = waiting + 1
          /\ UNCHANGED <<input, job, main, output, stop, noThreads, pipe, arg,
                         gone, it, fresh, answered, dropped>>
      BY <1>a DEF WorkerEnter, BeginWait
    <2>1. TypeOK'
      BY <2>0 DEF TypeOK, WorkerState
    <2>2. Asleep' = Asleep \cup {w} /\ Woken' = Woken
      BY <1>0, <1>1, <2>0 DEF Asleep, Woken
    <2>3. WaitingCounted'
      <3>1. Asleep' \cup Woken' = (Asleep \cup Woken) \cup {w}
        BY <2>2
      <3>2. Cardinality((Asleep \cup Woken) \cup {w}) = Cardinality(Asleep \cup Woken) + 1
        BY <1>0, Waiters, Counting
      <3> QED
        BY <2>0, <3>1, <3>2 DEF WaitingCounted
    <2>4. NoLostWakeup'
      <3>1. Len(input') = 0
        BY <1>a, <2>0
      <3>2. Cardinality(Woken') \in Nat
        BY <2>2, WokenCount
      <3> QED
        BY <3>1, <3>2 DEF NoLostWakeup
    <2>5. ThreadsStarted' /\ MessagesHeld' /\ NobodySleepsAfterStop'
      BY <1>0, <1>1, <1>a, <2>0 DEF ThreadsStarted, MessagesHeld, NobodySleepsAfterStop
    <2>6. PutSleepsOnlyWhenFull' /\ OutputSignalled'
      BY <1>0, <1>1, <2>0 DEF PutSleepsOnlyWhenFull, OutputSignalled, InputFull
    <2> QED
      BY <2>1, <2>3, <2>4, <2>5, <2>6
  <1>b. CASE stop
    <2>0. /\ pc' = [pc EXCEPT ![w] = "exited"]
          /\ UNCHANGED <<input, job, main, waiting, output, stop, noThreads,
                         pipe, arg, gone, it, fresh, answered, dropped>>
      BY <1>b DEF WorkerEnter
    <2>1. TypeOK'
      BY <2>0 DEF TypeOK, WorkerState
    <2>2. Asleep' = Asleep /\ Woken' = Woken
      BY <1>0, <1>1, <2>0, OneMovesOutside DEF WorkerState
    <2>3. WaitingCounted' /\ NoLostWakeup'
      BY <2>0, <2>2 DEF WaitingCounted, NoLostWakeup
    <2>4. ThreadsStarted' /\ MessagesHeld' /\ NobodySleepsAfterStop'
      BY <1>0, <1>1, <2>0, <2>2 DEF ThreadsStarted, MessagesHeld, NobodySleepsAfterStop
    <2>5. PutSleepsOnlyWhenFull' /\ OutputSignalled'
      BY <1>0, <1>1, <2>0 DEF PutSleepsOnlyWhenFull, OutputSignalled, InputFull
    <2> QED
      BY <2>1, <2>3, <2>4, <2>5
  <1>c. CASE ~stop /\ input # << >>
    <2>0. /\ Take(w)
          /\ UNCHANGED <<waiting, output, stop, noThreads, pipe, arg, gone, it,
                         fresh, answered, dropped>>
      BY <1>c DEF WorkerEnter
    <2>1. TypeOK'
      BY <1>1, <1>c, <2>0, TakeShortens DEF TypeOK, Take, WorkerState, NotifyRoom, MainState
    <2>2. Asleep' = Asleep /\ Woken' = Woken
      BY <1>0, <1>1, <2>0, OneMovesOutside DEF Take, WorkerState
    <2>3. WaitingCounted'
      BY <2>0, <2>2 DEF WaitingCounted
    <2>4. NoLostWakeup'
      BY <1>1, <1>c, <2>0, <2>2, TakeShortens, WokenCount DEF NoLostWakeup
    <2>5. ThreadsStarted' /\ NobodySleepsAfterStop'
      BY <1>0, <1>1, <1>c, <2>0, <2>2 DEF ThreadsStarted, NobodySleepsAfterStop, Take, NotifyRoom
    <2>6. MessagesHeld'
      BY <1>0, <1>1, <1>c, <2>0, TakeShortens DEF TypeOK, MessagesHeld, Take, NotifyRoom
    <2>7. PutSleepsOnlyWhenFull' /\ OutputSignalled'
      BY <1>0, <1>1, <2>0 DEF PutSleepsOnlyWhenFull, OutputSignalled, Take, NotifyRoom
    <2> QED
      BY <2>1, <2>3, <2>4, <2>5, <2>6, <2>7
  <1> QED
    BY <1>a, <1>b, <1>c

\* run(), notified in its wait loop: back to sleep, leaving or taking a message.
LEMMA WorkerWakeInv ==
  ASSUME IInv, NEW w \in Workers, WorkerWake(w)
  PROVE  IInv'
  <1> USE DEF IInv
  <1>0. pc[w] = "woken" /\ w \notin Asleep /\ w \in Woken
    BY DEF WorkerWake, Asleep, Woken
  <1>1. pc \in [Workers -> WorkerState] /\ input \in Seq(Msgs) /\ waiting \in Nat
    BY DEF TypeOK
  <1>2. /\ Cardinality(Woken) \in Nat \ {0}
        /\ Cardinality(Woken \ {w}) = Cardinality(Woken) - 1
    BY <1>0, Waiters, Counting
  <1>3. /\ waiting # 0
        /\ Cardinality((Asleep \cup Woken) \ {w}) = waiting - 1
    BY <1>0, Waiters, Counting DEF WaitingCounted
  <1>a. CASE ~stop /\ input = << >>
    <2>0. /\ pc' = [pc EXCEPT ![w] = "asleep"]
          /\ UNCHANGED <<input, job, main, waiting, output, stop, noThreads,
                         pipe, arg, gone, it, fresh, answered, dropped>>
      BY <1>a DEF WorkerWake
    <2>1. TypeOK'
      BY <2>0 DEF TypeOK, WorkerState
    <2>2. Asleep' = Asleep \cup {w} /\ Woken' = Woken \ {w}
      BY <1>0, <1>1, <2>0 DEF Asleep, Woken
    <2>3. WaitingCounted'
      <3>1. Asleep' \cup Woken' = Asleep \cup Woken
        BY <1>0, <2>2
      <3> QED
        BY <2>0, <3>1 DEF WaitingCounted
    <2>4. NoLostWakeup'
      <3>1. Len(input') = 0
        BY <1>a, <2>0
      <3>2. Cardinality(Woken') \in Nat
        BY <1>2, <2>2
      <3> QED
        BY <3>1, <3>2 DEF NoLostWakeup
    <2>5. ThreadsStarted' /\ MessagesHeld' /\ NobodySleepsAfterStop'
      BY <1>0, <1>1, <1>a, <2>0 DEF ThreadsStarted, MessagesHeld, NobodySleepsAfterStop
    <2>6. PutSleepsOnlyWhenFull' /\ OutputSignalled'
      BY <1>0, <1>1, <2>0 DEF PutSleepsOnlyWhenFull, OutputSignalled, InputFull
    <2> QED
      BY <2>1, <2>3, <2>4, <2>5, <2>6
  <1>b. CASE stop
    <2>0. /\ pc' = [pc EXCEPT ![w] = "exited"]
          /\ waiting' = waiting - 1
          /\ UNCHANGED <<input, job, main, output, stop, noThreads, pipe, arg,
                         gone, it, fresh, answered, dropped>>
      BY <1>b DEF WorkerWake, EndWait
    <2>1. TypeOK'
      BY <1>3, <2>0 DEF TypeOK, WorkerState
    <2>2. Asleep' = Asleep /\ Woken' = Woken \ {w}
      BY <1>0, <1>1, <2>0 DEF Asleep, Woken
    <2>3. WaitingCounted'
      <3>1. Asleep' \cup Woken' = (Asleep \cup Woken) \ {w}
        BY <1>0, <2>2
      <3> QED
        BY <1>3, <2>0, <3>1 DEF WaitingCounted
    <2>4. NoLostWakeup' /\ NobodySleepsAfterStop'
      BY <1>b, <2>0, <2>2 DEF NoLostWakeup, NobodySleepsAfterStop
    <2>5. ThreadsStarted' /\ MessagesHeld'
      BY <1>0, <1>1, <2>0 DEF ThreadsStarted, MessagesHeld
    <2>6. PutSleepsOnlyWhenFull' /\ OutputSignalled'
      BY <1>0, <1>1, <2>0 DEF PutSleepsOnlyWhenFull, OutputSignalled, InputFull
    <2> QED
      BY <2>1, <2>3, <2>4, <2>5, <2>6
  <1>c. CASE ~stop /\ input # << >>
    <2>0. /\ Take(w)
          /\ waiting' = waiting - 1
          /\ UNCHANGED <<output, stop, noThreads, pipe, arg, gone, it, fresh,
                         answered, dropped>>
      BY <1>c DEF WorkerWake, EndWait
    <2>1. TypeOK'
      BY <1>1, <1>3, <1>c, <2>0, TakeShortens
         DEF TypeOK, Take, WorkerState, NotifyRoom, MainState
    <2>2. Asleep' = Asleep /\ Woken' = Woken \ {w}
      BY <1>0, <1>1, <2>0 DEF Asleep, Woken, Take
    <2>3. WaitingCounted'
      <3>1. Asleep' \cup Woken' = (Asleep \cup Woken) \ {w}
        BY <1>0, <2>2
      <3> QED
        BY <1>3, <2>0, <3>1 DEF WaitingCounted
    <2>4. NoLostWakeup'
      BY <1>1, <1>2, <1>c, <2>0, <2>2, TakeShortens DEF NoLostWakeup
    <2>5. ThreadsStarted' /\ NobodySleepsAfterStop'
      BY <1>0, <1>1, <1>c, <2>0, <2>2 DEF ThreadsStarted, NobodySleepsAfterStop, Take, NotifyRoom
    <2>6. MessagesHeld'
      BY <1>0, <1>1, <1>c, <2>0, TakeShortens DEF TypeOK, MessagesHeld, Take, NotifyRoom
    <2>7. PutSleepsOnlyWhenFull' /\ OutputSignalled'
      BY <1>0, <1>1, <2>0 DEF PutSleepsOnlyWhenFull, OutputSignalled, Take, NotifyRoom
    <2> QED
      BY <2>1, <2>3, <2>4, <2>5, <2>6, <2>7
  <1> QED
    BY <1>a, <1>b, <1>c

\* run(), after the input: handle(), m_output and the byte in the pipe.
LEMMA WorkerOutputInv ==
  ASSUME IInv, NEW w \in Workers, Handle(w) \/ PushOutput(w) \/ PipeWrite(w)
  PROVE  IInv'
  <1> USE DEF IInv
  <1>1. pc \in [Workers -> WorkerState] /\ pc[w] \in {"handling", "output", "writing"}
    BY DEF TypeOK, Handle, PushOutput, PipeWrite
  <1>2. Asleep' = Asleep /\ Woken' = Woken
    BY <1>1, OneMovesOutside DEF Handle, PushOutput, PipeWrite, WorkerState
  <1>3. TypeOK'
    <2>1. CASE Handle(w)
      BY <2>1 DEF Handle, TypeOK, WorkerState
    <2>2. CASE PushOutput(w)
      <3>1. job[w] \in Msgs
        BY <2>2 DEF PushOutput, MessagesHeld
      <3> QED
        BY <2>2, <3>1 DEF PushOutput, TypeOK, WorkerState
    <2>3. CASE PipeWrite(w)
      BY <2>3, ThreadsAssumption DEF PipeWrite, TypeOK, WorkerState
    <2> QED
      BY <2>1, <2>2, <2>3
  <1>4. WaitingCounted' /\ NoLostWakeup' /\ NobodySleepsAfterStop'
    BY <1>2 DEF WaitingCounted, NoLostWakeup, NobodySleepsAfterStop, Handle, PushOutput, PipeWrite
  <1>5. ThreadsStarted'
    BY <1>1 DEF ThreadsStarted, Handle, PushOutput, PipeWrite
  <1>6. MessagesHeld'
    BY <1>1 DEF TypeOK, MessagesHeld, Handle, PushOutput, PipeWrite
  <1>7. PutSleepsOnlyWhenFull'
    BY DEF PutSleepsOnlyWhenFull, InputFull, Handle, PushOutput, PipeWrite
  <1>8. OutputSignalled'
    <2>1. CASE Handle(w)
      BY <1>1, <2>1 DEF Handle, OutputSignalled
    <2>2. CASE PushOutput(w)
      BY <1>1, <2>2 DEF PushOutput, OutputSignalled
    <2>3. CASE PipeWrite(w)
      BY <2>3 DEF PipeWrite, OutputSignalled, TypeOK
    <2> QED
      BY <2>1, <2>2, <2>3
  <1> QED
    BY <1>3, <1>4, <1>5, <1>6, <1>7, <1>8

\* A wait that returns without a notification.
LEMMA SpuriousWakeInv ==
  ASSUME IInv, SpuriousWake
  PROVE  IInv'
  <1> USE DEF IInv
  <1>1. CASE UNCHANGED pc
    <2>0. (main = "putAsleep" /\ main' = "putWoken") \/ UNCHANGED main
      BY DEF SpuriousWake
    <2>1. TypeOK'
      BY <1>1, <2>0 DEF SpuriousWake, TypeOK, MainState
    <2>2. Asleep' = Asleep /\ Woken' = Woken
      BY <1>1 DEF Asleep, Woken
    <2>3. WaitingCounted' /\ NoLostWakeup' /\ NobodySleepsAfterStop'
      BY <2>0, <2>2 DEF SpuriousWake, WaitingCounted, NoLostWakeup, NobodySleepsAfterStop
    <2>4. ThreadsStarted' /\ MessagesHeld'
      BY <1>1, <2>0 DEF SpuriousWake, ThreadsStarted, MessagesHeld
    <2>5. PutSleepsOnlyWhenFull' /\ OutputSignalled'
      BY <1>1, <2>0 DEF SpuriousWake, PutSleepsOnlyWhenFull, OutputSignalled, InputFull
    <2> QED
      BY <2>1, <2>3, <2>4, <2>5
  <1>2. CASE \E w \in Asleep : pc' = [pc EXCEPT ![w] = "woken"] /\ UNCHANGED main
    <2> PICK w \in Asleep : pc' = [pc EXCEPT ![w] = "woken"] /\ UNCHANGED main
      BY <1>2
    <2>0. /\ w \in Workers /\ pc[w] = "asleep" /\ w \notin Woken
          /\ pc \in [Workers -> WorkerState]
      BY DEF Asleep, Woken, TypeOK
    <2>1. TypeOK'
      BY <2>0 DEF SpuriousWake, TypeOK, WorkerState
    <2>2. Asleep' = Asleep \ {w} /\ Woken' = Woken \cup {w}
      BY <2>0 DEF Asleep, Woken
    <2>3. WaitingCounted'
      <3>1. Asleep' \cup Woken' = Asleep \cup Woken
        BY <2>2
      <3> QED
        BY <3>1 DEF WaitingCounted, SpuriousWake
    <2>4. NoLostWakeup'
      <3>1. /\ Cardinality(Woken) \in Nat
            /\ Cardinality(Woken \cup {w}) = Cardinality(Woken) + 1
        BY <2>0, Waiters, Counting
      <3>2. Len(input) \in Nat /\ input' = input
        BY DEF TypeOK, SpuriousWake
      <3> QED
        BY <2>2, <3>1, <3>2 DEF NoLostWakeup
    <2>5. ThreadsStarted' /\ MessagesHeld' /\ NobodySleepsAfterStop'
      BY <2>0, <2>2 DEF SpuriousWake, ThreadsStarted, MessagesHeld, NobodySleepsAfterStop
    <2>6. PutSleepsOnlyWhenFull' /\ OutputSignalled'
      BY <2>0 DEF SpuriousWake, PutSleepsOnlyWhenFull, OutputSignalled, InputFull
    <2> QED
      BY <2>1, <2>3, <2>4, <2>5, <2>6
  <1> QED
    BY <1>1, <1>2 DEF SpuriousWake

-----------------------------------------------------------------------------
(* The main thread.                                                        *)

\* put(): another worker may be started; the message is queued and one worker
\* notified, or put() goes to sleep.
LEMMA PutInv ==
  ASSUME IInv, NEW m \in Msgs, Put(m)
  PROVE  IInv'
  <1> USE DEF IInv
  <1> DEFINE n == IF AddWorker THEN noThreads + 1 ELSE noThreads
             p == IF AddWorker THEN [pc EXCEPT ![n] = "start"] ELSE pc
  <1>1. /\ main = "loop" /\ fresh' = fresh \ {m} /\ noThreads' = n
        /\ UNCHANGED <<output, stop, waiting, pipe, job, gone, it, answered, dropped>>
    BY DEF Put
  <1>2. /\ noThreads \in Nat /\ n \in Nat /\ pc \in [Workers -> WorkerState]
        /\ input \in Seq(Msgs) /\ Workers \subseteq Nat
    BY WorkersFinite DEF TypeOK
  <1>3. AddWorker => n \in Workers /\ pc[n] = "absent" /\ n = noThreads + 1
    BY <1>2, ThreadsAssumption DEF AddWorker, Workers, ThreadsStarted
  <1>4. /\ p \in [Workers -> WorkerState]
        /\ \A w \in Workers : p[w] = IF AddWorker /\ w = n THEN "start" ELSE pc[w]
    BY <1>2, <1>3 DEF WorkerState
  <1>5. /\ {v \in Workers : p[v] = "asleep"} = Asleep
        /\ {v \in Workers : p[v] = "woken"} = Woken
    BY <1>3, <1>4 DEF Asleep, Woken
  <1>6. \A w \in Workers : p[w] = "absent" <=> w > n
    BY <1>2, <1>3, <1>4 DEF ThreadsStarted
  <1>a. CASE InputFull(n)
    <2>0. main' = "putAsleep" /\ arg' = m /\ pc' = p /\ input' = input
      BY <1>a DEF Put
    <2> HIDE DEF n, p
    <2>1. TypeOK'
      BY <1>1, <1>2, <1>4, <2>0 DEF TypeOK, MainState
    <2>2. Asleep' = Asleep /\ Woken' = Woken
      BY <1>5, <2>0 DEF Asleep, Woken
    <2>3. WaitingCounted' /\ NoLostWakeup' /\ NobodySleepsAfterStop'
      BY <1>1, <2>0, <2>2 DEF WaitingCounted, NoLostWakeup, NobodySleepsAfterStop
    <2>4. ThreadsStarted'
      BY <1>1, <1>6, <2>0 DEF ThreadsStarted
    <2>5. MessagesHeld'
      BY <1>1, <1>4, <2>0 DEF MessagesHeld
    <2>6. PutSleepsOnlyWhenFull'
      BY <1>1, <1>a, <2>0 DEF PutSleepsOnlyWhenFull, InputFull
    <2>7. OutputSignalled'
      BY <1>1, <1>3, <1>4, <2>0 DEF OutputSignalled
    <2> QED
      BY <2>1, <2>3, <2>4, <2>5, <2>6, <2>7
  <1>b. CASE ~InputFull(n)
    <2>0. input' = Append(input, m) /\ pc' \in NotifyOne(p) /\ UNCHANGED <<main, arg>>
      BY <1>b DEF Put
    <2> HIDE DEF n, p
    <2>1. /\ pc' \in [Workers -> WorkerState]
          /\ \A v \in Workers :
                pc'[v] = p[v] \/ (p[v] = "asleep" /\ pc'[v] = "woken")
          /\ Asleep' \cup Woken' = Asleep \cup Woken
          /\ Asleep' \subseteq Asleep
          /\ Asleep' # {} => Cardinality(Woken') = Cardinality(Woken) + 1
      BY <1>4, <1>5, <2>0, Notified
    <2>2. TypeOK'
      BY <1>1, <1>2, <2>0, <2>1 DEF TypeOK
    <2>3. WaitingCounted'
      BY <1>1, <2>1 DEF WaitingCounted
    <2>4. NoLostWakeup'
      <3>1. SUFFICES ASSUME Asleep' # {}
                     PROVE  Len(input') <= Cardinality(Woken')
        BY DEF NoLostWakeup
      <3>2. Len(input') = Len(input) + 1 /\ Len(input) \in Nat
        BY <1>2, <2>0
      <3>3. Len(input) <= Cardinality(Woken) /\ Cardinality(Woken) \in Nat
        BY <2>1, <3>1, Waiters, WokenCount DEF NoLostWakeup
      <3> QED
        BY <2>1, <3>1, <3>2, <3>3
    <2>5. ThreadsStarted'
      BY <1>1, <1>6, <2>1 DEF ThreadsStarted
    <2>6. MessagesHeld' /\ NobodySleepsAfterStop'
      BY <1>1, <1>4, <2>0, <2>1 DEF MessagesHeld, NobodySleepsAfterStop
    <2>7. PutSleepsOnlyWhenFull' /\ OutputSignalled'
      BY <1>1, <1>3, <1>4, <2>0, <2>1 DEF PutSleepsOnlyWhenFull, OutputSignalled
    <2> QED
      BY <2>2, <2>3, <2>4, <2>5, <2>6, <2>7
  <1> QED
    BY <1>a, <1>b

\* put(), woken in its wait loop: the same without a new worker.
LEMMA PutResumeInv ==
  ASSUME IInv, PutResume
  PROVE  IInv'
  <1> USE DEF IInv
  <1>1. /\ main = "putWoken" /\ arg \in Msgs
        /\ UNCHANGED <<output, stop, noThreads, waiting, pipe, job, gone, it,
                       fresh, answered, dropped>>
    BY DEF PutResume, MessagesHeld
  <1>2. pc \in [Workers -> WorkerState] /\ input \in Seq(Msgs)
    BY DEF TypeOK
  <1>a. CASE InputFull(noThreads)
    <2>0. main' = "putAsleep" /\ UNCHANGED <<input, arg, pc>>
      BY <1>a DEF PutResume
    <2>1. TypeOK'
      BY <1>1, <2>0 DEF TypeOK, MainState
    <2>2. Asleep' = Asleep /\ Woken' = Woken
      BY <2>0 DEF Asleep, Woken
    <2>3. WaitingCounted' /\ NoLostWakeup' /\ NobodySleepsAfterStop'
      BY <1>1, <2>0, <2>2 DEF WaitingCounted, NoLostWakeup, NobodySleepsAfterStop
    <2>4. ThreadsStarted' /\ MessagesHeld'
      BY <1>1, <2>0 DEF ThreadsStarted, MessagesHeld
    <2>5. PutSleepsOnlyWhenFull' /\ OutputSignalled'
      BY <1>1, <1>a, <2>0 DEF PutSleepsOnlyWhenFull, OutputSignalled, InputFull
    <2> QED
      BY <2>1, <2>3, <2>4, <2>5
  <1>b. CASE ~InputFull(noThreads)
    <2>0. /\ main' = "loop" /\ input' = Append(input, arg) /\ arg' = NoMsg
          /\ pc' \in NotifyOne(pc)
      BY <1>b DEF PutResume
    <2>1. /\ pc' \in [Workers -> WorkerState]
          /\ \A v \in Workers :
                pc'[v] = pc[v] \/ (pc[v] = "asleep" /\ pc'[v] = "woken")
          /\ Asleep' \cup Woken' = Asleep \cup Woken
          /\ Asleep' \subseteq Asleep
          /\ Asleep' # {} => Cardinality(Woken') = Cardinality(Woken) + 1
      BY <1>2, <2>0, Notified DEF Asleep, Woken
    <2>2. TypeOK'
      BY <1>1, <1>2, <2>0, <2>1 DEF TypeOK, MainState
    <2>3. WaitingCounted'
      BY <1>1, <2>1 DEF WaitingCounted
    <2>4. NoLostWakeup'
      <3>1. SUFFICES ASSUME Asleep' # {}
                     PROVE  Len(input') <= Cardinality(Woken')
        BY DEF NoLostWakeup
      <3>2. Len(input') = Len(input) + 1 /\ Len(input) \in Nat
        BY <1>1, <1>2, <2>0
      <3>3. Len(input) <= Cardinality(Woken) /\ Cardinality(Woken) \in Nat
        BY <2>1, <3>1, Waiters, WokenCount DEF NoLostWakeup
      <3> QED
        BY <2>1, <3>1, <3>2, <3>3
    <2>5. ThreadsStarted' /\ MessagesHeld' /\ NobodySleepsAfterStop'
      BY <1>1, <2>0, <2>1 DEF ThreadsStarted, MessagesHeld, NobodySleepsAfterStop
    <2>6. PutSleepsOnlyWhenFull' /\ OutputSignalled'
      BY <1>1, <2>0, <2>1 DEF PutSleepsOnlyWhenFull, OutputSignalled
    <2> QED
      BY <2>2, <2>3, <2>4, <2>5, <2>6
  <1> QED
    BY <1>a, <1>b

\* socketNotify() and cleanup() leave the workers alone.
LEMMA MainLoopInv ==
  ASSUME IInv,
         \/ SocketNotify
         \/ Drain
         \/ \E s \in Sessions : CleanupBegin(s)
         \/ CleanupStep
         \/ JoinAll
  PROVE  IInv'
  <1> USE DEF IInv
  <1>1. /\ UNCHANGED <<stop, noThreads, waiting, pc, job, arg, fresh>>
        /\ main \notin {"putAsleep", "putWoken"}
        /\ main' \notin {"putAsleep", "putWoken"}
        /\ main \in {"joining", "joined"} <=> main' \in {"joining", "joined"}
    BY DEF SocketNotify, Drain, CleanupBegin, CleanupStep, JoinAll
  <1>2. Asleep' = Asleep /\ Woken' = Woken
    BY <1>1 DEF Asleep, Woken
  <1>3. TypeOK' /\ Len(input') <= Len(input)
    <2>1. CASE SocketNotify
      BY <2>1, ThreadsAssumption DEF SocketNotify, TypeOK, MainState
    <2>2. CASE Drain
      <3>1. output # << >> => Head(output) \in Msgs /\ Tail(output) \in Seq(Msgs)
        BY DEF TypeOK
      <3>2. output' \in Seq(Msgs) /\ answered' \subseteq Msgs
        BY <2>2, <3>1 DEF Drain, MoreOutput, PopOutput, TypeOK
      <3> QED
        BY <2>2, <3>2 DEF Drain, TypeOK, MainState
    <2>3. CASE \E s \in Sessions : CleanupBegin(s)
      BY <2>3 DEF CleanupBegin, TypeOK, MainState
    <2>4. CASE CleanupStep
      <3>1. CASE it > Len(input)
        BY <2>4, <3>1 DEF CleanupStep, TypeOK, MainState
      <3>2. CASE it <= Len(input)
        <4>1. it \in 1 .. Len(input) /\ input[it] \in Msgs
          BY <3>2 DEF TypeOK
        <4>2. /\ RemoveAt(input, it) \in Seq(Msgs)
              /\ Len(RemoveAt(input, it)) = Len(input) - 1
          BY <4>1, RemoveAtType DEF TypeOK
        <4> QED
          BY <2>4, <3>2, <4>1, <4>2 DEF CleanupStep, TypeOK, MainState
      <3> QED
        BY <3>1, <3>2 DEF TypeOK
    <2>5. CASE JoinAll
      BY <2>5 DEF JoinAll, TypeOK, MainState
    <2> QED
      BY <2>1, <2>2, <2>3, <2>4, <2>5
  <1>4. WaitingCounted' /\ NobodySleepsAfterStop' /\ PutSleepsOnlyWhenFull'
    BY <1>1, <1>2 DEF WaitingCounted, NobodySleepsAfterStop, PutSleepsOnlyWhenFull
  <1>5. NoLostWakeup'
    <2>1. SUFFICES ASSUME Asleep # {}
                   PROVE  Len(input') <= Cardinality(Woken)
      BY <1>2 DEF NoLostWakeup
    <2>2. Cardinality(Woken) \in Nat /\ Len(input) \in Nat /\ Len(input') \in Nat
      BY <1>3, <2>1, Waiters, WokenCount DEF TypeOK
    <2> QED
      BY <1>3, <2>1, <2>2 DEF NoLostWakeup
  <1>6. ThreadsStarted' /\ MessagesHeld'
    BY <1>1 DEF ThreadsStarted, MessagesHeld
  <1>7. OutputSignalled'
    <2>1. CASE SocketNotify
      BY <2>1 DEF SocketNotify, OutputSignalled
    <2>2. CASE Drain
      BY <2>2 DEF Drain, MoreOutput, OutputSignalled
    <2>3. CASE UNCHANGED <<output, pipe, pc>> /\ main # "draining"
      BY <2>3 DEF OutputSignalled
    <2> QED
      BY <2>1, <2>2, <2>3 DEF CleanupBegin, CleanupStep, JoinAll
  <1> QED
    BY <1>3, <1>4, <1>5, <1>6, <1>7

\* The destructor wakes every sleeper.
LEMMA DestroyInv ==
  ASSUME IInv, Destroy
  PROVE  IInv'
  <1> USE DEF IInv
  <1>1. /\ main = "loop" /\ main' = "joining" /\ stop' = TRUE
        /\ pc' = [w \in Workers |-> IF pc[w] = "asleep" THEN "woken" ELSE pc[w]]
        /\ UNCHANGED <<input, output, noThreads, waiting, pipe, job, arg, gone,
                       it, fresh, answered, dropped>>
    BY DEF Destroy, NotifyAll
  <1>2. TypeOK'
    BY <1>1 DEF TypeOK, WorkerState, MainState
  <1>3. Asleep' = {} /\ Woken' = Asleep \cup Woken
    BY <1>1 DEF Asleep, Woken
  <1>4. WaitingCounted'
    <2>1. Asleep' \cup Woken' = Asleep \cup Woken
      BY <1>3
    <2> QED
      BY <1>1, <2>1 DEF WaitingCounted
  <1>5. NoLostWakeup' /\ NobodySleepsAfterStop'
    BY <1>1, <1>3 DEF NoLostWakeup, NobodySleepsAfterStop
  <1>6. ThreadsStarted' /\ MessagesHeld'
    BY <1>1 DEF ThreadsStarted, MessagesHeld
  <1>7. PutSleepsOnlyWhenFull' /\ OutputSignalled'
    BY <1>1 DEF PutSleepsOnlyWhenFull, OutputSignalled
  <1> QED
    BY <1>2, <1>4, <1>5, <1>6, <1>7

-----------------------------------------------------------------------------
(* The theorems.                                                           *)

\* The constructor leaves the pool in a state that satisfies the invariant.
LEMMA InitInv == Init => IInv
  <1> SUFFICES ASSUME Init PROVE IInv
    OBVIOUS
  <1>1. TypeOK
    <2>1. pc \in [Workers -> WorkerState] /\ job \in [Workers -> Msgs \cup {NoMsg}]
      BY DEF Init, WorkerState
    <2>2. input \in Seq(Msgs) /\ output \in Seq(Msgs)
      BY DEF Init
    <2>3. noThreads \in Nat /\ waiting \in Nat /\ pipe \in 0 .. PipeCap
      BY ThreadsAssumption DEF Init
    <2>4. stop \in BOOLEAN
      BY DEF Init
    <2>5. it \in Nat \ {0}
      BY DEF Init
    <2>6. main \in MainState
      BY DEF Init, MainState
    <2>7. /\ arg \in Msgs \cup {NoMsg} /\ gone \in Sessions \cup {NoSession}
          /\ fresh \subseteq Msgs /\ answered \subseteq Msgs /\ dropped \subseteq Msgs
      BY DEF Init
    <2> QED
      BY <2>1, <2>2, <2>3, <2>4, <2>5, <2>6, <2>7 DEF TypeOK
  <1>2. Asleep = {} /\ Woken = {}
    BY DEF Init, Asleep, Woken
  <1>3. WaitingCounted /\ NoLostWakeup /\ NobodySleepsAfterStop
    BY <1>2, FS_EmptySet DEF Init, WaitingCounted, NoLostWakeup, NobodySleepsAfterStop
  <1>4. ThreadsStarted /\ MessagesHeld
    BY WorkersFinite, ThreadsAssumption DEF Init, ThreadsStarted, MessagesHeld
  <1>5. PutSleepsOnlyWhenFull /\ OutputSignalled
    BY DEF Init, PutSleepsOnlyWhenFull, OutputSignalled
  <1> QED
    BY <1>1, <1>3, <1>4, <1>5 DEF IInv

\* Every step of a worker or of the main thread preserves it.
LEMMA NextInv == IInv /\ [Next]_vars => IInv'
  <1> SUFFICES ASSUME IInv, [Next]_vars PROVE IInv'
    OBVIOUS
  <1>1. CASE \E w \in Workers : WorkerStep(w)
    BY <1>1, WorkerEnterInv, WorkerWakeInv, WorkerOutputInv DEF WorkerStep
  <1>2. CASE SpuriousWake
    BY <1>2, SpuriousWakeInv
  <1>3. CASE \E m \in Msgs : Put(m)
    BY <1>3, PutInv
  <1>4. CASE PutResume
    BY <1>4, PutResumeInv
  <1>5. CASE \/ SocketNotify
             \/ Drain
             \/ \E s \in Sessions : CleanupBegin(s)
             \/ CleanupStep
             \/ JoinAll
    BY <1>5, MainLoopInv
  <1>6. CASE Destroy
    BY <1>6, DestroyInv
  <1>7. CASE UNCHANGED vars
    BY <1>7 DEF vars, IInv, TypeOK, ThreadsStarted, MessagesHeld, NobodySleepsAfterStop,
                WaitingCounted, NoLostWakeup, PutSleepsOnlyWhenFull, OutputSignalled,
                InputFull, Asleep, Woken
  <1> QED
    BY <1>1, <1>2, <1>3, <1>4, <1>5, <1>6, <1>7 DEF Next

\* The inductive invariant holds in every state of the pool.
THEOREM Invariance == Spec => []IInv
  BY InitInv, NextInv, PTL DEF Spec

\* Type correctness; in particular m_waiting_threads never goes below zero and
\* the pipe never holds more than its capacity.
THEOREM TypeCorrect == Spec => []TypeOK
  <1>1. IInv => TypeOK
    BY DEF IInv
  <1> QED
    BY <1>1, Invariance, PTL

\* m_waiting_threads counts exactly the workers in the wait loop of run(),
\* whatever put(), the destructor and spurious wake-ups do.
THEOREM WaitingIsExact == Spec => []WaitingCounted
  <1>1. IInv => WaitingCounted
    BY DEF IInv
  <1> QED
    BY <1>1, Invariance, PTL

\* No wake-up of a worker is lost: while one sleeps, each queued message has a
\* notified worker on its way, for any number of threads and messages.
THEOREM WakeupsAreNotLost == Spec => []NoLostWakeup
  <1>1. IInv => NoLostWakeup
    BY DEF IInv
  <1> QED
    BY <1>1, Invariance, PTL

\* No wake-up of put() is lost: it sleeps only while the queue is full.
THEOREM PutIsWoken == Spec => []PutSleepsOnlyWhenFull
  <1>1. IInv => PutSleepsOnlyWhenFull
    BY DEF IInv
  <1> QED
    BY <1>1, Invariance, PTL

\* No answer is forgotten in m_output: it is announced by a byte in the pipe or
\* about to be, or being collected.
THEOREM AnswersAreSignalled == Spec => []OutputSignalled
  <1>1. IInv => OutputSignalled
    BY DEF IInv
  <1> QED
    BY <1>1, Invariance, PTL

-----------------------------------------------------------------------------
(* The pool implements ThreadPoolService.  An answer is given at most once *)
(* because each message is in one place: not yet put, with put(), queued,  *)
(* with one worker, in m_output, answered or dropped.                      *)

Apart(a, b, c, d, e, f, g) ==
    /\ a \cap (b \cup c \cup d \cup e \cup f \cup g) = {}
    /\ b \cap (c \cup d \cup e \cup f \cup g) = {}
    /\ c \cap (d \cup e \cup f \cup g) = {}
    /\ d \cap (e \cup f \cup g) = {}
    /\ e \cap (f \cup g) = {}
    /\ f \cap g = {}

Putting == {arg} \ {NoMsg}

OnePlace ==
    /\ main \notin {"putAsleep", "putWoken"} => arg = NoMsg
    /\ \A w \in Workers : pc[w] \notin {"handling", "output"} => job[w] = NoMsg
    /\ \A v, w \in Workers : job[v] = job[w] /\ job[v] # NoMsg => v = w
    /\ \A i, j \in DOMAIN input : input[i] = input[j] => i = j
    /\ \A i, j \in DOMAIN output : output[i] = output[j] => i = j
    /\ Apart(fresh, Putting, ToSet(input), Held, ToSet(output), answered, dropped)

\* Appending to a queue, taking its first message, and erasing one
LEMMA AppendFacts ==
  ASSUME NEW s \in Seq(Msgs), NEW m \in Msgs, m \notin ToSet(s),
         \A i, j \in DOMAIN s : s[i] = s[j] => i = j
  PROVE  /\ ToSet(Append(s, m)) = ToSet(s) \cup {m}
         /\ \A i, j \in DOMAIN Append(s, m) : Append(s, m)[i] = Append(s, m)[j] => i = j
  <1>1. /\ DOMAIN Append(s, m) = 1 .. Len(s) + 1
        /\ DOMAIN s = 1 .. Len(s) /\ Len(s) \in Nat
        /\ Append(s, m)[Len(s) + 1] = m
        /\ \A i \in 1 .. Len(s) : Append(s, m)[i] = s[i]
    OBVIOUS
  <1>2. ToSet(Append(s, m)) \subseteq ToSet(s) \cup {m}
    BY <1>1 DEF ToSet
  <1>3. ToSet(s) \cup {m} \subseteq ToSet(Append(s, m))
    BY <1>1 DEF ToSet
  <1>4. \A i \in 1 .. Len(s) : s[i] # m
    BY <1>1 DEF ToSet
  <1>5. ASSUME NEW i \in 1 .. Len(s) + 1, NEW j \in 1 .. Len(s) + 1,
               Append(s, m)[i] = Append(s, m)[j]
        PROVE  i = j
    BY <1>1, <1>4, <1>5
  <1> QED
    BY <1>1, <1>2, <1>3, <1>5

LEMMA RemoveAtFacts ==
  ASSUME NEW s \in Seq(Msgs), NEW k \in 1 .. Len(s),
         \A i, j \in DOMAIN s : s[i] = s[j] => i = j,
         NEW t, t = RemoveAt(s, k)
  PROVE  /\ s[k] \in ToSet(s) /\ ToSet(s) \subseteq Msgs
         /\ ToSet(t) = ToSet(s) \ {s[k]}
         /\ \A i, j \in DOMAIN t : t[i] = t[j] => i = j
  <1>1. DOMAIN s = 1 .. Len(s) /\ Len(s) \in Nat /\ k \in Nat
    OBVIOUS
  <1>2. /\ t \in Seq(Msgs) /\ Len(t) = Len(s) - 1
        /\ DOMAIN t = 1 .. Len(s) - 1
    BY RemoveAtType
  <1>3. ASSUME NEW i \in 1 .. Len(s) - 1
        PROVE  t[i] = IF i < k THEN s[i] ELSE s[i + 1]
    <2> DEFINE a == SubSeq(s, 1, k - 1)
               b == SubSeq(s, k + 1, Len(s))
    <2>1. a \in Seq(Msgs) /\ Len(a) = k - 1 /\ \A x \in 1 .. k - 1 : a[x] = s[x]
      BY <1>1
    <2>2. /\ b \in Seq(Msgs) /\ Len(b) = Len(s) - k
          /\ \A x \in 1 .. Len(s) - k : b[x] = s[x + k]
      <3>1. b \in Seq(Msgs) /\ Len(b) = Len(s) - k
        OBVIOUS
      <3>2. ASSUME NEW x \in 1 .. Len(s) - k
            PROVE  b[x] = s[x + k]
        <4>1. b[x] = s[(k + 1) + x - 1]
          BY <1>1
        <4>2. (k + 1) + x - 1 = x + k
          BY <1>1
        <4> QED
          BY <4>1, <4>2
      <3> QED
        BY <3>1, <3>2
    <2>3. t = a \o b
      BY DEF RemoveAt
    <2> HIDE DEF a, b
    <2>4. CASE i < k
      <3>1. i \in 1 .. Len(a)
        BY <1>1, <2>1, <2>4
      <3>2. t[i] = a[i]
        BY <2>1, <2>2, <2>3, <3>1
      <3> QED
        BY <1>1, <2>1, <2>4, <3>1, <3>2
    <2>5. CASE ~(i < k)
      <3>1. i \in Len(a) + 1 .. Len(a) + Len(b)
        BY <1>1, <2>1, <2>2, <2>5
      <3>2. t[i] = b[i - Len(a)]
        BY <2>1, <2>2, <2>3, <3>1
      <3>3. i - (k - 1) \in 1 .. Len(s) - k /\ (i - (k - 1)) + k = i + 1
        BY <1>1, <2>5
      <3> QED
        BY <2>1, <2>2, <2>5, <3>2, <3>3
    <2> QED
      BY <2>4, <2>5
  <1>4. ASSUME NEW m \in ToSet(t)
        PROVE  m \in ToSet(s) \ {s[k]}
    <2>1. PICK i \in 1 .. Len(s) - 1 : m = t[i]
      BY <1>2 DEF ToSet
    <2>2. PICK j \in 1 .. Len(s) : m = s[j] /\ j # k
      BY <1>1, <1>3, <2>1
    <2> QED
      BY <1>1, <2>2 DEF ToSet
  <1>5. ASSUME NEW m \in ToSet(s) \ {s[k]}
        PROVE  m \in ToSet(t)
    <2>1. PICK j \in 1 .. Len(s) : m = s[j] /\ j # k
      BY <1>1 DEF ToSet
    <2>2. CASE j < k
      <3>1. j \in 1 .. Len(s) - 1 /\ t[j] = m
        BY <1>1, <1>3, <2>1, <2>2
      <3> QED
        BY <1>2, <3>1 DEF ToSet
    <2>3. CASE j > k
      <3>1. j - 1 \in 1 .. Len(s) - 1 /\ ~(j - 1 < k) /\ (j - 1) + 1 = j
        BY <1>1, <2>3
      <3>2. t[j - 1] = m
        BY <1>3, <2>1, <3>1
      <3> QED
        BY <1>2, <3>1, <3>2 DEF ToSet
    <2> QED
      BY <1>1, <2>1, <2>2, <2>3
  <1>6. ASSUME NEW i \in DOMAIN t, NEW j \in DOMAIN t, t[i] = t[j]
        PROVE  i = j
    BY <1>1, <1>2, <1>3, <1>6, SMTT(30)
  <1>7. s[k] \in ToSet(s) /\ ToSet(s) \subseteq Msgs
    BY <1>1 DEF ToSet
  <1> QED
    BY <1>4, <1>5, <1>6, <1>7

LEMMA TailFacts ==
  ASSUME NEW s \in Seq(Msgs), s # << >>,
         \A i, j \in DOMAIN s : s[i] = s[j] => i = j
  PROVE  /\ Head(s) \in ToSet(s) /\ Head(s) \in Msgs
         /\ ToSet(Tail(s)) = ToSet(s) \ {Head(s)}
         /\ \A i, j \in DOMAIN Tail(s) : Tail(s)[i] = Tail(s)[j] => i = j
  <1>1. /\ Tail(s) \in Seq(Msgs)
        /\ DOMAIN Tail(s) = 1 .. Len(s) - 1
        /\ DOMAIN s = 1 .. Len(s)
        /\ Head(s) = s[1] /\ Head(s) \in Msgs
        /\ \A i \in 1 .. Len(s) - 1 : Tail(s)[i] = s[i + 1]
        /\ Len(s) \in Nat /\ Len(s) > 0
    OBVIOUS
  <1>2. Head(s) \in ToSet(s)
    BY <1>1 DEF ToSet
  <1>3. ToSet(Tail(s)) \subseteq ToSet(s) \ {Head(s)}
    BY <1>1 DEF ToSet
  <1>4. ASSUME NEW m \in ToSet(s) \ {Head(s)}
        PROVE  m \in ToSet(Tail(s))
    <2>1. PICK i \in 1 .. Len(s) : m = s[i]
      BY <1>1 DEF ToSet
    <2>2. i - 1 \in 1 .. Len(s) - 1 /\ (i - 1) + 1 = i
      BY <1>1, <1>4, <2>1
    <2>3. Tail(s)[i - 1] = m /\ i - 1 \in DOMAIN Tail(s)
      BY <1>1, <2>1, <2>2
    <2> QED
      BY <2>3 DEF ToSet
  <1>5. \A i, j \in DOMAIN Tail(s) : Tail(s)[i] = Tail(s)[j] => i = j
    BY <1>1
  <1> QED
    BY <1>1, <1>2, <1>3, <1>4, <1>5

\* A step that moves no message is a step, or a stutter, of the service.
Still == UNCHANGED <<input, output, answered, dropped, fresh, arg, job>>

LEMMA StillSteps ==
  ASSUME IInv, OnePlace, Still, UNCHANGED stop,
         main' \notin {"putAsleep", "putWoken"} => main \notin {"putAsleep", "putWoken"},
         \A w \in Workers : pc'[w] \in {"handling", "output"}
                            \/ pc[w] \notin {"handling", "output"}
  PROVE  OnePlace' /\ UNCHANGED Service!svars
  <1>1. Held' = Held /\ Putting' = Putting
    BY DEF Still, Held, Putting
  <1>2. UNCHANGED Service!svars
    BY <1>1 DEF Still, Service!svars
  <1> QED
    BY <1>1, <1>2 DEF OnePlace, Still

\* A worker takes the first message: the service starts it.
LEMMA TakeSteps ==
  ASSUME IInv, OnePlace, NEW w \in Workers, pc[w] \in {"start", "woken"}, Take(w),
         ~stop, input # << >>, UNCHANGED <<output, stop, arg, fresh, answered, dropped>>
  PROVE  OnePlace' /\ Service!Start
  <1>1. /\ input \in Seq(Msgs) /\ job \in [Workers -> Msgs \cup {NoMsg}]
        /\ pc \in [Workers -> WorkerState] /\ NoMsg \notin Msgs
    BY MsgsAssumption DEF IInv, TypeOK
  <1>2. PICK m : m = Head(input)
    OBVIOUS
  <1>3. /\ m \in ToSet(input) /\ m \in Msgs /\ input' = Tail(input)
        /\ ToSet(input)' = ToSet(input) \ {m}
        /\ \A i, j \in DOMAIN input' : input'[i] = input'[j] => i = j
    BY <1>1, <1>2, TailFacts DEF OnePlace, Take
  <1>4. /\ job' = [job EXCEPT ![w] = m] /\ pc' = [pc EXCEPT ![w] = "handling"]
        /\ job[w] = NoMsg /\ m \notin Held
    BY <1>2, <1>3 DEF Take, OnePlace, Apart
  <1>5. Held' = Held \cup {m}
    <2>1. \A v \in Workers : job'[v] = IF v = w THEN m ELSE job[v]
      BY <1>1, <1>4
    <2> QED
      BY <1>1, <1>3, <1>4, <2>1 DEF Held
  <1>6. \A u, v \in Workers : job'[u] = job'[v] /\ job'[u] # NoMsg => u = v
    BY <1>1, <1>3, <1>4 DEF OnePlace, Held
  <1>7. \A v \in Workers : pc'[v] \notin {"handling", "output"} => job'[v] = NoMsg
    BY <1>1, <1>4 DEF OnePlace
  <1>8. main' \notin {"putAsleep", "putWoken"} => arg' = NoMsg
    BY DEF Take, NotifyRoom, OnePlace
  <1>9. Apart(fresh, Putting, ToSet(input), Held, ToSet(output), answered, dropped)'
    <2>1. Putting' = Putting /\ ToSet(output)' = ToSet(output)
      BY DEF Putting, ToSet
    <2> QED
      BY <1>3, <1>5, <2>1 DEF OnePlace, Apart
  <1>10. OnePlace'
    BY <1>3, <1>6, <1>7, <1>8, <1>9 DEF OnePlace
  <1>11. Service!Start
    BY <1>2, <1>3, <1>5 DEF Service!Start
  <1> QED
    BY <1>10, <1>11

LEMMA WorkerSteps ==
  ASSUME IInv, OnePlace, NEW w \in Workers, WorkerStep(w)
  PROVE  OnePlace' /\ [Service!Next]_(Service!svars)
  <1>1. pc \in [Workers -> WorkerState]
    BY DEF IInv, TypeOK
  <1>2. CASE WorkerEnter(w) \/ WorkerWake(w)
    <2>1. /\ pc[w] \in {"start", "woken"}
          /\ UNCHANGED <<output, stop, arg, fresh, answered, dropped>>
      BY <1>2 DEF WorkerEnter, WorkerWake
    <2>2. CASE ~stop /\ input # << >> /\ Take(w)
      BY <2>1, <2>2, TakeSteps DEF Service!Next
    <2>3. CASE pc' \in {[pc EXCEPT ![w] = "asleep"], [pc EXCEPT ![w] = "exited"]}
               /\ UNCHANGED <<input, job, main>>
      <3>1. \A v \in Workers : pc'[v] \in {"handling", "output"}
                               \/ pc[v] \notin {"handling", "output"}
        BY <1>1, <2>1, <2>3
      <3> QED
        BY <2>1, <2>3, <3>1, StillSteps DEF Still
    <2> QED
      BY <1>2, <2>2, <2>3 DEF WorkerEnter, WorkerWake
  <1>3. CASE Handle(w) \/ PipeWrite(w)
    <2>1. \A v \in Workers : pc'[v] \in {"handling", "output"}
                             \/ pc[v] \notin {"handling", "output"}
      BY <1>1, <1>3 DEF Handle, PipeWrite
    <2> QED
      BY <1>3, <2>1, StillSteps DEF Still, Handle, PipeWrite
  <1>4. CASE PushOutput(w)
    <2>1. /\ pc[w] = "output" /\ output' = Append(output, job[w])
          /\ job' = [job EXCEPT ![w] = NoMsg] /\ pc' = [pc EXCEPT ![w] = "writing"]
          /\ UNCHANGED <<input, stop, main, arg, fresh, answered, dropped>>
      BY <1>4 DEF PushOutput
    <2>2. /\ output \in Seq(Msgs) /\ job \in [Workers -> Msgs \cup {NoMsg}]
          /\ NoMsg \notin Msgs /\ job[w] \in Msgs
      BY <2>1, MsgsAssumption DEF IInv, TypeOK, MessagesHeld
    <2>3. job[w] \in Held /\ job[w] \notin ToSet(output)
      BY <2>2 DEF Held, OnePlace, Apart
    <2>4. /\ ToSet(output)' = ToSet(output) \cup {job[w]}
          /\ \A i, j \in DOMAIN output' : output'[i] = output'[j] => i = j
      BY <2>1, <2>2, <2>3, AppendFacts DEF OnePlace
    <2>5. Held' = Held \ {job[w]}
      <3>1. \A v \in Workers : job'[v] = IF v = w THEN NoMsg ELSE job[v]
        BY <2>1, <2>2
      <3>2. \A v \in Workers : v # w => job[v] # job[w]
        BY <2>2 DEF OnePlace
      <3> QED
        BY <3>1, <3>2 DEF Held
    <2>6. \A u, v \in Workers : job'[u] = job'[v] /\ job'[u] # NoMsg => u = v
      BY <2>1, <2>2 DEF OnePlace
    <2>7. \A v \in Workers : pc'[v] \notin {"handling", "output"} => job'[v] = NoMsg
      BY <1>1, <2>1, <2>2 DEF OnePlace
    <2>8. Apart(fresh, Putting, ToSet(input), Held, ToSet(output), answered, dropped)'
      <3>1. Putting' = Putting /\ ToSet(input)' = ToSet(input)
        BY <2>1 DEF Putting, ToSet
      <3> QED
        BY <2>1, <2>3, <2>4, <2>5, <3>1 DEF OnePlace, Apart
    <2>9. OnePlace'
      BY <2>1, <2>4, <2>6, <2>7, <2>8 DEF OnePlace
    <2>10. (Held \cup ToSet(output))' = Held \cup ToSet(output)
      BY <2>3, <2>4, <2>5
    <2> QED
      BY <2>1, <2>9, <2>10 DEF Service!svars
  <1> QED
    BY <1>2, <1>3, <1>4 DEF WorkerStep

\* A message is appended to the queue, by put() at once or after its wait.
LEMMA SubmitSteps ==
  ASSUME IInv, OnePlace, NEW m \in Msgs, ~stop, input' = Append(input, m),
         UNCHANGED <<output, stop, job, answered, dropped>>,
         \/ m \in fresh /\ fresh' = fresh \ {m} /\ Putting' = Putting
         \/ m \in Putting /\ fresh' = fresh /\ Putting' = {},
         main' \notin {"putAsleep", "putWoken"} => arg' = NoMsg,
         \A w \in Workers : pc'[w] \in {"handling", "output"}
                            \/ pc[w] \notin {"handling", "output"}
  PROVE  OnePlace' /\ Service!Submit(m)
  <1>1. input \in Seq(Msgs) /\ Held' = Held /\ ToSet(output)' = ToSet(output)
    BY DEF IInv, TypeOK, Held, ToSet
  <1>2. m \notin ToSet(input) \cup Held \cup ToSet(output) \cup answered \cup dropped
    BY DEF OnePlace, Apart
  <1>3. /\ ToSet(input)' = ToSet(input) \cup {m}
        /\ \A i, j \in DOMAIN input' : input'[i] = input'[j] => i = j
    BY <1>1, <1>2, AppendFacts DEF OnePlace
  <1>4. Apart(fresh, Putting, ToSet(input), Held, ToSet(output), answered, dropped)'
    BY <1>1, <1>2, <1>3 DEF OnePlace, Apart
  <1>5. OnePlace'
    BY <1>3, <1>4 DEF OnePlace
  <1>6. Service!Submit(m)
    BY <1>1, <1>2 DEF Service!Submit, Service!ToSet, ToSet
  <1> QED
    BY <1>5, <1>6

\* notify_one changes sleeping workers only.
LEMMA NotifiedWork ==
  ASSUME NEW p \in [Workers -> WorkerState], NEW q \in NotifyOne(p), NEW w \in Workers
  PROVE  q[w] = p[w] \/ (p[w] = "asleep" /\ q[w] = "woken")
  BY DEF NotifyOne

LEMMA PutSteps ==
  ASSUME IInv, OnePlace, NEW m \in Msgs, Put(m)
  PROVE  OnePlace' /\ [Service!Next]_(Service!svars)
  <1>1. /\ pc \in [Workers -> WorkerState] /\ noThreads \in Nat /\ ~stop /\ main = "loop"
        /\ arg = NoMsg /\ m # NoMsg
    BY MsgsAssumption DEF Put, IInv, TypeOK, NobodySleepsAfterStop, OnePlace
  <1>2. PICK p : p = IF AddWorker THEN [pc EXCEPT ![noThreads + 1] = "start"] ELSE pc
    OBVIOUS
  <1>3. /\ m \in fresh /\ fresh' = fresh \ {m}
        /\ UNCHANGED <<output, stop, job, answered, dropped>>
        /\ \/ /\ main' = "putAsleep" /\ arg' = m /\ pc' = p /\ UNCHANGED input
           \/ /\ input' = Append(input, m) /\ pc' \in NotifyOne(p) /\ UNCHANGED <<main, arg>>
    BY <1>2 DEF Put
  <1>4. p \in [Workers -> WorkerState]
        /\ \A w \in Workers : p[w] = pc[w] \/ (pc[w] = "absent" /\ p[w] = "start")
    <2>1. ASSUME NEW w \in Workers, w = noThreads + 1
          PROVE  pc[w] = "absent"
      BY <1>1, <2>1, WorkersFinite DEF IInv, ThreadsStarted
    <2> QED
      BY <1>1, <1>2, <2>1 DEF WorkerState
  <1>5. \A w \in Workers : pc'[w] \in {"handling", "output"}
                           \/ pc[w] \notin {"handling", "output"}
    BY <1>3, <1>4, NotifiedWork
  <1>6. CASE main' = "putAsleep" /\ arg' = m /\ UNCHANGED input
    <2>1. /\ Putting = {} /\ Putting' = {m} /\ Held' = Held
          /\ ToSet(input)' = ToSet(input) /\ ToSet(output)' = ToSet(output)
      BY <1>1, <1>3, <1>6 DEF Putting, Held, ToSet
    <2>2. Apart(fresh, Putting, ToSet(input), Held, ToSet(output), answered, dropped)'
      BY <1>3, <2>1 DEF OnePlace, Apart
    <2>3. OnePlace'
      BY <1>3, <1>5, <1>6, <2>2 DEF OnePlace
    <2>4. UNCHANGED Service!svars
      BY <1>3, <1>6, <2>1 DEF Service!svars
    <2> QED
      BY <2>3, <2>4
  <1>7. CASE input' = Append(input, m) /\ UNCHANGED <<main, arg>>
    <2>1. Putting' = Putting /\ arg' = NoMsg
      BY <1>1, <1>7 DEF Putting
    <2> QED
      BY <1>1, <1>3, <1>5, <1>7, <2>1, SubmitSteps DEF Service!Next
  <1> QED
    BY <1>3, <1>6, <1>7

LEMMA PutResumeSteps ==
  ASSUME IInv, OnePlace, PutResume
  PROVE  OnePlace' /\ [Service!Next]_(Service!svars)
  <1>1. /\ pc \in [Workers -> WorkerState] /\ ~stop /\ main = "putWoken"
        /\ arg \in Msgs /\ arg # NoMsg
        /\ UNCHANGED <<output, stop, job, fresh, answered, dropped>>
    BY MsgsAssumption DEF PutResume, IInv, TypeOK, NobodySleepsAfterStop, MessagesHeld
  <1>2. CASE main' = "putAsleep" /\ UNCHANGED <<input, arg, pc>>
    BY <1>1, <1>2, StillSteps DEF Still
  <1>3. CASE main' = "loop" /\ input' = Append(input, arg) /\ arg' = NoMsg
             /\ pc' \in NotifyOne(pc)
    <2>1. PICK m \in Msgs : m = arg
      BY <1>1
    <2>2. m \in Putting /\ Putting' = {}
      BY <1>1, <1>3, <2>1 DEF Putting
    <2>3. \A w \in Workers : pc'[w] \in {"handling", "output"}
                             \/ pc[w] \notin {"handling", "output"}
      BY <1>1, <1>3, NotifiedWork
    <2> QED
      BY <1>1, <1>3, <2>1, <2>2, <2>3, SubmitSteps DEF Service!Next
  <1> QED
    BY <1>2, <1>3 DEF PutResume

LEMMA MainSteps ==
  ASSUME IInv, OnePlace,
         \/ SpuriousWake
         \/ SocketNotify
         \/ \E s \in Sessions : CleanupBegin(s)
         \/ JoinAll
  PROVE  OnePlace' /\ UNCHANGED Service!svars
  <1>1. Still /\ UNCHANGED stop
    BY DEF Still, SpuriousWake, SocketNotify, CleanupBegin, JoinAll
  <1>2. main' \notin {"putAsleep", "putWoken"} => main \notin {"putAsleep", "putWoken"}
    BY DEF SpuriousWake, SocketNotify, CleanupBegin, JoinAll
  <1>3. \A w \in Workers : pc'[w] \in {"handling", "output"}
                           \/ pc[w] \notin {"handling", "output"}
    <2>1. pc \in [Workers -> WorkerState]
      BY DEF IInv, TypeOK
    <2> QED
      BY <2>1 DEF SpuriousWake, SocketNotify, CleanupBegin, JoinAll, Asleep
  <1> QED
    BY <1>1, <1>2, <1>3, StillSteps

LEMMA DestroySteps ==
  ASSUME IInv, OnePlace, Destroy
  PROVE  OnePlace' /\ Service!Close
  <1>1. /\ main = "loop" /\ main' = "joining" /\ ~stop /\ stop' = TRUE
        /\ pc' = NotifyAll(pc)
        /\ UNCHANGED <<input, output, job, arg, fresh, answered, dropped>>
    BY DEF Destroy, IInv, NobodySleepsAfterStop
  <1>2. Held' = Held /\ Putting' = Putting /\ ToSet(output)' = ToSet(output)
    BY <1>1 DEF Held, Putting, ToSet
  <1>3. \A w \in Workers : pc'[w] = pc[w] \/ (pc[w] = "asleep" /\ pc'[w] = "woken")
    BY <1>1 DEF NotifyAll
  <1>4. OnePlace'
    BY <1>1, <1>2, <1>3 DEF OnePlace
  <1>5. Service!Close
    BY <1>1, <1>2 DEF Service!Close
  <1> QED
    BY <1>4, <1>5

\* result() is called for the first answer, which is then nowhere else.
LEMMA DrainSteps ==
  ASSUME IInv, OnePlace, Drain
  PROVE  OnePlace' /\ [Service!Next]_(Service!svars)
  <1>1. /\ main = "draining" /\ ~stop /\ output \in Seq(Msgs) /\ arg = NoMsg
        /\ UNCHANGED <<input, stop, pc, job, arg, fresh, dropped>>
    BY DEF Drain, IInv, TypeOK, NobodySleepsAfterStop, OnePlace
  <1>2. CASE ~MoreOutput /\ main' = "loop" /\ UNCHANGED <<output, answered>>
    <2>1. Still
      BY <1>1, <1>2 DEF Still
    <2> QED
      BY <1>1, <1>2, <2>1, StillSteps
  <1>3. CASE MoreOutput /\ PopOutput /\ UNCHANGED main
    <2>1. PICK m : m = Head(output)
      OBVIOUS
    <2>2. output # << >> /\ output' = Tail(output) /\ answered' = answered \cup {m}
      BY <1>3, <2>1 DEF MoreOutput, PopOutput
    <2>3. /\ m \in ToSet(output) /\ m \in Msgs
          /\ ToSet(output)' = ToSet(output) \ {m}
          /\ \A i, j \in DOMAIN output' : output'[i] = output'[j] => i = j
      BY <1>1, <2>1, <2>2, TailFacts DEF OnePlace
    <2>4. Held' = Held /\ Putting' = Putting /\ ToSet(input)' = ToSet(input)
      BY <1>1 DEF Held, Putting, ToSet
    <2>5. Apart(fresh, Putting, ToSet(input), Held, ToSet(output), answered, dropped)'
      BY <1>1, <2>2, <2>3, <2>4 DEF OnePlace, Apart
    <2>6. OnePlace'
      BY <1>1, <1>3, <2>3, <2>5 DEF OnePlace
    <2>7. (Held \cup ToSet(output))' = (Held \cup ToSet(output)) \ {m}
      BY <2>3, <2>4 DEF OnePlace, Apart
    <2>8. Service!Answer(m)
      BY <1>1, <2>2, <2>3, <2>7 DEF Service!Answer
    <2> QED
      BY <2>3, <2>6, <2>8 DEF Service!Next
  <1> QED
    BY <1>2, <1>3 DEF Drain

\* cleanup() drops a queued message, or looks at the next one.
LEMMA CleanupSteps ==
  ASSUME IInv, OnePlace, CleanupStep
  PROVE  OnePlace' /\ [Service!Next]_(Service!svars)
  <1>1. /\ main = "cleaning" /\ ~stop /\ input \in Seq(Msgs) /\ arg = NoMsg /\ it \in Nat \ {0}
        /\ UNCHANGED <<output, stop, pc, job, arg, fresh, answered>>
    BY DEF CleanupStep, IInv, TypeOK, NobodySleepsAfterStop, OnePlace
  <1>2. CASE UNCHANGED <<input, dropped>> /\ main' \in {"loop", "cleaning"}
    <2>1. Still
      BY <1>1, <1>2 DEF Still
    <2> QED
      BY <1>1, <1>2, <2>1, StillSteps
  <1>3. CASE /\ it <= Len(input) /\ dropped' = dropped \cup {input[it]}
             /\ input' = RemoveAt(input, it) /\ UNCHANGED <<main, it>>
    <2>1. PICK k \in 1 .. Len(input) : k = it
      BY <1>1, <1>3
    <2>2. /\ input[k] \in ToSet(input)
          /\ ToSet(input)' = ToSet(input) \ {input[k]}
          /\ \A i, j \in DOMAIN input' : input'[i] = input'[j] => i = j
      BY <1>1, <1>3, <2>1, RemoveAtFacts DEF OnePlace
    <2>3. Held' = Held /\ Putting' = Putting /\ ToSet(output)' = ToSet(output)
      BY <1>1 DEF Held, Putting, ToSet
    <2>4. Apart(fresh, Putting, ToSet(input), Held, ToSet(output), answered, dropped)'
      BY <1>1, <1>3, <2>1, <2>2, <2>3 DEF OnePlace, Apart
    <2>5. OnePlace'
      BY <1>1, <1>3, <2>2, <2>4 DEF OnePlace
    <2>6. Service!Drop(k) /\ k \in DOMAIN input
      BY <1>1, <1>3, <2>1, <2>3 DEF Service!Drop, Service!RemoveAt, RemoveAt
    <2> QED
      BY <2>5, <2>6 DEF Service!Next
  <1> QED
    BY <1>1, <1>2, <1>3 DEF CleanupStep

LEMMA StepsImplement ==
  IInv /\ OnePlace /\ [Next]_vars => OnePlace' /\ [Service!Next]_(Service!svars)
  <1> SUFFICES ASSUME IInv, OnePlace, [Next]_vars
               PROVE  OnePlace' /\ [Service!Next]_(Service!svars)
    OBVIOUS
  <1>1. CASE UNCHANGED vars
    BY <1>1, StillSteps DEF vars, Still
  <1>2. CASE Destroy
    BY <1>2, DestroySteps DEF Service!Next
  <1> QED
    BY <1>1, <1>2, WorkerSteps, MainSteps, PutSteps, PutResumeSteps, DrainSteps, CleanupSteps
       DEF Next

\* The pool keeps the promise of ThreadPoolService: messages are started in the order
\* they were put, dropped only while they are queued, answered at most once and not
\* after the destructor has begun, for any number of threads and any queue and pipe.
THEOREM PoolImplementsService == Spec => ImplementsService
  <1>1. Init => OnePlace /\ Service!Init
    <2> SUFFICES ASSUME Init
                 PROVE  OnePlace /\ Service!Init
      OBVIOUS
    <2>1. input = << >> /\ output = << >> /\ Held = {} /\ Putting = {}
      BY DEF Init, Held, Putting
    <2>2. ToSet(input) = {} /\ ToSet(output) = {}
      BY <2>1 DEF ToSet
    <2> QED
      BY <2>1, <2>2 DEF Init, OnePlace, Apart, Service!Init
  <1> QED
    BY <1>1, Invariance, StepsImplement, PTL DEF Spec, ImplementsService, Service!Spec
=============================================================================
