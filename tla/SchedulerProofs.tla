--------------------------- MODULE SchedulerProofs ---------------------------
(***************************************************************************)
(* Proofs about Scheduler for every number of threads and operations: the  *)
(* task is in one place, and no wakeup is lost.                            *)
(***************************************************************************)
EXTENDS Scheduler, SequenceTheorems, TLAPS

Entry == Operation \cup {Task}

OneTask(q) == \A i, j \in DOMAIN q : q[i] = Task /\ q[j] = Task => i = j
NoTask(q)  == \A i \in DOMAIN q : q[i] # Task

\* The threads that have taken the task out of the queue.
Running == {t \in Thread : pc[t] \in {"poll", "wait", "task_exit"}}

-----------------------------------------------------------------------------
(* The queue *)

\* Operations queued behind change nothing about the task.
LEMMA QueueOperations ==
  ASSUME NEW q \in Seq(Entry), NEW ops \in Seq(Operation)
  PROVE  /\ q \o ops \in Seq(Entry)
         /\ OneTask(q) => OneTask(q \o ops)
         /\ NoTask(q) => NoTask(q \o ops)
<1>1. ops \in Seq(Entry) /\ NoTask(ops)
  BY SchedulerAssumption DEF Entry, NoTask
<1>2. /\ q \o ops \in Seq(Entry)
      /\ DOMAIN (q \o ops) = 1 .. Len(q) + Len(ops)
      /\ \A i \in 1 .. Len(q) + Len(ops) :
           (q \o ops)[i] = IF i <= Len(q) THEN q[i] ELSE ops[i - Len(q)]
  BY <1>1, ConcatProperties
<1>3. Len(q) \in Nat /\ DOMAIN q = 1 .. Len(q)
  OBVIOUS
<1>4. Len(ops) \in Nat /\ DOMAIN ops = 1 .. Len(ops)
  OBVIOUS
<1>5. \A i \in DOMAIN (q \o ops) :
        (q \o ops)[i] = Task => i \in DOMAIN q /\ q[i] = Task
  BY <1>1, <1>2, <1>3, <1>4 DEF NoTask
<1>. QED
  BY <1>2, <1>5 DEF OneTask, NoTask

\* The task may be queued behind a queue it is not in.
LEMMA QueueTask ==
  ASSUME NEW q \in Seq(Entry), NoTask(q)
  PROVE  q \o <<Task>> \in Seq(Entry) /\ OneTask(q \o <<Task>>)
<1>1. <<Task>> \in Seq(Entry) /\ Len(<<Task>>) = 1
  BY DEF Entry
<1>2. /\ q \o <<Task>> \in Seq(Entry)
      /\ DOMAIN (q \o <<Task>>) = 1 .. Len(q) + 1
      /\ \A i \in 1 .. Len(q) + 1 :
           i <= Len(q) => (q \o <<Task>>)[i] = q[i]
  BY <1>1, ConcatProperties
<1>3. Len(q) \in Nat /\ DOMAIN q = 1 .. Len(q)
  OBVIOUS
<1>4. \A i \in DOMAIN (q \o <<Task>>) :
        (q \o <<Task>>)[i] = Task => i = Len(q) + 1
  BY <1>2, <1>3 DEF NoTask
<1>. QED
  BY <1>2, <1>4 DEF OneTask

\* Taking the front: once the task is taken it is in the queue no more.
LEMMA QueueTail ==
  ASSUME NEW q \in Seq(Entry), q # <<>>
  PROVE  /\ Head(q) \in Entry /\ Tail(q) \in Seq(Entry)
         /\ OneTask(q) => OneTask(Tail(q))
         /\ NoTask(q) => NoTask(Tail(q)) /\ Head(q) # Task
         /\ OneTask(q) /\ Head(q) = Task => NoTask(Tail(q))
<1>1. /\ Head(q) \in Entry /\ Tail(q) \in Seq(Entry)
      /\ Len(Tail(q)) = Len(q) - 1
      /\ \A i \in 1 .. Len(Tail(q)) : Tail(q)[i] = q[i + 1]
  BY HeadTailProperties
<1>2. Len(q) \in Nat \ {0} /\ DOMAIN q = 1 .. Len(q) /\ Head(q) = q[1]
  OBVIOUS
<1>3. DOMAIN Tail(q) = 1 .. Len(q) - 1
  BY <1>1
<1>4. \A i \in DOMAIN Tail(q) :
        i \in Int /\ i + 1 \in DOMAIN q /\ i + 1 # 1 /\ Tail(q)[i] = q[i + 1]
  BY <1>1, <1>2, <1>3
<1>5. 1 \in DOMAIN q
  BY <1>2
<1>6. OneTask(q) => OneTask(Tail(q))
  BY <1>4 DEF OneTask
<1>7. NoTask(q) => NoTask(Tail(q)) /\ Head(q) # Task
  BY <1>2, <1>4, <1>5 DEF NoTask
<1>8. OneTask(q) /\ Head(q) = Task => NoTask(Tail(q))
  BY <1>2, <1>4, <1>5 DEF OneTask, NoTask
<1>. QED
  BY <1>1, <1>6, <1>7, <1>8

-----------------------------------------------------------------------------
(* The invariant *)

\* A thread that sleeps in epoll_wait knows when it has been interrupted.
Interrupted == \A t \in Thread : pc[t] = "wait" /\ task_interrupted_ => interrupter

StopIsSeen ==
  /\ stopped_ => /\ signalled /\ task_interrupted_
                 /\ \A t \in Thread : pc[t] # "blocked"
  /\ \A t \in Thread : pc[t] = "done" => stopped_

QueueAttended ==
  op_queue_ # <<>> /\ ~stopped_ => Attended \/ \A t \in Thread : pc[t] = "idle"

\* The task is queued once, or one thread runs it.
OneRunner == \A t, u \in Running : t = u
TaskPlace == OneRunner /\ OneTask(op_queue_) /\ (Running = {} \/ NoTask(op_queue_))

IInv == TaskPlace /\ Interrupted /\ StopIsSeen /\ QueueAttended

\* The invariant has the properties the runs check.
LEMMA InvImplies == SchedulerTypeOK /\ IInv => TaskOnce /\ NoLostWakeup
<1>1. TaskPlace => TaskOnce
  BY DEF TaskPlace, TaskOnce, OneRunner, Running, OneTask, NoTask
<1>2. IInv => NoLostWakeup
  BY DEF IInv, Interrupted, StopIsSeen, QueueAttended, NoLostWakeup
<1>. QED
  BY <1>1, <1>2 DEF IInv

LEMMA InvInit == SchedulerInit => SchedulerTypeOK /\ IInv
<1>. SUFFICES ASSUME SchedulerInit PROVE SchedulerTypeOK /\ IInv
  OBVIOUS
<1>1. <<Task>> \in Seq(Entry) /\ OneTask(<<Task>>)
  BY DEF Entry, OneTask
<1>2. SchedulerTypeOK
  <2>1. op_queue_ \in Seq(Entry) /\ outstanding_work_ \in Int
    BY <1>1 DEF SchedulerInit
  <2>2. /\ stopped_ \in BOOLEAN /\ task_interrupted_ \in BOOLEAN
        /\ signalled \in BOOLEAN /\ interrupter \in BOOLEAN
        /\ signalling \subseteq Caller
    BY DEF SchedulerInit
  <2>3. pc \in [Thread -> Place] /\ private_outstanding_work \in [Thread -> Int]
    BY DEF SchedulerInit, Place
  <2>4. private_op_queue \in [Thread -> Seq(Operation)]
    BY DEF SchedulerInit
  <2>. QED
    BY <2>1, <2>2, <2>3, <2>4 DEF SchedulerTypeOK, Entry
<1>3. TaskPlace
  BY <1>1 DEF SchedulerInit, TaskPlace, OneRunner, Running
<1>4. Interrupted /\ StopIsSeen /\ QueueAttended
  BY DEF SchedulerInit, Interrupted, StopIsSeen, QueueAttended
<1>. QED
  BY <1>2, <1>3, <1>4 DEF IInv

-----------------------------------------------------------------------------
(* Sleeping and waking *)

sleepTypeOK ==
  /\ task_interrupted_ \in BOOLEAN /\ signalled \in BOOLEAN
  /\ signalling \subseteq Caller /\ interrupter \in BOOLEAN

LEMMA WakeTypes ==
  ASSUME SchedulerTypeOK, NEW c \in Caller, NEW interrupted \in BOOLEAN,
         wake_one_thread_and_unlock(c, interrupted)
  PROVE  sleepTypeOK'
<1>1. signalled' \in BOOLEAN /\ signalling' \subseteq Caller
  BY DEF wake_one_thread_and_unlock, unlock_and_signal_one, SchedulerTypeOK
<1>2. task_interrupted_' \in BOOLEAN /\ interrupter' \in BOOLEAN
  BY DEF wake_one_thread_and_unlock, SchedulerTypeOK
<1>. QED
  BY <1>1, <1>2 DEF sleepTypeOK

LEMMA StopTypes ==
  ASSUME SchedulerTypeOK, NEW p \in [Thread -> Place], stop_all_threads(p)
  PROVE  sleepTypeOK' /\ stopped_' \in BOOLEAN /\ pc' \in [Thread -> Place]
<1>1. pc' \in [Thread -> Place]
  BY DEF stop_all_threads, Place
<1>. QED
  BY <1>1 DEF stop_all_threads, SchedulerTypeOK, sleepTypeOK

LEMMA WorkTypes ==
  ASSUME SchedulerTypeOK, NEW p \in [Thread -> Place], work_finished(p)
  PROVE  /\ sleepTypeOK' /\ stopped_' \in BOOLEAN /\ pc' \in [Thread -> Place]
         /\ outstanding_work_' \in Int
<1>1. outstanding_work_' \in Int
  BY DEF work_finished, SchedulerTypeOK
<1>2. CASE outstanding_work_ = 1
  BY <1>1, <1>2, StopTypes DEF work_finished
<1>3. CASE outstanding_work_ # 1
  BY <1>1, <1>3 DEF work_finished, SchedulerTypeOK, sleepTypeOK, sleepVars
<1>. QED
  BY <1>2, <1>3

\* stop_all_threads, by the owner, or by a thread that enters run(), finishes
\* work or leaves an operation.
LEMMA StopStep ==
  ASSUME SchedulerTypeOK, IInv, NEW p \in [Thread -> Place],
         \A u \in Thread : \/ p[u] = pc[u]
                           \/ p[u] = "done" \/ p[u] = "lock",
         stop_all_threads(p), op_queue_' = op_queue_
  PROVE  IInv'
<1>1. \A u \in Thread : /\ pc'[u] \in {"poll", "wait", "task_exit"} =>
                             pc[u] = pc'[u]
                        /\ pc'[u] # "blocked"
  BY DEF stop_all_threads, Place
<1>2. TaskPlace'
  BY <1>1 DEF IInv, TaskPlace, OneRunner, Running, OneTask, NoTask
<1>3. Interrupted'
  <2>1. task_interrupted_ => interrupter' = interrupter
    BY DEF stop_all_threads, SchedulerTypeOK
  <2>2. ~task_interrupted_ => interrupter'
    BY DEF stop_all_threads
  <2>. QED
    BY <1>1, <2>1, <2>2 DEF IInv, Interrupted, SchedulerTypeOK
<1>4. StopIsSeen' /\ QueueAttended'
  BY <1>1 DEF stop_all_threads, StopIsSeen, QueueAttended
<1>. QED
  BY <1>2, <1>3, <1>4 DEF IInv

\* Whoever queues operations wakes a thread, or interrupts the one that polls,
\* or no thread is in run().
LEMMA PostStep ==
  ASSUME SchedulerTypeOK, IInv, NEW ops \in Seq(Operation), NEW c \in Caller,
         c = Owner \/ pc[c] = "complete",
         op_queue_' = op_queue_ \o ops,
         wake_one_thread_and_unlock(c, task_interrupted_),
         stopped_' = stopped_, pc' = pc
  PROVE  IInv'
<1>1. op_queue_ \in Seq(Entry)
  BY DEF SchedulerTypeOK, Entry
<1>2. TaskPlace'
  <2>1. OneTask(op_queue_') /\ (NoTask(op_queue_) => NoTask(op_queue_'))
    BY <1>1, QueueOperations DEF IInv, TaskPlace
  <2>. QED
    BY <2>1 DEF IInv, TaskPlace, OneRunner, Running, OneTask, NoTask
<1>3. Waiting \subseteq {c} => Waiting = {}
  BY SchedulerAssumption DEF Waiting
<1>4. /\ signalled'
      /\ Waiting # {} => signalling' = signalling \cup {c}
  BY <1>3 DEF wake_one_thread_and_unlock, unlock_and_signal_one
<1>5. \/ Waiting # {} /\ task_interrupted_' = task_interrupted_
         /\ interrupter' = interrupter
      \/ Waiting = {} /\ task_interrupted_'
         /\ interrupter' = (interrupter \/ ~task_interrupted_)
  BY <1>3 DEF wake_one_thread_and_unlock
<1>6. Interrupted'
  BY <1>5 DEF IInv, Interrupted, SchedulerTypeOK
<1>7. StopIsSeen'
  BY <1>4, <1>5 DEF IInv, StopIsSeen
<1>8. QueueAttended'
  <2>1. CASE Waiting # {}
    BY <1>4, <2>1 DEF QueueAttended, Attended, Waiting
  <2>2. CASE Waiting = {}
    <3>1. \A u \in Thread : pc[u] = "wait" => interrupter'
      BY <1>6, <1>5, <2>2 DEF Interrupted
    <3>2. \A u \in Thread : pc[u] = "done" => stopped_
      BY DEF IInv, StopIsSeen
    <3>. QED
      BY <2>2, <3>1, <3>2 DEF QueueAttended, Attended, Waiting, SchedulerTypeOK, Place
  <2>. QED
    BY <2>1, <2>2
<1>. QED
  BY <1>2, <1>6, <1>7, <1>8 DEF IInv

-----------------------------------------------------------------------------
(* A turn of do_run_one *)

\* What a thread finds under mutex_: the queue with what it puts back.
LEMMA FoundQueue ==
  ASSUME SchedulerTypeOK, IInv, NEW t \in Thread
  PROVE  /\ Queue(t) \in Seq(Entry) /\ OneTask(Queue(t))
         /\ pc[t] # "task_exit" => (Running = {} \/ NoTask(Queue(t)))
         /\ pc[t] = "task_exit" => Running = {t}
<1>. DEFINE q == op_queue_ \o private_op_queue[t]
<1>1. op_queue_ \in Seq(Entry) /\ private_op_queue[t] \in Seq(Operation)
  BY DEF SchedulerTypeOK, Entry
<1>2. /\ q \in Seq(Entry) /\ OneTask(q)
      /\ Running = {} \/ NoTask(q)
  BY <1>1, QueueOperations DEF IInv, TaskPlace
<1>3. CASE pc[t] = "task_exit"
  <2>1. Running = {t}
    BY <1>3 DEF IInv, TaskPlace, OneRunner, Running
  <2>2. Queue(t) = q \o <<Task>>
    BY <1>3 DEF Queue
  <2>3. NoTask(q)
    BY <1>2, <2>1
  <2>. HIDE DEF q
  <2>. QED
    BY <1>2, <1>3, <2>1, <2>2, <2>3, QueueTask
<1>4. CASE pc[t] # "task_exit"
  <2>1. Queue(t) = q \o <<>>
    BY <1>4 DEF Queue
  <2>. HIDE DEF q
  <2>2. Queue(t) = q
    BY <1>2, <2>1, ConcatEmptySeq
  <2>. QED
    BY <1>2, <1>4, <2>2
<1>. QED
  BY <1>3, <1>4

LEMMA RunOneTypes ==
  ASSUME SchedulerTypeOK, IInv, NEW t \in Thread, NEW interrupted \in BOOLEAN,
         run_one(t, interrupted)
  PROVE  sleepTypeOK' /\ op_queue_' \in Seq(Entry) /\ pc' \in [Thread -> Place]
<1>. DEFINE queue == Queue(t)
            more  == Tail(queue) # <<>>
<1>1. queue \in Seq(Entry)
  BY FoundQueue
<1>2. queue # <<>> => Tail(queue) \in Seq(Entry)
  BY <1>1, QueueTail
<1>3. t \in Caller
  BY DEF Caller
<1>. HIDE DEF queue
<1>4. op_queue_' \in Seq(Entry)
  <2>1. \/ op_queue_' = queue \/ op_queue_' = op_queue_
        \/ queue # <<>> /\ op_queue_' = Tail(queue)
    BY DEF run_one, queue
  <2>. QED
    BY <1>1, <1>2, <2>1 DEF SchedulerTypeOK, Entry
<1>5. \E place \in Place : pc' = [pc EXCEPT ![t] = place]
  BY DEF run_one, Place
<1>6. pc' \in [Thread -> Place]
  BY <1>5 DEF SchedulerTypeOK
<1>7. sleepTypeOK'
  <2>1. \/ wake_one_thread_and_unlock(t, interrupted)
        \/ /\ task_interrupted_' \in {interrupted, more}
           /\ signalled' \in {signalled, FALSE, TRUE}
           /\ signalling' = signalling \/ unlock_and_signal_one(t)
           /\ interrupter' = interrupter
    BY DEF run_one, queue, unlock_and_signal_one
  <2>2. unlock_and_signal_one(t) => signalling' \subseteq Caller
    BY <1>3 DEF unlock_and_signal_one, SchedulerTypeOK
  <2>. QED
    BY <1>3, <2>1, <2>2, WakeTypes DEF sleepTypeOK, SchedulerTypeOK
<1>. QED
  BY <1>4, <1>6, <1>7

\* A thread that has mutex_ and looks at the queue: it returns, sleeps on an
\* empty queue, takes the task, or takes an operation.
LEMMA RunOneStep ==
  ASSUME SchedulerTypeOK, IInv, NEW t \in Thread, NEW interrupted \in BOOLEAN,
         pc[t] # "task_exit" => interrupted = task_interrupted_,
         pc[t] = "task_exit" => interrupted = TRUE,
         pc[t] \in {"lock", "woken", "task_exit", "complete"},
         run_one(t, interrupted), stopped_' = stopped_
  PROVE  IInv'
<1>. DEFINE queue == Queue(t)
            more  == Tail(queue) # <<>>
<1>1. /\ queue \in Seq(Entry) /\ OneTask(queue)
      /\ pc[t] # "task_exit" => (Running = {} \/ NoTask(queue))
      /\ pc[t] = "task_exit" => Running = {t}
  BY FoundQueue
<1>2. pc \in [Thread -> Place] /\ task_interrupted_ \in BOOLEAN
  BY DEF SchedulerTypeOK
<1>3. Running \ {t} # {} => NoTask(queue)
  BY <1>1
<1>4. queue # <<>> =>
        /\ OneTask(Tail(queue))
        /\ NoTask(queue) => NoTask(Tail(queue)) /\ Head(queue) # Task
        /\ Head(queue) = Task => NoTask(Tail(queue))
  BY <1>1, QueueTail
<1>. HIDE DEF queue
<1>5. stopped_ => interrupted
  BY DEF IInv, StopIsSeen
<1>6. \A u \in Thread \ {t} : pc[u] = "wait" /\ interrupted => interrupter
  <2>1. pc[t] = "task_exit" => \A u \in Thread \ {t} : pc[u] # "wait"
    BY <1>1 DEF Running
  <2>. QED
    BY <2>1 DEF IInv, Interrupted
<1>7. CASE /\ stopped_ /\ pc' = [pc EXCEPT ![t] = "done"]
           /\ op_queue_' = queue /\ task_interrupted_' = interrupted
           /\ signalled' = signalled /\ interrupter' = interrupter
  <2>1. Running' = Running \ {t}
    BY <1>2, <1>7 DEF Running
  <2>2. TaskPlace'
    BY <1>1, <1>3, <1>7, <2>1 DEF IInv, TaskPlace, OneRunner, OneTask, NoTask
  <2>3. Interrupted'
    BY <1>2, <1>6, <1>7 DEF Interrupted
  <2>4. StopIsSeen' /\ QueueAttended'
    BY <1>2, <1>5, <1>7 DEF IInv, StopIsSeen, QueueAttended
  <2>. QED
    BY <2>2, <2>3, <2>4 DEF IInv
<1>8. CASE /\ ~stopped_ /\ queue = <<>> /\ pc' = [pc EXCEPT ![t] = "blocked"]
           /\ op_queue_' = op_queue_ /\ task_interrupted_' = interrupted
           /\ interrupter' = interrupter
  <2>1. Running' = Running \ {t}
    BY <1>2, <1>8 DEF Running
  <2>2. op_queue_ = <<>>
    <3>. DEFINE back == IF pc[t] = "task_exit" THEN <<Task>> ELSE <<>>
                front == op_queue_ \o private_op_queue[t]
    <3>1. op_queue_ \in Seq(Entry) /\ private_op_queue[t] \in Seq(Entry)
      BY DEF SchedulerTypeOK, Entry
    <3>2. <<Task>> \in Seq(Entry) /\ <<>> \in Seq(Entry)
      BY DEF Entry
    <3>3. back \in Seq(Entry)
      BY <3>2
    <3>4. front \in Seq(Entry)
          /\ Len(front) = Len(op_queue_) + Len(private_op_queue[t])
      BY <3>1, ConcatProperties
    <3>5. queue = front \o back
      BY DEF queue, Queue
    <3>. HIDE DEF back, front
    <3>6. Len(front \o back) = Len(front) + Len(back)
      BY <3>3, <3>4, ConcatProperties
    <3>7. Len(front \o back) = 0
      BY <1>8, <3>5
    <3>8. Len(op_queue_) \in Nat /\ Len(private_op_queue[t]) \in Nat
          /\ Len(back) \in Nat
      BY <3>1, <3>3
    <3>9. Len(op_queue_) = 0
      BY <3>4, <3>6, <3>7, <3>8
    <3>. QED
      BY <3>1, <3>9
  <2>3. TaskPlace'
    BY <1>8, <2>1 DEF IInv, TaskPlace, OneRunner, OneTask, NoTask
  <2>4. Interrupted'
    BY <1>2, <1>6, <1>8 DEF Interrupted
  <2>5. StopIsSeen' /\ QueueAttended'
    BY <1>2, <1>8, <2>2 DEF IInv, StopIsSeen, QueueAttended
  <2>. QED
    BY <2>3, <2>4, <2>5 DEF IInv
<1>9. CASE /\ ~stopped_ /\ queue # <<>> /\ Head(queue) = Task
           /\ op_queue_' = Tail(queue) /\ task_interrupted_' = more
           /\ \/ more /\ pc' = [pc EXCEPT ![t] = "poll"]
              \/ ~more /\ pc' = [pc EXCEPT ![t] = "wait"]
           /\ interrupter' = interrupter
  <2>1. Running \ {t} = {}
    BY <1>3, <1>4, <1>9
  <2>2. Running' = {t}
    BY <1>2, <1>9, <2>1 DEF Running
  <2>3. TaskPlace'
    BY <1>4, <1>9, <2>2 DEF TaskPlace, OneRunner, OneTask, NoTask
  <2>4. Interrupted'
    BY <1>2, <1>9, <2>1 DEF Interrupted, Running
  <2>5. StopIsSeen' /\ QueueAttended'
    BY <1>2, <1>9 DEF IInv, StopIsSeen, QueueAttended, Attended
  <2>. QED
    BY <2>3, <2>4, <2>5 DEF IInv
<1>10. CASE /\ ~stopped_ /\ queue # <<>> /\ Head(queue) # Task
            /\ op_queue_' = Tail(queue)
            /\ pc' = [pc EXCEPT ![t] = "complete"]
            /\ \/ wake_one_thread_and_unlock(t, interrupted)
               \/ task_interrupted_' = interrupted /\ interrupter' = interrupter
  <2>1. Running' = Running \ {t}
    BY <1>2, <1>10 DEF Running
  <2>2. TaskPlace'
    BY <1>3, <1>4, <1>10, <2>1 DEF IInv, TaskPlace, OneRunner, OneTask, NoTask
  <2>3. \/ task_interrupted_' = interrupted /\ interrupter' = interrupter
        \/ task_interrupted_' /\ interrupter' = (interrupter \/ ~interrupted)
    BY <1>10 DEF wake_one_thread_and_unlock
  <2>4. \A u \in Thread : pc'[u] = "wait" => u # t /\ pc[u] = "wait"
    BY <1>2, <1>10
  <2>5. Interrupted'
    <3>1. ASSUME NEW u \in Thread, pc'[u] = "wait", task_interrupted_'
          PROVE  interrupter'
      <4>1. interrupted => interrupter
        BY <1>6, <2>4, <3>1
      <4>. interrupter \in BOOLEAN
        BY DEF SchedulerTypeOK
      <4>2. CASE interrupted
        <5>1. interrupter
          BY <4>1, <4>2
        <5>2. CASE interrupter' = interrupter
          BY <5>1, <5>2, Zenon
        <5>3. CASE interrupter' = (interrupter \/ ~interrupted)
          BY <5>1, <5>3, Zenon
        <5>. QED
          BY <2>3, <5>2, <5>3
      <4>3. CASE ~interrupted
        BY <2>3, <3>1, <4>3
      <4>. QED
        BY <4>2, <4>3
    <3>. QED
      BY <3>1 DEF Interrupted
  <2>6. StopIsSeen' /\ QueueAttended'
    BY <1>2, <1>10 DEF IInv, StopIsSeen, QueueAttended, Attended
  <2>. QED
    BY <2>2, <2>5, <2>6 DEF IInv
<1>. QED
  BY <1>7, <1>8, <1>9, <1>10 DEF run_one, queue

-----------------------------------------------------------------------------
(* The steps *)

privateTypeOK ==
  /\ private_op_queue \in [Thread -> Seq(Operation)]
  /\ private_outstanding_work \in [Thread -> Int]

LEMMA TypeParts ==
  SchedulerTypeOK <=> /\ op_queue_ \in Seq(Entry) /\ outstanding_work_ \in Int
                      /\ stopped_ \in BOOLEAN /\ sleepTypeOK
                      /\ pc \in [Thread -> Place] /\ privateTypeOK
BY DEF SchedulerTypeOK, sleepTypeOK, privateTypeOK, Entry

LEMMA TypePartsNext ==
  SchedulerTypeOK' <=> /\ op_queue_' \in Seq(Entry) /\ outstanding_work_' \in Int
                       /\ stopped_' \in BOOLEAN /\ sleepTypeOK'
                       /\ pc' \in [Thread -> Place] /\ privateTypeOK'
BY DEF SchedulerTypeOK, sleepTypeOK, privateTypeOK, Entry

LEMMA SignalStep ==
  ASSUME SchedulerTypeOK, IInv, NEW c \in Caller, cond_signal(c)
  PROVE  SchedulerTypeOK' /\ IInv'
<1>1. \/ \E t \in Thread : pc[t] = "blocked" /\ pc' = [pc EXCEPT ![t] = "woken"]
      \/ (\A t \in Thread : pc[t] # "blocked") /\ pc' = pc
  BY DEF cond_signal
<1>2. /\ op_queue_' = op_queue_ /\ outstanding_work_' = outstanding_work_
      /\ stopped_' = stopped_ /\ task_interrupted_' = task_interrupted_
      /\ signalled' = signalled /\ interrupter' = interrupter
      /\ signalling' = signalling \ {c}
      /\ private_op_queue' = private_op_queue
      /\ private_outstanding_work' = private_outstanding_work
  BY DEF cond_signal, privateVars
<1>3. pc \in [Thread -> Place] /\ pc' \in [Thread -> Place]
  BY <1>1 DEF SchedulerTypeOK, Place
<1>4. SchedulerTypeOK'
  <2>1. sleepTypeOK' /\ privateTypeOK'
    BY <1>2 DEF SchedulerTypeOK, sleepTypeOK, privateTypeOK
  <2>. QED
    BY <1>2, <1>3, <2>1, TypeParts, TypePartsNext DEF SchedulerTypeOK, Entry
<1>5. /\ \A u \in Thread : pc'[u] # pc[u] => pc[u] = "blocked" /\ pc'[u] = "woken"
      /\ (\E u \in Thread : pc[u] = "blocked") =>
            \E u \in Thread : pc'[u] = "woken"
  BY <1>1, <1>3
<1>6. TaskPlace' /\ Interrupted' /\ StopIsSeen'
  <2>1. Running' = Running
    BY <1>5 DEF Running
  <2>2. TaskPlace'
    BY <1>2, <2>1 DEF IInv, TaskPlace, OneRunner, OneTask, NoTask
  <2>3. Interrupted' /\ StopIsSeen'
    BY <1>2, <1>5 DEF IInv, Interrupted, StopIsSeen
  <2>. QED
    BY <2>2, <2>3
<1>7. QueueAttended'
  BY <1>2, <1>5 DEF IInv, QueueAttended, Attended
<1>. QED
  BY <1>4, <1>6, <1>7 DEF IInv

LEMMA SpuriousStep ==
  ASSUME SchedulerTypeOK, IInv, NEW t \in Thread, spurious_wakeup(t)
  PROVE  SchedulerTypeOK' /\ IInv'
<1>1. /\ op_queue_' = op_queue_ /\ outstanding_work_' = outstanding_work_
      /\ stopped_' = stopped_ /\ task_interrupted_' = task_interrupted_
      /\ signalled' = signalled /\ interrupter' = interrupter
      /\ signalling' = signalling
      /\ private_op_queue' = private_op_queue
      /\ private_outstanding_work' = private_outstanding_work
  BY DEF spurious_wakeup, privateVars, sleepVars
<1>2. /\ pc \in [Thread -> Place] /\ pc' \in [Thread -> Place]
      /\ pc'[t] = "woken" /\ pc[t] = "blocked"
      /\ \A u \in Thread : pc'[u] # pc[u] => u = t
  BY DEF SchedulerTypeOK, Place, spurious_wakeup
<1>3. SchedulerTypeOK'
  <2>1. sleepTypeOK' /\ privateTypeOK'
    BY <1>1 DEF SchedulerTypeOK, sleepTypeOK, privateTypeOK
  <2>. QED
    BY <1>1, <1>2, <2>1, TypeParts, TypePartsNext DEF SchedulerTypeOK, Entry
<1>4. TaskPlace'
  <2>1. Running' = Running
    BY <1>2 DEF Running
  <2>. QED
    BY <1>1, <2>1 DEF IInv, TaskPlace, OneRunner, OneTask, NoTask
<1>5. Interrupted' /\ StopIsSeen'
  BY <1>1, <1>2 DEF IInv, Interrupted, StopIsSeen
<1>6. QueueAttended'
  BY <1>1, <1>2 DEF IInv, QueueAttended, Attended
<1>. QED
  BY <1>3, <1>4, <1>5, <1>6 DEF IInv

\* Finishing work stops run() or changes nothing but the place of the caller.
LEMMA WorkStep ==
  ASSUME SchedulerTypeOK, IInv, NEW p \in [Thread -> Place],
         \A u \in Thread : p[u] = pc[u] \/ p[u] = "lock",
         (p = pc) \/ \E u \in Thread : p[u] = "lock",
         work_finished(p), op_queue_' = op_queue_
  PROVE  IInv'
<1>1. CASE outstanding_work_ = 1
  BY <1>1, StopStep DEF work_finished
<1>2. CASE outstanding_work_ # 1
  <2>1. /\ stopped_' = stopped_ /\ task_interrupted_' = task_interrupted_
        /\ signalled' = signalled /\ interrupter' = interrupter
        /\ signalling' = signalling /\ pc' = p
    BY <1>2 DEF work_finished, sleepVars
  <2>2. Running' \subseteq Running
    BY <2>1 DEF Running
  <2>3. TaskPlace'
    BY <2>1, <2>2 DEF IInv, TaskPlace, OneRunner, OneTask, NoTask
  <2>4. Interrupted' /\ StopIsSeen'
    BY <2>1 DEF IInv, Interrupted, StopIsSeen
  <2>5. QueueAttended'
    BY <2>1 DEF IInv, QueueAttended, Attended
  <2>. QED
    BY <2>3, <2>4, <2>5 DEF IInv
<1>. QED
  BY <1>1, <1>2

\* Nothing the invariant reads changes.
LEMMA SameStep ==
  ASSUME IInv, op_queue_' = op_queue_, stopped_' = stopped_, pc' = pc,
         UNCHANGED sleepVars
  PROVE  IInv'
BY DEF sleepVars, IInv, TaskPlace, OneRunner, OneTask, NoTask, Running,
       Interrupted, StopIsSeen, QueueAttended, Attended

LEMMA CallsStep ==
  ASSUME SchedulerTypeOK, IInv, NEW c \in Caller,
         c = Owner \/ pc[c] = "complete", Calls(c)
  PROVE  SchedulerTypeOK' /\ IInv'
<1>. USE TypeParts, TypePartsNext
<1>1. ASSUME NEW ops \in Seq(Operation), op_queue_' = op_queue_ \o ops,
             wake_one_thread_and_unlock(c, task_interrupted_),
             outstanding_work_' \in Int, stopped_' = stopped_, pc' = pc,
             UNCHANGED privateVars
      PROVE  SchedulerTypeOK' /\ IInv'
  <2>1. op_queue_' \in Seq(Entry)
    BY <1>1, QueueOperations
  <2>2. sleepTypeOK'
    BY <1>1, WakeTypes DEF SchedulerTypeOK
  <2>3. privateTypeOK'
    BY <1>1 DEF privateVars, privateTypeOK
  <2>4. IInv'
    BY <1>1, PostStep
  <2>. QED
    BY <1>1, <2>1, <2>2, <2>3, <2>4
<1>2. ASSUME NEW op \in Operation, post_immediate_completion(c, op)
      PROVE  SchedulerTypeOK' /\ IInv'
  <2>1. op_queue_' = op_queue_ \o <<op>> /\ <<op>> \in Seq(Operation)
    BY <1>2, AppendIsConcat DEF post_immediate_completion, Entry
  <2>2. outstanding_work_' \in Int
    BY <1>2 DEF post_immediate_completion
  <2>. QED
    BY <1>1, <1>2, <2>1, <2>2 DEF post_immediate_completion
<1>3. ASSUME NEW ops \in Seq(Operation), post_deferred_completions(c, ops)
      PROVE  SchedulerTypeOK' /\ IInv'
  BY <1>1, <1>3 DEF post_deferred_completions
<1>4. ASSUME NEW n \in Int, work_started(n)
      PROVE  SchedulerTypeOK' /\ IInv'
  <2>1. SchedulerTypeOK'
    BY <1>4 DEF work_started, sleepVars, privateVars, sleepTypeOK, privateTypeOK
  <2>2. IInv'
    BY <1>4, SameStep DEF work_started
  <2>. QED
    BY <2>1, <2>2
<1>5. ASSUME on_work_finished
      PROVE  SchedulerTypeOK' /\ IInv'
  <2>1. SchedulerTypeOK'
    BY <1>5, WorkTypes DEF on_work_finished, privateVars, privateTypeOK
  <2>2. IInv'
    BY <1>5, WorkStep DEF on_work_finished
  <2>. QED
    BY <2>1, <2>2
<1>6. ASSUME stop
      PROVE  SchedulerTypeOK' /\ IInv'
  <2>1. SchedulerTypeOK'
    BY <1>6, StopTypes DEF stop, privateVars, privateTypeOK
  <2>2. IInv'
    BY <1>6, StopStep DEF stop
  <2>. QED
    BY <2>1, <2>2
<1>7. \A op, op2 \in Operation : <<op>> \in Seq(Operation)
                                /\ <<op, op2>> \in Seq(Operation)
  OBVIOUS
<1>8. \A n \in 1 .. 2 : n \in Int
  OBVIOUS
<1>. QED
  BY <1>2, <1>3, <1>4, <1>5, <1>6, <1>7, <1>8 DEF Calls

\* What a handler does in its own thread_info.
LEMMA ThreadCallsStep ==
  ASSUME SchedulerTypeOK, IInv, NEW t \in Thread, ThreadCalls(t)
  PROVE  SchedulerTypeOK' /\ IInv'
<1>. USE TypeParts, TypePartsNext
<1>1. CASE Calls(t)
  BY <1>1, CallsStep DEF ThreadCalls, Caller
<1>2. ASSUME NEW op \in Operation, post_continuation(t, op)
      PROVE  SchedulerTypeOK' /\ IInv'
  <2>1. Append(private_op_queue[t], op) \in Seq(Operation)
    BY AppendProperties DEF privateTypeOK
  <2>2. privateTypeOK'
    BY <1>2, <2>1 DEF post_continuation, privateTypeOK
  <2>3. SchedulerTypeOK'
    BY <1>2, <2>2 DEF post_continuation, sleepVars, sleepTypeOK
  <2>4. IInv'
    BY <1>2, SameStep DEF post_continuation
  <2>. QED
    BY <2>3, <2>4
<1>3. CASE compensating_work_started(t)
  <2>1. privateTypeOK'
    BY <1>3 DEF compensating_work_started, privateTypeOK
  <2>2. SchedulerTypeOK'
    BY <1>3, <2>1 DEF compensating_work_started, sleepVars, sleepTypeOK
  <2>3. IInv'
    BY <1>3, SameStep DEF compensating_work_started
  <2>. QED
    BY <2>2, <2>3
<1>. QED
  BY <1>1, <1>2, <1>3 DEF ThreadCalls

LEMMA EnterStep ==
  ASSUME SchedulerTypeOK, IInv, NEW t \in Thread, run(t)
  PROVE  SchedulerTypeOK' /\ IInv'
<1>. USE TypeParts, TypePartsNext
<1>1. /\ op_queue_' = op_queue_ /\ outstanding_work_' \in Int
      /\ privateTypeOK'
  BY DEF run, privateVars, privateTypeOK
<1>2. CASE outstanding_work_ = 0
  <2>. DEFINE p == [pc EXCEPT ![t] = "done"]
  <2>1. /\ p \in [Thread -> Place] /\ stop_all_threads(p)
        /\ \A u \in Thread : p[u] = pc[u] \/ p[u] = "done" \/ p[u] = "lock"
    BY <1>2 DEF run, Place
  <2>. HIDE DEF p
  <2>. QED
    BY <1>1, <2>1, StopTypes, StopStep
<1>3. CASE outstanding_work_ # 0
  <2>1. /\ stopped_' = stopped_ /\ task_interrupted_' = task_interrupted_
        /\ signalled' = signalled /\ interrupter' = interrupter
        /\ signalling' = signalling
        /\ pc' = [pc EXCEPT ![t] = "lock"]
    BY <1>3 DEF run, sleepVars
  <2>2. /\ pc' \in [Thread -> Place] /\ pc[t] = "idle" /\ pc'[t] = "lock"
        /\ \A u \in Thread : u # t => pc'[u] = pc[u]
    BY <2>1 DEF run, Place
  <2>3. SchedulerTypeOK'
    BY <1>1, <2>1, <2>2 DEF sleepTypeOK
  <2>4. TaskPlace'
    <3>1. Running' = Running
      BY <2>2 DEF Running
    <3>. QED
      BY <1>1, <3>1 DEF IInv, TaskPlace, OneRunner, OneTask, NoTask
  <2>5. Interrupted' /\ StopIsSeen'
    BY <2>1, <2>2 DEF IInv, Interrupted, StopIsSeen
  <2>6. QueueAttended'
    BY <2>2 DEF QueueAttended, Attended
  <2>. QED
    BY <2>3, <2>4, <2>5, <2>6 DEF IInv
<1>. QED
  BY <1>2, <1>3

LEMMA DoRunOneStep ==
  ASSUME SchedulerTypeOK, IInv, NEW t \in Thread, do_run_one(t)
  PROVE  SchedulerTypeOK' /\ IInv'
<1>. USE TypeParts, TypePartsNext
<1>1. /\ pc[t] = "lock" /\ run_one(t, task_interrupted_)
      /\ stopped_' = stopped_ /\ outstanding_work_' = outstanding_work_
      /\ privateTypeOK'
  BY DEF do_run_one, privateVars, privateTypeOK
<1>2. task_interrupted_ \in BOOLEAN
  BY DEF sleepTypeOK
<1>3. sleepTypeOK' /\ op_queue_' \in Seq(Entry) /\ pc' \in [Thread -> Place]
  BY <1>1, <1>2, RunOneTypes
<1>4. IInv'
  BY <1>1, <1>2, RunOneStep, Zenon
<1>. QED
  BY <1>1, <1>3, <1>4

LEMMA WaitReturnsStep ==
  ASSUME SchedulerTypeOK, IInv, NEW t \in Thread, wait_returns(t)
  PROVE  SchedulerTypeOK' /\ IInv'
<1>. USE TypeParts, TypePartsNext
<1>1. /\ pc[t] = "woken" /\ privateTypeOK'
      /\ stopped_' = stopped_ /\ outstanding_work_' = outstanding_work_
  BY DEF wait_returns, privateVars, privateTypeOK
<1>2. task_interrupted_ \in BOOLEAN
  BY DEF sleepTypeOK
<1>3. CASE run_one(t, task_interrupted_)
  <2>1. sleepTypeOK' /\ op_queue_' \in Seq(Entry) /\ pc' \in [Thread -> Place]
    BY <1>2, <1>3, RunOneTypes
  <2>2. IInv'
    BY <1>1, <1>2, <1>3, RunOneStep, Zenon
  <2>. QED
    BY <1>1, <2>1, <2>2
<1>4. CASE /\ ~signalled /\ pc' = [pc EXCEPT ![t] = "blocked"]
           /\ UNCHANGED <<op_queue_, sleepVars>>
  <2>1. /\ op_queue_' = op_queue_ /\ task_interrupted_' = task_interrupted_
        /\ signalled' = signalled /\ interrupter' = interrupter
        /\ signalling' = signalling
    BY <1>4 DEF sleepVars
  <2>2. /\ pc' \in [Thread -> Place] /\ pc'[t] = "blocked"
        /\ \A u \in Thread : u # t => pc'[u] = pc[u]
    BY <1>4 DEF Place
  <2>3. SchedulerTypeOK'
    BY <1>1, <2>1, <2>2 DEF sleepTypeOK
  <2>4. TaskPlace'
    <3>1. Running' = Running
      BY <1>1, <2>2 DEF Running
    <3>. QED
      BY <2>1, <3>1 DEF IInv, TaskPlace, OneRunner, OneTask, NoTask
  <2>5. Interrupted' /\ StopIsSeen'
    BY <1>1, <1>4, <2>1, <2>2 DEF IInv, Interrupted, StopIsSeen
  <2>6. QueueAttended'
    BY <1>1, <1>4, <2>1, <2>2 DEF IInv, QueueAttended, Attended
  <2>. QED
    BY <2>3, <2>4, <2>5, <2>6 DEF IInv
<1>. QED
  BY <1>3, <1>4 DEF wait_returns

LEMMA TaskRunStep ==
  ASSUME SchedulerTypeOK, IInv, NEW t \in Thread, NEW ops \in Seq(Operation),
         task_run(t, ops)
  PROVE  SchedulerTypeOK' /\ IInv'
<1>. USE TypeParts, TypePartsNext
<1>1. /\ op_queue_' = op_queue_ /\ outstanding_work_' = outstanding_work_
      /\ stopped_' = stopped_ /\ task_interrupted_' = task_interrupted_
      /\ signalled' = signalled /\ interrupter' = FALSE
      /\ signalling' = signalling
      /\ private_op_queue' = [private_op_queue EXCEPT ![t] = ops]
      /\ private_outstanding_work' = private_outstanding_work
  BY DEF task_run
<1>2. /\ pc' \in [Thread -> Place] /\ pc[t] \in {"poll", "wait"}
      /\ pc'[t] = "task_exit" /\ \A u \in Thread : u # t => pc'[u] = pc[u]
  BY DEF task_run, Place
<1>3. SchedulerTypeOK'
  BY <1>1, <1>2 DEF sleepTypeOK, privateTypeOK
<1>4. Running' = Running /\ Running = {t}
  BY <1>2 DEF IInv, TaskPlace, OneRunner, Running
<1>5. TaskPlace'
  BY <1>1, <1>4 DEF IInv, TaskPlace, OneRunner, OneTask, NoTask
<1>6. Interrupted'
  BY <1>2, <1>4 DEF Interrupted, Running
<1>7. StopIsSeen' /\ QueueAttended'
  BY <1>1, <1>2 DEF IInv, StopIsSeen, QueueAttended, Attended
<1>. QED
  BY <1>3, <1>5, <1>6, <1>7 DEF IInv

LEMMA TaskCleanupStep ==
  ASSUME SchedulerTypeOK, IInv, NEW t \in Thread, task_cleanup(t)
  PROVE  SchedulerTypeOK' /\ IInv'
<1>. USE TypeParts, TypePartsNext
<1>1. /\ pc[t] = "task_exit" /\ run_one(t, TRUE) /\ stopped_' = stopped_
      /\ outstanding_work_' \in Int /\ privateTypeOK'
  <2>1. private_outstanding_work[t] \in Int /\ <<>> \in Seq(Operation)
    BY DEF privateTypeOK
  <2>2. outstanding_work_' \in Int
    BY <2>1 DEF task_cleanup
  <2>3. privateTypeOK'
    BY <2>1 DEF task_cleanup, privateTypeOK
  <2>. QED
    BY <2>2, <2>3 DEF task_cleanup
<1>2. sleepTypeOK' /\ op_queue_' \in Seq(Entry) /\ pc' \in [Thread -> Place]
  BY <1>1, RunOneTypes
<1>3. IInv'
  BY <1>1, RunOneStep
<1>. QED
  BY <1>1, <1>2, <1>3

LEMMA WorkCleanupStep ==
  ASSUME SchedulerTypeOK, IInv, NEW t \in Thread, work_cleanup(t)
  PROVE  SchedulerTypeOK' /\ IInv'
<1>. USE TypeParts, TypePartsNext
<1>. DEFINE work == private_outstanding_work[t]
            lock == [pc EXCEPT ![t] = "lock"]
<1>1. pc[t] = "complete" /\ work \in Int /\ privateTypeOK'
  BY DEF work_cleanup, privateTypeOK
<1>2. /\ lock \in [Thread -> Place] /\ lock[t] = "lock"
      /\ \A u \in Thread : u # t => lock[u] = pc[u]
  BY DEF Place
<1>3. task_interrupted_ \in BOOLEAN
  BY DEF sleepTypeOK
<1>. HIDE DEF lock
<1>4. CASE /\ outstanding_work_' = outstanding_work_ + (work - 1)
           /\ run_one(t, task_interrupted_) /\ stopped_' = stopped_
  <2>1. sleepTypeOK' /\ op_queue_' \in Seq(Entry) /\ pc' \in [Thread -> Place]
    BY <1>3, <1>4, RunOneTypes
  <2>2. IInv'
    BY <1>1, <1>3, <1>4, RunOneStep, Zenon
  <2>. QED
    BY <1>1, <1>4, <2>1, <2>2
<1>5. CASE /\ outstanding_work_' = outstanding_work_ + (work - 1)
           /\ pc' = lock /\ UNCHANGED <<op_queue_, stopped_, sleepVars>>
  <2>1. /\ op_queue_' = op_queue_ /\ stopped_' = stopped_
        /\ task_interrupted_' = task_interrupted_
        /\ signalled' = signalled /\ interrupter' = interrupter
        /\ signalling' = signalling /\ pc' = lock
    BY <1>5 DEF sleepVars
  <2>2. SchedulerTypeOK'
    BY <1>1, <1>2, <1>5, <2>1 DEF sleepTypeOK
  <2>3. Running' = Running
    BY <1>1, <1>2, <2>1 DEF Running
  <2>4. TaskPlace'
    BY <2>1, <2>3 DEF IInv, TaskPlace, OneRunner, OneTask, NoTask
  <2>5. Interrupted' /\ StopIsSeen' /\ QueueAttended'
    BY <1>2, <2>1 DEF IInv, Interrupted, StopIsSeen, QueueAttended, Attended
  <2>. QED
    BY <2>2, <2>4, <2>5 DEF IInv
<1>6. CASE work_finished(lock) /\ op_queue_' = op_queue_
  <2>1. SchedulerTypeOK'
    BY <1>1, <1>2, <1>6, WorkTypes
  <2>2. \A u \in Thread : lock[u] = pc[u] \/ lock[u] = "lock"
    BY <1>2
  <2>3. IInv'
    BY <1>2, <1>6, <2>2, WorkStep
  <2>. QED
    BY <2>1, <2>3
<1>. QED
  BY <1>4, <1>5, <1>6 DEF work_cleanup, lock

LEMMA ShutdownStep ==
  ASSUME SchedulerTypeOK, IInv, NEW n \in Int, shutdown(n)
  PROVE  SchedulerTypeOK' /\ IInv'
<1>. USE TypeParts, TypePartsNext
<1>1. SchedulerTypeOK'
  BY DEF shutdown, sleepVars, privateVars, sleepTypeOK, privateTypeOK
<1>2. TaskPlace'
  BY DEF shutdown, IInv, TaskPlace, OneRunner, Running, OneTask, NoTask
<1>3. Interrupted' /\ StopIsSeen' /\ QueueAttended'
  BY DEF shutdown, sleepVars, IInv, Interrupted, StopIsSeen, QueueAttended
<1>. QED
  BY <1>1, <1>2, <1>3 DEF IInv

LEMMA InvStep ==
  SchedulerTypeOK /\ IInv /\ [SchedulerNext]_schedulerVars => SchedulerTypeOK' /\ IInv'
<1>. SUFFICES ASSUME SchedulerTypeOK, IInv, [SchedulerNext]_schedulerVars
              PROVE  SchedulerTypeOK' /\ IInv'
  OBVIOUS
<1>1. CASE UNCHANGED schedulerVars
  <2>1. SchedulerTypeOK'
    BY <1>1, TypeParts, TypePartsNext
       DEF schedulerVars, sleepVars, privateVars, sleepTypeOK, privateTypeOK
  <2>. QED
    BY <1>1, <2>1, SameStep DEF schedulerVars
<1>2. ASSUME NEW t \in Thread, Runs(t) PROVE SchedulerTypeOK' /\ IInv'
  <2>1. <<>> \in Seq(Operation) /\ \A op \in Operation : <<op>> \in Seq(Operation)
    OBVIOUS
  <2>. QED
    BY <1>2, <2>1, EnterStep, DoRunOneStep, WaitReturnsStep, TaskRunStep,
       TaskCleanupStep, WorkCleanupStep DEF Runs
<1>3. Owner \in Caller /\ \A n \in 0 .. 2 : n \in Int
  BY DEF Caller
<1>. QED
  BY <1>1, <1>2, <1>3, SignalStep, SpuriousStep, ThreadCallsStep, CallsStep,
     ShutdownStep DEF SchedulerNext

-----------------------------------------------------------------------------
(* Theorems *)

LEMMA Invariance == SchedulerSpec => [](SchedulerTypeOK /\ IInv)
BY InvInit, InvStep, PTL DEF SchedulerSpec

\* The queue, the counters, the event and the places of the threads keep their
\* types, for every set of threads and operations.
THEOREM SchedulerTypeCorrect == SchedulerSpec => []SchedulerTypeOK
BY Invariance, PTL

\* The reactor's place in the queue is taken by at most one thread at a time and
\* is never put back twice: no two threads are ever in epoll_wait.
THEOREM TaskIsOnce == SchedulerSpec => []TaskOnce
<1>1. SchedulerTypeOK /\ IInv => TaskOnce
  BY InvImplies
<1>. QED
  BY <1>1, Invariance, PTL

\* In any number of threads, with any calls from handlers and from outside, no
\* operation is left in the queue while all threads sleep, and none sleeps on
\* after stop().
THEOREM WakeupsAreKept == SchedulerSpec => []NoLostWakeup
<1>1. SchedulerTypeOK /\ IInv => NoLostWakeup
  BY InvImplies
<1>. QED
  BY <1>1, Invariance, PTL

=============================================================================
