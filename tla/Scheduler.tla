----------------------------- MODULE Scheduler -----------------------------
(***************************************************************************)
(* asio::detail::scheduler: the queue of operations behind io_context, the *)
(* threads that call run(), and how they sleep and wake each other.  Built *)
(* with epoll and with a concurrency hint that locks (one_thread_ = FALSE).*)
(*                                                                         *)
(* A thread in run() sleeps on wakeup_event_ or, while it runs the task    *)
(* (the reactor), in epoll_wait.  Whoever queues an operation wakes one    *)
(* sleeper of the first kind, or interrupts the second.  A step is what is *)
(* done under mutex_; the pthread_cond_signal that follows the unlock is a *)
(* step of its own, and its caller does nothing before it.                 *)
(*                                                                         *)
(* What completing an operation does is left open: a handler may make any  *)
(* of the calls below.  IoContext.tla says what the program's handlers do. *)
(***************************************************************************)
EXTENDS Integers, Sequences

CONSTANTS
  Thread,      \* the threads that call run()
  Owner,       \* the thread that posts from outside and calls stop()
  Operation,
  Task         \* task_operation_, the place of the reactor in the queue

ASSUME SchedulerAssumption == Owner \notin Thread /\ Task \notin Operation

Caller == Thread \cup {Owner}

VARIABLES
  op_queue_, outstanding_work_, stopped_, task_interrupted_,
  signalled,                 \* state_ & 1 of wakeup_event_
  signalling,                \* callers that have unlocked and are to signal
  interrupter,               \* the interrupter's event, not yet reported
  pc,                        \* where a thread is in run()
  private_op_queue, private_outstanding_work    \* its thread_info

sleepVars     == <<task_interrupted_, signalled, signalling, interrupter>>
privateVars   == <<private_op_queue, private_outstanding_work>>
schedulerVars ==
  <<op_queue_, outstanding_work_, stopped_, sleepVars, pc, privateVars>>

\* "idle": not in run() yet; "lock": about to lock mutex_; "blocked": in
\* pthread_cond_wait; "woken": back from it, not yet holding mutex_; "poll" and
\* "wait": in the task, with timeout 0 and -1; "task_exit": back from the task;
\* "complete": completing an operation; "done": run() has returned.
Place == {"idle", "lock", "blocked", "woken", "poll", "wait", "task_exit",
          "complete", "done"}

SchedulerTypeOK ==
  /\ op_queue_ \in Seq(Operation \cup {Task})
  /\ outstanding_work_ \in Int
  /\ stopped_ \in BOOLEAN
  /\ task_interrupted_ \in BOOLEAN
  /\ signalled \in BOOLEAN
  /\ signalling \subseteq Caller
  /\ interrupter \in BOOLEAN
  /\ pc \in [Thread -> Place]
  /\ private_op_queue \in [Thread -> Seq(Operation)]
  /\ private_outstanding_work \in [Thread -> Int]

\* After the socket's constructor: init_task has queued the task, and the
\* reactor's constructor has interrupted itself.
SchedulerInit ==
  /\ op_queue_ = <<Task>>
  /\ outstanding_work_ = 0
  /\ stopped_ = FALSE
  /\ task_interrupted_ = TRUE
  /\ signalled = TRUE
  /\ signalling = {}
  /\ interrupter = TRUE
  /\ pc = [t \in Thread |-> "idle"]
  /\ private_op_queue = [t \in Thread |-> <<>>]
  /\ private_outstanding_work = [t \in Thread |-> 0]

-----------------------------------------------------------------------------
(* Waking threads *)

\* state_ > 1: threads that wait on wakeup_event_.
Waiting == {t \in Thread : pc[t] \in {"blocked", "woken"}}

unlock_and_signal_one(c) ==
  /\ signalled' = TRUE
  /\ signalling' = IF Waiting \subseteq {c} THEN signalling
                                           ELSE signalling \cup {c}

\* interrupted is task_interrupted_ when c gets here.
wake_one_thread_and_unlock(c, interrupted) ==
  /\ unlock_and_signal_one(c)
  /\ IF Waiting \subseteq {c}
     THEN /\ task_interrupted_' = TRUE
          /\ interrupter' = (interrupter \/ ~interrupted)
     ELSE /\ task_interrupted_' = interrupted
          /\ UNCHANGED interrupter

\* Mutant: the reactor is not interrupted.
stop_all_threads_no_interrupt(p) ==
  /\ stopped_' = TRUE
  /\ signalled' = TRUE
  /\ pc' = [t \in Thread |-> IF p[t] = "blocked" THEN "woken" ELSE p[t]]
  /\ UNCHANGED <<task_interrupted_, interrupter, signalling>>

\* With places p; the broadcast is done under mutex_.
stop_all_threads(p) ==
  /\ stopped_' = TRUE
  /\ signalled' = TRUE
  /\ pc' = [t \in Thread |-> IF p[t] = "blocked" THEN "woken" ELSE p[t]]
  /\ task_interrupted_' = TRUE
  /\ interrupter' = (interrupter \/ ~task_interrupted_)
  /\ UNCHANGED signalling

\* The pthread_cond_signal c owes.
cond_signal(c) ==
  /\ c \in signalling
  /\ signalling' = signalling \ {c}
  /\ \/ \E t \in Thread : /\ pc[t] = "blocked"
                          /\ pc' = [pc EXCEPT ![t] = "woken"]
     \/ (\A t \in Thread : pc[t] # "blocked") /\ UNCHANGED pc
  /\ UNCHANGED <<op_queue_, outstanding_work_, stopped_, task_interrupted_,
                 signalled, interrupter, privateVars>>

\* pthread_cond_wait may return without a signal.
spurious_wakeup(t) ==
  /\ pc[t] = "blocked"
  /\ pc' = [pc EXCEPT ![t] = "woken"]
  /\ UNCHANGED <<op_queue_, outstanding_work_, stopped_, sleepVars,
                 privateVars>>

-----------------------------------------------------------------------------
(* The calls *)

\* The counter reaches 0 and run() is stopped in one step.
work_finished(p) ==
  /\ outstanding_work_' = outstanding_work_ - 1
  /\ IF outstanding_work_ = 1
     THEN stop_all_threads(p)
     ELSE pc' = p /\ UNCHANGED <<stopped_, sleepVars>>

post_deferred_completions(c, ops) ==
  /\ op_queue_' = op_queue_ \o ops
  /\ wake_one_thread_and_unlock(c, task_interrupted_)
  /\ UNCHANGED <<outstanding_work_, stopped_, pc, privateVars>>

post_immediate_completion(c, op) ==
  /\ outstanding_work_' = outstanding_work_ + 1
  /\ op_queue_' = Append(op_queue_, op)
  /\ wake_one_thread_and_unlock(c, task_interrupted_)
  /\ UNCHANGED <<stopped_, pc, privateVars>>

\* The same with is_continuation, from a thread in run().
post_continuation(t, op) ==
  /\ private_outstanding_work' = [private_outstanding_work EXCEPT ![t] = @ + 1]
  /\ private_op_queue' = [private_op_queue EXCEPT ![t] = Append(@, op)]
  /\ UNCHANGED <<op_queue_, outstanding_work_, stopped_, sleepVars, pc>>

compensating_work_started(t) ==
  /\ private_outstanding_work' = [private_outstanding_work EXCEPT ![t] = @ + 1]
  /\ UNCHANGED <<op_queue_, outstanding_work_, stopped_, sleepVars, pc,
                 private_op_queue>>

work_started(n) ==
  /\ outstanding_work_' = outstanding_work_ + n
  /\ UNCHANGED <<op_queue_, stopped_, sleepVars, pc, privateVars>>

on_work_finished ==
  /\ work_finished(pc)
  /\ UNCHANGED <<op_queue_, privateVars>>

\* No thread is in run(); n is the work of the operations it destroys.
shutdown(n) ==
  /\ stopped_ /\ \A t \in Thread : pc[t] \in {"idle", "done"}
  /\ op_queue_' = <<>>
  /\ outstanding_work_' = outstanding_work_ - n
  /\ UNCHANGED <<stopped_, sleepVars, pc, privateVars>>

stop ==
  /\ stop_all_threads(pc)
  /\ UNCHANGED <<op_queue_, outstanding_work_, privateVars>>

-----------------------------------------------------------------------------
(* run() *)

\* Mutant: the task is put back in front of the operations it returned.
Queue_task_first(t) ==
  op_queue_ \o (IF pc[t] = "task_exit" THEN <<Task>> ELSE <<>>)
            \o private_op_queue[t]

\* The queue as t finds it under mutex_, behind what it was to put back.
Queue(t) ==
  op_queue_ \o private_op_queue[t]
            \o (IF pc[t] = "task_exit" THEN <<Task>> ELSE <<>>)

\* One turn of do_run_one's loop, up to the unlock.
run_one(t, interrupted) ==
  LET queue == Queue(t)
      more  == Tail(queue) # <<>>
      Goes(place) == pc' = [pc EXCEPT ![t] = place]
  IN  \/ /\ stopped_
         /\ Goes("done")
         /\ op_queue_' = queue
         /\ task_interrupted_' = interrupted
         /\ UNCHANGED <<signalled, signalling, interrupter>>
      \/ /\ ~stopped_ /\ queue = <<>>
         /\ Goes("blocked")
         /\ signalled' = FALSE
         /\ task_interrupted_' = interrupted
         /\ UNCHANGED <<op_queue_, signalling, interrupter>>
      \/ /\ ~stopped_ /\ queue # <<>> /\ Head(queue) = Task
         /\ op_queue_' = Tail(queue)
         /\ task_interrupted_' = more
         /\ \/ more /\ Goes("poll") /\ unlock_and_signal_one(t)
            \/ ~more /\ Goes("wait") /\ UNCHANGED <<signalled, signalling>>
         /\ UNCHANGED interrupter
      \/ /\ ~stopped_ /\ queue # <<>> /\ Head(queue) # Task
         /\ op_queue_' = Tail(queue)
         /\ Goes("complete")
         /\ \/ more /\ wake_one_thread_and_unlock(t, interrupted)
            \/ /\ ~more /\ task_interrupted_' = interrupted
               /\ UNCHANGED <<signalled, signalling, interrupter>>

run(t) ==
  /\ pc[t] = "idle"
  /\ IF outstanding_work_ = 0
     THEN stop_all_threads([pc EXCEPT ![t] = "done"])
     ELSE pc' = [pc EXCEPT ![t] = "lock"] /\ UNCHANGED <<stopped_, sleepVars>>
  /\ UNCHANGED <<op_queue_, outstanding_work_, privateVars>>

do_run_one(t) ==
  /\ pc[t] = "lock"
  /\ run_one(t, task_interrupted_)
  /\ UNCHANGED <<outstanding_work_, stopped_, privateVars>>

\* wait returns only when the event is signalled.
wait_returns(t) ==
  /\ pc[t] = "woken"
  /\ \/ signalled /\ run_one(t, task_interrupted_)
     \/ /\ ~signalled
        /\ pc' = [pc EXCEPT ![t] = "blocked"]
        /\ UNCHANGED <<op_queue_, sleepVars>>
  /\ UNCHANGED <<outstanding_work_, stopped_, privateVars>>

\* epoll_wait returns, with the operations ops of descriptors that are ready.
task_run(t, ops) ==
  /\ pc[t] \in {"poll", "wait"}
  /\ pc[t] = "poll" \/ interrupter \/ ops # <<>>
  /\ interrupter' = FALSE
  /\ private_op_queue' = [private_op_queue EXCEPT ![t] = ops]
  /\ pc' = [pc EXCEPT ![t] = "task_exit"]
  /\ UNCHANGED <<op_queue_, outstanding_work_, stopped_, task_interrupted_,
                 signalled, signalling, private_outstanding_work>>

\* It keeps mutex_ for the next turn of do_run_one.
task_cleanup(t) ==
  /\ pc[t] = "task_exit"
  /\ run_one(t, TRUE)
  /\ outstanding_work_' = outstanding_work_ + private_outstanding_work[t]
  /\ private_outstanding_work' = [private_outstanding_work EXCEPT ![t] = 0]
  /\ private_op_queue' = [private_op_queue EXCEPT ![t] = <<>>]
  /\ UNCHANGED stopped_

\* It too, when it has operations to put back.
work_cleanup(t) ==
  LET work == private_outstanding_work[t]
      lock == [pc EXCEPT ![t] = "lock"]
  IN  /\ pc[t] = "complete"
      /\ \/ /\ private_op_queue[t] # <<>> /\ work >= 1
            /\ outstanding_work_' = outstanding_work_ + (work - 1)
            /\ run_one(t, task_interrupted_)
            /\ UNCHANGED stopped_
         \/ /\ private_op_queue[t] = <<>> /\ work >= 1
            /\ outstanding_work_' = outstanding_work_ + (work - 1)
            /\ pc' = lock
            /\ UNCHANGED <<op_queue_, stopped_, sleepVars>>
         \/ /\ private_op_queue[t] = <<>> /\ work < 1
            /\ work_finished(lock)
            /\ UNCHANGED op_queue_
      /\ private_outstanding_work' = [private_outstanding_work EXCEPT ![t] = 0]
      /\ private_op_queue' = [private_op_queue EXCEPT ![t] = <<>>]

-----------------------------------------------------------------------------
\* What c may call: the owner at any time, a thread while it completes.
Calls(c) ==
  \/ \E op \in Operation : \/ post_immediate_completion(c, op)
                           \/ post_deferred_completions(c, <<op>>)
  \/ \E op, op2 \in Operation : post_deferred_completions(c, <<op, op2>>)
  \/ \E n \in 1 .. 2 : work_started(n)
  \/ on_work_finished
  \/ stop

ThreadCalls(t) ==
  /\ pc[t] = "complete"
  /\ \/ Calls(t)
     \/ \E op \in Operation : post_continuation(t, op)
     \/ compensating_work_started(t)

Runs(t) ==
  \/ run(t)
  \/ do_run_one(t)
  \/ wait_returns(t)
  \/ task_run(t, <<>>)
  \/ \E op \in Operation : task_run(t, <<op>>)
  \/ task_cleanup(t)
  \/ work_cleanup(t)

SchedulerNext ==
  \/ \E c \in Caller : cond_signal(c)
  \/ \E t \in Thread : spurious_wakeup(t)
  \/ \E t \in Thread \ signalling : Runs(t) \/ ThreadCalls(t)
  \/ Owner \notin signalling /\ Calls(Owner)
  \/ Owner \notin signalling /\ \E n \in 0 .. 2 : shutdown(n)

SchedulerSpec == SchedulerInit /\ [][SchedulerNext]_schedulerVars

-----------------------------------------------------------------------------
(* Properties *)

\* The task is queued once, or one thread runs it.
TaskOnce ==
  LET running == {t \in Thread : pc[t] \in {"poll", "wait", "task_exit"}}
      queued  == {i \in DOMAIN op_queue_ : op_queue_[i] = Task}
  IN  /\ \A t, u \in running : t = u
      /\ \A i, j \in queued : i = j
      /\ running = {} \/ queued = {}

\* Somebody will look at the queue without being woken by anybody else.
Attended ==
  \/ \E t \in Thread : pc[t] \in {"lock", "poll", "task_exit", "complete"}
  \/ \E t \in Thread : pc[t] = "wait" /\ interrupter
  \/ signalled /\ \E t \in Thread : pc[t] = "woken"
  \/ /\ signalled /\ signalling # {}
     /\ \E t \in Thread : pc[t] = "blocked"

\* No wakeup is lost between the threads that queue, sleep and poll, although a
\* signal is sent after the unlock, goes to any waiter, and is not sent at all
\* when the reactor is interrupted instead: an operation is never in the queue
\* while all threads in run() sleep, and after stop() none of them sleeps on.
NoLostWakeup ==
  /\ op_queue_ # <<>> /\ ~stopped_ =>
       Attended \/ \A t \in Thread : pc[t] = "idle"
  /\ stopped_ => \A t \in Thread :
       /\ pc[t] # "blocked"
       /\ pc[t] = "woken" => signalled
       /\ pc[t] = "wait" => interrupter
=============================================================================
