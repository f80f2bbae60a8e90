----------------------------- MODULE IoContext -----------------------------
(***************************************************************************)
(* asio as udp_port_watcher_t uses it: scheduler, strands and reactor, and *)
(* the four handlers of the watcher, which are what asio completes.  The   *)
(* watcher's deques are left out: m_tx_deque may be empty or not whenever  *)
(* do_send looks.                                                          *)
(*                                                                         *)
(* The program calls run() in one thread; asio is written for any number,  *)
(* and so is this.  What a thread does between two locks is one step, with *)
(* the atomic increments of outstanding_work_ beside it.                   *)
(***************************************************************************)
EXTENDS Scheduler, EpollReactor, StrandService, Counting

Strand == {"m_read_strand", "m_write_strand"}

CONSTANTS
  Descriptor,      \* the socket's descriptor_state
  Assigned,        \* how implementations may be assigned to the strands
  None

Handler == {"do_receive", "handle_receive", "do_send", "handle_send"}

ASSUME IoContextAssumption ==
  /\ Assigned \subseteq [Strand -> Impl]
  /\ Operation = Impl \cup ReactorOp \cup {Descriptor}
  /\ StrandHandler = Handler
  /\ Impl \cap ReactorOp = {}
  /\ Descriptor \notin Impl \cup ReactorOp
  /\ None \notin Operation \cup Handler
  /\ IsFiniteSet(Thread)

VARIABLES
  impl_,        \* the implementation each strand was given
  owner,        \* where the watcher's constructor or destructor is
  step,         \* what comes next while a thread completes an operation
  completing,   \* the operation
  events,       \* with what task_result_
  due           \* the operation a caller is to hand to the scheduler, or, when
                \* start_op has tried it in vain, to the descriptor

handlerVars == <<step, completing, events>>
ioVars == <<schedulerVars, reactorVars, strandVars, impl_, owner, handlerVars,
            due>>

IoTypeOK ==
  /\ SchedulerTypeOK /\ ReactorTypeOK /\ StrandTypeOK
  /\ impl_ \in [Strand -> Impl]
  /\ owner \in {"post_read", "post_write", "running", "join", "close",
                "shutdown", "destroyed"}
  /\ step \in [Thread -> {"enter", "body", "leave", "finish", "cleanup"}]
  /\ completing \in [Thread -> Operation \cup {None}]
  /\ events \in [Thread -> SUBSET ReactorOp]
  /\ due \in [Caller -> Operation \cup {None}]

\* A hash assigns the implementations; strands may be given the same one.
IoInit ==
  /\ SchedulerInit /\ ReactorInit /\ StrandInit
  /\ impl_ \in Assigned
  /\ owner = "post_read"
  /\ step = [t \in Thread |-> "cleanup"]
  /\ completing = [t \in Thread |-> None]
  /\ events = [t \in Thread |-> {}]
  /\ due = [c \in Caller |-> None]

StrandOf(handler) ==
  IF handler \in {"do_receive", "handle_receive"} THEN "m_read_strand"
                                                  ELSE "m_write_strand"

\* The handler of an operation on the socket.
HandlerOf(op) == IF op = "read_op" THEN "handle_receive" ELSE "handle_send"

Free(c) == c \notin signalling /\ due[c] = None

-----------------------------------------------------------------------------
(* Posting *)

\* strand_service::do_post, up to the call of post_immediate_completion.
do_post(c, handler) ==
  LET i == impl_[StrandOf(handler)]
  IN  \/ enqueue_waiting(i, handler) /\ UNCHANGED due
      \/ acquire_ready(i, handler) /\ due' = [due EXCEPT ![c] = i]

\* An operation of a descriptor that is completed with another one has its work
\* counted already.
post_due(c) ==
  /\ c \notin signalling /\ due[c] # None /\ due[c] \notin tried
  /\ IF c \in Thread /\ step[c] = "enter" /\ completing[c] \in ReactorOp
     THEN post_deferred_completions(c, <<due[c]>>)
     ELSE post_immediate_completion(c, due[c])
  /\ due' = [due EXCEPT ![c] = None]
  /\ UNCHANGED <<reactorVars, strandVars, impl_, owner, handlerVars>>

-----------------------------------------------------------------------------
(* The thread that owns the watcher *)

owner_posts(at, handler, then) ==
  /\ owner = at /\ Free(Owner)
  /\ do_post(Owner, handler)
  /\ owner' = then
  /\ UNCHANGED <<schedulerVars, reactorVars, impl_, handlerVars>>

\* Mutant: the destructor joins without having called stop().
owner_stops_forgotten ==
  /\ owner = "running" /\ Free(Owner)
  /\ owner' = "join"
  /\ UNCHANGED <<schedulerVars, reactorVars, strandVars, impl_, handlerVars, due>>

owner_stops ==
  /\ owner = "running" /\ Free(Owner)
  /\ stop
  /\ owner' = "join"
  /\ UNCHANGED <<reactorVars, strandVars, impl_, handlerVars, due>>

owner_joins ==
  /\ owner = "join" /\ Free(Owner)
  /\ \A t \in Thread : pc[t] = "done"
  /\ owner' = "close"
  /\ UNCHANGED <<schedulerVars, reactorVars, strandVars, impl_, handlerVars,
                 due>>

\* The socket's destructor.
owner_closes ==
  /\ owner = "close" /\ Free(Owner)
  /\ deregister_descriptor
  /\ IF op_queues # {}
     THEN post_deferred_completions(Owner, Aborted)
     ELSE UNCHANGED schedulerVars
  /\ owner' = "shutdown"
  /\ UNCHANGED <<strandVars, impl_, handlerVars, due>>

\* shutdown_services: strands, reactor, scheduler.  The destructor of an
\* operation on the socket gives back the work its handler holds.
owner_shuts_down ==
  /\ owner = "shutdown" /\ Free(Owner)
  /\ strand_shutdown
  /\ shutdown(Count(op_queue_, ReactorOp))
  /\ owner' = "destroyed"
  /\ UNCHANGED <<reactorVars, impl_, handlerVars, due>>

-----------------------------------------------------------------------------
(* The watcher's handlers *)

\* async_receive_from and async_send_to: the work of the handler_work, and the
\* speculative try.
async_op(t, op) ==
  /\ start_op_done(op) \/ start_op_blocks(op)
  /\ work_started(1)
  /\ due' = [due EXCEPT ![t] = op]

\* Mutant: start_op does not count the work of an operation that waits.
start_op_queues_uncounted(t) ==
  /\ step[t] = "enter" /\ completing[t] \in Impl /\ t \notin signalling
  /\ start_op_waits(due[t])
  /\ due' = [due EXCEPT ![t] = None]
  /\ UNCHANGED <<schedulerVars, strandVars, impl_, owner, handlerVars>>

\* The rest of start_op, with the work of the operation.
start_op_queues(t) ==
  /\ step[t] = "enter" /\ completing[t] \in Impl /\ t \notin signalling
  /\ start_op_waits(due[t])
  /\ work_started(1)
  /\ due' = [due EXCEPT ![t] = None]
  /\ UNCHANGED <<strandVars, impl_, owner, handlerVars>>

\* Handler h starts no operation, and posts the next handler.
PostsNext(h, next) ==
  \/ h = "handle_receive" /\ next = "do_receive"
  \/ h \in {"do_send", "handle_send"} /\ next = "do_send"

\* Handler h starts an operation; do_send when it finds a packet.
Starts(h, op) ==
  \/ h = "do_receive" /\ op = "read_op"
  \/ h = "do_send" /\ op = "write_op"

-----------------------------------------------------------------------------
(* A thread completes an operation *)

Enters(t, next) == step' = [step EXCEPT ![t] = next]

\* What is left is work_cleanup.
IsComplete(t) ==
  /\ Enters(t, "cleanup")
  /\ completing' = [completing EXCEPT ![t] = None]
  /\ events' = [events EXCEPT ![t] = {}]

\* strand_service::do_complete: the next ready handler.
complete_ready_handler(t, i) ==
  /\ \E h \in Handler :
       \/ /\ \E next \in Handler : /\ PostsNext(h, next)
                                   /\ complete_ready(i, h, <<next>>)
          /\ UNCHANGED <<schedulerVars, reactorVars, due>>
       \/ /\ complete_ready(i, h, <<>>)
          /\ \E op \in ReactorOp : Starts(h, op) /\ async_op(t, op)
  /\ UNCHANGED handlerVars

on_do_complete_exit(t, i) ==
  /\ ready_queue_[i] = <<>>
  /\ release(i)
  /\ IF MoreHandlers(i) THEN post_continuation(t, i)
                        ELSE UNCHANGED schedulerVars
  /\ IsComplete(t)
  /\ UNCHANGED <<reactorVars, due>>

complete_strand(t) ==
  /\ step[t] = "enter" /\ completing[t] \in Impl
  /\ \/ complete_ready_handler(t, completing[t])
     \/ on_do_complete_exit(t, completing[t])

\* descriptor_state::do_complete: the first operation is completed at once, the
\* other one is posted.
complete_descriptor(t) ==
  /\ step[t] = "enter" /\ completing[t] = Descriptor
  /\ perform_io(events[t])
  /\ LET done == InOrder(Completed(events[t]))
     IN  IF done = <<>>
         THEN /\ compensating_work_started(t)
              /\ IsComplete(t)
              /\ UNCHANGED due
         ELSE /\ completing' = [completing EXCEPT ![t] = Head(done)]
              /\ due' = [due EXCEPT ![t] =
                           IF Tail(done) = <<>> THEN None ELSE done[2]]
              /\ events' = [events EXCEPT ![t] = {}]
              /\ UNCHANGED <<schedulerVars, step>>
  /\ UNCHANGED strandVars

\* handler_work::complete, by the strand's dispatch.
complete_reactor_op(t) ==
  /\ step[t] = "enter" /\ completing[t] \in ReactorOp
  /\ LET h == HandlerOf(completing[t])
         i == impl_[StrandOf(h)]
     IN  \/ /\ acquire_dispatch(i)
            /\ Enters(t, "body")
         \/ /\ enqueue_waiting(i, h)
            /\ Enters(t, "finish")
  /\ UNCHANGED <<schedulerVars, reactorVars, completing, events, due>>

dispatched_handler(t) ==
  /\ step[t] = "body"
  /\ \E next \in Handler : /\ PostsNext(HandlerOf(completing[t]), next)
                          /\ do_post(t, next)
  /\ Enters(t, "leave")
  /\ UNCHANGED <<schedulerVars, reactorVars, completing, events>>

on_dispatch_exit(t) ==
  /\ step[t] = "leave"
  /\ LET i == impl_[StrandOf(HandlerOf(completing[t]))]
     IN  /\ release(i)
         /\ due' = [due EXCEPT ![t] = IF MoreHandlers(i) THEN i ELSE None]
  /\ Enters(t, "finish")
  /\ UNCHANGED <<schedulerVars, reactorVars, completing, events>>

\* The handler_work of a completed operation goes.
handler_work_finishes(t) ==
  /\ step[t] = "finish"
  /\ on_work_finished
  /\ IsComplete(t)
  /\ UNCHANGED <<reactorVars, strandVars, due>>

Completes(t) ==
  /\ pc[t] = "complete" /\ Free(t)
  /\ \/ complete_strand(t)
     \/ complete_descriptor(t)
     \/ complete_reactor_op(t)
     \/ dispatched_handler(t)
     \/ on_dispatch_exit(t)
     \/ handler_work_finishes(t)
  /\ UNCHANGED <<impl_, owner>>

-----------------------------------------------------------------------------
(* run() *)

\* The constructor starts the threads when it has posted.
thread_starts(t) ==
  /\ owner \notin {"post_read", "post_write"} /\ Free(Owner)
  /\ run(t)
  /\ UNCHANGED <<reactorVars, handlerVars>>

\* When do_run_one takes an operation it takes its task_result_ with it, which
\* nobody reads again.
thread_runs(t) ==
  /\ step[t] = "cleanup"
  /\ \/ do_run_one(t)
     \/ wait_returns(t)
     \/ task_cleanup(t)
     \/ work_cleanup(t)
  /\ IF pc'[t] = "complete"
     THEN LET op == Head(Queue(t))
          IN  /\ completing' = [completing EXCEPT ![t] = op]
              /\ events' = [events EXCEPT ![t] =
                              IF op = Descriptor THEN task_result_ ELSE {}]
              /\ Enters(t, "enter")
     ELSE IsComplete(t)
  /\ task_result_' = IF completing'[t] = Descriptor THEN {} ELSE task_result_
  /\ UNCHANGED <<kernelVars, registered_out, op_queues, tried>>

epoll_reactor_run(t) ==
  /\ task_run(t, IF ReadyEvents # {} THEN <<Descriptor>> ELSE <<>>)
  /\ epoll_wait
  /\ UNCHANGED handlerVars

ThreadStep(t) ==
  \/ /\ Free(t)
     /\ thread_starts(t) \/ thread_runs(t) \/ epoll_reactor_run(t)
     /\ UNCHANGED <<strandVars, impl_, owner, due>>
  \/ Completes(t)
  \/ start_op_queues(t)

-----------------------------------------------------------------------------
Signals(c) ==
  /\ cond_signal(c)
  /\ UNCHANGED <<reactorVars, strandVars, impl_, owner, handlerVars, due>>

WakesSpuriously ==
  /\ \E t \in Thread : spurious_wakeup(t)
  /\ UNCHANGED <<reactorVars, strandVars, impl_, owner, handlerVars, due>>

Arrives ==
  /\ owner \notin {"shutdown", "destroyed"}
  /\ datagram_arrives
  /\ UNCHANGED <<schedulerVars, strandVars, impl_, owner, handlerVars, due>>

RoomToSend ==
  /\ room_to_send
  /\ UNCHANGED <<schedulerVars, strandVars, impl_, owner, handlerVars, due>>

OwnerStep ==
  \/ owner_posts("post_read", "do_receive", "post_write")
  \/ owner_posts("post_write", "do_send", "running")
  \/ owner_joins
  \/ owner_closes
  \/ owner_shuts_down

\* The watcher is destroyed.
IoTerminating == owner = "destroyed" /\ UNCHANGED ioVars

IoNext ==
  \/ \E c \in Caller : Signals(c) \/ post_due(c)
  \/ \E t \in Thread : ThreadStep(t)
  \/ WakesSpuriously
  \/ OwnerStep
  \/ owner_stops
  \/ Arrives
  \/ RoomToSend
  \/ IoTerminating

IoSpec == IoInit /\ [][IoNext]_ioVars

\* Threads are scheduled and handlers return; the send buffer drains.  Nothing
\* makes the owner stop, or datagrams arrive.
IoFairness ==
  /\ \A c \in Caller : WF_ioVars(Signals(c) \/ post_due(c))
  /\ \A t \in Thread : WF_ioVars(ThreadStep(t))
  /\ WF_ioVars(OwnerStep)
  /\ WF_ioVars(RoomToSend)

FairIoSpec == IoSpec /\ IoFairness

-----------------------------------------------------------------------------
(* Properties *)

\* The intrusive queues op is linked into.
Links(op) ==
  Count(op_queue_, {op})
    + Cardinality({p \in Thread \X (1 .. 2) :
                     /\ p[2] \in DOMAIN private_op_queue[p[1]]
                     /\ private_op_queue[p[1]][p[2]] = op})
    + Cardinality({c \in Caller : due[c] = op})
    + Cardinality(op_queues \cap {op})

\* An operation has one link, so it is never queued again before it has been
\* dequeued: not the descriptor, which every run of the task may return
\* (epoll_reactor.ipp:448-452), nor a strand's implementation, which the
\* strand's lock, and not its handlers, has queued.
LinkedOnce == \A op \in Operation : Links(op) <= 1

\* Handlers of strand s that are in the queues of its implementation.
Posted(s) ==
  LET i == impl_[s]
      H == {h \in Handler : StrandOf(h) = s}
  IN  Count(ready_queue_[i], H) + Count(waiting_queue_[i], H)

\* Where the chain of strand s is: a handler posted, an operation started and
\* not completed, or a handler that is being dispatched.
InFlight(s) ==
  LET op == IF s = "m_read_strand" THEN "read_op" ELSE "write_op"
  IN  Posted(s) + Links(op)
        + Cardinality({t \in Thread : /\ completing[t] = op
                                      /\ step[t] \in {"enter", "body"}})

\* asio completes what it is given once, through every path: tried at once,
\* waiting for epoll, completed with the other operation, aborted, dispatched,
\* or queued behind the other strand.  So each chain the watcher's constructor
\* posts is in one place until it is destroyed, and then in none.
ChainsAreWhole == \A s \in Strand :
  InFlight(s) = IF \/ owner \in {"post_read", "destroyed"}
                   \/ owner = "post_write" /\ s = "m_write_strand"
                THEN 0 ELSE 1

\* Thread t holds implementation i: it completes it, or dispatches through it.
Holds(t, i) ==
  \/ completing[t] = i /\ step[t] = "enter"
  \/ /\ completing[t] \in ReactorOp /\ step[t] \in {"body", "leave"}
     /\ impl_[StrandOf(HandlerOf(completing[t]))] = i

\* A strand's handlers never run concurrently (io_context_strand.hpp:170-171),
\* in any number of threads, whether they were posted or are dispatched in place;
\* and an implementation nobody holds and nothing has scheduled is unlocked.
StrandExclusive == \A i \in Impl :
  /\ \A t, u \in Thread : Holds(t, i) /\ Holds(u, i) => t = u
  /\ owner # "destroyed" =>
       locked_[i] = ((\E t \in Thread : Holds(t, i)) \/ Links(i) = 1)

\* run() never runs out of work, which would end the io thread for good:
\* the program keeps no work guard, and the chains' handlers and operations
\* are all that is counted, in the threads' private counters part of the time.
WorkLasts == stopped_ => owner \notin {"post_read", "post_write", "running"}

\* Events found for op that nobody has acted upon yet.
Reported(op) ==
  \/ op \in task_result_ /\ Links(Descriptor) = 1
  \/ \E t \in Thread : completing[t] = Descriptor /\ op \in events[t]

\* Edge-triggered epoll reports a change once.  An operation that waits in the
\* descriptor and could be performed will be: epoll still has the change to
\* report, or it is on its way to the descriptor.  The change may come while
\* start_op is between its try and its registration, and be reported meanwhile
\* to a thread that the descriptor's mutex_ then holds up.
NoEdgeIsLost == \A op \in op_queues :
  Performs(op) => op \in ReadyEvents \/ Reported(op)

\* A datagram received is taken from the socket, and a packet that waits for
\* room is sent, unless run() is stopped: no edge of epoll's is lost between
\* the speculative try, the registration and a run of the task, and the handler
\* posted to read is not left in its strand's queue behind do_send, which posts
\* itself for ever.
IoProgresses ==
  /\ datagrams = SocketBound ~> datagrams < SocketBound \/ stopped_
  /\ "write_op" \in op_queues ~> "write_op" \notin op_queues \/ stopped_
  /\ Posted("m_read_strand") > 0 ~> Posted("m_read_strand") = 0 \/ stopped_

\* After stop() every thread returns from run(), the one in epoll_wait too, so
\* that the owner's join() returns and the watcher is destroyed.
StopEndsRun == owner = "join" ~> owner = "destroyed"

=============================================================================
