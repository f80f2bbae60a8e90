--------------------------- MODULE StrandService ---------------------------
(***************************************************************************)
(* asio::detail::strand_service: the implementations that strands share.   *)
(* Whoever locks an implementation has it scheduled once, as an operation  *)
(* of the scheduler; handlers that come meanwhile wait.  The ready queue   *)
(* is touched by the holder only, the rest under the implementation's      *)
(* mutex.  Scheduling is left to the caller: IoContext.tla.                *)
(***************************************************************************)
EXTENDS Sequences

CONSTANTS Impl, StrandHandler

VARIABLES locked_, ready_queue_, waiting_queue_

strandVars == <<locked_, ready_queue_, waiting_queue_>>

StrandTypeOK ==
  /\ locked_ \in [Impl -> BOOLEAN]
  /\ ready_queue_ \in [Impl -> Seq(StrandHandler)]
  /\ waiting_queue_ \in [Impl -> Seq(StrandHandler)]

StrandInit ==
  /\ locked_ = [i \in Impl |-> FALSE]
  /\ ready_queue_ = [i \in Impl |-> <<>>]
  /\ waiting_queue_ = [i \in Impl |-> <<>>]

enqueue_waiting(i, handler) ==
  /\ locked_[i]
  /\ waiting_queue_' = [waiting_queue_ EXCEPT ![i] = Append(@, handler)]
  /\ UNCHANGED <<locked_, ready_queue_>>

\* The caller has the strand's lock and is to schedule it.
acquire_ready(i, handler) ==
  /\ ~locked_[i]
  /\ locked_' = [locked_ EXCEPT ![i] = TRUE]
  /\ ready_queue_' = [ready_queue_ EXCEPT ![i] = Append(@, handler)]
  /\ UNCHANGED waiting_queue_

\* Mutant: the lock is not looked at.
acquire_dispatch_unlocked(i) ==
  /\ locked_' = [locked_ EXCEPT ![i] = TRUE]
  /\ UNCHANGED <<ready_queue_, waiting_queue_>>

\* The caller has the strand's lock and invokes its handler itself.
acquire_dispatch(i) ==
  /\ ~locked_[i]
  /\ locked_' = [locked_ EXCEPT ![i] = TRUE]
  /\ UNCHANGED <<ready_queue_, waiting_queue_>>

\* A turn of do_complete's loop: the next handler, which posts the handlers
\* posted through the same strand and so finds it locked.
complete_ready(i, handler, posted) ==
  /\ ready_queue_[i] # <<>>
  /\ handler = Head(ready_queue_[i])
  /\ ready_queue_' = [ready_queue_ EXCEPT ![i] = Tail(@)]
  /\ waiting_queue_' = [waiting_queue_ EXCEPT ![i] = @ \o posted]
  /\ UNCHANGED locked_

\* more_handlers of on_do_complete_exit and on_dispatch_exit.
MoreHandlers(i) == ready_queue_[i] \o waiting_queue_[i] # <<>>

release(i) ==
  /\ ready_queue_' = [ready_queue_ EXCEPT ![i] = @ \o waiting_queue_[i]]
  /\ waiting_queue_' = [waiting_queue_ EXCEPT ![i] = <<>>]
  /\ locked_' = [locked_ EXCEPT ![i] = MoreHandlers(i)]

strand_shutdown ==
  /\ ready_queue_' = [i \in Impl |-> <<>>]
  /\ waiting_queue_' = [i \in Impl |-> <<>>]
  /\ UNCHANGED locked_
=============================================================================
