---------------------------- MODULE EpollReactor ----------------------------
(***************************************************************************)
(* asio::detail::epoll_reactor with the one descriptor the program has, a  *)
(* UDP socket, and the kernel's side of it: the datagrams received, room   *)
(* to send, and the edge-triggered entry in epoll's list.  The descriptor  *)
(* is an operation itself: run() returns it with the events it found, and  *)
(* completing it performs the operations that wait.                        *)
(*                                                                         *)
(* The descriptor's mutex_ keeps start_op, perform_io and the socket's     *)
(* destructor apart, but not the kernel: what start_op does after a try    *)
(* that failed is a step of its own.  Bound: the socket holds at most      *)
(* SocketBound datagrams; the kernel drops the others.                     *)
(***************************************************************************)
EXTENDS Naturals, Sequences

CONSTANT SocketBound
ASSUME ReactorAssumption == SocketBound \in Nat \ {0}

ReactorOp == {"read_op", "write_op"}

VARIABLES
  datagrams,         \* kernel: how many datagrams can be received
  writable,          \* kernel: there is room to send one
  readied,           \* kernel: the socket is in epoll's list
  registered_out,    \* EPOLLOUT is in registered_events_
  op_queues,         \* the ReactorOps in the descriptor's op_queue_s
  tried,             \* an operation start_op has tried in vain and, with
                     \* mutex_ locked, is to queue
  task_result_       \* the events the descriptor was returned with

kernelVars  == <<datagrams, writable, readied>>
reactorVars == <<kernelVars, registered_out, op_queues, tried, task_result_>>

ReactorTypeOK ==
  /\ datagrams \in 0 .. SocketBound
  /\ writable \in BOOLEAN
  /\ readied \in BOOLEAN
  /\ registered_out \in BOOLEAN
  /\ op_queues \subseteq ReactorOp
  /\ tried \subseteq ReactorOp
  /\ task_result_ \subseteq ReactorOp

\* register_descriptor: EPOLLIN and EPOLLET.
ReactorInit ==
  /\ datagrams = 0
  /\ writable = TRUE
  /\ readied = FALSE
  /\ registered_out = FALSE
  /\ op_queues = {}
  /\ tried = {}
  /\ task_result_ = {}

-----------------------------------------------------------------------------
(* The kernel *)

\* The events epoll_wait would report, named after what they are for.
Events(mask_out) ==
  (IF datagrams > 0 THEN {"read_op"} ELSE {})
    \cup (IF writable /\ mask_out THEN {"write_op"} ELSE {})

datagram_arrives ==
  /\ datagrams < SocketBound
  /\ datagrams' = datagrams + 1
  /\ readied' = TRUE
  /\ UNCHANGED <<writable, registered_out, op_queues, tried, task_result_>>

\* epoll is not told of what is not in the mask.
room_to_send ==
  /\ ~writable
  /\ writable' = TRUE
  /\ readied' = (readied \/ registered_out)
  /\ UNCHANGED <<datagrams, registered_out, op_queues, tried, task_result_>>

-----------------------------------------------------------------------------
(* The reactor *)

\* Mutant: would_block is taken for success.
Performs_would_block(op) == TRUE

\* Operation op on the socket returns anything but would_block.
Performs(op) == op \in Events(TRUE)

\* What operations ops, which all perform, do to the socket.
performed(ops) ==
  /\ datagrams' = IF "read_op" \in ops THEN datagrams - 1 ELSE datagrams
  /\ \/ UNCHANGED writable
     \/ "write_op" \in ops /\ writable' = FALSE

\* The descriptor's mutex_ is free.
Unlocked == tried = {}

\* The speculative try has done it.
start_op_done(op) ==
  /\ Unlocked /\ op \notin op_queues
  /\ Performs(op)
  /\ performed({op})
  /\ UNCHANGED <<readied, registered_out, op_queues, tried, task_result_>>

\* The speculative try would block.
start_op_blocks(op) ==
  /\ Unlocked /\ op \notin op_queues
  /\ ~Performs(op)
  /\ tried' = {op}
  /\ UNCHANGED <<kernelVars, registered_out, op_queues, task_result_>>

\* Mutant: EPOLLOUT is not asked for.
start_op_waits_unregistered(op) ==
  /\ op \in tried
  /\ tried' = {}
  /\ op_queues' = op_queues \cup {op}
  /\ UNCHANGED <<kernelVars, registered_out, task_result_>>

\* EPOLL_CTL_MOD, for the first write that has to wait, has epoll look at the
\* socket again; what has happened since the try is found then.
start_op_waits(op) ==
  /\ op \in tried
  /\ tried' = {}
  /\ op_queues' = op_queues \cup {op}
  /\ registered_out' = (registered_out \/ op = "write_op")
  /\ readied' = \/ readied
                \/ registered_out' # registered_out /\ Events(TRUE) # {}
  /\ UNCHANGED <<datagrams, writable, task_result_>>

\* What epoll_wait finds; an entry it has looked at leaves the list.
ReadyEvents == IF readied THEN Events(registered_out) ELSE {}

epoll_wait ==
  /\ task_result_' = IF ReadyEvents # {} THEN ReadyEvents ELSE task_result_
  /\ readied' = FALSE
  /\ UNCHANGED <<datagrams, writable, registered_out, op_queues, tried>>

\* perform_io: writing before reading.
Completed(events) == {op \in events \cap op_queues : Performs(op)}

Only(op, ops) == IF op \in ops THEN <<op>> ELSE <<>>

InOrder(ops) == Only("write_op", ops) \o Only("read_op", ops)

\* Mutant: an operation that is done is not popped from its queue.
perform_io_keeps(events) ==
  /\ Unlocked
  /\ performed(Completed(events))
  /\ UNCHANGED <<readied, registered_out, op_queues, tried, task_result_>>

\* Mutant: mutex_ is not locked.
perform_io_unlocked(events) ==
  /\ performed(Completed(events))
  /\ op_queues' = op_queues \ Completed(events)
  /\ UNCHANGED <<readied, registered_out, tried, task_result_>>

perform_io(events) ==
  /\ Unlocked
  /\ performed(Completed(events))
  /\ op_queues' = op_queues \ Completed(events)
  /\ UNCHANGED <<readied, registered_out, tried, task_result_>>

\* The operations that waited are given back, aborted.
deregister_descriptor ==
  /\ Unlocked
  /\ op_queues' = {}
  /\ readied' = FALSE
  /\ datagrams' = 0
  /\ UNCHANGED <<writable, registered_out, tried, task_result_>>

Aborted == Only("read_op", op_queues) \o Only("write_op", op_queues)
=============================================================================
