--------------------------- MODULE UdpPortWatcher ---------------------------
(***************************************************************************)
(* udp_port_watcher_t (src/util/udp_port_watcher.h), the base class of the *)
(* server and of the client's connection, with the two blocking_deques it  *)
(* owns.  Four parties touch the object:                                   *)
(*                                                                         *)
(*   owner    the thread that constructs the object, uses it and destroys  *)
(*            it (main() of either program)                                *)
(*   ioc      m_ioc_worker, the thread inside m_io_context.run(); it runs  *)
(*            the handlers posted through m_read_strand and m_write_strand *)
(*   worker   m_packet_worker, the thread that takes packets from          *)
(*            m_rx_deque and calls on_packet_received                      *)
(*   kernel   completes asynchronous operations of m_socket                *)
(*                                                                         *)
(* Every locked operation of blocking_deque is one step, so the threads    *)
(* interleave between empty(), front() and pop_front().  A packet is the   *)
(* identity of the packet_t object a shared_ptr points to; its bytes are   *)
(* modelled elsewhere.  An object that nobody references is freed and its  *)
(* identity may be allocated again.  Bound: Packet is the heap, the        *)
(* packets that can be alive at one time; an allocation waits for a free   *)
(* one.                                                                    *)
(***************************************************************************)
EXTENDS Naturals, Sequences, Functions

CONSTANTS
  Packet,      \* the packet_t objects the heap has room for
  NoPacket     \* a null shared_ptr

ASSUME NoPacketAssumption == NoPacket \notin Packet

VARIABLES
  owner,        \* where the owning thread is in the object's life
  running,      \* m_running
  stopped,      \* m_io_context.stop() has been called
  ioc,          \* where m_ioc_worker is
  sendPacket,   \* do_send's local `packet`
  readStrand,   \* handlers posted through m_read_strand, oldest first
  writeStrand,  \* handlers posted through m_write_strand, oldest first
  receiveOps,   \* packets whose async_receive_from is outstanding
  sendOps,      \* packets whose async_send_to is outstanding
  rx,           \* m_rx_deque
  tx,           \* m_tx_deque
  worker,       \* where m_packet_worker is
  packet,       \* packet_to_event_loop's local `packet`
  reply,        \* a packet on_packet_received made itself
  ownerPacket,  \* the owner's local shared_ptr while it is inside send()
  wire          \* the packet the kernel took from a send operation last

ownerVars  == <<owner, running, stopped, ownerPacket>>
readVars   == <<readStrand, receiveOps>>
writeVars  == <<writeStrand, sendOps, wire>>
iocVars    == <<ioc, sendPacket>>
workerVars == <<worker, packet, reply>>
vars == <<ownerVars, readVars, writeVars, iocVars, workerVars, rx, tx>>

-----------------------------------------------------------------------------
(* Types *)

\* A handler of the read strand.  handle_receive is bound to its packet.
DoReceive == [fn |-> "do_receive", packet |-> NoPacket, ec |-> FALSE]

HandleReceive(p, ec) == [fn |-> "handle_receive", packet |-> p, ec |-> ec]

ReadHandler ==
  {DoReceive}
    \cup [fn : {"handle_receive"}, packet : Packet, ec : BOOLEAN]

\* handle_send only prints its error code.
WriteHandler == {"do_send", "handle_send"}

\* The owner constructs members, posts the first handlers, starts the two
\* threads, constructs the derived part, uses the object, destroys the derived
\* part, stops and joins.  "failed": the constructor threw, there is no object.
\* "terminated": the process has ended, or its behaviour is no longer defined.
Alive   == {"live", "sending"}
Final   == {"failed", "destroyed", "terminated"}
OwnerPC == {"members", "post", "start_ioc", "start_worker", "derived"}
           \cup Alive
           \cup {"stop", "join_ioc", "clear_running", "join_worker"}
           \cup Final

InDoSend == {"send_front", "send_pop", "send_async"}
IocPC    == {"none", "run", "exited"} \cup InDoSend
Delivering == {"call", "callback", "return"}
WorkerPC   == {"none", "check", "empty", "front", "pop", "exited"}
              \cup Delivering

TypeOK ==
  /\ owner \in OwnerPC
  /\ running \in BOOLEAN
  /\ stopped \in BOOLEAN
  /\ ownerPacket \in Packet \cup {NoPacket}
  /\ ioc \in IocPC
  /\ sendPacket \in Packet \cup {NoPacket}
  /\ readStrand \in Seq(ReadHandler)
  /\ receiveOps \in Seq(Packet)
  /\ writeStrand \in Seq(WriteHandler)
  /\ sendOps \in Seq(Packet)
  /\ wire \in Packet \cup {NoPacket}
  /\ rx \in Seq(Packet)
  /\ tx \in Seq(Packet)
  /\ worker \in WorkerPC
  /\ packet \in Packet \cup {NoPacket}
  /\ reply \in Packet \cup {NoPacket}

-----------------------------------------------------------------------------
(* Ownership.  make_shared returns an object nobody references.  The handler
   of async_receive_from is bound to its packet, so receiveOps and readStrand
   hold references; the handler of async_send_to is not, so sendOps holds
   none. *)

Referenced ==
  Range(rx) \cup Range(tx) \cup Range(receiveOps)
    \cup {readStrand[i].packet : i \in DOMAIN readStrand}
    \cup {sendPacket, packet, reply, ownerPacket}

Fresh(p) == p \in Packet \ Referenced

-----------------------------------------------------------------------------
Init ==
  /\ owner = "members"
  /\ running = FALSE
  /\ stopped = FALSE
  /\ ownerPacket = NoPacket
  /\ ioc = "none"
  /\ sendPacket = NoPacket
  /\ readStrand = <<>>
  /\ receiveOps = <<>>
  /\ writeStrand = <<>>
  /\ sendOps = <<>>
  /\ wire = NoPacket
  /\ rx = <<>>
  /\ tx = <<>>
  /\ worker = "none"
  /\ packet = NoPacket
  /\ reply = NoPacket

-----------------------------------------------------------------------------
(* run() takes the next handler of either strand while the context is not
   stopped. *)

TakesRead(fn) ==
  /\ ioc = "run" /\ ~stopped
  /\ readStrand # <<>> /\ Head(readStrand).fn = fn

TakesWrite(fn) ==
  /\ ioc = "run" /\ ~stopped
  /\ writeStrand # <<>> /\ Head(writeStrand) = fn

-----------------------------------------------------------------------------
(* Actions with a plausible bug.  No specification uses them; each shows that
   a property below can fail. *)

\* The destructor does not join the packet thread.
destroy_join_worker_detached ==
  /\ owner = "join_worker"
  /\ owner' = "destroyed"
  /\ UNCHANGED <<running, stopped, ownerPacket, readVars, writeVars, iocVars,
                 workerVars, rx, tx>>

\* The destructor does not clear m_running.
destroy_clear_running_forgotten ==
  /\ owner = "clear_running"
  /\ owner' = "join_worker"
  /\ UNCHANGED <<running, stopped, ownerPacket, readVars, writeVars, iocVars,
                 workerVars, rx, tx>>

\* do_receive keeps one packet for all receives.
do_receive_same_packet ==
  /\ TakesRead("do_receive")
  /\ \E p \in Packet : receiveOps' = Append(receiveOps, p)
  /\ readStrand' = Tail(readStrand)
  /\ UNCHANGED <<ownerVars, writeVars, iocVars, workerVars, rx, tx>>

\* handle_receive puts its packet into the deque after it has moved from it.
handle_receive_moved_from ==
  /\ TakesRead("handle_receive")
  /\ rx' = IF Head(readStrand).ec THEN rx ELSE Append(rx, NoPacket)
  /\ readStrand' = Append(Tail(readStrand), DoReceive)
  /\ UNCHANGED <<ownerVars, receiveOps, writeVars, iocVars, workerVars, tx>>

\* handle_receive returns early on an error.
handle_receive_error_returns ==
  /\ TakesRead("handle_receive")
  /\ LET handler == Head(readStrand)
     IN  IF handler.ec
         THEN /\ readStrand' = Tail(readStrand)
              /\ UNCHANGED rx
         ELSE /\ readStrand' = Append(Tail(readStrand), DoReceive)
              /\ rx' = Append(rx, handler.packet)
  /\ UNCHANGED <<ownerVars, receiveOps, writeVars, iocVars, workerVars, tx>>

\* do_send does not look whether m_tx_deque is empty.
do_send_unchecked ==
  /\ TakesWrite("do_send")
  /\ writeStrand' = Tail(writeStrand)
  /\ ioc' = "send_front"
  /\ UNCHANGED <<ownerVars, readVars, sendOps, wire, sendPacket, workerVars,
                 rx, tx>>

\* do_send posts itself again although handle_send will.
do_send_async_posts_too ==
  /\ ioc = "send_async"
  /\ sendOps' = Append(sendOps, sendPacket)
  /\ writeStrand' = Append(writeStrand, "do_send")
  /\ ioc' = "run"
  /\ sendPacket' = NoPacket
  /\ UNCHANGED <<ownerVars, readVars, wire, workerVars, rx, tx>>

\* send() puts the packet at the front.
send_to_front(p) ==
  /\ owner = "live"
  /\ Fresh(p)
  /\ owner' = "sending"
  /\ ownerPacket' = p
  /\ tx' = <<p>> \o tx
  /\ UNCHANGED <<running, stopped, readVars, writeVars, iocVars, workerVars,
                 rx>>

\* The packet thread leaves the last packet in the deque.
packet_to_event_loop_empty_off_by_one ==
  /\ worker = "empty"
  /\ worker' = IF Len(rx) <= 1 THEN "check" ELSE "front"
  /\ UNCHANGED <<ownerVars, readVars, writeVars, iocVars, packet, reply, rx,
                 tx>>

\* pop_back() instead of pop_front().
packet_to_event_loop_pop_back ==
  /\ worker = "pop"
  /\ worker' = "call"
  /\ rx' = SubSeq(rx, 1, Len(rx) - 1)
  /\ UNCHANGED <<ownerVars, readVars, writeVars, iocVars, packet, reply, tx>>

-----------------------------------------------------------------------------
(* The owner: construction *)

\* The member initialisers.  Opening or binding m_socket may throw, and that
\* is outside the constructor's try block.
construct_members ==
  /\ owner = "members"
  /\ \/ /\ owner' = "failed"
        /\ UNCHANGED running
     \/ /\ owner' = "post"
        /\ running' = TRUE
  /\ UNCHANGED <<stopped, ownerPacket, readVars, writeVars, iocVars,
                 workerVars, rx, tx>>

\* set_option and the first two posts.  set_option may throw: the catch block
\* prints, and the object is complete without handlers and without threads.
construct_post ==
  /\ owner = "post"
  /\ \/ /\ owner' = "derived"
        /\ UNCHANGED <<readStrand, writeStrand>>
     \/ /\ owner' = "start_ioc"
        /\ readStrand' = Append(readStrand, DoReceive)
        /\ writeStrand' = Append(writeStrand, "do_send")
  /\ UNCHANGED <<running, stopped, ownerPacket, receiveOps, sendOps, wire,
                 iocVars, workerVars, rx, tx>>

\* Starting m_ioc_worker; std::thread's constructor may throw.
construct_ioc_worker ==
  /\ owner = "start_ioc"
  /\ \/ /\ owner' = "derived"
        /\ UNCHANGED ioc
     \/ /\ owner' = "start_worker"
        /\ ioc' = "run"
  /\ UNCHANGED <<running, stopped, ownerPacket, readVars, writeVars,
                 sendPacket, workerVars, rx, tx>>

\* Starting m_packet_worker; std::thread's constructor may throw.
construct_packet_worker ==
  /\ owner = "start_worker"
  /\ owner' = "derived"
  /\ worker' \in {"none", "check"}
  /\ UNCHANGED <<running, stopped, ownerPacket, readVars, writeVars, iocVars,
                 packet, reply, rx, tx>>

\* The members of the derived class are constructed after both threads run.
construct_derived ==
  /\ owner = "derived"
  /\ owner' = "live"
  /\ UNCHANGED <<running, stopped, ownerPacket, readVars, writeVars, iocVars,
                 workerVars, rx, tx>>

-----------------------------------------------------------------------------
(* The owner: use *)

set_running(b) ==
  /\ owner = "live"
  /\ running' = b
  /\ UNCHANGED <<owner, stopped, ownerPacket, readVars, writeVars, iocVars,
                 workerVars, rx, tx>>

\* The client's send(): a new packet is put into m_tx_deque; emplace_back
\* copies the shared_ptr, so the owner references the packet until it returns.
send(p) ==
  /\ owner = "live"
  /\ Fresh(p)
  /\ owner' = "sending"
  /\ ownerPacket' = p
  /\ tx' = Append(tx, p)
  /\ UNCHANGED <<running, stopped, readVars, writeVars, iocVars, workerVars,
                 rx>>

send_return ==
  /\ owner = "sending"
  /\ owner' = "live"
  /\ ownerPacket' = NoPacket
  /\ UNCHANGED <<running, stopped, readVars, writeVars, iocVars, workerVars,
                 rx, tx>>

-----------------------------------------------------------------------------
(* The owner: destruction.  join() of a thread that was never started throws
   out of the destructor, which terminates the process. *)

\* The derived part is destroyed first, both threads still running.
destroy_derived ==
  /\ owner = "live"
  /\ owner' = "stop"
  /\ UNCHANGED <<running, stopped, ownerPacket, readVars, writeVars, iocVars,
                 workerVars, rx, tx>>

destroy_stop ==
  /\ owner = "stop"
  /\ owner' = "join_ioc"
  /\ stopped' = TRUE
  /\ UNCHANGED <<running, ownerPacket, readVars, writeVars, iocVars,
                 workerVars, rx, tx>>

destroy_join_ioc ==
  /\ owner = "join_ioc"
  /\ \/ ioc = "none"   /\ owner' = "terminated"
     \/ ioc = "exited" /\ owner' = "clear_running"
  /\ UNCHANGED <<running, stopped, ownerPacket, readVars, writeVars, iocVars,
                 workerVars, rx, tx>>

destroy_clear_running ==
  /\ owner = "clear_running"
  /\ owner' = "join_worker"
  /\ running' = FALSE
  /\ UNCHANGED <<stopped, ownerPacket, readVars, writeVars, iocVars,
                 workerVars, rx, tx>>

destroy_join_worker ==
  /\ owner = "join_worker"
  /\ \/ worker = "none"   /\ owner' = "terminated"
     \/ worker = "exited" /\ owner' = "destroyed"
  /\ UNCHANGED <<running, stopped, ownerPacket, readVars, writeVars, iocVars,
                 workerVars, rx, tx>>

-----------------------------------------------------------------------------
(* The io thread.  run() takes handlers until the context is stopped, and it
   returns by itself once no handler and no outstanding operation is left. *)

NoWork ==
  /\ readStrand = <<>> /\ receiveOps = <<>>
  /\ writeStrand = <<>> /\ sendOps = <<>>

run_return ==
  /\ ioc = "run"
  /\ stopped \/ NoWork
  /\ ioc' = "exited"
  /\ UNCHANGED <<ownerVars, readVars, writeVars, sendPacket, workerVars, rx,
                 tx>>

do_receive ==
  /\ TakesRead("do_receive")
  /\ \E p \in Packet :
       /\ Fresh(p)
       /\ receiveOps' = Append(receiveOps, p)
  /\ readStrand' = Tail(readStrand)
  /\ UNCHANGED <<ownerVars, writeVars, iocVars, workerVars, rx, tx>>

handle_receive ==
  /\ TakesRead("handle_receive")
  /\ LET handler == Head(readStrand)
     IN  rx' = IF handler.ec THEN rx ELSE Append(rx, handler.packet)
  /\ readStrand' = Append(Tail(readStrand), DoReceive)
  /\ UNCHANGED <<ownerVars, receiveOps, writeVars, iocVars, workerVars, tx>>

\* do_send, m_tx_deque.empty(): post again if it is.
do_send_empty ==
  /\ TakesWrite("do_send")
  /\ \/ /\ tx = <<>>
        /\ writeStrand' = Append(Tail(writeStrand), "do_send")
        /\ UNCHANGED ioc
     \/ /\ tx # <<>>
        /\ writeStrand' = Tail(writeStrand)
        /\ ioc' = "send_front"
  /\ UNCHANGED <<ownerVars, readVars, sendOps, wire, sendPacket, workerVars,
                 rx, tx>>

do_send_front ==
  /\ ioc = "send_front"
  /\ ioc' = "send_pop"
  /\ sendPacket' = Head(tx)
  /\ UNCHANGED <<ownerVars, readVars, writeVars, workerVars, rx, tx>>

do_send_pop ==
  /\ ioc = "send_pop"
  /\ ioc' = "send_async"
  /\ tx' = Tail(tx)
  /\ UNCHANGED <<ownerVars, readVars, writeVars, sendPacket, workerVars, rx>>

\* async_send_to either performs the send before it returns, when no send is
\* queued ahead of it, or leaves the operation outstanding.  Then the local
\* `packet` goes out of scope.
do_send_async ==
  /\ ioc = "send_async"
  /\ \/ /\ sendOps = <<>>
        /\ wire' = sendPacket
        /\ writeStrand' = Append(writeStrand, "handle_send")
        /\ UNCHANGED sendOps
     \/ /\ sendOps' = Append(sendOps, sendPacket)
        /\ UNCHANGED <<wire, writeStrand>>
  /\ ioc' = "run"
  /\ sendPacket' = NoPacket
  /\ UNCHANGED <<ownerVars, readVars, workerVars, rx, tx>>

handle_send ==
  /\ TakesWrite("handle_send")
  /\ writeStrand' = Append(Tail(writeStrand), "do_send")
  /\ UNCHANGED <<ownerVars, readVars, sendOps, wire, iocVars, workerVars, rx,
                 tx>>

-----------------------------------------------------------------------------
(* The kernel completes the oldest operation of its kind, whichever backend
   asio uses, and its handler is posted through the strand it is bound to. *)

receive_completes(ec) ==
  /\ receiveOps # <<>>
  /\ readStrand' = Append(readStrand, HandleReceive(Head(receiveOps), ec))
  /\ receiveOps' = Tail(receiveOps)
  /\ UNCHANGED <<ownerVars, writeVars, iocVars, workerVars, rx, tx>>

send_completes ==
  /\ sendOps # <<>>
  /\ wire' = Head(sendOps)
  /\ sendOps' = Tail(sendOps)
  /\ writeStrand' = Append(writeStrand, "handle_send")
  /\ UNCHANGED <<ownerVars, readVars, iocVars, workerVars, rx, tx>>

-----------------------------------------------------------------------------
(* The packet thread: while (m_running) packet_to_event_loop() *)

worker_check ==
  /\ worker = "check"
  /\ worker' = IF running THEN "empty" ELSE "exited"
  /\ UNCHANGED <<ownerVars, readVars, writeVars, iocVars, packet, reply, rx,
                 tx>>

packet_to_event_loop_empty ==
  /\ worker = "empty"
  /\ worker' = IF rx = <<>> THEN "check" ELSE "front"
  /\ UNCHANGED <<ownerVars, readVars, writeVars, iocVars, packet, reply, rx,
                 tx>>

packet_to_event_loop_front ==
  /\ worker = "front"
  /\ worker' = "pop"
  /\ packet' = Head(rx)
  /\ UNCHANGED <<ownerVars, readVars, writeVars, iocVars, reply, rx, tx>>

packet_to_event_loop_pop ==
  /\ worker = "pop"
  /\ worker' = "call"
  /\ rx' = Tail(rx)
  /\ UNCHANGED <<ownerVars, readVars, writeVars, iocVars, packet, reply, tx>>

\* The virtual call.  Before the derived part is constructed and after it is
\* destroyed, it reaches the pure virtual function or members that do not exist.
packet_to_event_loop_call ==
  /\ worker = "call"
  /\ \/ /\ owner \in Alive
        /\ worker' = "callback"
        /\ UNCHANGED owner
     \/ /\ owner \notin Alive
        /\ owner' = "terminated"
        /\ UNCHANGED worker
  /\ UNCHANGED <<running, stopped, ownerPacket, readVars, writeVars, iocVars,
                 packet, reply, rx, tx>>

\* The derived class consumes the packet, sends the same object back (heartbeat,
\* chat) or sends a reply it makes (login).  The owner does not wait for it: if
\* it has destroyed the derived part since the call, on_packet_received may use
\* members that are gone; or it is past them, and m_tx_deque is still there.
on_packet_received ==
  /\ worker = "callback"
  /\ \/ /\ worker' = "return"
        /\ \/ UNCHANGED <<tx, reply>>
           \/ tx' = Append(tx, packet) /\ UNCHANGED reply
           \/ \E p \in Packet :
                /\ Fresh(p)
                /\ tx' = Append(tx, p)
                /\ reply' = p
        /\ UNCHANGED owner
     \/ /\ owner \notin Alive
        /\ owner' = "terminated"
        /\ UNCHANGED <<worker, tx, reply>>
  /\ UNCHANGED <<running, stopped, ownerPacket, readVars, writeVars, iocVars,
                 packet, rx>>

\* The locals of on_packet_received and packet_to_event_loop go out of scope.
packet_to_event_loop_return ==
  /\ worker = "return"
  /\ worker' = "check"
  /\ packet' = NoPacket
  /\ reply' = NoPacket
  /\ UNCHANGED <<ownerVars, readVars, writeVars, iocVars, rx, tx>>

-----------------------------------------------------------------------------
Construct ==
  \/ construct_members \/ construct_post \/ construct_ioc_worker
  \/ construct_packet_worker \/ construct_derived

Use ==
  \/ \E b \in BOOLEAN : set_running(b)
  \/ \E p \in Packet : send(p)
  \/ send_return

Destroy ==
  \/ destroy_derived \/ destroy_stop \/ destroy_join_ioc
  \/ destroy_clear_running \/ destroy_join_worker

Ioc ==
  \/ run_return \/ do_receive \/ handle_receive
  \/ do_send_empty \/ do_send_front \/ do_send_pop \/ do_send_async
  \/ handle_send

Kernel ==
  \/ \E ec \in BOOLEAN : receive_completes(ec)
  \/ send_completes

Worker ==
  \/ worker_check
  \/ packet_to_event_loop_empty \/ packet_to_event_loop_front
  \/ packet_to_event_loop_pop \/ packet_to_event_loop_call
  \/ on_packet_received \/ packet_to_event_loop_return

\* The object, or the process, is gone.
Terminating == owner \in Final /\ UNCHANGED vars

Next ==
  \/ /\ owner \notin Final
     /\ Construct \/ Use \/ Destroy \/ Ioc \/ Kernel \/ Worker
  \/ Terminating

Spec == Init /\ [][Next]_vars

\* The operating system keeps scheduling the two threads and the owner, and
\* completes a send.  The scheduler of io_context is a queue, so a handler is
\* not passed over for ever by the handlers of the other strand.  Nothing is
\* assumed of datagrams, of errors, or of what the owner chooses to do.
Fairness ==
  /\ WF_vars(Construct)
  /\ WF_vars(send_return)
  /\ WF_vars(destroy_stop \/ destroy_join_ioc \/ destroy_clear_running
               \/ destroy_join_worker)
  /\ WF_vars(run_return)
  /\ SF_vars(do_receive \/ handle_receive)
  /\ SF_vars(do_send_empty \/ handle_send)
  /\ WF_vars(do_send_front \/ do_send_pop \/ do_send_async)
  /\ WF_vars(send_completes)
  /\ WF_vars(Worker)

FairSpec == Spec /\ Fairness

-----------------------------------------------------------------------------
(* Safety *)

\* do_receive and handle_receive hand one token to each other: from the first
\* post on there is always exactly one receive, posted, outstanding or waiting
\* for its handler, whatever the error code was.  With two the order of the
\* datagrams would be lost, with none the socket would go deaf.
Receives == Len(readStrand) + Len(receiveOps)

ReceiveChain ==
  /\ Receives <= 1
  /\ ioc # "none" => Receives = 1

\* The same for do_send and handle_send: never two sends at a time, and never
\* none, whether m_tx_deque was empty or the send failed.
Sends == Len(writeStrand) + Len(sendOps) + (IF ioc \in InDoSend THEN 1 ELSE 0)

SendChain ==
  /\ Sends <= 1
  /\ ioc # "none" => Sends = 1

\* One receive and one send, from the constructor's posts to the destructor.
OneReceiveOneSend == ReceiveChain /\ SendChain

\* front() and pop_front() are separate locked operations, and both are
\* undefined on an empty deque.  Between empty() and pop_front() the deque
\* stays non-empty and the packet that is removed is the one that was read.
TakesTheFront ==
  /\ worker \in {"front", "pop"} => rx # <<>>
  /\ worker = "pop" => packet = Head(rx)
  /\ ioc \in {"send_front", "send_pop"} => tx # <<>>
  /\ ioc = "send_pop" => sendPacket = Head(tx)

\* m_io_context.run() returns only because the destructor stopped it: it never
\* runs out of work while the object lives.
RunsUntilStopped == ioc = "exited" => stopped

\* The buffer the kernel may write into at any moment is out of reach of every
\* thread: it is in neither deque and no thread holds the packet.
ReceiveBufferExclusive ==
  \A i \in DOMAIN receiveOps :
    /\ receiveOps[i] \notin Range(rx) \cup Range(tx)
    /\ receiveOps[i] \notin {sendPacket, packet, reply, ownerPacket}

\* No thread outlives the object it captured by reference.
QuietAfterDestruction ==
  owner = "destroyed" => ioc = "exited" /\ worker = "exited"

\* The threads live as long as the object does: the io thread's run() returns
\* only for the destructor, and neither thread is left when it is through.
ThreadsLiveWithObject == RunsUntilStopped /\ QuietAfterDestruction

\* What makes the invariants above inductive: there is nothing to run before
\* the constructor posts, both chains exist before the io thread starts, the
\* packet thread is joined after the io thread, and a thread that has passed
\* front() holds a packet.
LifeCycle ==
  /\ owner \in {"members", "post", "failed"} =>
       Receives = 0 /\ Sends = 0 /\ ioc = "none"
  /\ owner = "start_ioc" => Receives = 1 /\ Sends = 1 /\ ioc = "none"
  /\ owner \in {"clear_running", "join_worker"} => ioc = "exited"
  /\ worker \in {"pop"} \cup Delivering => packet \in Packet
  /\ ioc \in {"send_pop", "send_async"} => sendPacket \in Packet

IInv ==
  /\ TypeOK
  /\ LifeCycle
  /\ ReceiveChain
  /\ SendChain
  /\ TakesTheFront
  /\ RunsUntilStopped
  /\ ReceiveBufferExclusive
  /\ QuietAfterDestruction

\* What the asio documentation demands of the caller of async_send_to
\* (ext/asio/include/asio/basic_datagram_socket.hpp:605): the buffer stays
\* valid until the handler is called.
SendBufferValid == Range(sendOps) \subseteq Referenced

-----------------------------------------------------------------------------
(* The object implements a FIFO channel in each direction. *)

\* A datagram that has been received and whose handler has not run.
Arrived ==
  IF readStrand # <<>> /\ Head(readStrand).fn = "handle_receive"
       /\ ~Head(readStrand).ec
  THEN <<Head(readStrand).packet>>
  ELSE <<>>

Receiving == INSTANCE FifoChannel
  WITH Item <- Packet, NoItem <- NoPacket,
       q <- rx \o Arrived,
       out <- IF worker \in Delivering THEN packet ELSE NoPacket

\* The datagrams received without error are handed to on_packet_received one
\* at a time, in the order they were received, each once and none left out.
ReceivingIsFifo == Receiving!Spec

\* A packet that has left m_tx_deque and that the kernel has not taken.
BeingSent ==
  sendOps \o (IF ioc = "send_async" THEN <<sendPacket>> ELSE <<>>)

Sending == INSTANCE FifoChannel
  WITH Item <- Packet, NoItem <- NoPacket,
       q <- BeingSent \o tx,
       out <- wire

\* The packets put into m_tx_deque, by whichever thread, are given to the
\* kernel one at a time, in that order, each once and none left out.
SendingIsFifo == Sending!Spec

-----------------------------------------------------------------------------
(* Liveness *)

InUse == owner \in Alive /\ ioc # "none" /\ worker # "none"

\* A received packet is handed to on_packet_received unless the packet thread
\* has left its loop (set_running(false) ends it for good: a later
\* set_running(true) does not start it again) or the owner gives up the object.
EveryPacketIsHandled ==
  \A p \in Packet :
    p \in Range(rx) /\ InUse ~> packet = p \/ worker = "exited" \/ ~InUse

\* A queued packet reaches async_send_to unless the owner gives up the object.
EveryPacketIsSent ==
  \A p \in Packet :
    p \in Range(tx) /\ InUse ~> sendPacket = p \/ ~InUse

\* No packet stays in either deque for ever while the object is in use.
NoPacketIsStranded == EveryPacketIsHandled /\ EveryPacketIsSent

\* However many receives fail, the socket is being listened to again, as long
\* as the packet thread takes packets out: once it has left its loop m_rx_deque
\* grows until no packet can be allocated.
KeepsListening == []<>(receiveOps # <<>> \/ worker = "exited" \/ ~InUse)

\* The destructor comes to an end: neither join() waits for ever.
DestructionCompletes == owner = "stop" ~> owner \in Final
=============================================================================
