------------------------ MODULE UdpPortWatcherProofs ------------------------
(***************************************************************************)
(* Proofs about UdpPortWatcher for every set Packet: the type invariant,   *)
(* an inductive invariant that implies every safety invariant of the       *)
(* module, and the two refinements of FifoChannel.                         *)
(***************************************************************************)
EXTENDS UdpPortWatcher, SequenceTheorems, TLAPS

-----------------------------------------------------------------------------
(* Sequences *)

\* Appending adds one element to the range and leaves the head of a non-empty
\* sequence alone.
LEMMA RangeOfAppend ==
  ASSUME NEW S, NEW s \in Seq(S), NEW e \in S
  PROVE  /\ Range(Append(s, e)) = Range(s) \cup {e}
         /\ s # <<>> => Head(Append(s, e)) = Head(s)
<1>1. Append(s, e) \in Seq(S) /\ Len(Append(s, e)) = Len(s) + 1
  BY AppendProperties
<1>2. Range(s) = {s[i] : i \in 1..Len(s)}
  BY RangeEquality
<1>3. Range(Append(s, e)) = {Append(s, e)[i] : i \in 1..Len(Append(s, e))}
  BY <1>1, RangeEquality
<1>4. Range(Append(s, e)) = Range(s) \cup {e}
  BY <1>1, <1>2, <1>3, AppendProperties, LenProperties
<1>5. s # <<>> => Head(Append(s, e)) = Head(s)
  BY HeadTailAppend
<1>. QED
  BY <1>4, <1>5

\* Removing the front removes nothing else, and what is removed was there.
LEMMA RangeOfTail ==
  ASSUME NEW S, NEW s \in Seq(S), s # <<>>
  PROVE  /\ Range(Tail(s)) \subseteq Range(s)
         /\ Head(s) \in Range(s)
<1>1. Tail(s) \in Seq(S) /\ Len(Tail(s)) = Len(s) - 1
  BY HeadTailProperties
<1>2. \A i \in 1..Len(Tail(s)) : Tail(s)[i] = s[i+1]
  BY HeadTailProperties
<1>3. Len(s) \in Nat \ {0} /\ Range(s) = {s[i] : i \in 1..Len(s)}
  BY RangeEquality, EmptySeq
<1>4. Range(Tail(s)) = {Tail(s)[i] : i \in 1..Len(Tail(s))}
  BY <1>1, RangeEquality
<1>5. Range(Tail(s)) \subseteq Range(s)
  BY <1>1, <1>2, <1>3, <1>4
<1>6. Head(s) = s[1]
  OBVIOUS
<1>. QED
  BY <1>3, <1>5, <1>6

-----------------------------------------------------------------------------
(* The inductive invariant *)

LEMMA InitInv == Init => IInv
<1>. SUFFICES ASSUME Init PROVE IInv
  OBVIOUS
<1>. USE DEF Init
<1>1. TypeOK
  <2>1. running \in BOOLEAN /\ stopped \in BOOLEAN
    OBVIOUS
  <2>. QED
    BY <2>1, EmptySeq DEF TypeOK, OwnerPC, IocPC, WorkerPC, Delivering
<1>2. LifeCycle /\ ReceiveChain /\ SendChain
  BY DEF LifeCycle, Delivering, ReceiveChain, SendChain, Receives, Sends, InDoSend
<1>3. TakesTheFront /\ RunsUntilStopped /\ ReceiveBufferExclusive
  BY DEF TakesTheFront, RunsUntilStopped, ReceiveBufferExclusive
<1>4. QuietAfterDestruction
  BY DEF QuietAfterDestruction
<1>. QED
  BY <1>1, <1>2, <1>3, <1>4 DEF IInv

\* Every step keeps the types.
LEMMA TypeStep == IInv /\ [Next]_vars => TypeOK'
<1>. SUFFICES ASSUME IInv, [Next]_vars PROVE TypeOK'
  OBVIOUS
<1>. USE DEF IInv, TypeOK, OwnerPC, Alive, Final, IocPC, InDoSend, WorkerPC,
             Delivering,
             ownerVars, readVars, writeVars, iocVars, workerVars
<1>a. Append(readStrand, DoReceive) \in Seq(ReadHandler)
  <2>. DoReceive \in ReadHandler
    BY DEF ReadHandler
  <2>. QED
    BY AppendProperties
<1>b. \A s \in Seq(WriteHandler) :
        /\ Append(s, "do_send") \in Seq(WriteHandler)
        /\ Append(s, "handle_send") \in Seq(WriteHandler)
  <2>. "do_send" \in WriteHandler /\ "handle_send" \in WriteHandler
    BY DEF WriteHandler
  <2>. QED
    BY AppendProperties
<1>c. writeStrand # <<>> => Tail(writeStrand) \in Seq(WriteHandler)
  BY HeadTailProperties
<1>d. \A p \in Packet : /\ Append(tx, p) \in Seq(Packet)
                       /\ Append(sendOps, p) \in Seq(Packet)
  BY AppendProperties
<1>1. CASE Construct
  <2>1. CASE construct_members
    <3>1. running' \in BOOLEAN
      BY <2>1 DEF construct_members
    <3>2. owner' \in OwnerPC
      BY <2>1 DEF construct_members
    <3>. QED
      BY <2>1, <3>1, <3>2 DEF construct_members
  <2>2. CASE construct_post
    <3>1. owner' \in OwnerPC
      BY <2>2 DEF construct_post
    <3>2. readStrand' \in Seq(ReadHandler)
      BY <2>2, <1>a DEF construct_post
    <3>3. writeStrand' \in Seq(WriteHandler)
      BY <2>2, <1>b DEF construct_post
    <3>. QED
      BY <2>2, <3>1, <3>2, <3>3 DEF construct_post
  <2>3. CASE construct_ioc_worker
    BY <2>3 DEF construct_ioc_worker
  <2>4. CASE construct_packet_worker
    BY <2>4 DEF construct_packet_worker
  <2>5. CASE construct_derived
    BY <2>5 DEF construct_derived
  <2>. QED
    BY <1>1, <2>1, <2>2, <2>3, <2>4, <2>5 DEF Construct
<1>2. CASE Use
  <2>1. ASSUME NEW b \in BOOLEAN, set_running(b) PROVE TypeOK'
    BY <2>1 DEF set_running
  <2>2. ASSUME NEW p \in Packet, send(p) PROVE TypeOK'
    BY <2>2 DEF send
  <2>3. CASE send_return
    BY <2>3 DEF send_return
  <2>. QED
    BY <1>2, <2>1, <2>2, <2>3 DEF Use
<1>3. CASE Destroy
  BY <1>3, ZenonT(60) DEF Destroy, destroy_derived, destroy_stop, destroy_join_ioc,
              destroy_clear_running, destroy_join_worker
<1>4. CASE Ioc
  <2>1. CASE run_return
    BY <2>1 DEF run_return
  <2>2. CASE do_receive
    BY <2>2 DEF do_receive, TakesRead
  <2>3. CASE handle_receive
    <3>1. Head(readStrand) \in ReadHandler
      BY <2>3 DEF handle_receive, TakesRead
    <3>2. Head(readStrand).packet \in Packet
      BY <2>3, <3>1 DEF handle_receive, TakesRead, ReadHandler, DoReceive
    <3>. QED
      BY <2>3, <3>2 DEF handle_receive, TakesRead, ReadHandler
  <2>4. CASE do_send_empty
    <3>1. writeStrand' \in Seq(WriteHandler)
      BY <2>4, <1>b, <1>c DEF do_send_empty, TakesWrite
    <3>2. ioc' \in IocPC
      BY <2>4 DEF do_send_empty
    <3>. QED
      BY <2>4, <3>1, <3>2 DEF do_send_empty
  <2>5. CASE do_send_front
    BY <2>5 DEF do_send_front, TakesTheFront
  <2>6. CASE do_send_pop
    BY <2>6 DEF do_send_pop, TakesTheFront
  <2>7. CASE do_send_async
    <3>1. sendPacket \in Packet
      BY <2>7 DEF do_send_async, LifeCycle
    <3>2. sendOps' \in Seq(Packet)
      BY <2>7, <3>1, <1>d DEF do_send_async
    <3>3. wire' \in Packet \cup {NoPacket}
      BY <2>7, <3>1 DEF do_send_async
    <3>4. writeStrand' \in Seq(WriteHandler)
      BY <2>7, <1>b DEF do_send_async
    <3>. QED
      BY <2>7, <3>2, <3>3, <3>4 DEF do_send_async
  <2>8. CASE handle_send
    BY <2>8 DEF handle_send, TakesWrite, WriteHandler
  <2>. QED
    BY <1>4, <2>1, <2>2, <2>3, <2>4, <2>5, <2>6, <2>7, <2>8 DEF Ioc
<1>5. CASE Kernel
  <2>1. ASSUME NEW ec \in BOOLEAN, receive_completes(ec) PROVE TypeOK'
    BY <2>1 DEF receive_completes, HandleReceive, ReadHandler
  <2>2. CASE send_completes
    BY <2>2 DEF send_completes, WriteHandler
  <2>. QED
    BY <1>5, <2>1, <2>2 DEF Kernel
<1>6. CASE Worker
  <2>1. CASE worker_check
    BY <2>1 DEF worker_check
  <2>2. CASE packet_to_event_loop_empty
    BY <2>2 DEF packet_to_event_loop_empty
  <2>3. CASE packet_to_event_loop_front
    BY <2>3 DEF packet_to_event_loop_front, TakesTheFront
  <2>4. CASE packet_to_event_loop_pop
    BY <2>4 DEF packet_to_event_loop_pop, TakesTheFront
  <2>7. CASE packet_to_event_loop_call
    BY <2>7 DEF packet_to_event_loop_call
  <2>5. CASE on_packet_received
    <3>1. packet \in Packet
      BY <2>5 DEF on_packet_received, LifeCycle, Delivering
    <3>2. tx' \in Seq(Packet)
      BY <2>5, <3>1, <1>d DEF on_packet_received, Fresh
    <3>3. reply' \in Packet \cup {NoPacket}
      BY <2>5 DEF on_packet_received
    <3>4. owner' \in OwnerPC /\ worker' \in WorkerPC
      BY <2>5 DEF on_packet_received
    <3>. QED
      BY <2>5, <3>2, <3>3, <3>4 DEF on_packet_received
  <2>6. CASE packet_to_event_loop_return
    BY <2>6 DEF packet_to_event_loop_return
  <2>. QED
    BY <1>6, <2>1, <2>2, <2>3, <2>4, <2>5, <2>6, <2>7 DEF Worker
<1>7. CASE UNCHANGED vars
  BY <1>7 DEF vars
<1>. QED
  BY <1>1, <1>2, <1>3, <1>4, <1>5, <1>6, <1>7 DEF Next, Terminating

\* The steps that move a receive along; every other step leaves the read strand
\* and the outstanding receive alone and does not start the io thread.
LEMMA ReadFrame ==
  ASSUME [Next]_vars
  PROVE  \/ construct_post \/ construct_ioc_worker
         \/ do_receive \/ handle_receive
         \/ \E ec \in BOOLEAN : receive_completes(ec)
         \/ /\ UNCHANGED <<readStrand, receiveOps>>
            /\ ioc' # "none" => ioc # "none"
<1>. USE DEF ownerVars, readVars, writeVars, iocVars, workerVars
<1>1. CASE Construct
  BY <1>1 DEF Construct, construct_members, construct_packet_worker,
              construct_derived
<1>2. CASE Use
  BY <1>2 DEF Use, set_running, send, send_return
<1>3. CASE Destroy
  BY <1>3 DEF Destroy, destroy_derived, destroy_stop, destroy_join_ioc,
              destroy_clear_running, destroy_join_worker
<1>4. CASE Ioc
  BY <1>4 DEF Ioc, run_return, do_send_empty, do_send_front, do_send_pop,
              do_send_async, handle_send, TakesWrite
<1>5. CASE Kernel
  BY <1>5 DEF Kernel, send_completes
<1>6. CASE Worker
  BY <1>6 DEF Worker, worker_check, packet_to_event_loop_empty,
              packet_to_event_loop_front, packet_to_event_loop_pop,
              packet_to_event_loop_call, on_packet_received,
              packet_to_event_loop_return
<1>7. CASE UNCHANGED vars
  BY <1>7 DEF vars
<1>. QED
  BY <1>1, <1>2, <1>3, <1>4, <1>5, <1>6, <1>7 DEF Next, Terminating

\* The same for the steps that move a send along.
LEMMA WriteFrame ==
  ASSUME [Next]_vars
  PROVE  \/ construct_post \/ construct_ioc_worker
         \/ do_send_empty \/ do_send_front \/ do_send_pop \/ do_send_async
         \/ handle_send \/ send_completes \/ run_return
         \/ UNCHANGED <<writeStrand, sendOps, ioc>>
<1>. USE DEF ownerVars, readVars, writeVars, iocVars, workerVars
<1>1. CASE Construct
  BY <1>1 DEF Construct, construct_members, construct_packet_worker,
              construct_derived
<1>2. CASE Use
  BY <1>2 DEF Use, set_running, send, send_return
<1>3. CASE Destroy
  BY <1>3 DEF Destroy, destroy_derived, destroy_stop, destroy_join_ioc,
              destroy_clear_running, destroy_join_worker
<1>4. CASE Ioc
  BY <1>4 DEF Ioc, do_receive, handle_receive
<1>5. CASE Kernel
  BY <1>5 DEF Kernel, receive_completes
<1>6. CASE Worker
  BY <1>6 DEF Worker, worker_check, packet_to_event_loop_empty,
              packet_to_event_loop_front, packet_to_event_loop_pop,
              packet_to_event_loop_call, on_packet_received,
              packet_to_event_loop_return
<1>7. CASE UNCHANGED vars
  BY <1>7 DEF vars
<1>. QED
  BY <1>1, <1>2, <1>3, <1>4, <1>5, <1>6, <1>7 DEF Next, Terminating

\* Every step of the read chain takes one receive from one place and puts one
\* into another.
LEMMA ReceivesStep ==
  ASSUME TypeOK,
         do_receive \/ handle_receive
           \/ \E ec \in BOOLEAN : receive_completes(ec)
  PROVE  Receives' = Receives
<1>. USE DEF TypeOK, Receives, readVars
<1>a. /\ Len(readStrand) \in Nat /\ Len(receiveOps) \in Nat
      /\ readStrand # <<>> => /\ Tail(readStrand) \in Seq(ReadHandler)
                              /\ Len(Tail(readStrand)) = Len(readStrand) - 1
      /\ receiveOps # <<>> => Len(Tail(receiveOps)) = Len(receiveOps) - 1
  BY HeadTailProperties, LenProperties
<1>1. CASE do_receive
  <2>1. PICK p \in Packet : receiveOps' = Append(receiveOps, p)
    BY <1>1 DEF do_receive
  <2>2. Len(receiveOps') = Len(receiveOps) + 1
    BY <2>1, AppendProperties
  <2>. QED
    BY <1>1, <1>a, <2>2 DEF do_receive, TakesRead
<1>2. CASE handle_receive
  <2>1. DoReceive \in ReadHandler /\ readStrand # <<>>
    BY <1>2 DEF handle_receive, TakesRead, ReadHandler
  <2>2. Len(readStrand') = Len(Tail(readStrand)) + 1
    BY <1>2, <1>a, <2>1, AppendProperties DEF handle_receive
  <2>. QED
    BY <1>2, <1>a, <2>1, <2>2 DEF handle_receive
<1>3. ASSUME NEW ec \in BOOLEAN, receive_completes(ec)
      PROVE  Receives' = Receives
  <2>1. Head(receiveOps) \in Packet /\ receiveOps # <<>>
    BY <1>3, HeadTailProperties DEF receive_completes
  <2>2. HandleReceive(Head(receiveOps), ec) \in ReadHandler
    BY <2>1 DEF HandleReceive, ReadHandler
  <2>3. Len(readStrand') = Len(readStrand) + 1
    BY <1>3, <2>2, AppendProperties DEF receive_completes
  <2>. QED
    BY <1>3, <1>a, <2>1, <2>3 DEF receive_completes
<1>. QED
  BY <1>1, <1>2, <1>3

\* The same for the write chain, whose token is also held inside do_send.
LEMMA SendsStep ==
  ASSUME TypeOK, LifeCycle,
         \/ do_send_empty \/ do_send_front \/ do_send_pop \/ do_send_async
         \/ handle_send \/ send_completes
  PROVE  Sends' = Sends
<1>. USE DEF TypeOK, Sends, InDoSend, writeVars
<1>a. /\ Len(writeStrand) \in Nat /\ Len(sendOps) \in Nat
      /\ writeStrand # <<>> =>
           /\ Tail(writeStrand) \in Seq(WriteHandler)
           /\ Len(Tail(writeStrand)) = Len(writeStrand) - 1
      /\ sendOps # <<>> => Len(Tail(sendOps)) = Len(sendOps) - 1
  BY HeadTailProperties, LenProperties
<1>b. \A s \in Seq(WriteHandler) : \A h \in WriteHandler :
        Len(Append(s, h)) = Len(s) + 1
  BY AppendProperties
<1>c. "do_send" \in WriteHandler /\ "handle_send" \in WriteHandler
  BY DEF WriteHandler
<1>1. CASE do_send_empty
  <2>1. CASE tx = <<>>
    <3>1. /\ writeStrand # <<>> /\ UNCHANGED <<ioc, sendOps>>
          /\ writeStrand' = Append(Tail(writeStrand), "do_send")
      BY <1>1, <2>1 DEF do_send_empty, TakesWrite
    <3>2. Len(writeStrand') = Len(writeStrand)
      BY <3>1, <1>a, <1>b, <1>c
    <3>. QED
      BY <3>1, <3>2
  <2>2. CASE tx # <<>>
    BY <1>1, <2>2, <1>a DEF do_send_empty, TakesWrite
  <2>. QED
    BY <2>1, <2>2
<1>2. CASE do_send_front
  BY <1>2 DEF do_send_front
<1>3. CASE do_send_pop
  BY <1>3 DEF do_send_pop
<1>4. CASE do_send_async
  <2>1. CASE writeStrand' = Append(writeStrand, "handle_send")
             /\ UNCHANGED sendOps
    BY <1>4, <2>1, <1>a, <1>b, <1>c DEF do_send_async
  <2>2. CASE sendOps' = Append(sendOps, sendPacket) /\ UNCHANGED writeStrand
    <3>1. sendPacket \in Packet
      BY <1>4 DEF do_send_async, LifeCycle
    <3>2. Len(sendOps') = Len(sendOps) + 1
      BY <2>2, <3>1, AppendProperties
    <3>. QED
      BY <1>4, <2>2, <3>2, <1>a DEF do_send_async
  <2>. QED
    BY <1>4, <2>1, <2>2 DEF do_send_async
<1>5. CASE handle_send
  BY <1>5, <1>a, <1>b, <1>c DEF handle_send, TakesWrite, iocVars
<1>6. CASE send_completes
  BY <1>6, <1>a, <1>b, <1>c DEF send_completes, iocVars
<1>. QED
  BY <1>1, <1>2, <1>3, <1>4, <1>5, <1>6

\* There is always exactly one receive.
LEMMA ReceiveChainStep ==
  ASSUME IInv, [Next]_vars
  PROVE  ReceiveChain'
<1>. USE DEF IInv, ReceiveChain
<1>1. CASE construct_post
  <2>1. readStrand = <<>> /\ receiveOps = <<>> /\ ioc = "none"
    <3>1. Len(readStrand) \in Nat /\ Len(receiveOps) \in Nat
      BY LenProperties DEF TypeOK
    <3>2. Len(readStrand) = 0 /\ Len(receiveOps) = 0
      BY <1>1, <3>1 DEF construct_post, LifeCycle, Receives
    <3>. QED
      BY <1>1, <3>2, EmptySeq DEF construct_post, LifeCycle, TypeOK
  <2>2. CASE UNCHANGED readStrand
    BY <1>1, <2>1, <2>2 DEF construct_post, Receives, iocVars
  <2>3. CASE readStrand' = Append(readStrand, DoReceive)
    <3>1. readStrand' = <<DoReceive>>
      BY <2>1, <2>3
    <3>. QED
      BY <1>1, <2>1, <3>1 DEF construct_post, Receives, iocVars
  <2>. QED
    BY <1>1, <2>2, <2>3 DEF construct_post
<1>2. CASE construct_ioc_worker
  BY <1>2 DEF construct_ioc_worker, readVars, LifeCycle, Receives
<1>3. CASE do_receive \/ handle_receive
             \/ \E ec \in BOOLEAN : receive_completes(ec)
  <2>1. Receives' = Receives
    BY <1>3, ReceivesStep
  <2>2. ioc' = ioc
    BY <1>3 DEF do_receive, handle_receive, receive_completes, iocVars
  <2>. QED
    BY <2>1, <2>2
<1>4. CASE UNCHANGED <<readStrand, receiveOps>>
             /\ (ioc' # "none" => ioc # "none")
  BY <1>4 DEF Receives
<1>. QED
  BY <1>1, <1>2, <1>3, <1>4, ReadFrame

\* There is always exactly one send.
LEMMA SendChainStep ==
  ASSUME IInv, [Next]_vars
  PROVE  SendChain'
<1>. USE DEF IInv, SendChain
<1>1. CASE construct_post
  <2>1. /\ writeStrand = <<>> /\ sendOps = <<>> /\ ioc = "none"
    <3>1. Len(writeStrand) \in Nat /\ Len(sendOps) \in Nat
      BY LenProperties DEF TypeOK
    <3>2. Len(writeStrand) = 0 /\ Len(sendOps) = 0
      BY <1>1, <3>1 DEF construct_post, LifeCycle, Sends
    <3>. QED
      BY <1>1, <3>2, EmptySeq DEF construct_post, LifeCycle, TypeOK
  <2>2. CASE UNCHANGED writeStrand
    BY <1>1, <2>1, <2>2 DEF construct_post, Sends, InDoSend, iocVars
  <2>3. CASE writeStrand' = Append(writeStrand, "do_send")
    <3>1. writeStrand' = <<"do_send">>
      BY <2>1, <2>3
    <3>. QED
      BY <1>1, <2>1, <3>1 DEF construct_post, Sends, InDoSend, iocVars
  <2>. QED
    BY <1>1, <2>2, <2>3 DEF construct_post
<1>2. CASE construct_ioc_worker
  BY <1>2 DEF construct_ioc_worker, writeVars, LifeCycle, Sends, InDoSend
<1>3. CASE \/ do_send_empty \/ do_send_front \/ do_send_pop \/ do_send_async
           \/ handle_send \/ send_completes
  <2>1. Sends' = Sends
    BY <1>3, SendsStep
  <2>2. ioc' # "none" => ioc # "none"
    BY <1>3 DEF do_send_empty, do_send_front, do_send_pop, do_send_async,
                handle_send, send_completes, TakesWrite, iocVars
  <2>. QED
    BY <2>1, <2>2
<1>4. CASE run_return
  BY <1>4 DEF run_return, writeVars, Sends, InDoSend
<1>5. CASE UNCHANGED <<writeStrand, sendOps, ioc>>
  BY <1>5 DEF Sends
<1>. QED
  BY <1>1, <1>2, <1>3, <1>4, <1>5, WriteFrame

\* How the owner and the two threads move.
LEMMA ControlFrame ==
  ASSUME [Next]_vars
  PROVE  /\ owner' \in {"members", "post", "failed"} =>
              /\ owner \in {"members", "post", "failed"}
              /\ ioc = "none" => ioc' = "none"
         /\ owner' = "start_ioc" =>
              \/ construct_post
              \/ owner = "start_ioc" /\ (ioc = "none" => ioc' = "none")
         /\ owner' \in {"clear_running", "join_worker"} =>
              /\ owner \in {"clear_running", "join_worker"} \/ ioc = "exited"
              /\ ioc = "exited" => ioc' = "exited"
         /\ owner' = "destroyed" =>
              \/ owner = "destroyed" /\ UNCHANGED vars
              \/ /\ owner = "join_worker" /\ worker = "exited"
                 /\ UNCHANGED <<ioc, worker>>
         /\ stopped => stopped'
<1>. USE DEF ownerVars, readVars, writeVars, iocVars, workerVars
<1>1. CASE owner \notin Final /\ Construct
  BY <1>1 DEF Construct, construct_members, construct_post, construct_ioc_worker,
              construct_packet_worker, construct_derived, Final
<1>2. CASE owner \notin Final /\ Use
  BY <1>2 DEF Use, set_running, send, send_return, Final
<1>3. CASE owner \notin Final /\ Destroy
  BY <1>3 DEF Destroy, destroy_derived, destroy_stop, destroy_join_ioc,
              destroy_clear_running, destroy_join_worker, Final
<1>4. CASE owner \notin Final /\ Ioc
  BY <1>4 DEF Ioc, run_return, do_receive, handle_receive, do_send_empty,
              do_send_front, do_send_pop, do_send_async, handle_send,
              TakesRead, TakesWrite, Final
<1>5. CASE owner \notin Final /\ Kernel
  BY <1>5 DEF Kernel, receive_completes, send_completes, Final
<1>6. CASE owner \notin Final /\ Worker
  BY <1>6 DEF Worker, worker_check, packet_to_event_loop_empty,
              packet_to_event_loop_front, packet_to_event_loop_pop,
              packet_to_event_loop_call, on_packet_received,
              packet_to_event_loop_return, Final
<1>7. CASE UNCHANGED vars
  BY <1>7 DEF vars
<1>. QED
  BY <1>1, <1>2, <1>3, <1>4, <1>5, <1>6, <1>7 DEF Next, Terminating

\* Which steps touch a thread's variables or a deque.
LEMMA ThreadFrame ==
  ASSUME [Next]_vars
  PROVE  /\ \/ construct_packet_worker \/ Worker
            \/ UNCHANGED <<worker, packet, reply>>
         /\ \/ construct_ioc_worker \/ Ioc
            \/ UNCHANGED <<ioc, sendPacket>>
         /\ handle_receive \/ packet_to_event_loop_pop \/ UNCHANGED rx
         /\ \/ \E p \in Packet : send(p)
            \/ on_packet_received \/ do_send_pop \/ UNCHANGED tx
<1>. USE DEF ownerVars, readVars, writeVars, iocVars, workerVars
<1>1. CASE Construct
  BY <1>1 DEF Construct, construct_members, construct_post,
              construct_ioc_worker, construct_packet_worker, construct_derived
<1>2. CASE Use
  BY <1>2 DEF Use, set_running, send, send_return
<1>3. CASE Destroy
  BY <1>3 DEF Destroy, destroy_derived, destroy_stop, destroy_join_ioc,
              destroy_clear_running, destroy_join_worker
<1>4. CASE Ioc
  BY <1>4 DEF Ioc, run_return, do_receive, handle_receive, do_send_empty,
              do_send_front, do_send_pop, do_send_async, handle_send
<1>5. CASE Kernel
  BY <1>5 DEF Kernel, receive_completes, send_completes
<1>6. CASE Worker
  BY <1>6 DEF Worker, worker_check, packet_to_event_loop_empty,
              packet_to_event_loop_front, packet_to_event_loop_pop,
              packet_to_event_loop_call, on_packet_received,
              packet_to_event_loop_return
<1>7. CASE UNCHANGED vars
  BY <1>7 DEF vars
<1>. QED
  BY <1>1, <1>2, <1>3, <1>4, <1>5, <1>6, <1>7 DEF Next, Terminating

\* The owner's progress says which chains and threads exist, and a thread
\* beyond front() holds a packet.
LEMMA LifeCycleStep ==
  ASSUME IInv, [Next]_vars
  PROVE  LifeCycle'
<1>. USE DEF IInv, LifeCycle
<1>1. owner' \in {"members", "post", "failed"} =>
        Receives' = 0 /\ Sends' = 0 /\ ioc' = "none"
  <2>. SUFFICES ASSUME owner' \in {"members", "post", "failed"}
                PROVE  Receives' = 0 /\ Sends' = 0 /\ ioc' = "none"
    OBVIOUS
  <2>1. /\ owner \in {"members", "post", "failed"}
        /\ Receives = 0 /\ Sends = 0 /\ ioc = "none" /\ ioc' = "none"
    BY ControlFrame
  <2>2. Receives' = 0
    BY <2>1, ReadFrame, ReceivesStep
       DEF construct_post, construct_ioc_worker, Receives
  <2>3. Sends' = 0
    BY <2>1, WriteFrame, SendsStep
       DEF construct_post, construct_ioc_worker, run_return, Sends
  <2>. QED
    BY <2>1, <2>2, <2>3
<1>2. owner' = "start_ioc" => Receives' = 1 /\ Sends' = 1 /\ ioc' = "none"
  <2>. SUFFICES ASSUME owner' = "start_ioc"
                PROVE  Receives' = 1 /\ Sends' = 1 /\ ioc' = "none"
    OBVIOUS
  <2>1. CASE construct_post
    <3>1. /\ readStrand = <<>> /\ receiveOps = <<>>
          /\ writeStrand = <<>> /\ sendOps = <<>> /\ ioc = "none"
      <4>1. /\ Len(readStrand) \in Nat /\ Len(receiveOps) \in Nat
            /\ Len(writeStrand) \in Nat /\ Len(sendOps) \in Nat
        BY LenProperties DEF TypeOK
      <4>2. /\ Len(readStrand) = 0 /\ Len(receiveOps) = 0
            /\ Len(writeStrand) = 0 /\ Len(sendOps) = 0 /\ ioc = "none"
        BY <2>1, <4>1 DEF construct_post, Receives, Sends, InDoSend
      <4>. QED
        BY <4>2, EmptySeq DEF TypeOK
    <3>2. /\ readStrand' = <<DoReceive>> /\ receiveOps' = <<>>
          /\ writeStrand' = <<"do_send">> /\ sendOps' = <<>> /\ ioc' = "none"
      BY <2>1, <3>1 DEF construct_post, iocVars
    <3>. QED
      BY <3>2 DEF Receives, Sends, InDoSend
  <2>2. CASE ~construct_post
    <3>1. owner = "start_ioc" /\ ioc = "none" /\ ioc' = "none"
      BY <2>2, ControlFrame
    <3>2. Receives' = 1
      BY <2>2, <3>1, ReadFrame, ReceivesStep
         DEF construct_ioc_worker, readVars, Receives
    <3>3. Sends' = 1
      BY <2>2, <3>1, WriteFrame, SendsStep
         DEF construct_ioc_worker, run_return, writeVars, Sends
    <3>. QED
      BY <3>1, <3>2, <3>3
  <2>. QED
    BY <2>1, <2>2
<1>3. owner' \in {"clear_running", "join_worker"} => ioc' = "exited"
  BY ControlFrame
<1>4. worker' \in {"pop"} \cup Delivering => packet' \in Packet
  <2>1. CASE Worker
    BY <2>1, HeadTailProperties
       DEF Worker, worker_check, packet_to_event_loop_empty,
           packet_to_event_loop_front, packet_to_event_loop_pop,
           packet_to_event_loop_call, on_packet_received,
           packet_to_event_loop_return, TakesTheFront, TypeOK, Delivering
  <2>2. CASE construct_packet_worker
    BY <2>2 DEF construct_packet_worker, Delivering
  <2>. QED
    BY <2>1, <2>2, ThreadFrame
<1>5. ioc' \in {"send_pop", "send_async"} => sendPacket' \in Packet
  <2>1. CASE Ioc
    BY <2>1, HeadTailProperties
       DEF Ioc, run_return, do_receive, handle_receive, do_send_empty,
           do_send_front, do_send_pop, do_send_async, handle_send, TakesRead,
           TakesWrite, TakesTheFront, TypeOK, iocVars
  <2>2. CASE construct_ioc_worker
    BY <2>2 DEF construct_ioc_worker
  <2>. QED
    BY <2>1, <2>2, ThreadFrame
<1>. QED
  BY <1>1, <1>2, <1>3, <1>4, <1>5

\* Between empty() and pop_front() only the other side touches the deque, and
\* it appends.
LEMMA TakesTheFrontStep ==
  ASSUME IInv, TypeOK', [Next]_vars
  PROVE  TakesTheFront'
<1>. USE DEF IInv, TakesTheFront, TypeOK
<1>a. \A s \in Seq(Packet) : \A p \in Packet :
        /\ Append(s, p) # <<>>
        /\ s # <<>> => Head(Append(s, p)) = Head(s)
  <2>. SUFFICES ASSUME NEW s \in Seq(Packet), NEW p \in Packet
                PROVE  /\ Append(s, p) # <<>>
                       /\ s # <<>> => Head(Append(s, p)) = Head(s)
    OBVIOUS
  <2>1. Append(s, p) # <<>>
    BY AppendProperties
  <2>2. s # <<>> => Head(Append(s, p)) = Head(s)
    BY RangeOfAppend
  <2>. QED
    BY <2>1, <2>2
<1>1. worker' \in {"front", "pop"} => rx' # <<>>
  <2>1. CASE handle_receive
    <3>1. rx' = rx \/ rx' # <<>>
      <4>1. Head(readStrand) \in ReadHandler
        BY <2>1, HeadTailProperties DEF handle_receive, TakesRead
      <4>2. Head(readStrand).packet \in Packet
        BY <2>1, <4>1 DEF handle_receive, TakesRead, ReadHandler, DoReceive
      <4>. QED
        BY <2>1, <4>2, <1>a DEF handle_receive
    <3>. QED
      BY <2>1, <3>1 DEF handle_receive, workerVars
  <2>2. CASE packet_to_event_loop_pop
    BY <2>2 DEF packet_to_event_loop_pop
  <2>3. CASE UNCHANGED rx
    <3>1. CASE Worker
      BY <2>3, <3>1
         DEF Worker, worker_check, packet_to_event_loop_empty,
             packet_to_event_loop_front, packet_to_event_loop_pop,
             packet_to_event_loop_call, on_packet_received,
              packet_to_event_loop_return
    <3>2. CASE construct_packet_worker
      BY <3>2 DEF construct_packet_worker
    <3>. QED
      BY <2>3, <3>1, <3>2, ThreadFrame
  <2>. QED
    BY <2>1, <2>2, <2>3, ThreadFrame
<1>2. worker' = "pop" => packet' = Head(rx')
  <2>1. CASE handle_receive
    <3>1. worker = "pop" => Head(rx') = Head(rx)
      <4>1. Head(readStrand) \in ReadHandler
        BY <2>1, HeadTailProperties DEF handle_receive, TakesRead
      <4>2. Head(readStrand).packet \in Packet
        BY <2>1, <4>1 DEF handle_receive, TakesRead, ReadHandler, DoReceive
      <4>. QED
        BY <2>1, <4>2, <1>a DEF handle_receive
    <3>. QED
      BY <2>1, <3>1 DEF handle_receive, workerVars
  <2>2. CASE packet_to_event_loop_pop
    BY <2>2 DEF packet_to_event_loop_pop
  <2>3. CASE UNCHANGED rx
    <3>1. CASE Worker
      BY <2>3, <3>1
         DEF Worker, worker_check, packet_to_event_loop_empty,
             packet_to_event_loop_front, packet_to_event_loop_pop,
             packet_to_event_loop_call, on_packet_received,
              packet_to_event_loop_return
    <3>2. CASE construct_packet_worker
      BY <3>2 DEF construct_packet_worker
    <3>. QED
      BY <2>3, <3>1, <3>2, ThreadFrame
  <2>. QED
    BY <2>1, <2>2, <2>3, ThreadFrame
<1>3. /\ ioc' \in {"send_front", "send_pop"} => tx' # <<>>
      /\ ioc' = "send_pop" => sendPacket' = Head(tx')
  <2>1. CASE \E p \in Packet : tx' = Append(tx, p)
                                 /\ UNCHANGED <<ioc, sendPacket>>
    BY <2>1, <1>a
  <2>2. CASE do_send_pop
    BY <2>2 DEF do_send_pop
  <2>3. CASE UNCHANGED tx
    <3>1. CASE Ioc
      BY <2>3, <3>1
         DEF Ioc, run_return, do_receive, handle_receive, do_send_empty,
             do_send_front, do_send_pop, do_send_async, handle_send, TakesRead,
             TakesWrite, iocVars
    <3>2. CASE construct_ioc_worker
      BY <3>2 DEF construct_ioc_worker
    <3>. QED
      BY <2>3, <3>1, <3>2, ThreadFrame
  <2>4. CASE \E p \in Packet : send(p)
    BY <2>4, <2>1 DEF send, iocVars
  <2>5. CASE on_packet_received
    <3>1. packet \in Packet
      BY <2>5 DEF on_packet_received, LifeCycle, Delivering
    <3>. QED
      BY <2>5, <3>1, <2>1, <2>3 DEF on_packet_received, iocVars
  <2>. QED
    BY <2>2, <2>3, <2>4, <2>5, ThreadFrame
<1>. QED
  BY <1>1, <1>2, <1>3

\* run() comes back only if the context was stopped: while the read chain has
\* its receive there is work.
LEMMA RunsUntilStoppedStep ==
  ASSUME IInv, [Next]_vars
  PROVE  RunsUntilStopped'
<1>. USE DEF IInv, RunsUntilStopped
<1>1. CASE run_return
  <2>1. ~NoWork
    <3>1. Receives = 1
      BY <1>1 DEF run_return, ReceiveChain
    <3>. QED
      BY <3>1, EmptySeq DEF NoWork, Receives
  <2>. QED
    BY <1>1, <2>1 DEF run_return, ownerVars
<1>2. CASE ~run_return
  <2>1. ioc' = "exited" => ioc = "exited"
    BY <1>2, ThreadFrame
       DEF Ioc, construct_ioc_worker, do_receive, handle_receive,
           do_send_empty, do_send_front, do_send_pop, do_send_async,
           handle_send, TakesWrite, iocVars
  <2>. QED
    BY <2>1, ControlFrame
<1>. QED
  BY <1>1, <1>2

\* The owner joins both threads before it is done.
LEMMA DestructionStep ==
  ASSUME IInv, [Next]_vars
  PROVE  QuietAfterDestruction'
BY ControlFrame DEF IInv, QuietAfterDestruction, LifeCycle, vars, iocVars,
                    workerVars

\* The read strand and the outstanding receive exclude each other.
LEMMA OneReceive ==
  ASSUME TypeOK, ReceiveChain
  PROVE  /\ readStrand # <<>> =>
              receiveOps = <<>> /\ readStrand = <<Head(readStrand)>>
         /\ receiveOps # <<>> =>
              readStrand = <<>> /\ receiveOps = <<Head(receiveOps)>>
<1>1. /\ Len(readStrand) \in Nat /\ Len(receiveOps) \in Nat
      /\ readStrand # <<>> => Len(readStrand) # 0
      /\ receiveOps # <<>> => Len(receiveOps) # 0
  BY LenProperties, EmptySeq DEF TypeOK
<1>2. /\ Len(readStrand) # 0 => Len(readStrand) = 1 /\ Len(receiveOps) = 0
      /\ Len(receiveOps) # 0 => Len(receiveOps) = 1 /\ Len(readStrand) = 0
  <2>1. Len(readStrand) + Len(receiveOps) <= 1
    BY DEF ReceiveChain, Receives
  <2>2. ASSUME NEW m \in Nat, NEW n \in Nat, m + n <= 1
        PROVE  /\ m # 0 => m = 1 /\ n = 0
               /\ n # 0 => n = 1 /\ m = 0
    BY <2>2
  <2>. QED
    BY <1>1, <2>1, <2>2
<1>3. ASSUME NEW S, NEW s \in Seq(S), Len(s) = 1
      PROVE  s = <<Head(s)>>
  BY <1>3
<1>4. /\ Len(readStrand) = 0 => readStrand = <<>>
      /\ Len(receiveOps) = 0 => receiveOps = <<>>
  BY EmptySeq DEF TypeOK
<1>. QED
  BY <1>1, <1>2, <1>3, <1>4 DEF TypeOK

\* Nothing reaches the packet of the outstanding receive: a new packet is one
\* nobody references, and the packet is handed on only when the receive is over.
LEMMA ReceiveBufferExclusiveStep ==
  ASSUME IInv, TypeOK', [Next]_vars
  PROVE  ReceiveBufferExclusive'
<1>. DEFINE Held == Range(rx) \cup Range(tx)
                      \cup {sendPacket, packet, reply, ownerPacket}
<1>. USE DEF IInv, TypeOK
<1>a. ReceiveBufferExclusive <=> \A p \in Range(receiveOps) : p \notin Held
  BY DEF ReceiveBufferExclusive, Range
<1>b. ReceiveBufferExclusive' <=> \A p \in Range(receiveOps') : p \notin Held'
  BY DEF ReceiveBufferExclusive, Range
<1>c. Range(receiveOps) \subseteq Packet
  BY RangeOfSeq
<1>d. receiveOps = <<>> => Range(receiveOps) = {}
  BY DEF Range
<1>1. CASE do_receive
  <2>1. PICK p \in Packet : Fresh(p) /\ receiveOps' = Append(receiveOps, p)
    BY <1>1 DEF do_receive
  <2>2. Range(receiveOps') = Range(receiveOps) \cup {p}
    BY <2>1, RangeOfAppend
  <2>3. p \notin Held
    BY <2>1 DEF Fresh, Referenced
  <2>4. Held' = Held
    BY <1>1 DEF do_receive, ownerVars, iocVars, workerVars
  <2>. QED
    BY <1>a, <1>b, <2>2, <2>3, <2>4
<1>2. CASE handle_receive
  <2>1. receiveOps' = <<>>
    BY <1>2, OneReceive DEF handle_receive, TakesRead
  <2>. QED
    BY <1>b, <2>1 DEF Range
<1>3. ASSUME NEW ec \in BOOLEAN, receive_completes(ec)
      PROVE  ReceiveBufferExclusive'
  <2>1. receiveOps = <<Head(receiveOps)>> /\ receiveOps' = Tail(receiveOps)
    BY <1>3, OneReceive DEF receive_completes
  <2>2. receiveOps' = <<>>
    <3>1. \A p : Tail(<<p>>) = <<>>
      OBVIOUS
    <3>. HIDE DEF TypeOK, IInv
    <3>2. receiveOps' = Tail(<<Head(receiveOps)>>)
      BY <2>1, Zenon
    <3>. QED
      BY <3>1, <3>2
  <2>. QED
    BY <1>b, <2>2 DEF Range
<1>4. ASSUME UNCHANGED receiveOps,
             Held' \cap Range(receiveOps) \subseteq Held
      PROVE  ReceiveBufferExclusive'
  BY <1>4, <1>a, <1>b
<1>5. ASSUME Held' = Held, UNCHANGED receiveOps
      PROVE  ReceiveBufferExclusive'
  BY <1>5, <1>a, <1>b
<1>6. CASE Construct
  <2>1. Held' = Held /\ UNCHANGED receiveOps
    BY <1>6 DEF Construct, construct_members, construct_post,
                construct_ioc_worker, construct_packet_worker,
                construct_derived, readVars, iocVars, workerVars
  <2>. QED
    BY <2>1, <1>5
<1>7. CASE Use
  <2>1. ASSUME NEW p \in Packet, send(p)
        PROVE  ReceiveBufferExclusive'
    <3>1. Range(tx') = Range(tx) \cup {p} /\ ownerPacket' = p
      BY <2>1, RangeOfAppend DEF send
    <3>2. p \notin Range(receiveOps)
      BY <2>1 DEF send, Fresh, Referenced
    <3>3. /\ UNCHANGED receiveOps
          /\ Held' \subseteq Held \cup {p}
      BY <2>1, <3>1 DEF send, readVars, iocVars, workerVars
    <3>. QED
      BY <3>2, <3>3, <1>4
  <2>2. CASE send_return
    <3>1. UNCHANGED receiveOps /\ Held' \subseteq Held \cup {NoPacket}
      BY <2>2 DEF send_return, readVars, iocVars, workerVars
    <3>. QED
      BY <3>1, <1>c, <1>4, NoPacketAssumption
  <2>3. ASSUME NEW b \in BOOLEAN, set_running(b)
        PROVE  ReceiveBufferExclusive'
    <3>1. Held' = Held /\ UNCHANGED receiveOps
      BY <2>3 DEF set_running, readVars, iocVars, workerVars
    <3>. QED
      BY <3>1, <1>5
  <2>. QED
    BY <1>7, <2>1, <2>2, <2>3 DEF Use
<1>8. CASE Destroy
  <2>1. Held' = Held /\ UNCHANGED receiveOps
    BY <1>8 DEF Destroy, destroy_derived, destroy_stop, destroy_join_ioc,
                destroy_clear_running, destroy_join_worker, readVars, iocVars,
                workerVars
  <2>. QED
    BY <2>1, <1>5
<1>9. CASE run_return \/ do_send_empty \/ handle_send \/ send_completes
  <2>1. Held' = Held /\ UNCHANGED receiveOps
    BY <1>9 DEF run_return, do_send_empty, handle_send, send_completes,
                ownerVars, readVars, iocVars, workerVars
  <2>. QED
    BY <2>1, <1>5
<1>10. CASE do_send_front
  <2>1. Head(tx) \in Range(tx)
    BY <1>10, RangeOfTail DEF do_send_front, TakesTheFront
  <2>2. UNCHANGED receiveOps /\ Held' \subseteq Held
    BY <1>10, <2>1 DEF do_send_front, ownerVars, readVars, workerVars
  <2>. QED
    BY <2>2, <1>4
<1>11. CASE do_send_pop
  <2>1. Range(Tail(tx)) \subseteq Range(tx)
    BY <1>11, RangeOfTail DEF do_send_pop, TakesTheFront
  <2>2. UNCHANGED receiveOps /\ Held' \subseteq Held
    BY <1>11, <2>1 DEF do_send_pop, ownerVars, readVars, workerVars
  <2>. QED
    BY <2>2, <1>4
<1>12. CASE do_send_async
  <2>1. UNCHANGED receiveOps /\ Held' \subseteq Held \cup {NoPacket}
    BY <1>12 DEF do_send_async, ownerVars, readVars, workerVars
  <2>. QED
    BY <2>1, <1>c, <1>4, NoPacketAssumption
<1>13. CASE Worker
  <2>1. CASE worker_check \/ packet_to_event_loop_empty
    <3>1. Held' = Held /\ UNCHANGED receiveOps
      BY <2>1 DEF worker_check, packet_to_event_loop_empty, ownerVars,
                  readVars, iocVars
    <3>. QED
      BY <3>1, <1>5
  <2>2. CASE packet_to_event_loop_front
    <3>1. Head(rx) \in Range(rx)
      BY <2>2, RangeOfTail DEF packet_to_event_loop_front, TakesTheFront
    <3>2. UNCHANGED receiveOps /\ Held' \subseteq Held
      BY <2>2, <3>1 DEF packet_to_event_loop_front, ownerVars, readVars,
                        iocVars
    <3>. QED
      BY <3>2, <1>4
  <2>3. CASE packet_to_event_loop_pop
    <3>1. Range(Tail(rx)) \subseteq Range(rx)
      BY <2>3, RangeOfTail DEF packet_to_event_loop_pop, TakesTheFront
    <3>2. UNCHANGED receiveOps /\ Held' \subseteq Held
      BY <2>3, <3>1 DEF packet_to_event_loop_pop, ownerVars, readVars, iocVars
    <3>. QED
      BY <3>2, <1>4
  <2>4. CASE on_packet_received
    <3>1. packet \in Packet
      BY <2>4 DEF on_packet_received, LifeCycle, Delivering
    <3>2. \A p \in Packet : Range(Append(tx, p)) = Range(tx) \cup {p}
      BY RangeOfAppend
    <3>3. UNCHANGED <<receiveOps, rx, sendPacket, packet, ownerPacket>>
      BY <2>4 DEF on_packet_received, readVars, iocVars
    <3>4. CASE UNCHANGED <<tx, reply>>
      BY <3>3, <3>4, <1>5
    <3>5. CASE tx' = Append(tx, packet) /\ UNCHANGED reply
      <4>1. Range(tx') = Range(tx) \cup {packet}
        BY <3>1, <3>2, <3>5
      <4>. QED
        BY <3>3, <3>5, <4>1, <1>4
    <3>6. ASSUME NEW p \in Packet, Fresh(p), tx' = Append(tx, p), reply' = p
          PROVE  ReceiveBufferExclusive'
      <4>1. Range(tx') = Range(tx) \cup {p}
        BY <3>2, <3>6
      <4>2. p \notin Range(receiveOps)
        BY <3>6 DEF Fresh, Referenced
      <4>3. Held' \subseteq Held \cup {p}
        BY <3>3, <3>6, <4>1
      <4>. QED
        BY <3>3, <4>2, <4>3, <1>4
    <3>. QED
      BY <2>4, <3>4, <3>5, <3>6 DEF on_packet_received
  <2>6. CASE packet_to_event_loop_call
    <3>1. UNCHANGED receiveOps /\ Held' = Held
      BY <2>6 DEF packet_to_event_loop_call, ownerVars, readVars, iocVars
    <3>. QED
      BY <3>1, <1>5
  <2>5. CASE packet_to_event_loop_return
    <3>1. UNCHANGED receiveOps /\ Held' \subseteq Held \cup {NoPacket}
      BY <2>5 DEF packet_to_event_loop_return, ownerVars, readVars, iocVars
    <3>. QED
      BY <3>1, <1>c, <1>4, NoPacketAssumption
  <2>. QED
    BY <1>13, <2>1, <2>2, <2>3, <2>4, <2>5, <2>6 DEF Worker
<1>14. CASE UNCHANGED vars
  <2>1. Held' = Held /\ UNCHANGED receiveOps
    BY <1>14 DEF vars, ownerVars, readVars, iocVars, workerVars
  <2>. QED
    BY <2>1, <1>5
<1>. QED
  BY <1>1, <1>2, <1>3, <1>6, <1>7, <1>8, <1>9, <1>10, <1>11, <1>12, <1>13,
     <1>14 DEF Next, Terminating, Ioc, Kernel

-----------------------------------------------------------------------------
(* The theorems *)

\* IInv is an inductive invariant of the object.
LEMMA Invariance == Spec => []IInv
<1>1. Init => IInv
  BY InitInv
<1>2. IInv /\ [Next]_vars => IInv'
  <2>. SUFFICES ASSUME IInv, [Next]_vars PROVE IInv'
    OBVIOUS
  <2>1. TypeOK'
    BY TypeStep
  <2>2. LifeCycle' /\ ReceiveChain' /\ SendChain'
    BY LifeCycleStep, ReceiveChainStep, SendChainStep
  <2>3. TakesTheFront' /\ RunsUntilStopped'
    BY <2>1, TakesTheFrontStep, RunsUntilStoppedStep
  <2>4. ReceiveBufferExclusive'
    BY <2>1, ReceiveBufferExclusiveStep
  <2>5. QuietAfterDestruction'
    BY DestructionStep
  <2>. QED
    BY <2>1, <2>2, <2>3, <2>4, <2>5 DEF IInv
<1>. QED
  BY <1>1, <1>2, PTL DEF Spec

\* Every variable keeps its type, whatever the threads do.
THEOREM TypeCorrect == Spec => []TypeOK
<1>1. IInv => TypeOK
  BY DEF IInv
<1>. QED
  BY <1>1, Invariance, PTL

\* There is exactly one receive and one send at any time while the io thread
\* runs, whatever fails.
THEOREM ChainsNeverFork == Spec => []OneReceiveOneSend
<1>1. IInv => OneReceiveOneSend
  BY DEF IInv, OneReceiveOneSend
<1>. QED
  BY <1>1, Invariance, PTL

\* The unlocked sequences empty(), front(), pop_front() take the element they
\* looked at, and never from an empty deque.
THEOREM FrontIsTaken == Spec => []TakesTheFront
<1>1. IInv => TakesTheFront
  BY DEF IInv
<1>. QED
  BY <1>1, Invariance, PTL

\* The buffer a receive is writing into is held by no thread and is in no deque.
THEOREM BufferIsExclusive == Spec => []ReceiveBufferExclusive
<1>1. IInv => ReceiveBufferExclusive
  BY DEF IInv
<1>. QED
  BY <1>1, Invariance, PTL

\* The io thread leaves run() only when told to, and no thread outlives the
\* object.
THEOREM LifeEndsInOrder == Spec => []ThreadsLiveWithObject
<1>1. IInv => ThreadsLiveWithObject
  BY DEF IInv, ThreadsLiveWithObject
<1>. QED
  BY <1>1, Invariance, PTL

-----------------------------------------------------------------------------
(* The refinements of FifoChannel *)

\* Where the datagram on its way from the socket to m_rx_deque shows.
LEMMA ArrivedValue ==
  ASSUME TypeOK, ReceiveChain
  PROVE  /\ readStrand = <<>> => Arrived = <<>>
         /\ readStrand = <<DoReceive>> => Arrived = <<>>
         /\ \A p \in Packet : \A ec \in BOOLEAN :
              readStrand = <<HandleReceive(p, ec)>> =>
                Arrived = IF ec THEN <<>> ELSE <<p>>
         /\ Arrived \in Seq(Packet)
<1>1. readStrand = <<>> => Arrived = <<>>
  BY DEF Arrived
<1>2. readStrand = <<DoReceive>> => Arrived = <<>>
  BY DEF Arrived, DoReceive
<1>3. ASSUME NEW p \in Packet, NEW ec \in BOOLEAN,
             readStrand = <<HandleReceive(p, ec)>>
      PROVE  Arrived = IF ec THEN <<>> ELSE <<p>>
  BY <1>3 DEF Arrived, HandleReceive
<1>4. Arrived \in Seq(Packet)
  <2>1. CASE Arrived = <<>>
    BY <2>1
  <2>2. CASE Arrived # <<>>
    <3>1. readStrand # <<>> /\ Head(readStrand).fn = "handle_receive"
          /\ Arrived = <<Head(readStrand).packet>>
      BY <2>2 DEF Arrived
    <3>2. Head(readStrand) \in ReadHandler
      BY <3>1, HeadTailProperties DEF TypeOK
    <3>3. Head(readStrand).packet \in Packet
      BY <3>1, <3>2 DEF ReadHandler, DoReceive
    <3>. QED
      BY <3>1, <3>3
  <2>. QED
    BY <2>1, <2>2
<1>. QED
  BY <1>1, <1>2, <1>3, <1>4

\* From the socket to on_packet_received the object is a FIFO channel.
THEOREM ReceivingRefines == Spec => ReceivingIsFifo
<1>. DEFINE Q == rx \o Arrived
            Out == IF worker \in Delivering THEN packet
                                                        ELSE NoPacket
<1>1. Init => Receiving!Init
  BY ConcatEmptySeq DEF Init, Receiving!Init, Arrived
<1>2. IInv /\ IInv' /\ [Next]_vars =>
        [Receiving!Next]_(Receiving!channelVars)
  <2>. SUFFICES ASSUME IInv, IInv', [Next]_vars
                PROVE  \/ \E p \in Packet : Q' = Append(Q, p) /\ Out' = Out
                       \/ Q # <<>> /\ Out' = Head(Q) /\ Q' = Tail(Q)
                       \/ Out' = NoPacket /\ Q' = Q
                       \/ Q' = Q /\ Out' = Out
    BY DEF Receiving!Next, Receiving!Put, Receiving!Get, Receiving!Done,
           Receiving!channelVars
  <2>. USE DEF IInv
  <2>a. rx \in Seq(Packet) /\ Arrived \in Seq(Packet)
    BY ArrivedValue DEF TypeOK
  <2>1. CASE handle_receive
    <3>1. PICK h \in ReadHandler : readStrand = <<h>> /\ h.fn = "handle_receive"
      BY <2>1, OneReceive, HeadTailProperties
         DEF handle_receive, TakesRead, TypeOK
    <3>2. PICK p \in Packet, ec \in BOOLEAN : h = HandleReceive(p, ec)
      BY <3>1 DEF ReadHandler, DoReceive, HandleReceive
    <3>3. readStrand' = <<DoReceive>> /\ rx' = IF ec THEN rx ELSE Append(rx, p)
      BY <2>1, <3>1, <3>2 DEF handle_receive, HandleReceive
    <3>4. Arrived' = <<>> /\ Arrived = IF ec THEN <<>> ELSE <<p>>
      BY <3>1, <3>2, <3>3, ArrivedValue DEF Arrived, DoReceive
    <3>5. Q' = Q
      <4>1. CASE ec
        BY <4>1, <3>3, <3>4
      <4>2. CASE ~ec
        <5>1. Q = Append(rx, p)
          BY <4>2, <3>4, <2>a, AppendIsConcat
        <5>2. Q' = Append(rx, p)
          BY <4>2, <3>3, <3>4, <2>a, AppendProperties, ConcatEmptySeq
        <5>. QED
          BY <5>1, <5>2
      <4>. QED
        BY <4>1, <4>2
    <3>. QED
      BY <2>1, <3>5 DEF handle_receive, workerVars
  <2>2. ASSUME NEW ec \in BOOLEAN, receive_completes(ec)
        PROVE  \/ \E p \in Packet : Q' = Append(Q, p) /\ Out' = Out
               \/ Q' = Q /\ Out' = Out
    <3>1. PICK p \in Packet : receiveOps = <<p>> /\ readStrand = <<>>
      BY <2>2, OneReceive, HeadTailProperties DEF receive_completes, TypeOK
    <3>2. readStrand' = <<HandleReceive(p, ec)>>
      BY <2>2, <3>1 DEF receive_completes
    <3>3. Arrived = <<>> /\ Arrived' = IF ec THEN <<>> ELSE <<p>>
      BY <3>1, <3>2 DEF Arrived, HandleReceive
    <3>4. rx' = rx /\ Out' = Out
      BY <2>2 DEF receive_completes, workerVars
    <3>5. CASE ec
      BY <3>3, <3>4, <3>5
    <3>6. CASE ~ec
      <4>1. Q = rx /\ Q' = rx \o <<p>>
        BY <3>3, <3>4, <3>6, <2>a, ConcatEmptySeq
      <4>2. Q' = Append(Q, p)
        BY <4>1, <2>a, AppendIsConcat
      <4>. QED
        BY <3>4, <4>2
    <3>. QED
      BY <3>5, <3>6
  <2>3. CASE packet_to_event_loop_pop
    <3>1. rx # <<>> /\ packet = Head(rx) /\ rx' = Tail(rx)
      BY <2>3 DEF packet_to_event_loop_pop, TakesTheFront
    <3>2. Arrived' = Arrived
      BY <2>3 DEF packet_to_event_loop_pop, readVars, Arrived
    <3>3. Q # <<>> /\ Head(Q) = Head(rx) /\ Tail(Q) = Tail(rx) \o Arrived
      BY <3>1, <2>a
    <3>4. Out' = packet
      BY <2>3 DEF packet_to_event_loop_pop, Delivering
    <3>. QED
      BY <3>1, <3>2, <3>3, <3>4
  <2>4. CASE Worker /\ ~packet_to_event_loop_pop
    <3>1. UNCHANGED rx /\ UNCHANGED readStrand
      BY <2>4 DEF Worker, worker_check, packet_to_event_loop_empty,
                  packet_to_event_loop_front, packet_to_event_loop_call,
                  on_packet_received, packet_to_event_loop_return, readVars
    <3>2. Out' = Out \/ Out' = NoPacket
      BY <2>4 DEF Worker, worker_check, packet_to_event_loop_empty,
                  packet_to_event_loop_front, packet_to_event_loop_call,
                  on_packet_received, packet_to_event_loop_return, Delivering
    <3>. QED
      BY <3>1, <3>2 DEF Arrived
  <2>5. CASE do_receive
    <3>1. UNCHANGED <<rx, worker, packet>>
      BY <2>5 DEF do_receive, workerVars
    <3>2. readStrand' = <<>> /\ readStrand # <<>>
          /\ Head(readStrand).fn = "do_receive"
      BY <2>5, OneReceive DEF do_receive, TakesRead
    <3>3. Arrived' = <<>> /\ Arrived = <<>>
      BY <3>2 DEF Arrived
    <3>. QED
      BY <3>1, <3>3
  <2>6. CASE construct_post
    <3>1. UNCHANGED <<rx, worker, packet>>
      BY <2>6 DEF construct_post, workerVars
    <3>2. readStrand = <<>>
      <4>1. Len(readStrand) \in Nat /\ Len(receiveOps) \in Nat
        BY LenProperties DEF TypeOK
      <4>2. Len(readStrand) = 0
        BY <2>6, <4>1 DEF construct_post, LifeCycle, Receives
      <4>. QED
        BY <4>2, EmptySeq DEF TypeOK
    <3>3. readStrand' = <<>> \/ readStrand' = <<DoReceive>>
      BY <2>6, <3>2 DEF construct_post
    <3>4. Arrived' = <<>> /\ Arrived = <<>>
      BY <3>2, <3>3 DEF Arrived, DoReceive
    <3>. QED
      BY <3>1, <3>4
  <2>7. CASE construct_packet_worker
    <3>1. UNCHANGED <<rx, readStrand, packet>>
      BY <2>7 DEF construct_packet_worker, readVars
    <3>2. Out' = NoPacket
      BY <2>7 DEF construct_packet_worker, Delivering
    <3>. QED
      BY <3>1, <3>2 DEF Arrived
  <2>8. CASE UNCHANGED <<rx, readStrand, worker, packet>>
    BY <2>8 DEF Arrived
  <2>9. CASE construct_ioc_worker
    BY <2>9, <2>8 DEF construct_ioc_worker, readVars, workerVars
  <2>. QED
    BY <2>1, <2>2, <2>3, <2>4, <2>5, <2>6, <2>7, <2>8, <2>9, ReadFrame,
       ThreadFrame
<1>. QED
  BY <1>1, <1>2, Invariance, PTL DEF Spec, ReceivingIsFifo, Receiving!Spec

\* Inside do_send no send is outstanding, and there is never a second one.
LEMMA OneSend ==
  ASSUME TypeOK, SendChain
  PROVE  /\ ioc \in InDoSend => sendOps = <<>>
         /\ sendOps # <<>> => sendOps = <<Head(sendOps)>> /\ ioc \notin InDoSend
<1>1. Len(writeStrand) \in Nat /\ Len(sendOps) \in Nat
  BY LenProperties DEF TypeOK
<1>2. /\ sendOps # <<>> => Len(sendOps) # 0
      /\ Len(sendOps) = 0 => sendOps = <<>>
  BY EmptySeq DEF TypeOK
<1>3. ASSUME NEW k \in Nat, NEW m \in Nat, NEW n \in {0, 1}, k + m + n <= 1
      PROVE  (n = 1 => m = 0) /\ (m # 0 => m = 1 /\ n = 0)
  BY <1>3
<1>4. /\ ioc \in InDoSend => Len(sendOps) = 0
      /\ Len(sendOps) # 0 => Len(sendOps) = 1 /\ ioc \notin InDoSend
  BY <1>1, <1>3 DEF SendChain, Sends
<1>5. ASSUME NEW S, NEW s \in Seq(S), Len(s) = 1
      PROVE  s = <<Head(s)>>
  BY <1>5
<1>. QED
  BY <1>2, <1>4, <1>5 DEF TypeOK

\* From m_tx_deque to the kernel the object is a FIFO channel.
THEOREM SendingRefines == Spec => SendingIsFifo
<1>. DEFINE Q == BeingSent \o tx
<1>1. Init => Sending!Init
  BY ConcatEmptySeq DEF Init, Sending!Init, BeingSent
<1>2. IInv /\ IInv' /\ [Next]_vars => [Sending!Next]_(Sending!channelVars)
  <2>. SUFFICES ASSUME IInv, IInv', [Next]_vars
                PROVE  \/ \E p \in Packet : Q' = Append(Q, p) /\ wire' = wire
                       \/ Q # <<>> /\ wire' = Head(Q) /\ Q' = Tail(Q)
                       \/ Q' = Q /\ wire' = wire
    BY DEF Sending!Next, Sending!Put, Sending!Get, Sending!Done,
           Sending!channelVars
  <2>. USE DEF IInv
  <2>a. tx \in Seq(Packet) /\ sendOps \in Seq(Packet)
    BY DEF TypeOK
  <2>b. BeingSent \in Seq(Packet)
    <3>1. CASE ioc = "send_async"
      BY <3>1, <2>a DEF BeingSent, LifeCycle
    <3>2. CASE ioc # "send_async"
      BY <3>2, <2>a DEF BeingSent
    <3>. QED
      BY <3>1, <3>2
  <2>c. ASSUME NEW p \in Packet, tx' = Append(tx, p),
               UNCHANGED <<sendOps, ioc, sendPacket, wire>>
        PROVE  Q' = Append(Q, p) /\ wire' = wire
    <3>1. BeingSent' = BeingSent
      BY <2>c DEF BeingSent
    <3>2. BeingSent \o Append(tx, p) = Append(BeingSent \o tx, p)
      <4>1. Append(tx, p) = tx \o <<p>> /\ <<p>> \in Seq(Packet)
        BY <2>a, AppendIsConcat
      <4>2. BeingSent \o tx \in Seq(Packet)
        BY <2>a, <2>b, ConcatProperties
      <4>3. Append(BeingSent \o tx, p) = (BeingSent \o tx) \o <<p>>
        BY <4>2, AppendIsConcat
      <4>. QED
        BY <2>a, <2>b, <4>1, <4>3, ConcatAssociative
    <3>. QED
      BY <2>c, <3>1, <3>2
  <2>1. ASSUME NEW p \in Packet, send(p)
        PROVE  Q' = Append(Q, p) /\ wire' = wire
    BY <2>1, <2>c DEF send, writeVars, iocVars
  <2>2. CASE on_packet_received
    <3>1. packet \in Packet
      BY <2>2 DEF on_packet_received, LifeCycle, Delivering
    <3>2. UNCHANGED <<sendOps, ioc, sendPacket, wire>>
      BY <2>2 DEF on_packet_received, writeVars, iocVars
    <3>3. UNCHANGED tx \/ \E p \in Packet : tx' = Append(tx, p)
      BY <2>2, <3>1 DEF on_packet_received
    <3>. QED
      BY <3>2, <3>3, <2>c DEF BeingSent
  <2>3. CASE do_send_pop
    <3>1. sendOps = <<>> /\ UNCHANGED <<sendOps, sendPacket, wire>>
      BY <2>3, OneSend DEF do_send_pop, writeVars, InDoSend
    <3>2. /\ ioc = "send_pop" /\ ioc' = "send_async"
          /\ tx # <<>> /\ sendPacket = Head(tx) /\ tx' = Tail(tx)
      BY <2>3 DEF do_send_pop, TakesTheFront
    <3>3. Q = tx
      BY <3>1, <3>2, <2>a DEF BeingSent
    <3>4. Q' = <<Head(tx)>> \o Tail(tx)
      BY <3>1, <3>2, <2>a DEF BeingSent
    <3>5. <<Head(tx)>> \o Tail(tx) = tx
      BY <3>2, <2>a, HeadTailProperties
    <3>. QED
      BY <3>1, <3>3, <3>4, <3>5
  <2>4. CASE do_send_async
    <3>1. /\ ioc = "send_async" /\ ioc' = "run" /\ tx' = tx
          /\ sendOps = <<>> /\ sendPacket \in Packet
      BY <2>4, OneSend DEF do_send_async, LifeCycle, InDoSend
    <3>2. Q = <<sendPacket>> \o tx
      BY <3>1 DEF BeingSent
    <3>3. CASE wire' = sendPacket /\ UNCHANGED sendOps
      <4>1. Q' = tx
        BY <3>1, <3>3, <2>a DEF BeingSent
      <4>2. Q # <<>> /\ Head(Q) = sendPacket /\ Tail(Q) = tx
        BY <3>1, <3>2, <2>a
      <4>. QED
        BY <3>3, <4>1, <4>2
    <3>4. CASE sendOps' = Append(sendOps, sendPacket) /\ UNCHANGED wire
      <4>1. Q' = <<sendPacket>> \o tx
        BY <3>1, <3>4 DEF BeingSent
      <4>. QED
        BY <3>2, <3>4, <4>1
    <3>. QED
      BY <2>4, <3>3, <3>4 DEF do_send_async
  <2>5. CASE send_completes
    <3>1. PICK p \in Packet : sendOps = <<p>> /\ ioc \notin InDoSend
      BY <2>5, OneSend, HeadTailProperties DEF send_completes, TypeOK
    <3>2. sendOps' = <<>> /\ wire' = p /\ UNCHANGED <<ioc, tx>>
      BY <2>5, <3>1 DEF send_completes, iocVars
    <3>3. Q = <<p>> \o tx /\ Q' = tx
      BY <3>1, <3>2, <2>a DEF BeingSent, InDoSend
    <3>4. Q # <<>> /\ Head(Q) = p /\ Tail(Q) = tx
      BY <3>3, <2>a
    <3>. QED
      BY <3>2, <3>3, <3>4
  <2>6. CASE UNCHANGED <<tx, sendOps, wire>>
             /\ ioc # "send_async" /\ ioc' # "send_async"
    BY <2>6 DEF BeingSent
  <2>7. CASE UNCHANGED <<tx, sendOps, wire, ioc, sendPacket>>
    BY <2>7 DEF BeingSent
  <2>8. CASE Ioc
    BY <2>8, <2>3, <2>4, <2>6
       DEF Ioc, run_return, do_receive, handle_receive, do_send_empty,
           do_send_front, handle_send, TakesRead, TakesWrite, writeVars,
           iocVars
  <2>9. CASE Construct
    BY <2>9, <2>7, <2>6
       DEF Construct, construct_members, construct_post, construct_ioc_worker,
           construct_packet_worker, construct_derived, LifeCycle, writeVars,
           iocVars
  <2>10. CASE Use
    BY <2>10, <2>1, <2>7
       DEF Use, set_running, send_return, writeVars, iocVars
  <2>11. CASE Destroy
    BY <2>11, <2>7
       DEF Destroy, destroy_derived, destroy_stop, destroy_join_ioc,
           destroy_clear_running, destroy_join_worker, writeVars, iocVars
  <2>12. CASE Kernel
    BY <2>12, <2>5, <2>7 DEF Kernel, receive_completes, writeVars, iocVars
  <2>13. CASE Worker
    BY <2>13, <2>2, <2>7
       DEF Worker, worker_check, packet_to_event_loop_empty,
           packet_to_event_loop_front, packet_to_event_loop_pop,
           packet_to_event_loop_call, packet_to_event_loop_return, writeVars,
           iocVars
  <2>14. CASE UNCHANGED vars
    BY <2>14, <2>7 DEF vars, writeVars, iocVars
  <2>. QED
    BY <2>8, <2>9, <2>10, <2>11, <2>12, <2>13, <2>14 DEF Next, Terminating
<1>. QED
  BY <1>1, <1>2, Invariance, PTL DEF Spec, SendingIsFifo, Sending!Spec
=============================================================================
