---------------------------- MODULE FifoChannel ----------------------------
(***************************************************************************)
(* What a direction of traffic through udp_port_watcher_t promises: the    *)
(* packets that enter it leave it one at a time, in the order they         *)
(* entered, none twice and none left out.  UdpPortWatcher.tla implements   *)
(* it twice, once for the receiving side (socket, m_rx_deque, packet       *)
(* thread) and once for the sending side (m_tx_deque, do_send, socket).    *)
(***************************************************************************)
EXTENDS Sequences

CONSTANTS
  Item,      \* what travels
  NoItem     \* stands for "no item is being handed out"

VARIABLES
  q,         \* the items in the channel, oldest first
  out        \* the item handed out last, or NoItem

channelVars == <<q, out>>

Init ==
  /\ q = <<>>
  /\ out = NoItem

\* An item enters at the back.
Put(item) ==
  /\ q' = Append(q, item)
  /\ UNCHANGED out

\* The oldest item leaves.
Get ==
  /\ q # <<>>
  /\ out' = Head(q)
  /\ q' = Tail(q)

\* The reader is done with the item it was handed.
Done ==
  /\ out' = NoItem
  /\ UNCHANGED q

Next ==
  \/ \E item \in Item : Put(item)
  \/ Get
  \/ Done

Spec == Init /\ [][Next]_channelVars
=============================================================================
