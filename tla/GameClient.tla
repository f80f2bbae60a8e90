----------------------------- MODULE GameClient -----------------------------
(***************************************************************************)
(* The client (src/client/main.cpp): main() with its character and its     *)
(* queue of moves, and connection_to_server_t, whose on_packet_received    *)
(* runs on the packet thread while main() is inside send().  The sending   *)
(* and receiving machinery is UdpPortWatcher.tla's; here m_tx_deque is     *)
(* filled and do_send empties it.  Every variable is a function of the     *)
(* client, for Carnival.tla has several of them.                           *)
(*                                                                         *)
(* Bounds: Keys are the directions the player uses and Field the places he *)
(* walks to, QueueBound is how many moves may wait, ChatBound how many     *)
(* messages are kept, TxBound how many packets wait in m_tx_deque.         *)
(***************************************************************************)
EXTENDS Packet, Sequences, SequencesExt

CONSTANTS
  Client,           \* the endpoints the clients are bound to
  server_endpoint,  \* where they send to
  Greetings,        \* what each client says when it starts
  Start,            \* where the character of main() stands at first
  Keys, Field, QueueBound, ChatBound, TxBound,
  NoPacket          \* no packet is being sent

Right == 0
Down  == 1
Left  == 2
Up    == 3

Direction == {Right, Down, Left, Up}
Char      == [x : 0 .. U32 - 1, y : 0 .. U32 - 1, f : Direction]

ASSUME ClientAssumption ==
  /\ Client \subseteq Endpoint /\ server_endpoint \in Endpoint
  /\ Greetings \in [Client -> Seq(Message)]
  /\ Start \in Char /\ Position = Char
  /\ Keys \subseteq Direction /\ Field \subseteq Char
  /\ QueueBound \in Nat /\ ChatBound \in Nat /\ TxBound \in Nat

VARIABLES
  main,           \* where main() is
  closing,        \* its locals: the loop is to end,
  character,      \*   c,
  move_queue,     \*   move_queue,
  greeted,        \*   and how many greetings have been sent
  call,           \* where main() is inside send(), or "none"
  packet,         \* the packet it sends there
  ident,          \* members of connection_to_server_t
  chat_messages,
  m_tx_deque

mainVars   == <<main, closing, character, move_queue, greeted>>
sendVars   == <<call, packet>>
clientVars == <<mainVars, sendVars, ident, chat_messages, m_tx_deque>>

-----------------------------------------------------------------------------
MainPC == {"login", "greet", "input", "tick", "move", "exit", "closed"}
SendPC == {"none", "test", "stamp", "enqueue"}
Outgoing == PacketsOf({server_endpoint})

\* What the server sends; the client never reads the ident of a packet.
Incoming == {p \in Outgoing : /\ p.type \in ServerToClient \cup {"CHAT_MESSAGE"}
                             /\ p.ident = 0}

TypeOK ==
  /\ main \in [Client -> MainPC]
  /\ closing \in [Client -> BOOLEAN]
  /\ character \in [Client -> Char]
  /\ move_queue \in [Client -> Seq(Direction)]
  /\ greeted \in [Client -> Nat]
  /\ \A c \in Client : greeted[c] <= Len(Greetings[c])
  /\ call \in [Client -> SendPC]
  /\ packet \in [Client -> Outgoing \cup {NoPacket}]
  /\ \A c \in Client : IF call[c] = "none" THEN packet[c] = NoPacket
                                           ELSE packet[c] \in Outgoing
  /\ ident \in [Client -> Ident]
  /\ chat_messages \in [Client -> Seq(Message)]
  /\ m_tx_deque \in [Client -> Seq(Outgoing)]

\* The constructor leaves ident as it finds it: any value.
Init ==
  /\ main = [c \in Client |-> "login"]
  /\ closing = [c \in Client |-> FALSE]
  /\ character = [c \in Client |-> Start]
  /\ move_queue = [c \in Client |-> <<>>]
  /\ greeted = [c \in Client |-> 0]
  /\ call = [c \in Client |-> "none"]
  /\ packet = [c \in Client |-> NoPacket]
  /\ ident \in [Client -> Ident]
  /\ chat_messages = [c \in Client |-> <<>>]
  /\ m_tx_deque = [c \in Client |-> <<>>]

-----------------------------------------------------------------------------
(* main() *)

\* main() is at pc and not inside a call of send().
At(c, pc) == main[c] = pc /\ call[c] = "none"

Goto(c, pc) == main' = [main EXCEPT ![c] = pc]

\* The end of a turn of the loop: `while (!closing)'.
NextTurn(c) == IF closing[c] THEN "exit" ELSE "input"

\* connection.send<T>(...): the packet is made and send() is entered.
Send(c, type, body) ==
  /\ packet' = [packet EXCEPT ![c] = packet_t(type, server_endpoint, body)]
  /\ call' = [call EXCEPT ![c] = "test"]

\* The character after one move; the coordinates are uint32_t, so adding -1
\* wraps at 0 as adding 1 does at the other end.
Moved(char, facing) ==
  LET dx == IF facing = Right THEN 1 ELSE IF facing = Left THEN U32 - 1 ELSE 0
      dy == IF facing = Down THEN 1 ELSE IF facing = Up THEN U32 - 1 ELSE 0
  IN  [x |-> (char.x + dx) % U32, y |-> (char.y + dy) % U32, f |-> facing]

-----------------------------------------------------------------------------
(* Actions with a plausible bug. *)

\* The update is sent before the move is made.
main_move_late(c) ==
  /\ At(c, "move")
  /\ Goto(c, NextTurn(c))
  /\ \/ /\ move_queue[c] = <<>>
        /\ UNCHANGED <<character, move_queue, sendVars>>
     \/ /\ move_queue[c] # <<>>
        /\ move_queue' = [move_queue EXCEPT ![c] = Tail(@)]
        /\ character' = [character EXCEPT ![c] = Moved(@, Head(move_queue[c]))]
        /\ Send(c, "POSITION_UPDATE", character[c])
  /\ UNCHANGED <<closing, greeted, ident, chat_messages, m_tx_deque>>

\* All queued moves are made in one tick.
main_move_all(c) ==
  /\ At(c, "move")
  /\ Goto(c, IF Len(move_queue[c]) > 1 THEN "move" ELSE NextTurn(c))
  /\ \/ /\ move_queue[c] = <<>>
        /\ UNCHANGED <<character, move_queue, sendVars>>
     \/ /\ move_queue[c] # <<>>
        /\ move_queue' = [move_queue EXCEPT ![c] = Tail(@)]
        /\ character' = [character EXCEPT ![c] = Moved(@, Head(move_queue[c]))]
        /\ Send(c, "POSITION_UPDATE", character'[c])
  /\ UNCHANGED <<closing, greeted, ident, chat_messages, m_tx_deque>>

\* send() waits until there is an ident.
send_test_waits(c) ==
  /\ call[c] = "test" /\ ident[c] # 0
  /\ call' = [call EXCEPT ![c] = "stamp"]
  /\ UNCHANGED <<mainVars, packet, ident, chat_messages, m_tx_deque>>

\* send() puts the packet at the front.
send_enqueue_front(c) ==
  /\ call[c] = "enqueue" /\ Len(m_tx_deque[c]) < TxBound
  /\ m_tx_deque' = [m_tx_deque EXCEPT ![c] = <<packet[c]>> \o @]
  /\ call' = [call EXCEPT ![c] = "none"]
  /\ packet' = [packet EXCEPT ![c] = NoPacket]
  /\ UNCHANGED <<mainVars, ident, chat_messages>>

\* send() keeps its packet.
send_enqueue_keeps(c) ==
  /\ call[c] = "enqueue" /\ Len(m_tx_deque[c]) < TxBound
  /\ m_tx_deque' = [m_tx_deque EXCEPT ![c] = Append(@, packet[c])]
  /\ call' = [call EXCEPT ![c] = "none"]
  /\ UNCHANGED <<mainVars, packet, ident, chat_messages>>

\* The ident is taken from the header of whatever the server sends.
on_packet_received_any_ident(c, reply) ==
  /\ main[c] # "closed"
  /\ ident' = [ident EXCEPT ![c] = reply.ident]
  /\ UNCHANGED <<mainVars, sendVars, chat_messages, m_tx_deque>>

\* The ident is replaced only if there is one.
on_packet_received_replaces(c, reply) ==
  /\ main[c] # "closed"
  /\ ident' = [ident EXCEPT ![c] = IF reply.type = "LOGIN_REPLY" /\ @ # 0
                                   THEN reply.body.ident ELSE @]
  /\ UNCHANGED <<mainVars, sendVars, chat_messages, m_tx_deque>>

-----------------------------------------------------------------------------
main_login(c) ==
  /\ At(c, "login")
  /\ Goto(c, "greet")
  /\ \E name \in Name : Send(c, "LOGIN_REQUEST", name)
  /\ UNCHANGED <<closing, character, move_queue, greeted, ident,
                 chat_messages, m_tx_deque>>

main_greet(c) ==
  /\ At(c, "greet")
  /\ \/ /\ greeted[c] < Len(Greetings[c])
        /\ greeted' = [greeted EXCEPT ![c] = @ + 1]
        /\ Send(c, "CHAT_MESSAGE", Greetings[c][greeted[c] + 1])
        /\ UNCHANGED main
     \/ /\ greeted[c] = Len(Greetings[c])
        /\ Goto(c, "input")
        /\ UNCHANGED <<greeted, sendVars>>
  /\ UNCHANGED <<closing, character, move_queue, ident, chat_messages,
                 m_tx_deque>>

\* Where the queued moves and one more lead.
Destination(c, facing) ==
  FoldLeft(Moved, character[c], Append(move_queue[c], facing))

\* At most one key is read in a turn of the loop: W, A, S or D, Q, Escape, or
\* one that changes nothing.
main_input(c) ==
  /\ At(c, "input")
  /\ Goto(c, "tick")
  /\ \/ /\ Len(move_queue[c]) < QueueBound
        /\ \E facing \in Keys :
             /\ Destination(c, facing) \in Field
             /\ move_queue' = [move_queue EXCEPT ![c] = Append(@, facing)]
        /\ UNCHANGED closing
     \/ /\ move_queue' = [move_queue EXCEPT ![c] = <<>>]
        /\ UNCHANGED closing
     \/ /\ closing' = [closing EXCEPT ![c] = TRUE]
        /\ UNCHANGED move_queue
     \/ UNCHANGED <<closing, move_queue>>
  /\ UNCHANGED <<character, greeted, sendVars, ident, chat_messages,
                 m_tx_deque>>

\* 400 ms have passed since the last tick, or not.  The rest of a turn draws
\* the screen (ChatWindow.tla has its reads of chat_messages) and sleeps.
main_no_tick(c) ==
  /\ At(c, "tick")
  /\ Goto(c, NextTurn(c))
  /\ UNCHANGED <<closing, character, move_queue, greeted, sendVars, ident,
                 chat_messages, m_tx_deque>>

main_tick(c) ==
  /\ At(c, "tick")
  /\ Goto(c, "move")
  /\ Send(c, "HEARTBEAT_PING", NoData)
  /\ UNCHANGED <<closing, character, move_queue, greeted, ident,
                 chat_messages, m_tx_deque>>

main_move(c) ==
  /\ At(c, "move")
  /\ Goto(c, NextTurn(c))
  /\ \/ /\ move_queue[c] = <<>>
        /\ UNCHANGED <<character, move_queue, sendVars>>
     \/ /\ move_queue[c] # <<>>
        /\ move_queue' = [move_queue EXCEPT ![c] = Tail(@)]
        /\ character' = [character EXCEPT ![c] = Moved(@, Head(move_queue[c]))]
        /\ Send(c, "POSITION_UPDATE", character'[c])
  /\ UNCHANGED <<closing, greeted, ident, chat_messages, m_tx_deque>>

\* The connection is destroyed, with the packets that have not been sent.
main_exit(c) ==
  /\ At(c, "exit")
  /\ Goto(c, "closed")
  /\ m_tx_deque' = [m_tx_deque EXCEPT ![c] = <<>>]
  /\ UNCHANGED <<closing, character, move_queue, greeted, sendVars, ident,
                 chat_messages>>

\* The program is started again and binds the same port.
main_start(c) ==
  /\ At(c, "closed")
  /\ Goto(c, "login")
  /\ closing' = [closing EXCEPT ![c] = FALSE]
  /\ character' = [character EXCEPT ![c] = Start]
  /\ move_queue' = [move_queue EXCEPT ![c] = <<>>]
  /\ greeted' = [greeted EXCEPT ![c] = 0]
  /\ \E any \in Ident : ident' = [ident EXCEPT ![c] = any]
  /\ chat_messages' = [chat_messages EXCEPT ![c] = <<>>]
  /\ UNCHANGED <<sendVars, m_tx_deque>>

-----------------------------------------------------------------------------
(* send(): ident is read twice, and the packet thread may write it between
   the reads. *)

send_test(c) ==
  /\ call[c] = "test"
  /\ call' = [call EXCEPT ![c] = IF ident[c] # 0 THEN "stamp" ELSE "enqueue"]
  /\ UNCHANGED <<mainVars, packet, ident, chat_messages, m_tx_deque>>

send_stamp(c) ==
  /\ call[c] = "stamp"
  /\ packet' = [packet EXCEPT ![c].ident = ident[c]]
  /\ call' = [call EXCEPT ![c] = "enqueue"]
  /\ UNCHANGED <<mainVars, ident, chat_messages, m_tx_deque>>

send_enqueue(c) ==
  /\ call[c] = "enqueue" /\ Len(m_tx_deque[c]) < TxBound
  /\ m_tx_deque' = [m_tx_deque EXCEPT ![c] = Append(@, packet[c])]
  /\ call' = [call EXCEPT ![c] = "none"]
  /\ packet' = [packet EXCEPT ![c] = NoPacket]
  /\ UNCHANGED <<mainVars, ident, chat_messages>>

-----------------------------------------------------------------------------
(* The other threads *)

\* A reply that says the login failed, and a heartbeat, change nothing.
on_packet_received(c, reply) ==
  /\ main[c] # "closed"
  /\ \/ /\ reply.type = "LOGIN_REPLY"
        /\ ident' = [ident EXCEPT ![c] = IF reply.body.success
                                         THEN reply.body.ident ELSE @]
        /\ UNCHANGED chat_messages
     \/ /\ reply.type = "CHAT_MESSAGE" /\ Len(chat_messages[c]) < ChatBound
        /\ chat_messages' = [chat_messages EXCEPT ![c] = Append(@, reply.body)]
        /\ UNCHANGED ident
     \/ /\ reply.type \notin {"LOGIN_REPLY", "CHAT_MESSAGE"}
        /\ UNCHANGED <<ident, chat_messages>>
  /\ UNCHANGED <<mainVars, sendVars, m_tx_deque>>

\* do_send takes the oldest packet.
do_send(c) ==
  /\ main[c] # "closed"
  /\ m_tx_deque[c] # <<>>
  /\ m_tx_deque' = [m_tx_deque EXCEPT ![c] = Tail(@)]
  /\ UNCHANGED <<mainVars, sendVars, ident, chat_messages>>

-----------------------------------------------------------------------------
Loop(c) ==
  \/ main_input(c) \/ main_no_tick(c) \/ main_tick(c) \/ main_move(c)

Sending(c) == send_test(c) \/ send_stamp(c) \/ send_enqueue(c)

Main(c) ==
  main_login(c) \/ main_greet(c) \/ Loop(c) \/ main_exit(c) \/ Sending(c)

Next ==
  \E c \in Client :
    \/ Main(c)
    \/ main_start(c)
    \/ \E reply \in Incoming : on_packet_received(c, reply)
    \/ do_send(c)

Spec == Init /\ [][Next]_clientVars

\* main() and the io thread are scheduled; a turn of the loop takes 33 ms, so
\* the time for a tick comes again and again.  The player may do nothing.
Fairness ==
  \A c \in Client :
    /\ WF_clientVars(Main(c))
    /\ SF_clientVars(main_tick(c))
    /\ WF_clientVars(do_send(c))

FairSpec == Spec /\ Fairness

-----------------------------------------------------------------------------
(* Properties *)

\* The packets the server has still to be told, oldest first.
Pending(c) ==
  m_tx_deque[c] \o (IF call[c] = "none" THEN <<>> ELSE <<packet[c]>>)

IsUpdate(p) == p.type = "POSITION_UPDATE"

\* One step apart, across the ends of uint32_t too.
Near(a, b) ==
  \/ b.x \in {(a.x + 1) % U32, (a.x + U32 - 1) % U32} /\ b.y = a.y
  \/ b.y \in {(a.y + 1) % U32, (a.y + U32 - 1) % U32} /\ b.x = a.x

\* The server is told of every place the character goes through, in order, and
\* the last update is where it stands now: an update is one move away from the
\* update before it, whatever was sent between them.
UpdatesAreAWalk ==
  \A c \in Client : \A i \in DOMAIN Pending(c) :
    IsUpdate(Pending(c)[i]) =>
      \/ \E j \in DOMAIN Pending(c) :
           /\ j > i /\ IsUpdate(Pending(c)[j])
           /\ Near(Pending(c)[i].body, Pending(c)[j].body)
           /\ \A k \in DOMAIN Pending(c) :
                i < k /\ k < j => ~IsUpdate(Pending(c)[k])
      \/ /\ Pending(c)[i].body = character[c]
         /\ \A j \in DOMAIN Pending(c) : j > i => ~IsUpdate(Pending(c)[j])

\* However many keys are pressed, a character makes one move per tick: there is
\* a heartbeat between two position updates.
OneMovePerTick ==
  \A c \in Client :
    LET pending == Pending(c)
    IN  \A i \in 1 .. Len(pending) - 1 :
          pending[i].type = "POSITION_UPDATE" =>
            pending[i + 1].type # "POSITION_UPDATE"

\* The packets of a run of the program leave in the order login, greetings, game.
LoginGoesFirst ==
  \A c \in Client :
    LET pending == Pending(c)
    IN  \A i, j \in DOMAIN pending : i < j =>
          /\ pending[j].type # "LOGIN_REQUEST"
          /\ pending[j].type = "CHAT_MESSAGE" =>
               pending[i].type \in {"LOGIN_REQUEST", "CHAT_MESSAGE"}

\* Whether it is logged in or not, the client's game goes on: ticks come until
\* the player leaves.
KeepsTicking == \A c \in Client : []<>(main[c] \in {"move", "closed"})
=============================================================================
