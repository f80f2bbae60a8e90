-------------------------- MODULE GameClientProofs --------------------------
(***************************************************************************)
(* Theorems about GameClient.tla, for every number of clients, every width *)
(* of integers, every player and every bound.                              *)
(***************************************************************************)
EXTENDS GameClient, SequenceTheorems, TLAPS

-----------------------------------------------------------------------------
(* What is still to be sent, as a sequence q of packets. *)

\* The parts of the properties that speak of one sequence.
Walk(q, place) ==
  \A i \in DOMAIN q : IsUpdate(q[i]) =>
    \/ \E j \in DOMAIN q :
         /\ j > i /\ IsUpdate(q[j])
         /\ Near(q[i].body, q[j].body)
         /\ \A k \in DOMAIN q : i < k /\ k < j => ~IsUpdate(q[k])
    \/ /\ q[i].body = place
       /\ \A j \in DOMAIN q : j > i => ~IsUpdate(q[j])

Parted(q) ==
  \A i \in 1 .. Len(q) - 1 :
    q[i].type = "POSITION_UPDATE" => q[i + 1].type # "POSITION_UPDATE"

Ordered(q) ==
  \A i, j \in DOMAIN q : i < j =>
    /\ q[j].type # "LOGIN_REQUEST"
    /\ q[j].type = "CHAT_MESSAGE" =>
         q[i].type \in {"LOGIN_REQUEST", "CHAT_MESSAGE"}

\* q and r differ in the idents that have been stamped only.
SameButIdents(q, r) ==
  /\ Len(q) = Len(r)
  /\ \A i \in DOMAIN q : q[i].type = r[i].type /\ q[i].body = r[i].body

Good(q, place) == Walk(q, place) /\ Parted(q) /\ Ordered(q)

\* A packet that is no update goes behind the others.
LEMMA AppendOther ==
  ASSUME NEW P, NEW q \in Seq(P), NEW p \in P, NEW place,
         Good(q, place), p.type # "POSITION_UPDATE",
         p.type = "LOGIN_REQUEST" => q = <<>>,
         p.type = "CHAT_MESSAGE" =>
           \A i \in DOMAIN q : q[i].type \in {"LOGIN_REQUEST", "CHAT_MESSAGE"}
  PROVE  Good(Append(q, p), place)
<1> DEFINE r == Append(q, p)
           n == Len(q)
<1>1. /\ n \in Nat /\ Len(r) = n + 1 /\ DOMAIN q = 1 .. n
      /\ DOMAIN r = 1 .. n + 1
      /\ r[n + 1] = p /\ \A i \in 1 .. n : r[i] = q[i]
  BY AppendProperties, LenProperties
<1>2. q = <<>> => n = 0
  BY EmptySeq
<1> HIDE DEF r, n
<1>3. Walk(r, place)
  BY <1>1 DEF Good, Walk, IsUpdate
<1>4. Parted(r)
  <2> SUFFICES ASSUME NEW i \in 1 .. n, r[i].type = "POSITION_UPDATE"
               PROVE  r[i + 1].type # "POSITION_UPDATE"
    BY <1>1 DEF Parted
  <2> QED  BY <1>1 DEF Good, Parted, n
<1>5. Ordered(r)
  BY <1>1, <1>2 DEF Good, Ordered
<1> QED  BY <1>3, <1>4, <1>5 DEF Good, r

\* An update goes behind a packet that is none, one step from the last place.
LEMMA AppendUpdate ==
  ASSUME NEW P, NEW q \in Seq(P), NEW p \in P, NEW place,
         Good(q, place), p.type = "POSITION_UPDATE", Near(place, p.body),
         q # <<>> => q[Len(q)].type # "POSITION_UPDATE"
  PROVE  Good(Append(q, p), p.body)
<1> DEFINE r == Append(q, p)
           n == Len(q)
<1>1. /\ n \in Nat /\ Len(r) = n + 1 /\ DOMAIN q = 1 .. n
      /\ DOMAIN r = 1 .. n + 1
      /\ r[n + 1] = p /\ \A i \in 1 .. n : r[i] = q[i]
  BY AppendProperties, LenProperties
<1>2. n # 0 => q[n].type # "POSITION_UPDATE"
  BY EmptySeq
<1> HIDE DEF r, n
<1>3. Walk(r, p.body)
  <2> SUFFICES ASSUME NEW i \in 1 .. n + 1, IsUpdate(r[i])
               PROVE
        \/ \E j \in 1 .. n + 1 :
             /\ j > i /\ IsUpdate(r[j])
             /\ Near(r[i].body, r[j].body)
             /\ \A k \in 1 .. n + 1 : i < k /\ k < j => ~IsUpdate(r[k])
        \/ /\ r[i].body = p.body
           /\ \A j \in 1 .. n + 1 : j > i => ~IsUpdate(r[j])
    BY <1>1 DEF Walk
  <2>1. CASE i = n + 1
    BY <1>1, <2>1
  <2>2. CASE i \in 1 .. n /\ \E j \in 1 .. n :
                 /\ j > i /\ IsUpdate(q[j])
                 /\ Near(q[i].body, q[j].body)
                 /\ \A k \in 1 .. n : i < k /\ k < j => ~IsUpdate(q[k])
    BY <1>1, <2>2
  <2>3. CASE /\ i \in 1 .. n
             /\ q[i].body = place
             /\ \A j \in 1 .. n : j > i => ~IsUpdate(q[j])
    <3>1. Near(r[i].body, r[n + 1].body) /\ IsUpdate(r[n + 1])
      BY <1>1, <2>3 DEF IsUpdate
    <3> QED  BY <1>1, <2>3, <3>1
  <2> QED  BY <1>1, <2>1, <2>2, <2>3, SMTT(30) DEF Good, Walk
<1>4. Parted(r)
  <2> SUFFICES ASSUME NEW i \in 1 .. n, r[i].type = "POSITION_UPDATE"
               PROVE  r[i + 1].type # "POSITION_UPDATE"
    BY <1>1 DEF Parted
  <2> QED  BY <1>1, <1>2 DEF Good, Parted, n
<1>5. Ordered(r)
  BY <1>1 DEF Good, Ordered
<1> QED  BY <1>3, <1>4, <1>5 DEF Good, r

\* The oldest packet leaves.
LEMMA TailIsGood ==
  ASSUME NEW P, NEW q \in Seq(P), NEW place, q # <<>>, Good(q, place)
  PROVE  Good(Tail(q), place)
<1> DEFINE r == Tail(q)
           n == Len(r)
<1>1. /\ n \in Nat /\ Len(q) = n + 1 /\ DOMAIN q = 1 .. n + 1
      /\ DOMAIN r = 1 .. n /\ \A i \in 1 .. n : r[i] = q[i + 1]
  BY HeadTailProperties, LenProperties
<1> HIDE DEF r, n
<1>2. Walk(r, place)
  <2> SUFFICES ASSUME NEW i \in 1 .. n, IsUpdate(r[i])
               PROVE
        \/ \E j \in 1 .. n :
             /\ j > i /\ IsUpdate(r[j])
             /\ Near(r[i].body, r[j].body)
             /\ \A k \in 1 .. n : i < k /\ k < j => ~IsUpdate(r[k])
        \/ /\ r[i].body = place
           /\ \A j \in 1 .. n : j > i => ~IsUpdate(r[j])
    BY <1>1 DEF Walk
  <2>1. ASSUME NEW j \in 1 .. n + 1, j > i + 1, IsUpdate(q[j]),
               Near(q[i + 1].body, q[j].body),
               \A k \in 1 .. n + 1 : i + 1 < k /\ k < j => ~IsUpdate(q[k])
        PROVE  \E m \in 1 .. n :
                 /\ m > i /\ IsUpdate(r[m])
                 /\ Near(r[i].body, r[m].body)
                 /\ \A k \in 1 .. n : i < k /\ k < m => ~IsUpdate(r[k])
    <3>1. j - 1 \in 1 .. n /\ j - 1 > i /\ r[j - 1] = q[j] /\ r[i] = q[i + 1]
      BY <1>1, <2>1
    <3>2. \A k \in 1 .. n : i < k /\ k < j - 1 => ~IsUpdate(r[k])
      BY <1>1, <2>1
    <3> QED  BY <2>1, <3>1, <3>2
  <2>2. CASE /\ q[i + 1].body = place
             /\ \A j \in 1 .. n + 1 : j > i + 1 => ~IsUpdate(q[j])
    BY <1>1, <2>2
  <2>3. i + 1 \in 1 .. n + 1 /\ IsUpdate(q[i + 1])
    BY <1>1
  <2>4. \A m \in 1 .. n + 1 : IsUpdate(q[m]) =>
          \/ \E j \in 1 .. n + 1 :
               /\ j > m /\ IsUpdate(q[j])
               /\ Near(q[m].body, q[j].body)
               /\ \A k \in 1 .. n + 1 : m < k /\ k < j => ~IsUpdate(q[k])
          \/ /\ q[m].body = place
             /\ \A j \in 1 .. n + 1 : j > m => ~IsUpdate(q[j])
    BY <1>1, Zenon DEF Good, Walk
  <2>5. \/ \E j \in 1 .. n + 1 :
             /\ j > i + 1 /\ IsUpdate(q[j])
             /\ Near(q[i + 1].body, q[j].body)
             /\ \A k \in 1 .. n + 1 : i + 1 < k /\ k < j => ~IsUpdate(q[k])
        \/ /\ q[i + 1].body = place
           /\ \A j \in 1 .. n + 1 : j > i + 1 => ~IsUpdate(q[j])
    BY <2>3, <2>4, Zenon
  <2> QED  BY <2>1, <2>2, <2>5
<1>3. Parted(r)
  <2> SUFFICES ASSUME NEW i \in 1 .. n - 1, r[i].type = "POSITION_UPDATE"
               PROVE  r[i + 1].type # "POSITION_UPDATE"
    BY <1>1 DEF Parted, n
  <2>1. i + 1 \in 1 .. n /\ r[i] = q[i + 1] /\ r[i + 1] = q[(i + 1) + 1]
    BY <1>1
  <2> QED  BY <1>1, <2>1 DEF Good, Parted
<1>4. Ordered(r)
  BY <1>1, SMTT(30) DEF Good, Ordered
<1> QED  BY <1>2, <1>3, <1>4 DEF Good, r

\* Idents do not matter.
LEMMA IdentsDoNotMatter ==
  ASSUME NEW P, NEW q \in Seq(P), NEW r \in Seq(P), NEW place,
         Good(q, place), SameButIdents(q, r)
  PROVE  Good(r, place)
<1>1. /\ Len(q) \in Nat /\ Len(q) = Len(r)
      /\ DOMAIN q = 1 .. Len(q) /\ DOMAIN r = 1 .. Len(q)
  BY LenProperties DEF SameButIdents
<1>2. Walk(r, place)
  BY <1>1, SMTT(30) DEF Good, Walk, SameButIdents, IsUpdate
<1>3. Parted(r)
  BY <1>1 DEF Good, Parted, SameButIdents
<1>4. Ordered(r)
  BY <1>1 DEF Good, Ordered, SameButIdents
<1> QED  BY <1>2, <1>3, <1>4 DEF Good

LEMMA NothingIsGood == \A place : Good(<<>>, place)
BY EmptySeq DEF Good, Walk, Parted, Ordered

-----------------------------------------------------------------------------
(* Types *)

LEMMA Width == U32 \in Nat \ {0}
<1>1. \A n \in Nat \ {0} : n * n \in Nat \ {0}
  OBVIOUS
<1> QED  BY <1>1, U16Assumption DEF U32

\* One move is one step, and stays in the world.
LEMMA MovedIsNear ==
  ASSUME NEW char \in Char, NEW facing \in Direction
  PROVE  Moved(char, facing) \in Char /\ Near(char, Moved(char, facing))
<1>1. char.x \in 0 .. U32 - 1 /\ char.y \in 0 .. U32 - 1
  BY DEF Char
<1> DEFINE dx == IF facing = Right THEN 1 ELSE IF facing = Left THEN U32 - 1 ELSE 0
           dy == IF facing = Down THEN 1 ELSE IF facing = Up THEN U32 - 1 ELSE 0
<1>2. /\ \A n \in Int : n % U32 \in 0 .. U32 - 1
      /\ \A n \in 0 .. U32 - 1 : n % U32 = n
  BY Width
<1>3. dx \in Int /\ dy \in Int
  BY Width
<1>4. Moved(char, facing) =
        [x |-> (char.x + dx) % U32, y |-> (char.y + dy) % U32, f |-> facing]
  BY DEF Moved
<1>5. \/ dx = 1 /\ dy = 0
      \/ dx = U32 - 1 /\ dy = 0
      \/ dx = 0 /\ dy = 1
      \/ dx = 0 /\ dy = U32 - 1
  BY DEF Direction, Right, Down, Left, Up
<1> HIDE DEF dx, dy
<1>6. (char.x + dx) % U32 \in 0 .. U32 - 1 /\ (char.y + dy) % U32 \in 0 .. U32 - 1
  BY SMTT(30), <1>1, <1>2, <1>3, Width
<1>7. Moved(char, facing) \in Char
  BY <1>4, <1>6 DEF Char
<1>8. \/ /\ \/ (char.x + dx) % U32 = (char.x + 1) % U32
            \/ (char.x + dx) % U32 = (char.x + U32 - 1) % U32
         /\ (char.y + dy) % U32 = char.y
      \/ /\ \/ (char.y + dy) % U32 = (char.y + 1) % U32
            \/ (char.y + dy) % U32 = (char.y + U32 - 1) % U32
         /\ (char.x + dx) % U32 = char.x
  <2>1. /\ char.x + (U32 - 1) = char.x + U32 - 1
        /\ char.y + (U32 - 1) = char.y + U32 - 1
        /\ char.x + 0 = char.x /\ char.y + 0 = char.y
    BY <1>1, Width
  <2>2. char.x % U32 = char.x /\ char.y % U32 = char.y
    BY <1>1, <1>2
  <2> QED  BY <1>5, <2>1, <2>2
<1>9. /\ Moved(char, facing).x = (char.x + dx) % U32
      /\ Moved(char, facing).y = (char.y + dy) % U32
  BY <1>4
<1> QED  BY <1>7, <1>8, <1>9 DEF Near

\* What Send() makes is a packet, and another ident does not change that.
LEMMA Made ==
  ASSUME NEW type \in PACKET_TYPE, NEW body \in Body(type)
  PROVE  packet_t(type, server_endpoint, body) \in Outgoing
<1>1. 0 \in Ident
  BY U16Assumption DEF Ident
<1>2. packet_t(type, server_endpoint, body) \in
        [type : {type}, ident : Ident, endpoint : {server_endpoint},
         body : Body(type)]
  BY <1>1 DEF packet_t
<1> QED  BY <1>2 DEF Outgoing, PacketsOf

LEMMA StampedType ==
  ASSUME NEW p \in Outgoing, NEW n \in Ident
  PROVE  /\ [p EXCEPT !.ident = n] \in Outgoing
         /\ [p EXCEPT !.ident = n].type = p.type
         /\ [p EXCEPT !.ident = n].body = p.body
<1>1. PICK t \in PACKET_TYPE :
        p \in [type : {t}, ident : Ident, endpoint : {server_endpoint},
               body : Body(t)]
  BY DEF Outgoing, PacketsOf
<1>2. [p EXCEPT !.ident = n] \in
        [type : {t}, ident : Ident, endpoint : {server_endpoint},
         body : Body(t)]
  BY <1>1
<1> QED  BY <1>1, <1>2 DEF Outgoing, PacketsOf

\* A packet the client can read.
Readable(p) ==
  /\ p.type = "LOGIN_REPLY" => p.body.ident \in Ident
  /\ p.type = "CHAT_MESSAGE" => p.body \in Message

\* A step client c takes part in, whoever sends to it.
Step(c) ==
  \/ Main(c) \/ main_start(c) \/ do_send(c)
  \/ \E reply : Readable(reply) /\ on_packet_received(c, reply)

LEMMA IncomingReadable == ASSUME NEW p \in Incoming PROVE Readable(p)
<1>1. PICK t \in PACKET_TYPE :
        p \in [type : {t}, ident : Ident, endpoint : {server_endpoint},
               body : Body(t)]
  BY DEF Incoming, Outgoing, PacketsOf
<1>2. p.type = t /\ p.body \in Body(t)
  BY <1>1
<1>3. CASE t = "LOGIN_REPLY"
  BY <1>2, <1>3 DEF Body, LoginReply, Readable
<1>4. CASE t = "CHAT_MESSAGE"
  BY <1>2, <1>4 DEF Body, Readable
<1> QED  BY <1>2, <1>3, <1>4 DEF Readable

\* A step of send() or of another thread; main() stands still.
LEMMA SendTypes ==
  ASSUME TypeOK, NEW c \in Client, Sending(c)
  PROVE  TypeOK'
<1>1. CASE send_test(c)
  BY <1>1 DEF TypeOK, send_test, mainVars, SendPC
<1>2. CASE send_stamp(c)
  <2>1. packet[c] \in Outgoing /\ ident[c] \in Ident
    BY <1>2 DEF TypeOK, send_stamp
  <2>2. [packet[c] EXCEPT !.ident = ident[c]] \in Outgoing
    BY <2>1, StampedType
  <2>3. packet' = [packet EXCEPT ![c] = [packet[c] EXCEPT !.ident = ident[c]]]
    BY <1>2 DEF send_stamp
  <2> QED  BY <1>2, <2>2, <2>3 DEF TypeOK, send_stamp, mainVars, SendPC
<1>3. CASE send_enqueue(c)
  <2>1. Append(m_tx_deque[c], packet[c]) \in Seq(Outgoing)
    BY <1>3 DEF TypeOK, send_enqueue
  <2> QED  BY <1>3, <2>1 DEF TypeOK, send_enqueue, mainVars, SendPC
<1> QED  BY <1>1, <1>2, <1>3 DEF Sending

LEMMA OtherTypes ==
  ASSUME TypeOK, NEW c \in Client,
         \/ do_send(c)
         \/ \E reply : Readable(reply) /\ on_packet_received(c, reply)
  PROVE  TypeOK'
<1>1. CASE do_send(c)
  <2>1. Tail(m_tx_deque[c]) \in Seq(Outgoing)
    BY <1>1 DEF TypeOK, do_send
  <2> QED  BY <1>1, <2>1 DEF TypeOK, do_send, mainVars, sendVars
<1>2. CASE \E reply : Readable(reply) /\ on_packet_received(c, reply)
  <2>1. PICK reply : Readable(reply) /\ on_packet_received(c, reply)
    BY <1>2
  <2>2. ident' \in [Client -> Ident]
    BY <2>1 DEF TypeOK, on_packet_received, Readable
  <2>3. chat_messages' \in [Client -> Seq(Message)]
    <3>1. reply.type = "CHAT_MESSAGE" =>
            Append(chat_messages[c], reply.body) \in Seq(Message)
      BY <2>1 DEF TypeOK, Readable
    <3> QED  BY <2>1, <3>1 DEF TypeOK, on_packet_received
  <2> QED  BY <2>1, <2>2, <2>3 DEF TypeOK, on_packet_received, mainVars, sendVars
<1> QED  BY <1>1, <1>2

\* A step of main(), which may enter send() with a packet.
LEMMA SendsTypes ==
  ASSUME TypeOK, NEW c \in Client, NEW type \in PACKET_TYPE,
         NEW body \in Body(type), Send(c, type, body)
  PROVE  /\ call' \in [Client -> SendPC]
         /\ packet' \in [Client -> Outgoing \cup {NoPacket}]
         /\ \A d \in Client : IF call'[d] = "none" THEN packet'[d] = NoPacket
                                                   ELSE packet'[d] \in Outgoing
<1>1. packet_t(type, server_endpoint, body) \in Outgoing
  BY Made
<1> QED  BY <1>1 DEF TypeOK, Send, SendPC

LEMMA LoginTypes ==
  ASSUME TypeOK, NEW c \in Client, main_login(c)
  PROVE  TypeOK'
<1>1. PICK name \in Name : Send(c, "LOGIN_REQUEST", name)
  BY DEF main_login
<1>2. "LOGIN_REQUEST" \in PACKET_TYPE /\ name \in Body("LOGIN_REQUEST")
  BY DEF PACKET_TYPE, ClientToServer, Body
<1>3. main' \in [Client -> MainPC]
  BY DEF TypeOK, main_login, Goto, MainPC
<1> QED  BY <1>1, <1>2, <1>3, SendsTypes DEF TypeOK, main_login

LEMMA GreetTypes ==
  ASSUME TypeOK, NEW c \in Client, main_greet(c)
  PROVE  TypeOK'
<1>1. Greetings[c] \in Seq(Message) /\ Len(Greetings[c]) \in Nat
  BY ClientAssumption
<1>2. main' \in [Client -> MainPC]
  BY DEF TypeOK, main_greet, Goto, MainPC
<1>3. CASE /\ greeted[c] < Len(Greetings[c])
           /\ greeted' = [greeted EXCEPT ![c] = @ + 1]
           /\ Send(c, "CHAT_MESSAGE", Greetings[c][greeted[c] + 1])
  <2>1. Greetings[c][greeted[c] + 1] \in Message
    <3>1. greeted[c] + 1 \in 1 .. Len(Greetings[c])
      BY <1>1, <1>3 DEF TypeOK
    <3> QED  BY <1>1, <3>1
  <2>2. /\ "CHAT_MESSAGE" \in PACKET_TYPE
        /\ Greetings[c][greeted[c] + 1] \in Body("CHAT_MESSAGE")
    BY <2>1 DEF PACKET_TYPE, Shared, Body
  <2>3. greeted' \in [Client -> Nat] /\ \A d \in Client : greeted'[d] <= Len(Greetings[d])
    BY <1>1, <1>3 DEF TypeOK
  <2> QED  BY <1>2, <1>3, <2>2, <2>3, SendsTypes DEF TypeOK, main_greet
<1>4. CASE UNCHANGED <<greeted, sendVars>>
  BY <1>2, <1>4 DEF TypeOK, main_greet, sendVars
<1> QED  BY <1>3, <1>4 DEF main_greet

LEMMA InputTypes ==
  ASSUME TypeOK, NEW c \in Client, main_input(c)
  PROVE  TypeOK'
<1>1. main' \in [Client -> MainPC]
  BY DEF TypeOK, main_input, Goto, MainPC
<1>2. closing' \in [Client -> BOOLEAN]
  BY DEF TypeOK, main_input
<1>3. move_queue' \in [Client -> Seq(Direction)]
  <2>1. \A facing \in Keys : Append(move_queue[c], facing) \in Seq(Direction)
    BY ClientAssumption DEF TypeOK
  <2>2. <<>> \in Seq(Direction)
    BY EmptySeq
  <2>3. CASE \E facing \in Keys :
               move_queue' = [move_queue EXCEPT ![c] = Append(@, facing)]
    BY <2>1, <2>3 DEF TypeOK
  <2>4. CASE move_queue' = [move_queue EXCEPT ![c] = <<>>]
    BY <2>2, <2>4 DEF TypeOK
  <2>5. CASE UNCHANGED move_queue
    BY <2>5 DEF TypeOK
  <2> QED  BY <2>3, <2>4, <2>5 DEF main_input
<1> QED  BY <1>1, <1>2, <1>3 DEF TypeOK, main_input, sendVars

LEMMA TickTypes ==
  ASSUME TypeOK, NEW c \in Client, main_tick(c)
  PROVE  TypeOK'
<1>1. "HEARTBEAT_PING" \in PACKET_TYPE /\ NoData \in Body("HEARTBEAT_PING")
  BY DEF PACKET_TYPE, ClientToServer, Body
<1>2. main' \in [Client -> MainPC]
  BY DEF TypeOK, main_tick, Goto, MainPC
<1> QED  BY <1>1, <1>2, SendsTypes DEF TypeOK, main_tick

LEMMA MoveTypes ==
  ASSUME TypeOK, NEW c \in Client, main_move(c)
  PROVE  TypeOK'
<1>1. main' \in [Client -> MainPC]
  BY DEF TypeOK, main_move, Goto, NextTurn, MainPC
<1>2. CASE UNCHANGED <<character, move_queue, sendVars>>
  BY <1>1, <1>2 DEF TypeOK, main_move, sendVars
<1>3. CASE /\ move_queue[c] # <<>>
           /\ move_queue' = [move_queue EXCEPT ![c] = Tail(@)]
           /\ character' = [character EXCEPT ![c] = Moved(@, Head(move_queue[c]))]
           /\ Send(c, "POSITION_UPDATE", character'[c])
  <2>1. /\ Tail(move_queue[c]) \in Seq(Direction)
        /\ Head(move_queue[c]) \in Direction
    BY <1>3 DEF TypeOK
  <2>2. Moved(character[c], Head(move_queue[c])) \in Char
    BY <2>1, MovedIsNear DEF TypeOK
  <2>3. character' \in [Client -> Char] /\ character'[c] \in Position
    BY <1>3, <2>2, ClientAssumption DEF TypeOK
  <2>4. /\ "POSITION_UPDATE" \in PACKET_TYPE
        /\ character'[c] \in Body("POSITION_UPDATE")
    BY <2>3 DEF PACKET_TYPE, Shared, Body
  <2>5. move_queue' \in [Client -> Seq(Direction)]
    BY <1>3, <2>1 DEF TypeOK
  <2> QED  BY <1>1, <1>3, <2>3, <2>4, <2>5, SendsTypes DEF TypeOK, main_move
<1> QED  BY <1>2, <1>3 DEF main_move

LEMMA TurnTypes ==
  ASSUME TypeOK, NEW c \in Client,
         main_no_tick(c) \/ main_exit(c)
  PROVE  TypeOK'
<1>1. CASE main_no_tick(c)
  BY <1>1 DEF TypeOK, main_no_tick, Goto, NextTurn, MainPC, sendVars
<1>2. CASE main_exit(c)
  <2>1. <<>> \in Seq(Outgoing)
    BY EmptySeq
  <2> QED  BY <1>2, <2>1 DEF TypeOK, main_exit, Goto, MainPC, sendVars
<1> QED  BY <1>1, <1>2

LEMMA StartTypes ==
  ASSUME TypeOK, NEW c \in Client, main_start(c)
  PROVE  TypeOK'
<1>1. Start \in Char /\ <<>> \in Seq(Direction) /\ <<>> \in Seq(Message)
  BY ClientAssumption, EmptySeq
<1>2. /\ main' \in [Client -> MainPC]
      /\ closing' \in [Client -> BOOLEAN]
      /\ ident' \in [Client -> Ident]
  BY DEF TypeOK, main_start, Goto, MainPC
<1>3. /\ greeted' \in [Client -> Nat]
      /\ \A d \in Client : greeted'[d] <= Len(Greetings[d])
  <2>1. 0 <= Len(Greetings[c])
    BY ClientAssumption
  <2> QED  BY <2>1 DEF TypeOK, main_start
<1>4. /\ character' \in [Client -> Char]
      /\ move_queue' \in [Client -> Seq(Direction)]
      /\ chat_messages' \in [Client -> Seq(Message)]
  BY <1>1 DEF TypeOK, main_start
<1> QED  BY <1>2, <1>3, <1>4 DEF TypeOK, main_start, sendVars

LEMMA InitTypes == Init => TypeOK
<1> SUFFICES ASSUME Init PROVE TypeOK
  OBVIOUS
<1>1. /\ <<>> \in Seq(Direction) /\ <<>> \in Seq(Message) /\ <<>> \in Seq(Outgoing)
      /\ Start \in Char /\ \A c \in Client : 0 <= Len(Greetings[c])
  BY ClientAssumption, EmptySeq
<1> QED  BY <1>1 DEF Init, TypeOK, MainPC, SendPC

LEMMA StepTypes == ASSUME TypeOK, NEW c \in Client, Step(c) PROVE TypeOK'
<1>1. CASE Main(c)
  BY <1>1, LoginTypes, GreetTypes, InputTypes, TickTypes, MoveTypes, TurnTypes,
     SendTypes
     DEF Main, Loop
<1>2. CASE main_start(c)
  BY <1>2, StartTypes
<1>3. CASE \/ do_send(c)
           \/ \E reply : Readable(reply) /\ on_packet_received(c, reply)
  BY <1>3, OtherTypes
<1> QED  BY <1>1, <1>2, <1>3 DEF Step

\* What the server sends can be read.
LEMMA NextIsStep == Next => \E c \in Client : Step(c)
<1> SUFFICES ASSUME NEW c \in Client, NEW reply \in Incoming,
                    on_packet_received(c, reply)
             PROVE  Step(c)
  BY DEF Next, Step
<1>1. Readable(reply)
  BY IncomingReadable
<1> QED  BY <1>1 DEF Step

LEMMA NextTypes == TypeOK /\ [Next]_clientVars => TypeOK'
<1>1. TypeOK /\ UNCHANGED clientVars => TypeOK'
  BY DEF TypeOK, clientVars, mainVars, sendVars
<1> QED  BY <1>1, NextIsStep, StepTypes

\* Every variable of the client keeps its type; what it sends is a packet of
\* one of the types its bodies go with, and coordinates are uint32_t.
THEOREM ClientTypeCorrect == Spec => []TypeOK
BY InitTypes, NextTypes, PTL DEF Spec

-----------------------------------------------------------------------------
(* What may be pending where main() is *)

Stage(pc, q) ==
  /\ pc \in {"login", "closed"} => q = <<>>
  /\ pc = "greet" =>
       \A i \in DOMAIN q : q[i].type \in {"LOGIN_REQUEST", "CHAT_MESSAGE"}
  /\ pc = "move" /\ q # <<>> => q[Len(q)].type # "POSITION_UPDATE"

Sound(pc, q, place) == Good(q, place) /\ Stage(pc, q)

\* The inductive invariant, beside the types.
ClientInv == \A c \in Client : Sound(main[c], Pending(c), character[c])

LEMMA SoundTail ==
  ASSUME NEW P, NEW q \in Seq(P), NEW pc, NEW place, q # <<>>,
         Sound(pc, q, place)
  PROVE  Sound(pc, Tail(q), place)
<1> DEFINE r == Tail(q)
<1>1. Good(r, place)
  BY TailIsGood DEF Sound
<1>2. /\ Len(r) \in Nat /\ Len(q) = Len(r) + 1 /\ DOMAIN q = 1 .. Len(q)
      /\ DOMAIN r = 1 .. Len(r) /\ \A i \in 1 .. Len(r) : r[i] = q[i + 1]
      /\ r # <<>> => Len(r) # 0
  <2>1. r \in Seq(P) /\ Len(q) \in Nat /\ DOMAIN q = 1 .. Len(q)
        /\ Len(r) = Len(q) - 1 /\ \A i \in 1 .. Len(r) : r[i] = q[i + 1]
    BY HeadTailProperties, LenProperties
  <2>2. Len(r) \in Nat /\ DOMAIN r = 1 .. Len(r)
    BY <2>1, LenProperties
  <2>3. r # <<>> => Len(r) # 0
    BY <2>1, EmptySeq
  <2> QED  BY <2>1, <2>2, <2>3
<1> HIDE DEF r
<1>3. Stage(pc, r)
  <2>1. pc \notin {"login", "closed"}
    BY DEF Sound, Stage
  <2>2. pc = "greet" =>
          \A i \in DOMAIN r : r[i].type \in {"LOGIN_REQUEST", "CHAT_MESSAGE"}
    BY <1>2 DEF Sound, Stage
  <2>3. pc = "move" /\ r # <<>> => r[Len(r)].type # "POSITION_UPDATE"
    BY <1>2 DEF Sound, Stage
  <2> QED  BY <2>1, <2>2, <2>3 DEF Stage
<1> QED  BY <1>1, <1>3 DEF Sound, r

LEMMA SoundIdents ==
  ASSUME NEW P, NEW q \in Seq(P), NEW r \in Seq(P), NEW pc, NEW place,
         Sound(pc, q, place), SameButIdents(q, r)
  PROVE  Sound(pc, r, place)
<1>1. Good(r, place)
  BY IdentsDoNotMatter DEF Sound
<1>2. /\ Len(q) \in Nat /\ Len(q) = Len(r)
      /\ DOMAIN q = 1 .. Len(q) /\ DOMAIN r = 1 .. Len(q)
      /\ (q = <<>>) = (Len(q) = 0) /\ (r = <<>>) = (Len(r) = 0)
  BY LenProperties, EmptySeq DEF SameButIdents
<1>3. Stage(pc, r)
  BY <1>2 DEF Sound, Stage, SameButIdents
<1> QED  BY <1>1, <1>3 DEF Sound

\* In the rest of its loop main() may be wherever it likes.
LEMMA SoundTurn ==
  ASSUME NEW pc, NEW q, NEW place, NEW next, Sound(pc, q, place),
         next \in {"input", "tick", "exit"}
  PROVE  Sound(next, q, place)
BY DEF Sound, Stage

LEMMA PendingIsSeq ==
  ASSUME TypeOK, NEW c \in Client
  PROVE  Pending(c) \in Seq(Outgoing)
<1>1. m_tx_deque[c] \in Seq(Outgoing)
  BY DEF TypeOK
<1>2. CASE call[c] = "none"
  BY <1>1, <1>2, ConcatEmptySeq DEF Pending
<1>3. CASE call[c] # "none"
  <2>1. packet[c] \in Outgoing
    BY <1>3 DEF TypeOK
  <2> QED  BY <1>1, <1>3, <2>1, AppendProperties, AppendIsConcat DEF Pending
<1> QED  BY <1>2, <1>3

\* The two forms of Pending(c).
LEMMA PendingForms ==
  ASSUME TypeOK, NEW c \in Client
  PROVE  /\ call[c] = "none" => Pending(c) = m_tx_deque[c]
         /\ call[c] # "none" =>
              /\ packet[c] \in Outgoing
              /\ Pending(c) = Append(m_tx_deque[c], packet[c])
<1>1. m_tx_deque[c] \in Seq(Outgoing)
  BY DEF TypeOK
<1>2. CASE call[c] = "none"
  BY <1>1, <1>2, ConcatEmptySeq DEF Pending
<1>3. CASE call[c] # "none"
  <2>1. packet[c] \in Outgoing
    BY <1>3 DEF TypeOK
  <2> QED  BY <1>1, <1>3, <2>1, AppendIsConcat DEF Pending
<1> QED  BY <1>2, <1>3

\* The same in the state after a step.
LEMMA PendingFormsNext ==
  ASSUME TypeOK', NEW c \in Client
  PROVE  /\ Pending(c)' \in Seq(Outgoing)
         /\ call'[c] = "none" => Pending(c)' = m_tx_deque'[c]
         /\ call'[c] # "none" =>
              /\ packet'[c] \in Outgoing
              /\ Pending(c)' = Append(m_tx_deque'[c], packet'[c])
<1>1. m_tx_deque'[c] \in Seq(Outgoing)
  BY DEF TypeOK
<1>2. CASE call'[c] = "none"
  BY <1>1, <1>2, ConcatEmptySeq DEF Pending
<1>3. CASE call'[c] # "none"
  <2>1. packet'[c] \in Outgoing
    BY <1>3 DEF TypeOK
  <2> QED  BY <1>1, <1>3, <2>1, AppendIsConcat, AppendProperties DEF Pending
<1> QED  BY <1>2, <1>3

\* main() enters send().
LEMMA SendAppends ==
  ASSUME TypeOK, TypeOK', NEW c \in Client, NEW type, NEW body,
         call[c] = "none", Send(c, type, body), UNCHANGED m_tx_deque
  PROVE  LET p == packet_t(type, server_endpoint, body)
         IN  /\ p \in Outgoing /\ p.type = type /\ p.body = body
             /\ Pending(c)' = Append(Pending(c), p)
<1>1. /\ call'[c] = "test"
      /\ packet'[c] = packet_t(type, server_endpoint, body)
  BY DEF TypeOK, Send
<1>2. Pending(c) = m_tx_deque[c]
  BY PendingForms
<1>3. packet'[c] \in Outgoing /\ Pending(c)' = Append(m_tx_deque[c], packet'[c])
  BY <1>1, PendingFormsNext
<1> QED  BY <1>1, <1>2, <1>3 DEF packet_t

-----------------------------------------------------------------------------
(* One step of client c *)

Kept(c) == Sound(main[c], Pending(c), character[c])

LEMMA LoginKeeps ==
  ASSUME TypeOK, TypeOK', NEW c \in Client, Kept(c), main_login(c)
  PROVE  Kept(c)'
<1>1. PICK name \in Name : Send(c, "LOGIN_REQUEST", name)
  BY DEF main_login
<1> DEFINE p == packet_t("LOGIN_REQUEST", server_endpoint, name)
           q == Pending(c)
<1>2. /\ call[c] = "none" /\ main[c] = "login" /\ main'[c] = "greet"
      /\ character' = character /\ m_tx_deque' = m_tx_deque
  BY DEF main_login, At, Goto, TypeOK
<1>3. p \in Outgoing /\ p.type = "LOGIN_REQUEST" /\ Pending(c)' = Append(q, p)
  BY <1>1, <1>2, SendAppends
<1>4. q = <<>> /\ Good(q, character[c]) /\ q \in Seq(Outgoing)
  BY <1>2, PendingIsSeq DEF Kept, Sound, Stage
<1> HIDE DEF p, q
<1>5. Good(Append(q, p), character[c])
  BY <1>3, <1>4, AppendOther
<1>6. Stage("greet", Append(q, p))
  <2>1. Len(q) = 0 /\ Len(Append(q, p)) = 1 /\ Append(q, p)[1] = p
        /\ DOMAIN Append(q, p) = 1 .. 1
    BY <1>3, <1>4, EmptySeq, AppendProperties, LenProperties
  <2> QED  BY <1>3, <2>1 DEF Stage
<1> QED  BY <1>2, <1>3, <1>5, <1>6 DEF Kept, Sound

LEMMA GreetKeeps ==
  ASSUME TypeOK, TypeOK', NEW c \in Client, Kept(c), main_greet(c)
  PROVE  Kept(c)'
<1> DEFINE q == Pending(c)
<1>1. /\ call[c] = "none" /\ main[c] = "greet"
      /\ character' = character /\ m_tx_deque' = m_tx_deque
  BY DEF main_greet, At
<1>2. q \in Seq(Outgoing) /\ Good(q, character[c]) /\ Stage("greet", q)
  BY <1>1, PendingIsSeq DEF Kept, Sound
<1>3. CASE Send(c, "CHAT_MESSAGE", Greetings[c][greeted[c] + 1]) /\ UNCHANGED main
  <2> DEFINE p == packet_t("CHAT_MESSAGE", server_endpoint,
                           Greetings[c][greeted[c] + 1])
  <2>1. p \in Outgoing /\ p.type = "CHAT_MESSAGE" /\ Pending(c)' = Append(q, p)
    BY <1>1, <1>3, SendAppends
  <2> HIDE DEF p, q
  <2>2. Good(Append(q, p), character[c])
    BY <1>2, <2>1, AppendOther DEF Stage
  <2>3. Stage("greet", Append(q, p))
    <3>1. /\ Len(q) \in Nat /\ DOMAIN q = 1 .. Len(q)
          /\ DOMAIN Append(q, p) = 1 .. Len(q) + 1
          /\ Append(q, p)[Len(q) + 1] = p
          /\ \A i \in 1 .. Len(q) : Append(q, p)[i] = q[i]
      BY <1>2, <2>1, AppendProperties, LenProperties
    <3> QED  BY <1>2, <2>1, <3>1 DEF Stage
  <2> QED  BY <1>1, <1>3, <2>1, <2>2, <2>3 DEF Kept, Sound
<1>4. CASE Goto(c, "input") /\ UNCHANGED <<greeted, sendVars>>
  <2>1. Pending(c)' = Pending(c) /\ main'[c] = "input"
    BY <1>1, <1>4 DEF Pending, sendVars, Goto, TypeOK
  <2> QED  BY <1>1, <2>1, SoundTurn DEF Kept
<1> QED  BY <1>3, <1>4 DEF main_greet

\* A turn of the loop that sends nothing.
LEMMA TurnKeeps ==
  ASSUME TypeOK, NEW c \in Client, Kept(c),
         \/ main_input(c) \/ main_no_tick(c)
         \/ main_move(c) /\ UNCHANGED <<character, sendVars>>
  PROVE  Kept(c)'
<1>1. /\ main'[c] \in {"input", "tick", "exit"}
      /\ Pending(c)' = Pending(c) /\ character' = character
  BY DEF main_input, main_no_tick, main_move, Goto, NextTurn, TypeOK, sendVars,
         Pending
<1> QED  BY <1>1, SoundTurn DEF Kept

LEMMA TickKeeps ==
  ASSUME TypeOK, TypeOK', NEW c \in Client, Kept(c), main_tick(c)
  PROVE  Kept(c)'
<1> DEFINE q == Pending(c)
           p == packet_t("HEARTBEAT_PING", server_endpoint, NoData)
<1>1. /\ call[c] = "none" /\ main'[c] = "move"
      /\ character' = character /\ m_tx_deque' = m_tx_deque
  BY DEF main_tick, At, Goto, TypeOK
<1>2. q \in Seq(Outgoing) /\ Good(q, character[c])
  BY PendingIsSeq DEF Kept, Sound
<1>3. p \in Outgoing /\ p.type = "HEARTBEAT_PING" /\ Pending(c)' = Append(q, p)
  BY <1>1, SendAppends DEF main_tick
<1> HIDE DEF p, q
<1>4. Good(Append(q, p), character[c])
  BY <1>2, <1>3, AppendOther
<1>5. Stage("move", Append(q, p))
  <2>1. Append(q, p)[Len(Append(q, p))] = p
    BY <1>2, <1>3, AppendProperties
  <2> QED  BY <1>3, <2>1 DEF Stage
<1> QED  BY <1>1, <1>3, <1>4, <1>5 DEF Kept, Sound

LEMMA MoveKeeps ==
  ASSUME TypeOK, TypeOK', NEW c \in Client, Kept(c), main_move(c)
  PROVE  Kept(c)'
<1>1. CASE UNCHANGED <<character, sendVars>>
  BY <1>1, TurnKeeps
<1>2. CASE /\ move_queue[c] # <<>>
           /\ character' = [character EXCEPT ![c] = Moved(@, Head(move_queue[c]))]
           /\ Send(c, "POSITION_UPDATE", character'[c])
  <2> DEFINE q == Pending(c)
             new == character'[c]
             p == packet_t("POSITION_UPDATE", server_endpoint, new)
  <2>1. /\ call[c] = "none" /\ main[c] = "move" /\ main'[c] \in {"input", "exit"}
        /\ m_tx_deque' = m_tx_deque
    BY DEF main_move, At, Goto, NextTurn, TypeOK
  <2>2. /\ q \in Seq(Outgoing) /\ Good(q, character[c])
        /\ q # <<>> => q[Len(q)].type # "POSITION_UPDATE"
    BY <2>1, PendingIsSeq DEF Kept, Sound, Stage
  <2>3. Near(character[c], new)
    <3>1. Head(move_queue[c]) \in Direction /\ character[c] \in Char
      BY <1>2 DEF TypeOK
    <3>2. new = Moved(character[c], Head(move_queue[c]))
      BY <1>2 DEF TypeOK
    <3> QED  BY <3>1, <3>2, MovedIsNear
  <2>4. /\ p \in Outgoing /\ p.type = "POSITION_UPDATE" /\ p.body = new
        /\ Pending(c)' = Append(q, p)
    BY <1>2, <2>1, SendAppends
  <2> HIDE DEF p, q, new
  <2>5. Good(Append(q, p), new)
    BY <2>2, <2>3, <2>4, AppendUpdate
  <2> QED  BY <2>1, <2>4, <2>5 DEF Kept, Sound, Stage, new
<1> QED  BY <1>1, <1>2 DEF main_move

LEMMA LeaveKeeps ==
  ASSUME TypeOK, TypeOK', NEW c \in Client, Kept(c), main_exit(c) \/ main_start(c)
  PROVE  Kept(c)'
<1>1. Pending(c)' = <<>>
  <2>1. CASE main_exit(c)
    <3>1. call'[c] = "none" /\ m_tx_deque'[c] = <<>>
      BY <2>1 DEF main_exit, At, TypeOK, sendVars
    <3> QED  BY <3>1, PendingFormsNext
  <2>2. CASE main_start(c)
    <3>1. Pending(c)' = Pending(c) /\ main[c] = "closed"
      BY <2>2 DEF main_start, At, sendVars, Pending
    <3> QED  BY <3>1 DEF Kept, Sound, Stage
  <2> QED  BY <2>1, <2>2
<1>2. main'[c] \in {"login", "closed"}
  BY DEF main_exit, main_start, Goto, TypeOK
<1> QED  BY <1>1, <1>2, NothingIsGood DEF Kept, Sound, Stage

\* send() changes nothing but the ident of the packet it sends.
LEMMA SendMarksOnly ==
  ASSUME TypeOK, TypeOK', NEW c \in Client, Sending(c)
  PROVE  SameButIdents(Pending(c), Pending(c)')
<1> DEFINE q == Pending(c)
           r == Pending(c)'
<1>1. CASE send_test(c) \/ send_enqueue(c)
  <2>1. CASE send_test(c)
    <3>1. call[c] # "none" /\ call'[c] # "none"
          /\ packet' = packet /\ m_tx_deque' = m_tx_deque
      BY <2>1 DEF send_test, TypeOK
    <3> QED  BY <3>1, PendingForms, PendingFormsNext DEF SameButIdents
  <2>2. CASE send_enqueue(c)
    <3>1. call[c] # "none" /\ call'[c] = "none"
          /\ m_tx_deque'[c] = Append(m_tx_deque[c], packet[c])
      BY <2>2 DEF send_enqueue, TypeOK
    <3> QED  BY <3>1, PendingForms, PendingFormsNext DEF SameButIdents
  <2> QED  BY <1>1, <2>1, <2>2
<1>2. CASE send_stamp(c)
  <2>1. /\ call[c] # "none" /\ call'[c] # "none" /\ m_tx_deque' = m_tx_deque
        /\ ident[c] \in Ident
        /\ packet'[c] = [packet[c] EXCEPT !.ident = ident[c]]
    BY <1>2 DEF send_stamp, TypeOK
  <2>2. /\ m_tx_deque[c] \in Seq(Outgoing)
        /\ packet[c] \in Outgoing /\ packet'[c] \in Outgoing
        /\ q = Append(m_tx_deque[c], packet[c])
        /\ r = Append(m_tx_deque[c], packet'[c])
    BY <2>1, PendingForms, PendingFormsNext DEF TypeOK
  <2>3. packet'[c].type = packet[c].type /\ packet'[c].body = packet[c].body
    BY <2>1, <2>2, StampedType
  <2> DEFINE s == m_tx_deque[c]
  <2> HIDE DEF q, r, s
  <2>4. /\ Len(s) \in Nat /\ Len(q) = Len(s) + 1 /\ Len(r) = Len(s) + 1
        /\ DOMAIN q = 1 .. Len(s) + 1
        /\ q[Len(s) + 1] = packet[c] /\ r[Len(s) + 1] = packet'[c]
        /\ \A i \in 1 .. Len(s) : q[i] = s[i] /\ r[i] = s[i]
    BY <2>2, AppendProperties, LenProperties DEF s
  <2>5. SameButIdents(q, r)
    BY <2>3, <2>4 DEF SameButIdents
  <2> QED  BY <2>5 DEF q, r
<1> QED  BY <1>1, <1>2 DEF Sending

LEMMA SendKeeps ==
  ASSUME TypeOK, TypeOK', NEW c \in Client, Kept(c), Sending(c)
  PROVE  Kept(c)'
<1> DEFINE q == Pending(c)
           r == Pending(c)'
<1>1. /\ main' = main /\ character' = character
      /\ q \in Seq(Outgoing) /\ r \in Seq(Outgoing)
  BY PendingIsSeq, PendingFormsNext
     DEF Sending, send_test, send_stamp, send_enqueue, mainVars
<1>2. SameButIdents(q, r)
  BY SendMarksOnly
<1> HIDE DEF q, r
<1>3. Sound(main[c], r, character[c])
  BY <1>1, <1>2, SoundIdents DEF Kept, q
<1> QED  BY <1>1, <1>3 DEF Kept, r

\* do_send takes the oldest packet that is still to be sent.
LEMMA OldestLeaves ==
  ASSUME TypeOK, TypeOK', NEW c \in Client, do_send(c)
  PROVE  /\ m_tx_deque[c] \in Seq(Outgoing) /\ m_tx_deque[c] # <<>>
         /\ Pending(c) # <<>> /\ Pending(c)' = Tail(Pending(c))
         /\ Head(Pending(c)) = Head(m_tx_deque[c])
<1>1. /\ call' = call /\ packet' = packet
      /\ m_tx_deque[c] \in Seq(Outgoing) /\ m_tx_deque[c] # <<>>
      /\ m_tx_deque'[c] = Tail(m_tx_deque[c])
  BY DEF do_send, mainVars, sendVars, TypeOK
<1>2. CASE call[c] = "none"
  BY <1>1, <1>2, PendingForms, PendingFormsNext
<1>3. CASE call[c] # "none"
  <2>1. /\ packet[c] \in Outgoing
        /\ Pending(c) = Append(m_tx_deque[c], packet[c])
        /\ Pending(c)' = Append(Tail(m_tx_deque[c]), packet[c])
    BY <1>1, <1>3, PendingForms, PendingFormsNext
  <2> QED  BY <1>1, <2>1, HeadTailAppend, AppendProperties
<1> QED  BY <1>1, <1>2, <1>3

LEMMA OthersKeep ==
  ASSUME TypeOK, TypeOK', NEW c \in Client, Kept(c),
         \/ do_send(c)
         \/ \E reply : Readable(reply) /\ on_packet_received(c, reply)
  PROVE  Kept(c)'
<1>1. CASE \E reply : Readable(reply) /\ on_packet_received(c, reply)
  BY <1>1 DEF on_packet_received, mainVars, sendVars, Kept, Pending
<1>2. CASE do_send(c)
  <2>1. main' = main /\ character' = character
    BY <1>2 DEF do_send, mainVars
  <2>2. Pending(c) # <<>> /\ Pending(c)' = Tail(Pending(c))
    BY <1>2, OldestLeaves
  <2>3. Sound(main[c], Tail(Pending(c)), character[c])
    BY <2>2, PendingIsSeq, SoundTail DEF Kept
  <2> QED  BY <2>1, <2>2, <2>3 DEF Kept
<1> QED  BY <1>1, <1>2

-----------------------------------------------------------------------------
(* The invariant *)

LEMMA InitKept == Init => ClientInv
<1> SUFFICES ASSUME Init, NEW c \in Client
             PROVE  Sound(main[c], Pending(c), character[c])
  BY DEF ClientInv
<1>1. Pending(c) = <<>> /\ main[c] = "login"
  BY InitTypes, PendingForms DEF Init
<1> QED  BY <1>1, NothingIsGood DEF Sound, Stage

\* A step of c is no step of another client d.
LEMMA StandsStill ==
  ASSUME TypeOK, NEW c \in Client, NEW d \in Client, c # d, Step(c)
  PROVE  /\ main'[d] = main[d] /\ character'[d] = character[d]
         /\ call'[d] = call[d] /\ packet'[d] = packet[d]
         /\ m_tx_deque'[d] = m_tx_deque[d] /\ ident'[d] = ident[d]
         /\ greeted'[d] = greeted[d] /\ chat_messages'[d] = chat_messages[d]
<1>1. CASE main_login(c) \/ main_greet(c) \/ main_tick(c)
  BY <1>1 DEF main_login, main_greet, main_tick, Goto, Send, sendVars, TypeOK
<1>2. CASE main_input(c) \/ main_no_tick(c)
  BY <1>2 DEF main_input, main_no_tick, Goto, sendVars, TypeOK
<1>3. CASE main_move(c)
  BY <1>3 DEF main_move, Goto, Send, sendVars, TypeOK
<1>4. CASE main_exit(c) \/ main_start(c)
  BY <1>4 DEF main_exit, main_start, Goto, sendVars, TypeOK
<1>5. CASE Sending(c)
  BY <1>5 DEF Sending, send_test, send_stamp, send_enqueue, mainVars, TypeOK
<1>6. CASE \/ do_send(c)
           \/ \E reply : Readable(reply) /\ on_packet_received(c, reply)
  BY <1>6 DEF do_send, on_packet_received, mainVars, sendVars, TypeOK
<1> QED  BY <1>1, <1>2, <1>3, <1>4, <1>5, <1>6 DEF Step, Main, Loop

LEMMA StepKept ==
  ASSUME TypeOK, ClientInv, NEW c \in Client, Step(c)
  PROVE  ClientInv'
<1>1. TypeOK'
  BY StepTypes
<1>2. Kept(c)'
  <2>1. Kept(c)
    BY DEF Kept, ClientInv
  <2> QED  BY <1>1, <2>1, LoginKeeps, GreetKeeps, TurnKeeps, TickKeeps,
              MoveKeeps, LeaveKeeps, SendKeeps, OthersKeep DEF Step, Main, Loop
<1>3. ASSUME NEW d \in Client, d # c
      PROVE  Kept(d)'
  <2>1. /\ main'[d] = main[d] /\ character'[d] = character[d]
        /\ Pending(d)' = Pending(d)
    BY <1>3, StandsStill DEF Pending
  <2> QED  BY <2>1 DEF ClientInv, Kept
<1> QED  BY <1>2, <1>3 DEF ClientInv, Kept

LEMMA NextKept == TypeOK /\ ClientInv /\ [Next]_clientVars => ClientInv'
<1>1. ClientInv /\ UNCHANGED clientVars => ClientInv'
  BY DEF ClientInv, Pending, clientVars, mainVars, sendVars
<1> QED  BY <1>1, NextIsStep, StepKept

LEMMA Invariance == Spec => [](TypeOK /\ ClientInv)
<1>1. Init => TypeOK /\ ClientInv
  BY InitTypes, InitKept
<1>2. TypeOK /\ ClientInv /\ [Next]_clientVars => (TypeOK /\ ClientInv)'
  BY NextTypes, NextKept
<1> QED  BY <1>1, <1>2, PTL DEF Spec

\* The server is told of every place the character goes through, one step after
\* the other, whatever is sent in between and wherever a coordinate wraps.
THEOREM UpdatesWalk == Spec => []UpdatesAreAWalk
<1>1. ClientInv => UpdatesAreAWalk
  BY DEF ClientInv, Sound, Good, Walk, UpdatesAreAWalk
<1> QED  BY <1>1, Invariance, PTL

\* However many keys wait, there is a heartbeat between two updates.
THEOREM MovesArePaced == Spec => []OneMovePerTick
<1>1. ClientInv => OneMovePerTick
  BY DEF ClientInv, Sound, Good, Parted, OneMovePerTick
<1> QED  BY <1>1, Invariance, PTL

\* No packet overtakes the login, and no update a greeting.
THEOREM LoginIsFirst == Spec => []LoginGoesFirst
<1>1. ClientInv => LoginGoesFirst
  BY DEF ClientInv, Sound, Good, Ordered, LoginGoesFirst
<1> QED  BY <1>1, Invariance, PTL
=============================================================================
