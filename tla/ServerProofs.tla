---------------------------- MODULE ServerProofs ----------------------------
(***************************************************************************)
(* Proofs about Packet and Server for every width, every set of clients    *)
(* and every bound: the full client ident separates endpoints that use the *)
(* same client ident, and what follows for the server's sessions.          *)
(***************************************************************************)
EXTENDS Server, Integers, SequenceTheorems, TLAPS

-----------------------------------------------------------------------------
(* Arithmetic *)

\* Division with remainder.
LEMMA DivMod ==
  ASSUME NEW a \in Nat, NEW n \in Nat \ {0}
  PROVE  /\ a = n * (a \div n) + (a % n)
         /\ a \div n \in Nat /\ a % n \in 0 .. n - 1
OBVIOUS

\* A product is not below a factor unless the other factor is below one.
LEMMA ProductBound ==
  ASSUME NEW n \in Nat \ {0}, NEW d \in Int, d >= 1
  PROVE  n * d >= n
OBVIOUS

\* Adding a constant modulo n is injective on 0 .. n - 1.
LEMMA ModCancel ==
  ASSUME NEW n \in Nat \ {0}, NEW c \in Nat,
         NEW x \in 0 .. n - 1, NEW y \in 0 .. n - 1,
         (c + x) % n = (c + y) % n
  PROVE  x = y
<1>. DEFINE a == (c + x) \div n
            b == (c + y) \div n
            r == (c + x) % n
<1>1. c + x \in Nat /\ c + y \in Nat
  OBVIOUS
<1>2. \A m \in Nat : /\ m = n * (m \div n) + (m % n)
                     /\ m \div n \in Nat /\ m % n \in Nat
  BY DivMod
<1>3. a \in Nat /\ b \in Nat /\ r \in Nat
  BY <1>1, <1>2
<1>4. c + x = n * a + r /\ c + y = n * b + r
  BY <1>1, <1>2
<1>. HIDE DEF a, b, r
<1>5. x - y = n * (a - b) /\ y - x = n * (b - a)
  BY <1>3, <1>4
<1>6. ~(a - b >= 1) /\ ~(b - a >= 1)
  BY <1>3, <1>5, ProductBound
<1>7. a = b
  BY <1>3, <1>6
<1>. QED
  BY <1>3, <1>5, <1>7

\* Two digits of a number below w * w, w at least v: address and port.
LEMMA DigitsUnique ==
  ASSUME NEW v \in Nat \ {0}, NEW w \in Nat \ {0}, v <= w,
         NEW a \in 0 .. w - 1, NEW b \in 0 .. w - 1,
         NEW p \in 0 .. v - 1, NEW q \in 0 .. v - 1
  PROVE  /\ a * w + p \in 0 .. (w * w) - 1
         /\ a * w + p = b * w + q => a = b /\ p = q
<1>1. a * w + p \in 0 .. (w * w) - 1
  <2>1. a * w \in Nat /\ w * w \in Nat
    OBVIOUS
  <2>2. (w - a) * w >= w
    <3>1. w * (w - a) >= w
      BY ProductBound
    <3>. QED
      BY <3>1
  <2>3. w * w = a * w + (w - a) * w
    OBVIOUS
  <2>. QED
    BY <2>1, <2>2, <2>3
<1>2. ASSUME a * w + p = b * w + q
      PROVE  a = b /\ p = q
  <2>1. w * (a - b) = q - p /\ w * (b - a) = p - q
    BY <1>2
  <2>2. q - p < w /\ p - q < w
    OBVIOUS
  <2>3. ~(a - b >= 1) /\ ~(b - a >= 1)
    BY <2>1, <2>2, ProductBound
  <2>4. a = b
    BY <2>3
  <2>. QED
    BY <1>2, <2>4
<1>. QED
  BY <1>1, <1>2

-----------------------------------------------------------------------------
(* The full client ident *)

\* U32 and U64 are what their definitions say, and not smaller than U16.
LEMMA Widths ==
  /\ U16 \in Nat \ {0} /\ U32 \in Nat \ {0} /\ U64 \in Nat \ {0}
  /\ U16 <= U32
<1>1. U16 \in Nat \ {0}
  BY U16Assumption
<1>2. U32 \in Nat \ {0} /\ U16 <= U32
  BY <1>1, ProductBound DEF U32
<1>3. U64 \in Nat \ {0}
  BY <1>2 DEF U64
<1>. QED
  BY <1>1, <1>2, <1>3

\* Packets with one client ident have the same key only if they come from the
\* same address and port, although ident and address overlap and the sum wraps.
THEOREM SameIdentInjective ==
  ASSUME NEW p, NEW q, p.ident \in Ident, q.ident = p.ident,
         p.endpoint \in Endpoint, q.endpoint \in Endpoint,
         get_full_client_ident(p) = get_full_client_ident(q)
  PROVE  p.endpoint = q.endpoint
<1>. DEFINE c == p.ident * (U16 * U32)
            x == p.endpoint.address * U32 + p.endpoint.port
            y == q.endpoint.address * U32 + q.endpoint.port
<1>1. /\ p.endpoint.address \in 0 .. U32 - 1 /\ p.endpoint.port \in 0 .. U16 - 1
      /\ q.endpoint.address \in 0 .. U32 - 1 /\ q.endpoint.port \in 0 .. U16 - 1
  BY DEF Endpoint
<1>2. c \in Nat
  <2>1. p.ident \in Nat /\ U16 * U32 \in Nat
    BY Widths DEF Ident
  <2>. QED
    BY <2>1
<1>3. /\ x \in 0 .. U64 - 1 /\ y \in 0 .. U64 - 1
      /\ x = y => /\ p.endpoint.address = q.endpoint.address
                  /\ p.endpoint.port = q.endpoint.port
  <2>1. \A a, b \in 0 .. U32 - 1 : \A m, n \in 0 .. U16 - 1 :
          /\ a * U32 + m \in 0 .. (U32 * U32) - 1
          /\ a * U32 + m = b * U32 + n => a = b /\ m = n
    BY Widths, DigitsUnique
  <2>. QED
    BY <1>1, <2>1 DEF U64
<1>4. /\ get_full_client_ident(p) = (c + x) % U64
      /\ get_full_client_ident(q) = (c + y) % U64
  <2>1. /\ get_full_client_ident(p) =
             (c + p.endpoint.address * U32 + p.endpoint.port) % U64
        /\ get_full_client_ident(q) =
             (c + q.endpoint.address * U32 + q.endpoint.port) % U64
    BY DEF get_full_client_ident
  <2>2. ASSUME NEW k \in Nat, NEW m \in Nat, NEW n \in Nat
        PROVE  k + m + n = k + (m + n)
    OBVIOUS
  <2>3. /\ p.endpoint.address * U32 \in Nat /\ p.endpoint.port \in Nat
        /\ q.endpoint.address * U32 \in Nat /\ q.endpoint.port \in Nat
    BY <1>1, Widths
  <2>. HIDE DEF c
  <2>. QED
    BY <1>2, <2>1, <2>2, <2>3
<1>. HIDE DEF c, x, y
<1>5. x = y
  BY <1>2, <1>3, <1>4, Widths, ModCancel
<1>6. /\ p.endpoint = [address |-> p.endpoint.address, port |-> p.endpoint.port]
      /\ q.endpoint = [address |-> q.endpoint.address, port |-> q.endpoint.port]
  BY DEF Endpoint
<1>. QED
  BY <1>3, <1>5, <1>6

-----------------------------------------------------------------------------
(* Packets *)

\* What the body of each type is.
LEMMA Bodies ==
  /\ Body("HEARTBEAT_PING") = {NoData} /\ Body("HEARTBEAT_PONG") = {NoData}
  /\ Body("LOGIN_REQUEST") = Name /\ Body("LOGIN_REPLY") = LoginReply
  /\ Body("POSITION_UPDATE") = Position /\ Body("CHAT_MESSAGE") = Message
BY DEF Body

\* The fields of a packet that arrives, and its key.
LEMMA ReceivedFields ==
  ASSUME NEW packet \in Received
  PROVE  /\ packet.type \in PACKET_TYPE /\ packet.ident \in Ident
         /\ packet.endpoint \in Client /\ packet.body \in Body(packet.type)
         /\ packet = [type |-> packet.type, ident |-> packet.ident,
                      endpoint |-> packet.endpoint, body |-> packet.body]
         /\ get_full_client_ident(packet) \in Key
<1>1. PICK t \in PACKET_TYPE :
        packet \in [type : {t}, ident : Ident, endpoint : Client,
                    body : Body(t)]
  BY DEF Received, PacketsOf
<1>2. /\ packet.type = t /\ packet.ident \in Ident
      /\ packet.endpoint \in Client /\ packet.body \in Body(t)
      /\ packet = [type |-> packet.type, ident |-> packet.ident,
                   endpoint |-> packet.endpoint, body |-> packet.body]
  BY <1>1
<1>3. get_full_client_ident(packet) \in Key
  <2>1. /\ packet.ident \in Nat /\ packet.endpoint.address \in Nat
        /\ packet.endpoint.port \in Nat
    BY <1>2, ServerAssumption, Widths DEF Ident, Endpoint
  <2>2. packet.ident * (U16 * U32) \in Nat
        /\ packet.endpoint.address * U32 \in Nat
    BY <2>1, Widths
  <2>3. packet.ident * (U16 * U32) + packet.endpoint.address * U32
          + packet.endpoint.port \in Nat
    BY <2>1, <2>2
  <2>4. \A m \in Nat : m % U64 \in 0 .. U64 - 1
    BY Widths, DivMod
  <2>. QED
    BY <2>3, <2>4 DEF get_full_client_ident, Key
<1>. QED
  BY <1>1, <1>2, <1>3

\* A packet with these fields is one that may arrive.
LEMMA FieldsReceived ==
  ASSUME NEW t \in PACKET_TYPE, NEW i \in Ident, NEW e \in Client,
         NEW b \in Body(t)
  PROVE  [type |-> t, ident |-> i, endpoint |-> e, body |-> b] \in Received
<1>1. [type |-> t, ident |-> i, endpoint |-> e, body |-> b]
        \in [type : {t}, ident : Ident, endpoint : Client, body : Body(t)]
  OBVIOUS
<1>. QED
  BY <1>1 DEF Received, PacketsOf

-----------------------------------------------------------------------------
(* Sessions *)

\* What a call that gives the packet's session this character does to the
\* session table, provided it takes no character away.
LEMMA SessionStep ==
  ASSUME TypeOK, UsersKeyed, NEW packet \in Received,
         NEW character \in Character \cup {NoCharacter},
         SessionIs(packet, character),
         get_or_create_session(packet).character # NoCharacter =>
           character # NoCharacter
  PROVE  LET key  == get_full_client_ident(packet)
             user == [ident |-> packet.ident, endpoint |-> packet.endpoint]
         IN  /\ DOMAIN m_sessions' = DOMAIN m_sessions \cup {key}
             /\ DOMAIN users' = DOMAIN m_sessions'
             /\ m_sessions'[key].character = character
             /\ user \in users'[key]
             /\ \A k \in DOMAIN m_sessions :
                  /\ users[k] \subseteq users'[k]
                  /\ m_sessions[k].character # NoCharacter =>
                       m_sessions'[k].character # NoCharacter
             /\ \A k \in DOMAIN m_sessions' : m_sessions'[k] \in Session
             /\ \A k \in DOMAIN users' : users'[k] \subseteq User
             /\ DOMAIN m_sessions' \subseteq Key
             /\ UsersKeyed'
<1>. DEFINE key  == get_full_client_ident(packet)
            user == [ident |-> packet.ident, endpoint |-> packet.endpoint]
            old  == get_or_create_session(packet)
            before == IF key \in DOMAIN users THEN users[key] ELSE {}
<1>1. /\ m_sessions' = With(m_sessions, key, [old EXCEPT !.character = character])
      /\ users' = With(users, key, {user} \cup before)
  BY DEF SessionIs
<1>2. key \in Key /\ user \in User
  BY ReceivedFields DEF User
<1>3. old \in Session
  BY <1>2 DEF get_or_create_session, Session, TypeOK
<1>4. key \in DOMAIN m_sessions => old = m_sessions[key]
  BY DEF get_or_create_session
<1>5. /\ [old EXCEPT !.character = character] \in Session
      /\ [old EXCEPT !.character = character].character = character
  BY <1>3 DEF Session
<1>6. get_full_client_ident(user) = key
  BY DEF get_full_client_ident
<1>. HIDE DEF key, user, old
<1>7. /\ DOMAIN m_sessions' = DOMAIN m_sessions \cup {key}
      /\ m_sessions'[key] = [old EXCEPT !.character = character]
      /\ \A k \in DOMAIN m_sessions \ {key} : m_sessions'[k] = m_sessions[k]
  BY <1>1 DEF With
<1>8. /\ DOMAIN users' = DOMAIN users \cup {key}
      /\ users'[key] = {user} \cup before
      /\ \A k \in DOMAIN users \ {key} : users'[k] = users[k]
  BY <1>1 DEF With
<1>9. DOMAIN users = DOMAIN m_sessions
  BY DEF TypeOK
<1>10. \A k \in DOMAIN m_sessions :
         /\ users[k] \subseteq users'[k]
         /\ m_sessions[k].character # NoCharacter =>
              m_sessions'[k].character # NoCharacter
  <2>. TAKE k \in DOMAIN m_sessions
  <2>1. CASE k = key
    BY <2>1, <1>4, <1>5, <1>7, <1>8, <1>9 DEF old
  <2>2. CASE k # key
    BY <2>2, <1>7, <1>8, <1>9
  <2>. QED
    BY <2>1, <2>2
<1>11. \A k \in DOMAIN m_sessions' : m_sessions'[k] \in Session
  BY <1>5, <1>7 DEF TypeOK
<1>12. \A k \in DOMAIN users' : users'[k] \subseteq User
  BY <1>2, <1>8 DEF TypeOK
<1>13. DOMAIN m_sessions' \subseteq Key
  BY <1>2, <1>7 DEF TypeOK
<1>14. UsersKeyed'
  <2>. SUFFICES ASSUME NEW k \in DOMAIN users', NEW u \in users'[k]
                PROVE  get_full_client_ident(u) = k
    BY DEF UsersKeyed, get_full_client_ident
  <2>1. CASE k = key
    BY <2>1, <1>6, <1>8 DEF UsersKeyed
  <2>2. CASE k # key
    BY <2>2, <1>8 DEF UsersKeyed
  <2>. QED
    BY <2>1, <2>2
<1>. QED
  BY <1>5, <1>7, <1>8, <1>9, <1>10, <1>11, <1>12, <1>13, <1>14 DEF key, user

-----------------------------------------------------------------------------
(* Replies *)

\* The character a call leaves in the session, and the reply it adds, if any.
LEMMA Handlers ==
  ASSUME TypeOK, NEW packet \in Received, on_packet_received(packet)
  PROVE  \E character \in Character \cup {NoCharacter} :
           /\ SessionIs(packet, character)
           /\ get_or_create_session(packet).character # NoCharacter =>
                character # NoCharacter
           /\ \/ UNCHANGED m_tx_deque
              \/ \E reply \in Reply :
                   /\ m_tx_deque' = Append(m_tx_deque, reply)
                   /\ reply.endpoint = packet.endpoint
                   /\ reply.type \in ServerToClient \cup {"CHAT_MESSAGE"}
                   /\ IF reply.type = "LOGIN_REPLY"
                      THEN character # NoCharacter
                      ELSE reply.ident = packet.ident
<1>. DEFINE old == get_or_create_session(packet).character
<1>1. /\ packet.ident \in Ident /\ packet.endpoint \in Client
      /\ packet.body \in Body(packet.type)
      /\ packet = [type |-> packet.type, ident |-> packet.ident,
                   endpoint |-> packet.endpoint, body |-> packet.body]
      /\ get_full_client_ident(packet) \in Key
  BY ReceivedFields
<1>2. old \in Character \cup {NoCharacter}
  BY <1>1 DEF get_or_create_session, TypeOK, Session
<1>3. NoCharacter \notin Character
  BY ServerAssumption DEF Character
<1>. HIDE DEF old
<1>4. CASE on_heartbeat_ping(packet)
  <2>. DEFINE reply == [type |-> "HEARTBEAT_PONG", ident |-> packet.ident,
                        endpoint |-> packet.endpoint, body |-> packet.body]
  <2>1. packet.body \in Body("HEARTBEAT_PONG")
    BY <1>1, <1>4, Bodies DEF on_heartbeat_ping
  <2>2. reply \in Received
    BY <1>1, <2>1, FieldsReceived DEF PACKET_TYPE, ServerToClient
  <2>3. reply = set_type(packet, "HEARTBEAT_PONG")
    BY <1>1 DEF set_type
  <2>4. reply \in Reply /\ m_tx_deque' = Append(m_tx_deque, reply)
    BY <1>4, <2>2, <2>3 DEF on_heartbeat_ping, Reply, ClientToServer
  <2>5. SessionIs(packet, old)
    BY <1>4 DEF on_heartbeat_ping, SessionIsFound, old
  <2>. QED
    BY <1>2, <2>4, <2>5 DEF old, ServerToClient
<1>5. CASE on_login_request(packet)
  <2>. DEFINE character == [name |-> packet.body, pos |-> ZeroPosition]
              reply == packet_t("LOGIN_REPLY", packet.endpoint,
                                [success |-> TRUE, ident |-> LoginIdent])
  <2>1. character \in Character /\ SessionIs(packet, character)
    BY <1>1, <1>5, Bodies DEF on_login_request, Character
  <2>2. [success |-> TRUE, ident |-> LoginIdent] \in Body("LOGIN_REPLY")
    BY Bodies, ServerAssumption DEF LoginReply
  <2>3. 0 \in Ident
    BY U16Assumption DEF Ident
  <2>4. reply \in Received
    BY <1>1, <2>2, <2>3, FieldsReceived
       DEF packet_t, PACKET_TYPE, ServerToClient
  <2>5. reply \in Reply /\ m_tx_deque' = Append(m_tx_deque, reply)
    BY <1>5, <2>4 DEF on_login_request, Reply, ClientToServer, packet_t
  <2>6. reply.endpoint = packet.endpoint /\ reply.type = "LOGIN_REPLY"
    BY DEF packet_t
  <2>. HIDE DEF character, reply
  <2>7. character # NoCharacter
    BY <1>3, <2>1
  <2>. QED
    BY <2>1, <2>5, <2>6, <2>7 DEF ServerToClient
<1>6. CASE on_position_update(packet)
  <2>. DEFINE character == IF old = NoCharacter THEN NoCharacter
                           ELSE [old EXCEPT !.pos = packet.body]
  <2>1. packet.body \in Position
    BY <1>1, <1>6, Bodies DEF on_position_update
  <2>2. old # NoCharacter => [old EXCEPT !.pos = packet.body] \in Character
    BY <1>2, <2>1 DEF Character
  <2>3. SessionIs(packet, character) /\ UNCHANGED m_tx_deque
    BY <1>6 DEF on_position_update, old
  <2>4. /\ character \in Character \cup {NoCharacter}
        /\ old # NoCharacter => character # NoCharacter
    BY <1>3, <2>2
  <2>. HIDE DEF character
  <2>. QED
    BY <2>3, <2>4 DEF old
<1>7. CASE on_chat_message(packet)
  <2>1. packet.type = "CHAT_MESSAGE" /\ SessionIs(packet, old)
        /\ m_tx_deque' = Append(m_tx_deque, packet)
    BY <1>7 DEF on_chat_message, SessionIsFound, old
  <2>2. packet \in Reply
    BY <2>1 DEF Reply, ClientToServer
  <2>. QED
    BY <1>2, <2>1, <2>2 DEF old
<1>8. CASE on_other(packet)
  <2>1. SessionIs(packet, old) /\ UNCHANGED m_tx_deque
    BY <1>8 DEF on_other, SessionIsFound, old
  <2>. QED
    BY <1>2, <2>1 DEF old
<1>. QED
  BY <1>4, <1>5, <1>6, <1>7, <1>8 DEF on_packet_received

-----------------------------------------------------------------------------
(* The theorems *)

\* IInv is an inductive invariant of the server: it holds at first,
LEMMA InitInv == Init => IInv
<1>. SUFFICES ASSUME Init PROVE IInv
  OBVIOUS
<1>1. DOMAIN m_sessions = {} /\ DOMAIN users = {} /\ m_tx_deque = <<>>
  BY DEF Init
<1>. QED
  BY <1>1 DEF IInv, TypeOK, UsersKeyed, RepliesAreAnswers

\* and every step keeps it.
LEMMA NextInv == IInv /\ [Next]_serverVars => IInv'
<1>. SUFFICES ASSUME IInv, [Next]_serverVars PROVE IInv'
  OBVIOUS
<1>. USE DEF IInv
<1>1. ASSUME NEW packet \in Received, on_packet_received(packet)
      PROVE  IInv'
  <2>. DEFINE key  == get_full_client_ident(packet)
              user == [ident |-> packet.ident, endpoint |-> packet.endpoint]
  <2>1. PICK character \in Character \cup {NoCharacter} :
          /\ SessionIs(packet, character)
          /\ get_or_create_session(packet).character # NoCharacter =>
               character # NoCharacter
          /\ \/ UNCHANGED m_tx_deque
             \/ \E reply \in Reply :
                  /\ m_tx_deque' = Append(m_tx_deque, reply)
                  /\ reply.endpoint = packet.endpoint
                  /\ reply.type \in ServerToClient \cup {"CHAT_MESSAGE"}
                  /\ IF reply.type = "LOGIN_REPLY"
                     THEN character # NoCharacter
                     ELSE reply.ident = packet.ident
    BY <1>1, Handlers
  <2>2. /\ DOMAIN m_sessions' = DOMAIN m_sessions \cup {key}
        /\ DOMAIN users' = DOMAIN m_sessions'
        /\ m_sessions'[key].character = character
        /\ user \in users'[key]
        /\ \A k \in DOMAIN m_sessions :
             /\ users[k] \subseteq users'[k]
             /\ m_sessions[k].character # NoCharacter =>
                  m_sessions'[k].character # NoCharacter
        /\ \A k \in DOMAIN m_sessions' : m_sessions'[k] \in Session
        /\ \A k \in DOMAIN users' : users'[k] \subseteq User
        /\ DOMAIN m_sessions' \subseteq Key
        /\ UsersKeyed'
    BY <2>1, SessionStep
  <2>3. m_tx_deque \in Seq(Reply)
    BY DEF TypeOK
  <2>4. m_tx_deque' \in Seq(Reply)
    BY <2>1, <2>3, AppendProperties
  <2>5. TypeOK'
    BY <2>2, <2>4 DEF TypeOK
  <2>. DEFINE Answers(reply) ==
         /\ reply.type \in ServerToClient \cup {"CHAT_MESSAGE"}
         /\ \E k \in DOMAIN m_sessions' : \E u \in users'[k] :
              /\ u.endpoint = reply.endpoint
              /\ IF reply.type = "LOGIN_REPLY"
                 THEN m_sessions'[k].character # NoCharacter
                 ELSE u.ident = reply.ident
  <2>6. \A i \in DOMAIN m_tx_deque : Answers(m_tx_deque[i])
    <3>. TAKE i \in DOMAIN m_tx_deque
    <3>0. PICK k \in DOMAIN m_sessions : \E u \in users[k] :
            /\ u.endpoint = m_tx_deque[i].endpoint
            /\ IF m_tx_deque[i].type = "LOGIN_REPLY"
               THEN m_sessions[k].character # NoCharacter
               ELSE u.ident = m_tx_deque[i].ident
      BY DEF RepliesAreAnswers
    <3>1. PICK u \in users[k] :
            /\ u.endpoint = m_tx_deque[i].endpoint
            /\ IF m_tx_deque[i].type = "LOGIN_REPLY"
               THEN m_sessions[k].character # NoCharacter
               ELSE u.ident = m_tx_deque[i].ident
      BY <3>0
    <3>2. k \in DOMAIN m_sessions' /\ u \in users'[k]
      BY <2>2, <3>1
    <3>3. m_tx_deque[i].type \in ServerToClient \cup {"CHAT_MESSAGE"}
      BY DEF RepliesAreAnswers
    <3>. QED
      BY <2>2, <3>1, <3>2, <3>3
  <2>7. \A i \in DOMAIN m_tx_deque' : Answers(m_tx_deque'[i])
    <3>1. CASE UNCHANGED m_tx_deque
      BY <3>1, <2>6
    <3>2. ASSUME NEW reply \in Reply,
                 m_tx_deque' = Append(m_tx_deque, reply),
                 reply.endpoint = packet.endpoint,
                 reply.type \in ServerToClient \cup {"CHAT_MESSAGE"},
                 IF reply.type = "LOGIN_REPLY" THEN character # NoCharacter
                                               ELSE reply.ident = packet.ident
          PROVE  \A i \in DOMAIN m_tx_deque' : Answers(m_tx_deque'[i])
      <4>1. Answers(reply)
        <5>1. key \in DOMAIN m_sessions' /\ user \in users'[key]
          BY <2>2
        <5>2. user.endpoint = reply.endpoint
          BY <3>2
        <5>. QED
          BY <2>2, <3>2, <5>1, <5>2
      <4>. HIDE DEF Answers
      <4>2. /\ DOMAIN m_tx_deque = 1 .. Len(m_tx_deque)
            /\ DOMAIN m_tx_deque' = 1 .. Len(m_tx_deque) + 1
            /\ \A i \in 1 .. Len(m_tx_deque) :
                 m_tx_deque'[i] = m_tx_deque[i]
            /\ m_tx_deque'[Len(m_tx_deque) + 1] = reply
        BY <2>3, <2>4, <3>2, AppendProperties, LenProperties
      <4>3. Len(m_tx_deque) \in Nat
        BY <2>3, LenProperties
      <4>. QED
        BY <2>6, <4>1, <4>2, <4>3
    <3>. QED
      BY <2>1, <3>1, <3>2
  <2>8. RepliesAreAnswers'
    BY <2>7 DEF RepliesAreAnswers
  <2>. QED
    BY <2>2, <2>5, <2>8
<1>2. CASE do_send
  <2>1. /\ m_tx_deque \in Seq(Reply) /\ m_tx_deque # <<>>
        /\ m_tx_deque' = Tail(m_tx_deque)
        /\ UNCHANGED <<m_sessions, users>>
    BY <1>2 DEF do_send, TypeOK
  <2>2. /\ m_tx_deque' \in Seq(Reply)
        /\ \A i \in DOMAIN m_tx_deque' :
             /\ i + 1 \in DOMAIN m_tx_deque
             /\ m_tx_deque'[i] = m_tx_deque[i + 1]
    <3>1. /\ m_tx_deque' \in Seq(Reply)
          /\ Len(m_tx_deque') = Len(m_tx_deque) - 1
          /\ \A i \in 1 .. Len(m_tx_deque') :
               m_tx_deque'[i] = m_tx_deque[i + 1]
      BY <2>1, HeadTailProperties
    <3>2. /\ DOMAIN m_tx_deque = 1 .. Len(m_tx_deque)
          /\ DOMAIN m_tx_deque' = 1 .. Len(m_tx_deque')
          /\ Len(m_tx_deque) \in Nat /\ Len(m_tx_deque') \in Nat
      BY <2>1, <3>1, LenProperties
    <3>. QED
      BY <3>1, <3>2
  <2>3. TypeOK'
    BY <2>1, <2>2 DEF TypeOK
  <2>4. UsersKeyed'
    BY <2>1 DEF UsersKeyed, get_full_client_ident
  <2>5. RepliesAreAnswers'
    BY <2>1, <2>2 DEF RepliesAreAnswers
  <2>. QED
    BY <2>3, <2>4, <2>5
<1>3. CASE UNCHANGED serverVars
  BY <1>3 DEF serverVars, TypeOK, UsersKeyed, RepliesAreAnswers,
              get_full_client_ident
<1>. QED
  BY <1>1, <1>2, <1>3 DEF Next

LEMMA ServerInvariance == Spec => []IInv
BY InitInv, NextInv, PTL DEF Spec

\* Keys, sessions and replies keep their types.
THEOREM ServerTypeCorrect == Spec => []TypeOK
<1>1. IInv => TypeOK
  BY DEF IInv
<1>. QED
  BY <1>1, ServerInvariance, PTL

\* Two endpoints that use the same client ident never share a session.
THEOREM SessionsSeparateEndpoints == Spec => []EndpointsSeparated
<1>1. IInv => EndpointsSeparated
  <2>. SUFFICES ASSUME IInv, NEW k \in DOMAIN users,
                       NEW u \in users[k], NEW v \in users[k],
                       u.ident = v.ident
                PROVE  u = v
    BY DEF EndpointsSeparated
  <2>1. u \in User /\ v \in User
    BY DEF IInv, TypeOK
  <2>2. get_full_client_ident(u) = get_full_client_ident(v)
    BY DEF IInv, UsersKeyed
  <2>3. u.endpoint = v.endpoint
    BY <2>1, <2>2, SameIdentInjective, ServerAssumption DEF User
  <2>. QED
    BY <2>1, <2>3 DEF User
<1>. QED
  BY <1>1, ServerInvariance, PTL

\* Every reply answers a packet of the endpoint it goes to, and a confirmed login
\* has its character.
THEOREM RepliesAnswer == Spec => []RepliesAreAnswers
<1>1. IInv => RepliesAreAnswers
  BY DEF IInv
<1>. QED
  BY <1>1, ServerInvariance, PTL

\* No packet makes the server lose a session, a user of it, or its character.
THEOREM SessionsAreKept == Spec => SessionsPersist
<1>. DEFINE Kept == \A k \in DOMAIN m_sessions :
                      /\ k \in DOMAIN m_sessions'
                      /\ users[k] \subseteq users'[k]
                      /\ m_sessions[k].character # NoCharacter =>
                           m_sessions'[k].character # NoCharacter
<1>1. IInv /\ [Next]_serverVars => [Kept]_serverVars
  <2>. SUFFICES ASSUME IInv, Next PROVE Kept
    OBVIOUS
  <2>1. ASSUME NEW packet \in Received, on_packet_received(packet)
        PROVE  Kept
    <3>1. PICK character \in Character \cup {NoCharacter} :
            /\ SessionIs(packet, character)
            /\ get_or_create_session(packet).character # NoCharacter =>
                 character # NoCharacter
      BY <2>1, Handlers DEF IInv
    <3>. QED
      BY <3>1, SessionStep DEF IInv
  <2>2. CASE do_send
    BY <2>2 DEF do_send
  <2>. QED
    BY <2>1, <2>2 DEF Next
<1>. QED
  BY <1>1, ServerInvariance, PTL DEF Spec, SessionsPersist
=============================================================================
