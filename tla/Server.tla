------------------------------- MODULE Server -------------------------------
(***************************************************************************)
(* The server (src/server/server.h): what on_packet_received does with one *)
(* datagram after another.  The packet thread alone calls it, so a call is *)
(* one step; UdpPortWatcher.tla says how datagrams reach it and how        *)
(* m_tx_deque is emptied.  Any datagram may arrive, at any time, from any  *)
(* of the endpoints: the clients' and those typed by hand                  *)
(* (src/server/main.cpp:8).                                                *)
(*                                                                         *)
(* Bounds: Client is the set of endpoints datagrams come from; TxBound is  *)
(* how many replies may wait in m_tx_deque.                                *)
(***************************************************************************)
EXTENDS Packet, Sequences, FiniteSets

CONSTANTS
  Client,        \* the endpoints that send to the server
  LoginIdent,    \* the client ident every login is answered with, 4444
  ZeroPosition,  \* the position of a value-initialised character_t
  NoCharacter,   \* a null shared_ptr<character_t>
  TxBound

ASSUME ServerAssumption ==
  /\ Client \subseteq Endpoint
  /\ LoginIdent \in Ident
  /\ NoCharacter \notin [name : Name, pos : Position \cup {ZeroPosition}]
  /\ TxBound \in Nat

VARIABLES
  m_sessions,   \* the sessions, by full client ident
  m_tx_deque,   \* the replies that have not been sent
  users         \* history: for each session, the senders it was given to

serverVars == <<m_sessions, m_tx_deque, users>>

-----------------------------------------------------------------------------
Key       == 0 .. U64 - 1
Character == [name : Name, pos : Position \cup {ZeroPosition}]
Session   == [ident : Key, character : Character \cup {NoCharacter}]
User      == [ident : Ident, endpoint : Client]

Received == PacketsOf(Client)

\* What the server may put into m_tx_deque: echoed chat, echoed heartbeats
\* with a new type, and login replies.
Reply == {p \in Received : p.type \notin ClientToServer}

TypeOK ==
  /\ DOMAIN m_sessions \subseteq Key
  /\ \A k \in DOMAIN m_sessions : m_sessions[k] \in Session
  /\ m_tx_deque \in Seq(Reply)
  /\ DOMAIN users = DOMAIN m_sessions
  /\ \A k \in DOMAIN users : users[k] \subseteq User

Init ==
  /\ m_sessions = <<>>
  /\ m_tx_deque = <<>>
  /\ users = <<>>

-----------------------------------------------------------------------------
(* get_or_create_session *)

\* The map with value v under key k.
With(map, k, v) ==
  [i \in DOMAIN map \cup {k} |-> IF i = k THEN v ELSE map[i]]

\* A session is created again although there is one.
get_or_create_session_always_new(packet) ==
  [ident |-> get_full_client_ident(packet), character |-> NoCharacter]

get_or_create_session(packet) ==
  LET key == get_full_client_ident(packet)
  IN  IF key \in DOMAIN m_sessions
      THEN m_sessions[key]
      ELSE [ident |-> key, character |-> NoCharacter]

\* The session the packet belongs to is in the map and has this character.
SessionIs(packet, character) ==
  LET key  == get_full_client_ident(packet)
      user == [ident |-> packet.ident, endpoint |-> packet.endpoint]
  IN  /\ m_sessions' = With(m_sessions, key,
                            [get_or_create_session(packet)
                               EXCEPT !.character = character])
      /\ users' = With(users, key,
                       {user} \cup (IF key \in DOMAIN users THEN users[key]
                                                            ELSE {}))

\* The same session, untouched but for last_update.
SessionIsFound(packet) ==
  SessionIs(packet, get_or_create_session(packet).character)

-----------------------------------------------------------------------------
(* Handlers with a plausible bug. *)

\* The type of the heartbeat is not changed.
on_heartbeat_ping_unchanged(packet) ==
  /\ packet.type = "HEARTBEAT_PING"
  /\ SessionIsFound(packet)
  /\ m_tx_deque' = Append(m_tx_deque, packet)

\* The character goes nowhere.
on_login_request_unstored(packet) ==
  /\ packet.type = "LOGIN_REQUEST"
  /\ SessionIsFound(packet)
  /\ m_tx_deque' =
       Append(m_tx_deque,
              packet_t("LOGIN_REPLY", packet.endpoint,
                       [success |-> TRUE, ident |-> LoginIdent]))

\* The coordinates are read in the wrong order.
on_position_update_swapped(packet) ==
  /\ packet.type = "POSITION_UPDATE"
  /\ LET character == get_or_create_session(packet).character
         swapped   == [x |-> packet.body.y, y |-> packet.body.x,
                       f |-> packet.body.f]
     IN  SessionIs(packet, IF character = NoCharacter
                           THEN NoCharacter
                           ELSE [character EXCEPT !.pos = swapped])
  /\ UNCHANGED m_tx_deque

\* The message goes to a user of the session instead of to its sender.
on_chat_message_to_session(packet) ==
  /\ packet.type = "CHAT_MESSAGE"
  /\ SessionIsFound(packet)
  /\ \E user \in users'[get_full_client_ident(packet)] :
       m_tx_deque' = Append(m_tx_deque,
                            [packet EXCEPT !.endpoint = user.endpoint])

\* Only who has a character may chat.
on_chat_message_logged_in_only(packet) ==
  /\ packet.type = "CHAT_MESSAGE"
  /\ SessionIsFound(packet)
  /\ m_tx_deque' = IF get_or_create_session(packet).character = NoCharacter
                   THEN m_tx_deque ELSE Append(m_tx_deque, packet)

-----------------------------------------------------------------------------
(* on_packet_received, one operator per case *)

\* The same packet goes back with another type.
on_heartbeat_ping(packet) ==
  /\ packet.type = "HEARTBEAT_PING"
  /\ SessionIsFound(packet)
  /\ m_tx_deque' = Append(m_tx_deque, set_type(packet, "HEARTBEAT_PONG"))

\* A new character replaces the one the session may have.
on_login_request(packet) ==
  /\ packet.type = "LOGIN_REQUEST"
  /\ SessionIs(packet, [name |-> packet.body, pos |-> ZeroPosition])
  /\ m_tx_deque' =
       Append(m_tx_deque,
              packet_t("LOGIN_REPLY", packet.endpoint,
                       [success |-> TRUE, ident |-> LoginIdent]))

\* Ignored for a session that has no character.
on_position_update(packet) ==
  /\ packet.type = "POSITION_UPDATE"
  /\ LET character == get_or_create_session(packet).character
     IN  SessionIs(packet, IF character = NoCharacter
                           THEN NoCharacter
                           ELSE [character EXCEPT !.pos = packet.body])
  /\ UNCHANGED m_tx_deque

\* The same packet goes back to the one who sent it.
on_chat_message(packet) ==
  /\ packet.type = "CHAT_MESSAGE"
  /\ SessionIsFound(packet)
  /\ m_tx_deque' = Append(m_tx_deque, packet)

\* Printed, but a session exists from now on.
on_other(packet) ==
  /\ packet.type \in ServerToClient \cup {"unknown"}
  /\ SessionIsFound(packet)
  /\ UNCHANGED m_tx_deque

on_packet_received(packet) ==
  \/ on_heartbeat_ping(packet)
  \/ on_login_request(packet)
  \/ on_position_update(packet)
  \/ on_chat_message(packet)
  \/ on_other(packet)

\* do_send takes the oldest reply.
do_send ==
  /\ m_tx_deque # <<>>
  /\ m_tx_deque' = Tail(m_tx_deque)
  /\ UNCHANGED <<m_sessions, users>>

Next ==
  \/ /\ Len(m_tx_deque) < TxBound
     /\ \E packet \in Received : on_packet_received(packet)
  \/ do_send

Spec == Init /\ [][Next]_serverVars

-----------------------------------------------------------------------------
(* Safety *)

\* Whatever waits in m_tx_deque answers a packet of the endpoint it goes to:
\* the session of that packet still exists, an echo carries the ident that
\* session was found with, and a login is confirmed only once its session has a
\* character.  No packet type goes in the wrong direction.
RepliesAreAnswers ==
  \A i \in DOMAIN m_tx_deque :
    LET reply == m_tx_deque[i]
    IN  /\ reply.type \in ServerToClient \cup {"CHAT_MESSAGE"}
        /\ \E k \in DOMAIN m_sessions : \E user \in users[k] :
             /\ user.endpoint = reply.endpoint
             /\ IF reply.type = "LOGIN_REPLY"
                THEN m_sessions[k].character # NoCharacter
                ELSE user.ident = reply.ident

\* Senders that use the same client ident are told apart by their address and
\* port, although the key's sum wraps.  After the login all of them use the same
\* one, for every login is answered with 4444; before it a client sends whatever
\* its uninitialised ident holds, which may be anybody's.
EndpointsSeparated ==
  \A k \in DOMAIN users : \A u, v \in users[k] :
    u.ident = v.ident => u = v

\* A session, its users and the fact that it has a character are never lost,
\* whatever arrives late, twice or out of order.
SessionsPersist ==
  [][\A k \in DOMAIN m_sessions :
       /\ k \in DOMAIN m_sessions'
       /\ users[k] \subseteq users'[k]
       /\ m_sessions[k].character # NoCharacter =>
            m_sessions'[k].character # NoCharacter]_serverVars

\* Why EndpointsSeparated holds: a session is under the key of each of its users.
UsersKeyed ==
  \A k \in DOMAIN users : \A user \in users[k] :
    get_full_client_ident(user) = k

IInv == TypeOK /\ UsersKeyed /\ RepliesAreAnswers

\* What packet.h:88 and server.h:57 say of the full client ident: it is a key,
\* made of client ident, address and port, so two senders that differ in one of
\* them never get the same session.
OneSenderPerSession ==
  \A k \in DOMAIN users : Cardinality(users[k]) <= 1
=============================================================================
