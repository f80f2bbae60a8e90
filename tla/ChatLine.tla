------------------------------ MODULE ChatLine ------------------------------
(***************************************************************************)
(* A packet on its way to the client, byte for byte, and the chat window   *)
(* that a chat message ends in: constructed, stamped with an ident by      *)
(* send(), given another type by the server, received.  One packet is on   *)
(* the way at a time; given is what it was made of.                        *)
(***************************************************************************)
EXTENDS ChatWindow, PacketLayout

CONSTANTS
  Given,       \* the packets that are constructed, as [type, body]
  Idents,      \* the idents a client may be given
  None

\* What a packet of this type carries: a text that the buffer has room for, a
\* success and an ident of 2 bytes, two coordinates of 4 bytes and a byte, or
\* nothing.
Carries(type, body) ==
  CASE type \in {"LOGIN_REQUEST", "CHAT_MESSAGE"} ->
         body \in Seq(Byte) /\ Len(body) <= Size - 5
    [] type = "LOGIN_REPLY" ->
         body \in [success : BOOLEAN, ident : 0 .. U8 * U8 - 1]
    [] type = "POSITION_UPDATE" ->
         body \in [x : 0 .. U8 * U8 * U8 * U8 - 1,
                   y : 0 .. U8 * U8 * U8 * U8 - 1, f : Byte]
    [] OTHER -> body = <<>>

ASSUME LineAssumption ==
  /\ Size >= 13 /\ "HEARTBEAT_PONG" \in DOMAIN TypeByte
  /\ \A packet \in Given :
       packet.type \in DOMAIN TypeByte /\ Carries(packet.type, packet.body)
  /\ Idents \subseteq 0 .. U8 * U8 - 1

VARIABLES given, buffer

lineVars == <<vars, given, buffer>>

LineInit == Init /\ given = None /\ buffer = None

construct ==
  /\ given = None
  /\ \E packet \in Given :
       /\ given' = [type |-> packet.type, ident |-> 0, body |-> packet.body]
       /\ buffer' = packet_of(packet.type, packet.body)
  /\ UNCHANGED vars

\* connection_to_server_t::send, when the client has an ident
send ==
  /\ given # None /\ given.ident = 0
  /\ given.type \notin {"HEARTBEAT_PONG", "LOGIN_REPLY"}
  /\ \E ident \in Idents :
       /\ given' = [given EXCEPT !.ident = ident]
       /\ buffer' = set_client_ident(buffer, ident)
  /\ UNCHANGED vars

\* The server answers a ping with the packet it got.
on_heartbeat_ping ==
  /\ given # None /\ given.type = "HEARTBEAT_PING"
  /\ given' = [given EXCEPT !.type = "HEARTBEAT_PONG"]
  /\ buffer' = set_type(buffer, "HEARTBEAT_PONG")
  /\ UNCHANGED vars

\* The client takes a chat message in; no other packet reaches the window.
on_packet_received ==
  /\ given # None
  /\ given' = None /\ buffer' = None
  /\ IF has_type(buffer, "CHAT_MESSAGE") THEN emplace_back ELSE UNCHANGED vars

DrawsWindow ==
  /\ frame_size \/ index_size \/ row_at \/ frame_end
  /\ UNCHANGED <<given, buffer>>

LineNext ==
  \/ construct \/ send \/ on_heartbeat_ping \/ on_packet_received
  \/ DrawsWindow

LineSpec == LineInit /\ [][LineNext]_lineVars

-----------------------------------------------------------------------------
\* The getters give back what the constructor and the setters were given: no
\* field reaches into another one.  A text of U8 characters or more is the
\* exception: its length byte holds the length modulo U8, so it arrives cut
\* (packet.h:181), and only then.
FieldsReadBack == given # None =>
  LET body == body_of(given.type, buffer)
  IN  /\ buffer \in Buffer
      /\ \A type \in DOMAIN TypeByte : has_type(buffer, type) <=> type = given.type
      /\ get_client_ident(buffer) = given.ident
      /\ IF given.type \in {"LOGIN_REQUEST", "CHAT_MESSAGE"}
         THEN /\ body = SubSeq(given.body, 1, Len(given.body) % U8)
              /\ body = given.body <=> Len(given.body) < U8
         ELSE body = given.body
=============================================================================
