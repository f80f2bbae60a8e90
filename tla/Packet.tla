------------------------------- MODULE Packet -------------------------------
(***************************************************************************)
(* packet_t and the packets derived from it (src/util/packet.h).  A packet *)
(* is the type byte, the client ident, the endpoint it came from or goes   *)
(* to, and the fields its type gives to the body.  Integers wrap at the    *)
(* width they have in the code; the widths are scaled down together:       *)
(* U16 stands for 2^16, and 2^32 and 2^64 are its square and fourth power. *)
(* Bound: Name, Position and Message are the few values the body may hold. *)
(***************************************************************************)
EXTENDS Naturals

CONSTANTS
  U16,        \* how many values a uint16_t has; 65536 in the code
  Name,       \* names a login request may carry
  Position,   \* positions (x, y, facing) an update may carry
  Message,    \* texts a chat message may carry
  NoData      \* the body of a heartbeat and of an unknown type

ASSUME U16Assumption == U16 \in Nat \ {0}

U32 == U16 * U16
U64 == U32 * U32

-----------------------------------------------------------------------------
(* The groups of PACKET_TYPE.  get_type casts whatever byte it finds; the
   bytes that are no enumerator are one, "unknown". *)

ClientToServer == {"HEARTBEAT_PING", "LOGIN_REQUEST"}
ServerToClient == {"HEARTBEAT_PONG", "LOGIN_REPLY"}
Shared         == {"POSITION_UPDATE", "CHAT_MESSAGE"}

PACKET_TYPE == ClientToServer \cup ServerToClient \cup Shared \cup {"unknown"}

Ident    == 0 .. U16 - 1
Endpoint == [address : 0 .. U32 - 1, port : 0 .. U16 - 1]

LoginReply == [success : BOOLEAN, ident : Ident]

Body(type) ==
  CASE type = "LOGIN_REQUEST"   -> Name
    [] type = "LOGIN_REPLY"     -> LoginReply
    [] type = "POSITION_UPDATE" -> Position
    [] type = "CHAT_MESSAGE"    -> Message
    [] OTHER                    -> {NoData}

\* The packets with the given sender endpoints.
PacketsOf(endpoints) ==
  UNION {[type : {t}, ident : Ident, endpoint : endpoints, body : Body(t)]
           : t \in PACKET_TYPE}

\* The packet of a constructor: zero in every byte it does not write.
packet_t(type, endpoint, body) ==
  [type |-> type, ident |-> 0, endpoint |-> endpoint, body |-> body]

set_type(packet, type) == [packet EXCEPT !.type = type]

-----------------------------------------------------------------------------
(* Plausible bugs of get_full_client_ident, for the instances that show that
   the properties can fail. *)

\* The port is left out.
get_full_client_ident_portless(packet) ==
  (packet.ident * (U16 * U32) + packet.endpoint.address * U32) % U64

-----------------------------------------------------------------------------
(* The session key.  Ident is shifted by 48 bits and the address by 32, so
   they share 16 bits, and the sum wraps. *)

get_full_client_ident(packet) ==
  (packet.ident * (U16 * U32) + packet.endpoint.address * U32
     + packet.endpoint.port) % U64
=============================================================================
