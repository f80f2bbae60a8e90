---------------------------- MODULE PacketLayout ----------------------------
(***************************************************************************)
(* The bytes of a packet (src/util/packet.h): what the constructors and    *)
(* setters write and the getters read.  A byte has U8 values, 256 in the   *)
(* code, and a packet Size bytes, 1024 in the code; integers are           *)
(* little-endian, of 2 and 4 bytes.  A text is a sequence of bytes.        *)
(***************************************************************************)
EXTENDS Naturals, Sequences

CONSTANTS
  U8, Size,
  TypeByte      \* the byte of every packet type

ASSUME LayoutAssumption ==
  /\ U8 \in Nat /\ 1 < U8 /\ Size \in Nat
  /\ \A type \in DOMAIN TypeByte : TypeByte[type] \in 0 .. U8 - 1
  /\ \A type, other \in DOMAIN TypeByte :
       TypeByte[type] = TypeByte[other] => type = other

Byte   == 0 .. U8 - 1
Buffer == [0 .. Size - 1 -> Byte]

-----------------------------------------------------------------------------
(* ref<T>(index), T of width bytes, written and read *)

\* What the bytes of an integer weigh, the least significant first.
Weight == <<1, U8, U8 * U8, U8 * U8 * U8>>

put(buffer, index, width, value) ==
  [i \in DOMAIN buffer |->
     IF i \in index .. index + width - 1
     THEN (value \div Weight[i - index + 1]) % U8
     ELSE buffer[i]]

get(buffer, index, width) ==
  LET byte(i) == IF i < width THEN buffer[index + i] * Weight[i + 1] ELSE 0
  IN  byte(0) + byte(1) + byte(2) + byte(3)

\* Byte 4 takes the length as far as it fits; the characters follow.
put_text(buffer, text) ==
  [i \in DOMAIN buffer |->
     IF i \in 5 .. 4 + Len(text) THEN text[i - 4]
                                 ELSE put(buffer, 4, 1, Len(text))[i]]

get_text(buffer) == [i \in 1 .. buffer[4] |-> buffer[4 + i]]

-----------------------------------------------------------------------------
set_client_ident(buffer, ident) == put(buffer, 0, 2, ident)
get_client_ident(buffer)        == get(buffer, 0, 2)

set_type(buffer, type) == put(buffer, 2, 1, TypeByte[type])
has_type(buffer, type) == get(buffer, 2, 1) = TypeByte[type]

\* Mutant: the ident of a login reply is written where its success is.
packet_of_overlapping(type, body) ==
  LET empty == set_type([i \in 0 .. Size - 1 |-> 0], type)
  IN  CASE type \in {"LOGIN_REQUEST", "CHAT_MESSAGE"} -> put_text(empty, body)
        [] type = "LOGIN_REPLY" ->
             put(put(empty, 4, 1, IF body.success THEN 1 ELSE 0),
                 4, 2, body.ident)
        [] type = "POSITION_UPDATE" ->
             put(put(put(empty, 4, 4, body.x), 8, 4, body.y), 12, 1, body.f)
        [] OTHER -> empty

\* The buffer after the constructor of a packet of this type.
packet_of(type, body) ==
  LET empty == set_type([i \in 0 .. Size - 1 |-> 0], type)
  IN  CASE type \in {"LOGIN_REQUEST", "CHAT_MESSAGE"} -> put_text(empty, body)
        [] type = "LOGIN_REPLY" ->
             put(put(empty, 4, 1, IF body.success THEN 1 ELSE 0),
                 5, 2, body.ident)
        [] type = "POSITION_UPDATE" ->
             put(put(put(empty, 4, 4, body.x), 8, 4, body.y), 12, 1, body.f)
        [] OTHER -> empty

\* What name() and message(), success() and ident(), x(), y() and f() return.
body_of(type, buffer) ==
  CASE type \in {"LOGIN_REQUEST", "CHAT_MESSAGE"} -> get_text(buffer)
    [] type = "LOGIN_REPLY" ->
         [success |-> buffer[4] # 0, ident |-> get(buffer, 5, 2)]
    [] type = "POSITION_UPDATE" ->
         [x |-> get(buffer, 4, 4), y |-> get(buffer, 8, 4), f |-> buffer[12]]
    [] OTHER -> <<>>
=============================================================================
