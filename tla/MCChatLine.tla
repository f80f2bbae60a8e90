----------------------------- MODULE MCChatLine -----------------------------
(* An instance of ChatLine for TLC: bytes of eight values, all six packet
   types, texts up to a length that does not fit in a byte. *)
EXTENDS ChatLine

MCTypes == <<"HEARTBEAT_PING", "LOGIN_REQUEST", "HEARTBEAT_PONG",
             "LOGIN_REPLY", "POSITION_UPDATE", "CHAT_MESSAGE">>
MCTypeByte ==
  [type \in {MCTypes[i] : i \in DOMAIN MCTypes} |->
     CHOOSE i \in DOMAIN MCTypes : MCTypes[i] = type]

MCText(length) == [i \in 1 .. length |-> i % U8]

MCGiven ==
  {[type |-> t, body |-> MCText(n)] : t \in {"LOGIN_REQUEST", "CHAT_MESSAGE"},
                                      n \in {0, 1, U8 - 1, U8, U8 + 1}}
    \cup {[type |-> "LOGIN_REPLY", body |-> [success |-> s, ident |-> n]] :
            s \in BOOLEAN, n \in {0, 1, U8, U8 * U8 - 1}}
    \cup {[type |-> "POSITION_UPDATE", body |-> [x |-> n, y |-> m, f |-> 3]] :
            n \in {0, 1, U8 ^ 3, U8 ^ 4 - 1}, m \in {0, U8, U8 ^ 4 - 1}}
    \cup {[type |-> "HEARTBEAT_PING", body |-> <<>>]}

MCIdents == {1, U8, U8 * U8 - 1}
=============================================================================
