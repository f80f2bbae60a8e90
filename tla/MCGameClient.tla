---------------------------- MODULE MCGameClient ----------------------------
(* One client for TLC; uint16_t has two values, so a coordinate has four. *)
EXTENDS GameClient

MCServerEndpoint == [address |-> 0, port |-> 1]
MCClient == {[address |-> 0, port |-> 0]}
MCGreetings == [c \in MCClient |-> <<"hello">>]
MCPosition == [x : 0 .. 3, y : 0 .. 3, f : 0 .. 3]
\* Across the end, and room to walk on both sides of it.
MCField == [x : {0, 2, 3}, y : {0, 1}, f : 0 .. 3]
\* Next to the end where a coordinate wraps.
MCStart == [x |-> 0, y |-> 0, f |-> 0]
=============================================================================
