----------------------------- MODULE MCCarnival -----------------------------
(* Instances of Carnival for TLC; uint16_t has two values.  One client, and two
   clients on hosts whose addresses differ in the bit the client ident covers,
   so that their session keys may meet. *)
EXTENDS Carnival

MCServerEndpoint == [address |-> 1, port |-> 0]
MCOneClient  == {[address |-> 0, port |-> 1]}
MCTwoClients == MCOneClient \cup {[address |-> 2, port |-> 1]}

MCNoGreeting  == [c \in MCOneClient |-> <<>>]
MCOneGreeting == [c \in MCOneClient |-> <<"hello">>]
\* Each client says something else, so that the author can be told.
MCTwoGreetings ==
  [c \in MCTwoClients |-> IF c.address = 0 THEN <<"hello">> ELSE <<"hi">>]

MCPosition == [x : 0 .. 3, y : 0 .. 3, f : 0 .. 3]
MCStart    == [x |-> 1, y |-> 3, f |-> 0]
\* One step to the right of the start.
MCField    == {[x |-> 2, y |-> 3, f |-> 0]}
MCZero     == [x |-> 0, y |-> 0, f |-> 0]
=============================================================================
