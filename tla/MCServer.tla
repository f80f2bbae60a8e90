------------------------------ MODULE MCServer ------------------------------
(* Instances of Server for TLC: uint16_t has two values, so an address has
   four and a session key sixteen. *)
EXTENDS Server

\* Two ports of one address, and an address whose upper bit lies where the
\* client ident lies.
MCClient == {[address |-> 0, port |-> 0], [address |-> 0, port |-> 1],
             [address |-> 2, port |-> 0]}
=============================================================================
