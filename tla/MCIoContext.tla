---------------------------- MODULE MCIoContext ----------------------------
(* Instances of IoContext for TLC: strands of one implementation and of two. *)
EXTENDS IoContext

CONSTANTS i1, i2

MCImpl     == {i1, i2}
MCAssigned == {[s \in Strand |-> i1],
               [s \in Strand |-> IF s = "m_read_strand" THEN i1 ELSE i2]}
MCOperation == MCImpl \cup ReactorOp \cup {Descriptor}
=============================================================================
