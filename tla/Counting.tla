------------------------------ MODULE Counting ------------------------------
(* How IoContext and Carnival count what is in queues. *)
EXTENDS Sequences, FiniteSets

\* How many entries of queue q are in S.
Count(q, S) == Cardinality({n \in DOMAIN q : q[n] \in S})
=============================================================================
