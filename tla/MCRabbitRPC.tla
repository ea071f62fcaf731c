---------------------------- MODULE MCRabbitRPC -----------------------------
(* RabbitRPC with three queries on two instances.                           *)
EXTENDS RabbitRPC

CONSTANTS q1, q2, q3

ThreeQueries == {q1, q2, q3}
TwoInstances == [q \in ThreeQueries |-> IF q = q3 THEN 2 ELSE 1]

=============================================================================
