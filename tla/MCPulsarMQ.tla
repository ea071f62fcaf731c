----------------------------- MODULE MCPulsarMQ -----------------------------
(* A small instance of PulsarMQ: proxies of two topics, and a message        *)
(* that a client or a consumer's callback publishes.                         *)
EXTENDS PulsarMQ, TLC

CONSTANTS p1, p2, m1, t1, t2

MCTopic == (p1 :> t1) @@ (p2 :> t2)

\* Both proxies without a replacement, or one of them with it.
OneOrReplaced == closing = "no" \/ ~(Proxies \subseteq accepted)

=============================================================================
