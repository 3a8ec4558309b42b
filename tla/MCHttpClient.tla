---------------------------- MODULE MCHttpClient ----------------------------
(* HttpClient for TLC. *)
EXTENDS HttpClient, TLC

CONSTANTS c1, c2

\* What the vendor clients send, and the request that takes every stage.
PlainAndAll == {[anonymous |-> FALSE, basic |-> FALSE], [anonymous |-> TRUE, basic |-> TRUE]}
=============================================================================
