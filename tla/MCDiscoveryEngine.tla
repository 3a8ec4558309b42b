-------------------------- MODULE MCDiscoveryEngine --------------------------
(* DiscoveryEngine for TLC. *)
EXTENDS DiscoveryEngine, TLC

CONSTANTS d1, d2, p554, p80

\* Two detections at once that compete for the probes.
TwoInTotal == [c \in Class |-> IF c = "total" THEN 2 ELSE 1]

============================================================================
