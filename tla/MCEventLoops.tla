---------------------------- MODULE MCEventLoops ----------------------------
(* EventLoops for TLC. *)
EXTENDS EventLoops, TLC

CONSTANTS j1, j2, j3, w1, w2, w3, w4, c1, c2

OnePriority == {20}

============================================================================
