---------------------------- MODULE MCScanService ---------------------------
(* ScanService for TLC: workers are model values, hosts are numbers. *)
EXTENDS ScanService

CONSTANTS w1, w2

============================================================================
