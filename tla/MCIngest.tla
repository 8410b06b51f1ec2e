------------------------------ MODULE MCIngest ------------------------------
(* A small instance of Ingest.  The handlers of two requests share nothing   *)
(* but the process that waits for them, so one vote is enough; it is decided *)
(* by two consumers with caches of their own.                                *)
EXTENDS Ingest, TLC

CONSTANTS r1, n1, d1, d2

MCKind == [r \in Requests |-> "valid"]

=============================================================================
