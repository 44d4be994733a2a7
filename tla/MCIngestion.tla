---------------------------- MODULE MCIngestion ----------------------------
(* Uploads of two documents under two names by three requests.            *)
EXTENDS Ingestion

CONSTANTS d1, d2, n1, n2, r1, r2, r3, null
=============================================================================
