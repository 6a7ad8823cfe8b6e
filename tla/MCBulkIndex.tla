----------------------------- MODULE MCBulkIndex -----------------------------
(* BulkIndex for TLC: three files in batches of two, two workers.           *)
EXTENDS BulkIndex

Files == 1..N
=============================================================================
