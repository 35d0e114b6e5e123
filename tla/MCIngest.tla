------------------------------ MODULE MCIngest ------------------------------
(* Ingest over a few days. *)
EXTENDS Ingest
=============================================================================
