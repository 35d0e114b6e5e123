---------------------------- MODULE MCEnrichment ----------------------------
(* Enrichment with model values for its sets; the configurations give them. *)
EXTENDS Enrichment
=============================================================================
