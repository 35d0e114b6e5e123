----------------------------- MODULE MCRunQueue -----------------------------
(* RunQueue on small tables.  Rows, drainers and enqueuers are model values. *)
EXTENDS RunQueue, TLC

\* Drainers are interchangeable, and so are rows: they are told apart by their
\* stamps.  Used by the runs that check safety only.
Symmetry == Permutations(Drainer) \cup Permutations(Run)
=============================================================================
