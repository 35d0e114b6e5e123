---- MODULE MCLinks ----
(* Submissions, keypairs and run rows are interchangeable. *)
EXTENDS Links
Alike == Permutations(Forms) \cup Permutations(Keypairs) \cup Permutations(Runs)
====
