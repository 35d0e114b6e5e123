----------------------------- MODULE MCChatTurn -----------------------------
(* ChatTurn on one or two threads. *)
EXTENDS ChatTurn, TLC

Symmetry == Permutations(Request) \cup Permutations(Thread)
=============================================================================
