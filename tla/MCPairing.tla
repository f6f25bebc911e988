----------------------------- MODULE MCPairing -----------------------------
(* Instances of Pairing for TLC. *)
EXTENDS Pairing, TLC

Symmetry == Permutations(Procs) \cup Permutations(Clients) \cup Permutations(Psks)
=============================================================================
