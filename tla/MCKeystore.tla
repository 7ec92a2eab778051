------------------------------ MODULE MCKeystore -----------------------------
(* Keystore with the breadcrumbs of Diag for TLC: two seeds, two public keys, *)
(* one device id and two box keys, so that records, keys and rewrites can     *)
(* differ.                                                                    *)
EXTENDS Diag, TLC

Symmetry == Permutations(Seed) \cup Permutations(Pub) \cup Permutations(BoxKey)
==============================================================================
