-------------------------- MODULE MCIdempotencyKeys --------------------------
(* Instances of IdempotencyKeys for TLC. *)
EXTENDS IdempotencyKeys, TLC

RequestSymmetry == Permutations(Request) \cup Permutations(Fingerprint)
=============================================================================
