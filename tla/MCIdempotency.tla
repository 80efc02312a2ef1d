--------------------------- MODULE MCIdempotency ---------------------------
(* A small instance of Idempotency for TLC.                                *)
EXTENDS Idempotency, TLC

(* Calls and fingerprints are interchangeable.                             *)
Symmetry == Permutations(Call) \cup Permutations(Fingerprint)
=============================================================================
