------------------------------ MODULE MCOutbox ------------------------------
(* Small instances of Outbox for TLC. *)
EXTENDS Outbox, TLC

DigestSymmetry == Permutations(Digests) \cup Permutations(Requests)
=============================================================================
