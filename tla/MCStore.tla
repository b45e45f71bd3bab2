------------------------------ MODULE MCStore ------------------------------
(* Store with two records, of which one fits, and a second value for each. *)
EXTENDS Store
=============================================================================
