----------------------------- MODULE MCAbandonment -----------------------------
(* Small instances of Abandonment for TLC. *)
EXTENDS Abandonment, TLC

Symmetric == Permutations(Subjects) \cup Permutations(Events)
=============================================================================
