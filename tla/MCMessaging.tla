------------------------------ MODULE MCMessaging ------------------------------
(* Small instances of Messaging for TLC. *)
EXTENDS Messaging, TLC

CONSTANTS c1, c2, t1, t2

\* c2 has no part in t2.
Parties == [t \in Transactions |-> IF t = t1 THEN {c1, c2} ELSE {c1}]

Symmetric == Permutations(Conversations)
=============================================================================
