------------------------------- MODULE MCDispute -------------------------------
(* Small instances of Dispute for TLC. *)
EXTENDS Dispute, TLC

Price(n) == [t \in Transactions |-> n]
One == Price(1)
Two == Price(2)

Symmetric == Permutations(Requests) \cup Permutations(Disputes)
=============================================================================
