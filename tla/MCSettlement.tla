----------------------------- MODULE MCSettlement -----------------------------
(* Small instances of Settlement for TLC. *)
EXTENDS SerialSettlement, TLC

Price(n) == [t \in Transactions |-> n]
One   == Price(1)
Two   == Price(2)
Three == Price(3)

Money == {"payment", "resolve", "settle", "fail"}

Symmetric == Permutations(Requests)
=============================================================================
