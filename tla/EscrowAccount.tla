---------------------------- MODULE EscrowAccount ----------------------------
(***************************************************************************)
(* What the ledger of a transaction promises, with every service, request  *)
(* and database detail removed: the sender's payment is credited once, at  *)
(* most one payout and at most one refund are ever debited from it, none   *)
(* of the three entries is ever changed, and no debit exceeds the credit.  *)
(* When Strict holds, the two debits TOGETHER do not exceed the credit     *)
(* either: the account is never overdrawn.                                 *)
(***************************************************************************)
EXTENDS Integers

CONSTANTS
  Transactions,   \* the transactions that hold an escrow
  Amount,         \* Amount[t]: the price the sender of t pays
  Strict          \* whether payout and refund share the credit

VARIABLE ledger   \* ledger[t][e]: amount of entry e of t, 0 while absent

Kinds   == {"payout", "refund"}
Entries == Kinds \cup {"payment"}

Balance(t) ==
  ledger[t]["payment"] - ledger[t]["payout"] - ledger[t]["refund"]

Init == ledger = [t \in Transactions |-> [e \in Entries |-> 0]]

Deposit(t) ==
  /\ ledger[t]["payment"] = 0
  /\ ledger' = [ledger EXCEPT ![t]["payment"] = Amount[t]]

Withdraw(t, k) ==
  /\ ledger[t][k] = 0
  /\ \E a \in 1 .. Amount[t] :
       /\ a <= IF Strict THEN Balance(t) ELSE ledger[t]["payment"]
       /\ ledger' = [ledger EXCEPT ![t][k] = a]

Next == \E t \in Transactions : Deposit(t) \/ \E k \in Kinds : Withdraw(t, k)

Spec == Init /\ [][Next]_ledger
=============================================================================
