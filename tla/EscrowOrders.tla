----------------------------- MODULE EscrowOrders -----------------------------
(***************************************************************************)
(* What the payout and the refund of a transaction promise together, with  *)
(* every handler shrunk to one atomic step over the rows as they are at    *)
(* that moment: an order is made for no more than the escrow holds, it is  *)
(* handed over when it is ready, it fails or it is settled, and the debit, *)
(* the final status and the REFUNDED payment are one step.                 *)
(***************************************************************************)
EXTENDS Integers

CONSTANTS
  Transactions,   \* the transactions that hold an escrow
  Amount          \* Amount[t]: the price the sender of t pays

VARIABLES
  ledger,         \* ledger[t][e]: amount of entry e of t, 0 while absent
  order,          \* order[t][k]: the payout or the refund of t
  paymentStatus   \* paymentStatus[t]

Kinds   == {"payout", "refund"}
Entries == Kinds \cup {"payment"}
NoOrder == [status |-> "NONE", amount |-> 0]
Settled == [payout |-> "PAID", refund |-> "REFUNDED"]

Balance(t) ==
  ledger[t]["payment"] - ledger[t]["payout"] - ledger[t]["refund"]

Open(t, k) == order[t][k].status \notin {"NONE", Settled[k]}

Init ==
  /\ ledger = [t \in Transactions |-> [e \in Entries |-> 0]]
  /\ order = [t \in Transactions |-> [k \in Kinds |-> NoOrder]]
  /\ paymentStatus = [t \in Transactions |-> "PENDING"]

Pay(t) ==
  /\ \E ps \in {"PENDING", "SUCCESS", "FAILED"} :
       paymentStatus' = [paymentStatus EXCEPT ![t] = ps]
  /\ UNCHANGED <<ledger, order>>

Credit(t) ==
  /\ ledger[t]["payment"] = 0
  /\ ledger' = [ledger EXCEPT ![t]["payment"] = Amount[t]]
  /\ UNCHANGED <<order, paymentStatus>>

Prepare(t, k) ==
  /\ order[t][k].status # Settled[k]
  /\ \E a \in 1 .. Balance(t) :
       order' = [order EXCEPT ![t][k] = [status |-> "READY", amount |-> a]]
  /\ UNCHANGED <<ledger, paymentStatus>>

HandOver(t, k) ==
  /\ order[t][k].status = "READY"
  /\ \E s \in {"REQUESTED", "PROCESSING"} :
       order' = [order EXCEPT ![t][k].status = s]
  /\ UNCHANGED <<ledger, paymentStatus>>

Fail(t, k) ==
  /\ Open(t, k)
  /\ order' = [order EXCEPT ![t][k].status = "FAILED"]
  /\ UNCHANGED <<ledger, paymentStatus>>

Settle(t, k) ==
  LET a == order[t][k].amount
  IN  /\ Open(t, k)
      /\ a <= Balance(t)
      /\ ledger' = [ledger EXCEPT ![t][k] = a]
      /\ order' = [order EXCEPT ![t][k].status = Settled[k]]
      /\ paymentStatus' = IF k = "refund" /\ a = Amount[t]
                          THEN [paymentStatus EXCEPT ![t] = "REFUNDED"]
                          ELSE paymentStatus

Next ==
  \E t \in Transactions :
    \/ Pay(t) \/ Credit(t)
    \/ \E k \in Kinds : Prepare(t, k) \/ HandOver(t, k) \/ Fail(t, k)
                          \/ Settle(t, k)

Spec == Init /\ [][Next]_<<ledger, order, paymentStatus>>
=============================================================================
