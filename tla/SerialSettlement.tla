--------------------------- MODULE SerialSettlement ---------------------------
(***************************************************************************)
(* Settlement when the requests for one transaction take turns: the next   *)
(* one is received when the one before has returned, or has been           *)
(* interrupted.  Requests for different transactions still interleave.     *)
(* Nothing in the backend makes requests wait for each other; this is the  *)
(* backend with clients that wait for their answers, or behind a queue per *)
(* transaction, and it shows which promises only a race can break.         *)
(***************************************************************************)
EXTENDS Settlement

OneAtATime ==
  \A q, r \in Requests :
    call[q] # Idle /\ call[r] # Idle /\ call[q].tx = call[r].tx => q = r

SerialSpec == Init /\ [][Next /\ OneAtATime']_vars

-----------------------------------------------------------------------------
(***************************************************************************)
(* NothingIsStale: what a handler has read, or checked, before its awaits  *)
(* is still so when it acts on it: the order it will write is not settled  *)
(* (PayoutService and RefundService read the row, and write it by id), the *)
(* amount and the paymentStatus it will write back are those of the rows,  *)
(* and the escrow still covers the amount it has found affordable.         *)
(***************************************************************************)
UpToDate(c) ==
  LET o == order[c.tx][c.kind]
  IN  /\ c.at \in TxPhase \cup {"refresh", "lock", "fail"}
           => o.status \notin {"NONE", Settled[c.kind]}
      /\ c.at = "dispatch" => o.status = "READY"
      /\ c.at \in TxPhase \cup {"lock"}
           => /\ c.amount = o.amount
              /\ c.kind = "refund" => c.pay = tx[c.tx].paymentStatus
      /\ c.at \in {"existing", "create", "refresh", "remaining", "update",
                   "commit"}
           => c.amount <= Balance(c.tx)
      /\ c.at \in {"update", "commit"} => c.escrow = Balance(c.tx) - c.amount
      /\ c.at \in {"kyc", "payment"} => c.pay # "REFUNDED"

NothingIsStale == \A r \in Requests : call[r] # Idle => UpToDate(call[r])

\* What makes the properties of Settlement inductive here.
SerialConsistent ==
  /\ OneAtATime
  /\ NothingIsStale
  /\ NeverOverdrawn
  /\ SettledMatchesLedger
  /\ RefundedMeansReturned

-----------------------------------------------------------------------------
\* The orders and the ledger with atomic handlers.
Orders == INSTANCE EscrowOrders
            WITH paymentStatus <- [t \in Transactions |-> tx[t].paymentStatus]

(***************************************************************************)
(* HandlersAreAtomic: handlers of a dozen awaits, interrupted anywhere,    *)
(* leave the rows as atomic handlers would: each one takes effect in       *)
(* steps that are legal on the rows as they are, whatever other            *)
(* transactions do meanwhile (PayoutService, RefundService, markPayment).  *)
(***************************************************************************)
HandlersAreAtomic == Orders!Spec

\* The account with one credit that payout and refund share.
Shared == INSTANCE EscrowAccount WITH Strict <- TRUE

(***************************************************************************)
(* SharedAccount: no debit is for more than what is left                   *)
(* (addEntryIdempotentInsideTx checks the balance in one statement and     *)
(* inserts in another).                                                    *)
(***************************************************************************)
SharedAccount == Shared!Spec
=============================================================================
