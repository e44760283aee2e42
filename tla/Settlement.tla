------------------------------ MODULE Settlement ------------------------------
(***************************************************************************)
(* The money path of the backend: TransactionService.markPayment,          *)
(* updateStatus and releaseFunds, PayoutService, RefundService and         *)
(* LedgerService, over the rows they share in PostgreSQL.                  *)
(*                                                                         *)
(* A request is one HTTP handler in flight.  Each `await` on the database  *)
(* is one step: between two awaits of one handler any other handler may    *)
(* run, and what a handler read before an await is kept in call[r] and     *)
(* used, possibly stale, after it.  A $transaction(...) block is the steps *)
(* "debit", "remaining", "update", "commit": its writes become visible     *)
(* together at the commit, its reads see what others have committed at     *)
(* that moment (READ COMMITTED), and a row it has updated stays locked     *)
(* until it ends: first the payout or refund, in the end the transaction.  *)
(*                                                                         *)
(* payout.service.ts and refund.service.ts are the same code over two      *)
(* tables; a row of either is an order, of kind "payout" or "refund".      *)
(*                                                                         *)
(* A definition marked Mutant is not part of the specification: it is the  *)
(* definition after it as a plausible mistake would have it, and some      *)
(* property must notice the difference.                                    *)
(***************************************************************************)
EXTENDS Integers

CONSTANTS
  Transactions,   \* ids of the transactions
  Amount,         \* Amount[t]: the integer amount agreed in TransactionService.create
  Requests,       \* handlers that may be in flight at the same time
  Endpoints,      \* the operations clients call in this instance
  Faults          \* whether an awaited call may reject, or the process die

AllEndpoints ==
  {"payment", "status", "release", "request", "resolve", "settle", "fail"}

\* TransactionService.create refuses any other amount.  (It also refuses one
\* above 2 000 000; markPayment does so again, in vain.)
ASSUME AmountAssumption == Amount \in [Transactions -> Nat \ {0}]
ASSUME EndpointsAssumption == Endpoints \subseteq AllEndpoints
ASSUME FaultsAssumption == Faults \in BOOLEAN

-----------------------------------------------------------------------------
(* The enumerations of schema.prisma. *)

TransactionStatus ==
  {"CREATED", "PAID", "IN_TRANSIT", "DELIVERED", "CANCELLED", "DISPUTED"}
PaymentStatus == {"PENDING", "SUCCESS", "FAILED", "REFUNDED"}

Kinds == {"payout", "refund"}
OrderStatus ==
  {"NONE", "READY", "REQUESTED", "PROCESSING", "PAID", "REFUNDED", "FAILED",
   "CANCELLED"}

\* The status that ends an order well: PayoutStatus.PAID, RefundStatus.REFUNDED.
Settled == [payout |-> "PAID", refund |-> "REFUNDED"]

\* Mutant: PAID and REFUNDED are left out of the list.
ActiveUnlessSettled(k) == {"REQUESTED", "PROCESSING"}

\* The statuses for which a second request returns the order there is.
Active(k) == {"REQUESTED", "PROCESSING", Settled[k]}

\* Mutant: the manual adapter leaves the order as it found it.
ManualLeavesReady == [MANUAL |-> "READY", MOCK_STRIPE |-> "PROCESSING"]

\* What each provider adapter answers to a request.
Answer == [MANUAL |-> "REQUESTED", MOCK_STRIPE |-> "PROCESSING"]

\* The ledger entries of one transaction, named for their idempotency keys:
\* payment_success:<tx>, payout_paid:<tx>:<id>, refund_refunded:<tx>:<id>.
Entries == Kinds \cup {"payment"}

VARIABLES
  tx,       \* tx[t]: the columns of row t of Transaction the handlers write
  ledger,   \* ledger[t][e]: amount of entry e, 0 while there is none
  order,    \* order[t][k]: the payout or refund row of t
  call      \* call[r]: where request r is, and what it has read

vars == <<tx, ledger, order, call>>

NoOrder == [status |-> "NONE", amount |-> 0]
Idle    == [at |-> "idle"]

\* Points of a handler between two awaits, named for the await that is next.
TxPhase == {"debit", "remaining", "update", "commit"}
Points  == TxPhase \cup
  {"kyc", "payment", "credit", "escrow", "gate", "balance", "existing",
   "create", "refresh", "dispatch", "lock", "fail"}

(***************************************************************************)
(* The locals of a handler.  amount: of the order (0: the whole balance);  *)
(* then: payout that DisputeService.resolve requests next; pay, status,    *)
(* escrow: columns of the transaction read or to be written; fresh: the    *)
(* $transaction has inserted its debit.                                    *)
(***************************************************************************)
Call ==
  [at : Points, tx : Transactions, kind : Kinds, via : DOMAIN Answer,
   amount : Nat, then : Nat, pay : PaymentStatus, status : TransactionStatus,
   escrow : Int, fresh : BOOLEAN]

NewCall(point, t) ==
  [at |-> point, tx |-> t, kind |-> "payout", via |-> "MANUAL", amount |-> 0,
   then |-> 0, pay |-> "PENDING", status |-> "CREATED", escrow |-> 0,
   fresh |-> FALSE]

TypeOK ==
  /\ tx \in [Transactions ->
              [status : TransactionStatus, paymentStatus : PaymentStatus,
               escrowAmount : Int]]
  /\ ledger \in [Transactions -> [Entries -> Nat]]
  /\ order \in [Transactions ->
                 [Kinds -> [status : OrderStatus, amount : Nat]]]
  /\ call \in [Requests -> Call \cup {Idle}]

\* A transaction as TransactionService.create leaves it.
Init ==
  /\ tx = [t \in Transactions |->
            [status |-> "CREATED", paymentStatus |-> "PENDING",
             escrowAmount |-> 0]]
  /\ ledger = [t \in Transactions |-> [e \in Entries |-> 0]]
  /\ order = [t \in Transactions |-> [k \in Kinds |-> NoOrder]]
  /\ call = [r \in Requests |-> Idle]

-----------------------------------------------------------------------------
(* LedgerService. *)

\* computeEscrowBalance: credits minus debits.
Balance(t) ==
  ledger[t]["payment"] - ledger[t]["payout"] - ledger[t]["refund"]

\* Mutant: no look-up by idempotency key.
Duplicated(existing, amount) == existing + amount

\* addEntryIdempotentInsideTx: an entry that exists is returned as it is.
Recorded(existing, amount) == IF existing # 0 THEN existing ELSE amount

-----------------------------------------------------------------------------
(* Moving one handler along. *)

At(r, point) == call[r].at = point

Goto(r, c) == call' = [call EXCEPT ![r] = c]

Advance(r, point) == call' = [call EXCEPT ![r].at = point]

Return(r) == Goto(r, Idle)

\* The UPDATE of an order waits while another $transaction has updated it.
InTx(q, t) == call[q].at \in TxPhase /\ call[q].tx = t

OrderFree(t, k) == \A q \in Requests : ~(InTx(q, t) /\ call[q].kind = k)

\* So does the UPDATE of a transaction.  (An INSERT into the ledger only refers
\* to that row, by its key, and does not wait.)
RowFree(t) == \A q \in Requests : ~(At(q, "commit") /\ call[q].tx = t)

-----------------------------------------------------------------------------
(* TransactionService.markPayment, but for the reminders it cancels or     *)
(* schedules in the end, which touch no row of this module.                *)

\* Mutant: the controller passes the text of the route on.
UnmappedResults == {"PENDING", "SUCCESS", "FAILED", "UNKNOWN"}

\* The controller takes whatever is not "success" or "failed" for PENDING.
PaymentResults == {"PENDING", "SUCCESS", "FAILED"}

MarkPayment(r, t, ps) ==
  /\ call[r] = Idle
  /\ ~(tx[t].paymentStatus = "SUCCESS" /\ ps = "SUCCESS")
  /\ Goto(r, IF ps = "SUCCESS"
             THEN [NewCall("kyc", t) EXCEPT !.pay = ps]
             ELSE [NewCall("payment", t) EXCEPT
                    !.pay = ps,
                    !.status = tx[t].status,
                    !.escrow = tx[t].escrowAmount])
  /\ UNCHANGED <<tx, ledger, order>>

\* The traveler's KYC row is outside this module: either answer is possible.
KycAnswer(r) ==
  /\ At(r, "kyc")
  /\ Advance(r, "payment") \/ Return(r)
  /\ UNCHANGED <<tx, ledger, order>>

\* Mutant: the entry is left to somebody else.
NoCredit(c) == Idle

AfterPayment(c) == IF c.pay = "SUCCESS" THEN NewCall("credit", c.tx) ELSE Idle

UpdatePayment(r) ==
  LET c == call[r]
      success == c.pay = "SUCCESS"
  IN  /\ At(r, "payment")
      /\ RowFree(c.tx)
      /\ tx' = [tx EXCEPT ![c.tx] =
                 [status |-> IF success THEN "PAID" ELSE c.status,
                  paymentStatus |-> c.pay,
                  escrowAmount |-> IF success THEN Amount[c.tx] ELSE c.escrow]]
      /\ Goto(r, AfterPayment(c))
      /\ UNCHANGED <<ledger, order>>

CreditEscrow(r) ==
  LET t == call[r].tx
  IN  /\ At(r, "credit")
      /\ ledger' = [ledger EXCEPT ![t]["payment"] = Recorded(@, Amount[t])]
      /\ Return(r)
      /\ UNCHANGED <<tx, order>>

(* TransactionService.updateStatus: no transition is refused. *)
UpdateStatus(t, s) ==
  /\ RowFree(t)
  /\ tx' = [tx EXCEPT ![t].status = s]
  /\ UNCHANGED <<ledger, order, call>>

-----------------------------------------------------------------------------
(* The three callers of requestPayoutForTransaction and                    *)
(* requestRefundForTransaction.                                            *)

ReleaseFunds(r, t) ==
  /\ call[r] = Idle
  /\ tx[t].paymentStatus = "SUCCESS"
  /\ tx[t].status = "DELIVERED"
  /\ Goto(r, NewCall("escrow", t))
  /\ UNCHANGED <<tx, ledger, order>>

ReleaseBalance(r) ==
  /\ At(r, "escrow")
  /\ IF Balance(call[r].tx) > 0 THEN Advance(r, "gate") ELSE Return(r)
  /\ UNCHANGED <<tx, ledger, order>>

RequestPayout(r, t, p) ==
  /\ call[r] = Idle
  /\ Goto(r, [NewCall("gate", t) EXCEPT !.via = p])
  /\ UNCHANGED <<tx, ledger, order>>

PayoutCall(t, amount) == [NewCall("gate", t) EXCEPT !.amount = amount]

RefundCall(t, amount, then) ==
  [NewCall("gate", t) EXCEPT !.kind = "refund", !.amount = amount,
                             !.then = then]

FirstCall(t, refund, release) ==
  IF refund > 0 THEN RefundCall(t, refund, release) ELSE PayoutCall(t, release)

\* The tail of DisputeService.resolve: first the refund, then the payout, out
\* of a balance that resolve has read some time before.
ResolveRequests(r, t, refund, release) ==
  /\ call[r] = Idle
  /\ refund + release \in 1 .. Amount[t]
  /\ Goto(r, FirstCall(t, refund, release))
  /\ UNCHANGED <<tx, ledger, order>>

-----------------------------------------------------------------------------
(* requestPayoutForTransaction, requestRefundForTransaction                *)

\* The request returns an order: resolve goes on with its payout, if any.
Requested(r) ==
  Goto(r, IF call[r].then > 0 THEN PayoutCall(call[r].tx, call[r].then)
                              ELSE Idle)

PaymentGate(r) ==
  /\ At(r, "gate")
  /\ IF tx[call[r].tx].paymentStatus = "SUCCESS"
     THEN Advance(r, "balance") ELSE Return(r)
  /\ UNCHANGED <<tx, ledger, order>>

\* Mutant: paymentStatus alone decides.
Unchecked(amount, balance) == TRUE

Affordable(amount, balance) == balance > 0 /\ amount <= balance

CheckBalance(r) ==
  LET balance == Balance(call[r].tx)
      amount == IF call[r].amount = 0 THEN balance ELSE call[r].amount
  IN  /\ At(r, "balance")
      /\ IF Affordable(amount, balance)
         THEN Goto(r, [call[r] EXCEPT !.at = "existing", !.amount = amount])
         ELSE Return(r)
      /\ UNCHANGED <<tx, ledger, order>>

FindExisting(r) ==
  LET status == order[call[r].tx][call[r].kind].status
  IN  /\ At(r, "existing")
      /\ CASE status \in Active(call[r].kind) -> Requested(r)
           [] status = "NONE" -> Advance(r, "create")
           [] OTHER -> Advance(r, "refresh")
      /\ UNCHANGED <<tx, ledger, order>>

MakeReady(r) ==
  /\ order' = [order EXCEPT ![call[r].tx][call[r].kind] =
                [status |-> "READY", amount |-> call[r].amount]]
  /\ Goto(r, [call[r] EXCEPT !.at = "dispatch", !.amount = 0])
  /\ UNCHANGED <<tx, ledger>>

RefreshOrder(r) ==
  /\ At(r, "refresh")
  /\ OrderFree(call[r].tx, call[r].kind)
  /\ MakeReady(r)

CreateOrder(r) ==
  /\ At(r, "create")
  /\ order[call[r].tx][call[r].kind] = NoOrder
  /\ MakeReady(r)

\* transactionId is @unique in Payout and in Refund: the INSERT fails.
CreateConflict(r) ==
  /\ At(r, "create")
  /\ order[call[r].tx][call[r].kind] # NoOrder
  /\ Return(r)
  /\ UNCHANGED <<tx, ledger, order>>

\* dispatchToProvider: the answer is written over whatever status is there.
Dispatch(r) ==
  LET c == call[r]
  IN  /\ At(r, "dispatch")
      /\ OrderFree(c.tx, c.kind)
      /\ order' = [order EXCEPT ![c.tx][c.kind].status = Answer[c.via]]
      /\ Requested(r)
      /\ UNCHANGED <<tx, ledger>>

-----------------------------------------------------------------------------
(* PayoutService.markPaid, RefundService.markRefunded                      *)

\* The handler up to its $transaction; from there on c.amount and c.pay are
\* what it has read here.
Settle(r, t, k) ==
  LET o == order[t][k]
  IN  /\ call[r] = Idle
      /\ o.status \notin {"NONE", Settled[k], "CANCELLED"}
      /\ Goto(r, [NewCall("lock", t) EXCEPT !.kind = k,
                                            !.amount = o.amount,
                                            !.pay = IF k = "refund"
                                                    THEN tx[t].paymentStatus
                                                    ELSE @])
      /\ UNCHANGED <<tx, ledger, order>>

MarkPaid(r, t)     == Settle(r, t, "payout")
MarkRefunded(r, t) == Settle(r, t, "refund")

\* The $transaction opens with the UPDATE of the order, which locks the row.
LockOrder(r) ==
  LET c == call[r]
  IN  /\ At(r, "lock")
      /\ OrderFree(c.tx, c.kind)
      /\ Advance(r, "debit")
      /\ UNCHANGED <<tx, ledger, order>>

\* Mutant: no balance check.
AnyAmount(c) == TRUE

Sufficient(c) == c.amount <= Balance(c.tx)

\* Mutant: the error is swallowed.
CarryOn(r) == Advance(r, "remaining")

\* addEntryIdempotentInsideTx throws: the $transaction is rolled back.
RollBack(r) == Return(r)

DebitEscrow(r) ==
  LET c == call[r]
      existing == ledger[c.tx][c.kind] # 0
  IN  /\ At(r, "debit")
      /\ IF existing \/ Sufficient(c)
         THEN Goto(r, [c EXCEPT !.at = "remaining", !.fresh = ~existing])
         ELSE RollBack(r)
      /\ UNCHANGED <<tx, ledger, order>>

\* getEscrowBalance inside the $transaction sees its own INSERT.
ReadRemaining(r) ==
  LET c == call[r]
      own == IF c.fresh THEN c.amount ELSE 0
  IN  /\ At(r, "remaining")
      /\ Goto(r, [c EXCEPT !.at = "update", !.escrow = Balance(c.tx) - own])
      /\ UNCHANGED <<tx, ledger, order>>

\* The UPDATE of the transaction, which locks that row as well.
LockTransaction(r) ==
  /\ At(r, "update")
  /\ RowFree(call[r].tx)
  /\ Advance(r, "commit")
  /\ UNCHANGED <<tx, ledger, order>>

\* Mutant: an escrow emptied by payouts counts as refunded.
EscrowEmpty(c) == c.escrow = 0

WhollyRefunded(c) == c.escrow = 0 /\ c.amount = Amount[c.tx]

PaymentAfter(c) ==
  IF c.kind = "payout" THEN tx[c.tx].paymentStatus
  ELSE IF WhollyRefunded(c) THEN "REFUNDED"
  ELSE c.pay

CommitSettlement(r) ==
  LET c == call[r]
  IN  /\ At(r, "commit")
      /\ order' = [order EXCEPT ![c.tx][c.kind].status = Settled[c.kind]]
      /\ ledger' = [ledger EXCEPT ![c.tx][c.kind] =
                     IF c.fresh THEN c.amount ELSE @]
      /\ tx' = [tx EXCEPT ![c.tx].escrowAmount = c.escrow,
                          ![c.tx].paymentStatus = PaymentAfter(c)]
      /\ Return(r)

-----------------------------------------------------------------------------
(* PayoutService.markFailed, RefundService.markFailed                      *)

\* Mutant: a settled order may be marked failed.
Exists(t, k) == order[t][k] # NoOrder

Unsettled(t, k) == order[t][k].status \notin {"NONE", Settled[k]}

Fail(r, t, k) ==
  /\ call[r] = Idle
  /\ Unsettled(t, k)
  /\ Goto(r, [NewCall("fail", t) EXCEPT !.kind = k])
  /\ UNCHANGED <<tx, ledger, order>>

MarkPayoutFailed(r, t) == Fail(r, t, "payout")
MarkRefundFailed(r, t) == Fail(r, t, "refund")

WriteFailed(r) ==
  LET c == call[r]
  IN  /\ At(r, "fail")
      /\ OrderFree(c.tx, c.kind)
      /\ order' = [order EXCEPT ![c.tx][c.kind].status = "FAILED"]
      /\ Return(r)
      /\ UNCHANGED <<tx, ledger>>

-----------------------------------------------------------------------------
(* An awaited call rejects, or the process dies: the handler is gone, and  *)
(* a $transaction it was in is rolled back.                                *)

Interrupted(r) ==
  /\ Faults
  /\ call[r] # Idle
  /\ Return(r)
  /\ UNCHANGED <<tx, ledger, order>>

Progress(r) ==
  \/ KycAnswer(r) \/ UpdatePayment(r) \/ CreditEscrow(r)
  \/ ReleaseBalance(r) \/ PaymentGate(r) \/ CheckBalance(r)
  \/ FindExisting(r) \/ RefreshOrder(r) \/ CreateOrder(r) \/ CreateConflict(r)
  \/ Dispatch(r)
  \/ LockOrder(r) \/ DebitEscrow(r) \/ ReadRemaining(r) \/ LockTransaction(r)
  \/ CommitSettlement(r) \/ WriteFailed(r)

Receive(r, t) ==
  \/ /\ "payment" \in Endpoints
     /\ \E ps \in PaymentResults : MarkPayment(r, t, ps)
  \/ "release" \in Endpoints /\ ReleaseFunds(r, t)
  \/ "request" \in Endpoints /\ \E p \in DOMAIN Answer : RequestPayout(r, t, p)
  \/ /\ "resolve" \in Endpoints
     /\ \E refund, release \in 0 .. Amount[t] :
          ResolveRequests(r, t, refund, release)
  \/ "settle" \in Endpoints /\ (MarkPaid(r, t) \/ MarkRefunded(r, t))
  \/ "fail" \in Endpoints /\ (MarkPayoutFailed(r, t) \/ MarkRefundFailed(r, t))

Next ==
  \/ \E r \in Requests : Progress(r) \/ Interrupted(r)
  \/ \E r \in Requests, t \in Transactions : Receive(r, t)
  \/ /\ "status" \in Endpoints
     /\ \E t \in Transactions, s \in TransactionStatus : UpdateStatus(t, s)

Spec == Init /\ [][Next]_vars

(***************************************************************************)
(* The Node.js event loop resumes every handler whose query has been       *)
(* answered, and PostgreSQL grants a row lock to the waiters in the order  *)
(* they came: a handler that can go on again and again does go on.  No     *)
(* client is obliged to send a request, and no call is obliged to fail.    *)
(***************************************************************************)
FairSpec == Spec /\ \A r \in Requests : SF_vars(Progress(r))

-----------------------------------------------------------------------------
(* Properties. *)

\* What the ledger promises, over the rows of this module (LedgerService).
Account == INSTANCE EscrowAccount WITH Strict <- FALSE

(***************************************************************************)
(* LedgerKeepsItsPromise: one credit, at most one payout and one refund    *)
(* debit, none of them ever rewritten, and no debit larger than the        *)
(* credit, whatever the handlers do (LedgerService.                        *)
(* addEntryIdempotentInsideTx).                                            *)
(***************************************************************************)
LedgerKeepsItsPromise == Account!Spec

(***************************************************************************)
(* NeverOverdrawn: the escrow of a transaction is never negative.  The     *)
(* balance check of addEntryIdempotentInsideTx is there for this; it reads *)
(* the entries in one statement and inserts in another.                    *)
(***************************************************************************)
NeverOverdrawn == \A t \in Transactions : Balance(t) >= 0

(***************************************************************************)
(* OrdersAreFunded: a payout or refund row exists only once the sender's   *)
(* payment has been credited, although the gate of                         *)
(* requestPayoutForTransaction reads paymentStatus, which markPayment sets *)
(* before it writes the credit.                                            *)
(***************************************************************************)
OrdersAreFunded ==
  \A t \in Transactions, k \in Kinds :
    order[t][k] # NoOrder =>
      /\ ledger[t]["payment"] = Amount[t]
      /\ order[t][k].amount \in 1 .. Amount[t]

(***************************************************************************)
(* SettledHasDebit: a payout that is PAID, or a refund that is REFUNDED,   *)
(* has its debit in the ledger (markPaid and markRefunded write both in    *)
(* one $transaction, other handlers overwrite the status alone).           *)
(***************************************************************************)
SettledHasDebit ==
  \A t \in Transactions, k \in Kinds :
    order[t][k].status = Settled[k] => ledger[t][k] # 0

(***************************************************************************)
(* Consistent: what makes the properties above inductive.  Next to them it *)
(* says what a handler may still rely on after its awaits: once past the   *)
(* balance check it works for a funded amount; past "create" the row it    *)
(* will write exists; the row lock admits one $transaction per order, so   *)
(* the debit it found absent is absent until it commits.                   *)
(***************************************************************************)
LedgerInBounds ==
  \A t \in Transactions :
    /\ ledger[t]["payment"] \in {0, Amount[t]}
    /\ \A k \in Kinds : ledger[t][k] <= ledger[t]["payment"]

Funded(c) ==
  ledger[c.tx]["payment"] = Amount[c.tx] /\ c.amount \in 1 .. Amount[c.tx]

Reliable(c) ==
  /\ c.at \in TxPhase \cup {"existing", "create", "refresh", "lock"}
       => Funded(c)
  /\ c.at \in TxPhase \cup {"dispatch", "lock", "fail"}
       => order[c.tx][c.kind] # NoOrder
  /\ c.at \in {"remaining", "update", "commit"}
       => (c.fresh <=> ledger[c.tx][c.kind] = 0)

CallsAreReliable == \A r \in Requests : Reliable(call[r])

OneTransactionPerOrder ==
  \A q, r \in Requests :
    call[q].at \in TxPhase /\ InTx(r, call[q].tx) /\ call[r].kind = call[q].kind
      => q = r

Consistent ==
  /\ LedgerInBounds
  /\ OrdersAreFunded
  /\ SettledHasDebit
  /\ CallsAreReliable
  /\ OneTransactionPerOrder

(***************************************************************************)
(* SettledMatchesLedger: the debit of an order is in the ledger exactly    *)
(* when the order is settled, and for the amount of the order.             *)
(***************************************************************************)
SettledMatchesLedger ==
  \A t \in Transactions, k \in Kinds :
    ledger[t][k] = IF order[t][k].status = Settled[k] THEN order[t][k].amount
                                                      ELSE 0

(***************************************************************************)
(* RefundedMeansReturned: a transaction whose paymentStatus is REFUNDED    *)
(* has had its whole amount debited as a refund (RefundService.            *)
(* markRefunded decides so from the remaining balance and a refund row it  *)
(* has read before its $transaction).                                      *)
(***************************************************************************)
RefundedMeansReturned ==
  \A t \in Transactions :
    tx[t].paymentStatus = "REFUNDED" => ledger[t]["refund"] = Amount[t]

(***************************************************************************)
(* SettledIsFinal: no step changes an order that is PAID or REFUNDED       *)
(* (markFailed refuses such an order, a new request returns it as it is).  *)
(***************************************************************************)
SettledIsFinal ==
  [][\A t \in Transactions, k \in Kinds :
       order[t][k].status = Settled[k] => order'[t][k] = order[t][k]]_vars

(***************************************************************************)
(* PaymentIsCredited: a payment marked SUCCESS ends up as a credit in the  *)
(* ledger (markPayment writes the row first and the credit after it).      *)
(***************************************************************************)
PaymentIsCredited ==
  \A t \in Transactions :
    tx[t].paymentStatus = "SUCCESS" ~> ledger[t]["payment"] = Amount[t]

(***************************************************************************)
(* SuccessIsCredited: when no handler is at work, a payment marked SUCCESS *)
(* is in the ledger.  After a crash between the two writes of markPayment  *)
(* nothing repairs it: a second SUCCESS returns at once.                   *)
(***************************************************************************)
SuccessIsCredited ==
  (\A r \in Requests : call[r] = Idle) =>
    \A t \in Transactions :
      tx[t].paymentStatus = "SUCCESS" => ledger[t]["payment"] = Amount[t]

(***************************************************************************)
(* CreditFollows: unless a call can fail, a payment marked SUCCESS is in   *)
(* the ledger, or the handler that will credit it is on its way:           *)
(* markRefunded, which writes back a paymentStatus it has read before,     *)
(* never brings a SUCCESS back for which nobody credits anything.          *)
(***************************************************************************)
CreditFollows ==
  \A t \in Transactions :
    tx[t].paymentStatus = "SUCCESS" =>
      \/ ledger[t]["payment"] = Amount[t]
      \/ \E r \in Requests : At(r, "credit") /\ call[r].tx = t

(***************************************************************************)
(* ReadyIsDispatched: an order does not stay READY, it is handed to its    *)
(* provider (dispatchToProvider) or decided meanwhile.                     *)
(***************************************************************************)
ReadyIsDispatched ==
  \A t \in Transactions, k \in Kinds :
    order[t][k].status = "READY" ~> order[t][k].status # "READY"
=============================================================================
