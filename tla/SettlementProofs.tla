--------------------------- MODULE SettlementProofs ---------------------------
(* Proofs about Settlement, for any transactions, amounts, requests,       *)
(* endpoints and fault assumption.                                         *)
EXTENDS Settlement, TLAPS

USE DEF TxPhase, Kinds, Entries

-----------------------------------------------------------------------------
(* Types. *)

\* Every handler starts with a well-typed set of locals.
LEMMA NewCallType ==
  ASSUME NEW point \in Points, NEW t \in Transactions
  PROVE  NewCall(point, t) \in Call
BY DEF NewCall, Call, Answer, PaymentStatus, TransactionStatus

\* A request that is at some point of a handler has the locals of a handler.
LEMMA CallTyped ==
  ASSUME TypeOK, NEW r \in Requests, call[r] # Idle
  PROVE  call[r] \in Call
BY DEF TypeOK

LEMMA AtTyped ==
  ASSUME TypeOK, NEW r \in Requests, NEW p \in Points, At(r, p)
  PROVE  call[r] \in Call
<1>1. call[r] # Idle  BY DEF At, Idle, Points
<1>2. QED  BY <1>1, CallTyped

LEMMA AmountType ==
  ASSUME NEW t \in Transactions
  PROVE  Amount[t] \in Nat /\ Amount[t] >= 1
BY AmountAssumption

LEMMA BalanceType ==
  ASSUME TypeOK, NEW t \in Transactions
  PROVE  Balance(t) \in Int
BY DEF TypeOK, Balance

\* Replacing the locals of one handler.
LEMMA GotoType ==
  ASSUME TypeOK, NEW r \in Requests, NEW c \in Call \cup {Idle}, Goto(r, c)
  PROVE  call' \in [Requests -> Call \cup {Idle}]
BY DEF TypeOK, Goto

LEMMA ReturnType ==
  ASSUME TypeOK, NEW r \in Requests, Return(r)
  PROVE  call' \in [Requests -> Call \cup {Idle}]
BY GotoType DEF Return

LEMMA AdvanceType ==
  ASSUME TypeOK, NEW r \in Requests, NEW p \in Points, Advance(r, p),
         call[r] \in Call
  PROVE  call' \in [Requests -> Call \cup {Idle}]
<1>1. [call[r] EXCEPT !.at = p] \in Call  BY DEF Call
<1>2. QED  BY <1>1 DEF TypeOK, Advance

\* Writing the status of one order.
LEMMA StatusType ==
  ASSUME TypeOK, NEW t \in Transactions, NEW k \in Kinds, NEW s \in OrderStatus
  PROVE  [order EXCEPT ![t][k].status = s]
           \in [Transactions -> [Kinds -> [status : OrderStatus, amount : Nat]]]
<1> DEFINE Row == [status : OrderStatus, amount : Nat]
<1>1. [order[t][k] EXCEPT !.status = s] \in Row  BY DEF TypeOK
<1>2. [order[t] EXCEPT ![k] = [order[t][k] EXCEPT !.status = s]]
        \in [Kinds -> Row]
  BY <1>1 DEF TypeOK
<1>3. [order EXCEPT ![t][k].status = s]
        = [order EXCEPT
            ![t] = [order[t] EXCEPT ![k] = [order[t][k] EXCEPT !.status = s]]]
  BY DEF TypeOK
<1>4. QED  BY <1>2, <1>3 DEF TypeOK

\* What a handler does once it has its order.
LEMMA RequestedType ==
  ASSUME TypeOK, NEW r \in Requests, Requested(r), call[r] \in Call
  PROVE  call' \in [Requests -> Call \cup {Idle}]
<1>1. PayoutCall(call[r].tx, call[r].then) \in Call
  <2>1. NewCall("gate", call[r].tx) \in Call
    BY NewCallType DEF Call, Points
  <2>2. call[r].then \in Nat  BY DEF Call
  <2>3. QED  BY <2>1, <2>2 DEF PayoutCall, Call
<1>2. QED  BY <1>1, GotoType DEF Requested

\* Init and every step keep the types: one step per action.
LEMMA TypeInit == Init => TypeOK
<1>1. SUFFICES ASSUME Init PROVE TypeOK  OBVIOUS
<1>2. tx \in [Transactions ->
               [status : TransactionStatus, paymentStatus : PaymentStatus,
                escrowAmount : Int]]
  BY <1>1 DEF Init, TransactionStatus, PaymentStatus
<1>3. ledger \in [Transactions -> [Entries -> Nat]]  BY <1>1 DEF Init
<1>4. order \in [Transactions ->
                  [Kinds -> [status : OrderStatus, amount : Nat]]]
  BY <1>1 DEF Init, NoOrder, OrderStatus
<1>5. QED  BY <1>1, <1>2, <1>3, <1>4 DEF Init, TypeOK

LEMMA TypeProgress ==
  ASSUME TypeOK, NEW r \in Requests, Progress(r)
  PROVE  TypeOK'
<1> DEFINE c == call[r]
<1>1. CASE KycAnswer(r)
  <2>1. c \in Call  BY <1>1, AtTyped DEF KycAnswer, Points
  <2>2. CASE Advance(r, "payment")
    BY <1>1, <2>1, <2>2, AdvanceType DEF KycAnswer, TypeOK, Points
  <2>3. CASE Return(r)
    BY <1>1, <2>3, ReturnType DEF KycAnswer, TypeOK
  <2>4. QED  BY <1>1, <2>2, <2>3 DEF KycAnswer
<1>2. CASE UpdatePayment(r)
  <2>1. c \in Call  BY <1>2, AtTyped DEF UpdatePayment, Points
  <2>2. AfterPayment(c) \in Call \cup {Idle}
    BY <2>1, NewCallType DEF AfterPayment, Call, Points
  <2>3. call' \in [Requests -> Call \cup {Idle}]
    BY <1>2, <2>2, GotoType DEF UpdatePayment
  <2>4. c.tx \in Transactions /\ c.pay \in PaymentStatus
        /\ c.status \in TransactionStatus /\ c.escrow \in Int
    BY <2>1 DEF Call
  <2>5. tx' \in [Transactions ->
               [status : TransactionStatus, paymentStatus : PaymentStatus,
                escrowAmount : Int]]
    BY <1>2, <2>4, AmountType DEF UpdatePayment, TypeOK, TransactionStatus
  <2>6. QED  BY <1>2, <2>3, <2>5 DEF UpdatePayment, TypeOK
<1>3. CASE CreditEscrow(r)
  <2>1. c \in Call  BY <1>3, AtTyped DEF CreditEscrow, Points
  <2>2. c.tx \in Transactions  BY <2>1 DEF Call
  <2>3. ledger' \in [Transactions -> [Entries -> Nat]]
    BY <1>3, <2>2, AmountType DEF CreditEscrow, TypeOK, Recorded
  <2>4. QED  BY <1>3, <2>3, ReturnType DEF CreditEscrow, TypeOK
<1>4. CASE ReleaseBalance(r)
  <2>1. c \in Call  BY <1>4, AtTyped DEF ReleaseBalance, Points
  <2>2. QED
    BY <1>4, <2>1, AdvanceType, ReturnType DEF ReleaseBalance, TypeOK, Points
<1>5. CASE PaymentGate(r)
  <2>1. c \in Call  BY <1>5, AtTyped DEF PaymentGate, Points
  <2>2. QED
    BY <1>5, <2>1, AdvanceType, ReturnType DEF PaymentGate, TypeOK, Points
<1>6. CASE CheckBalance(r)
  <2>1. c \in Call  BY <1>6, AtTyped DEF CheckBalance, Points
  <2>2. c.tx \in Transactions /\ c.amount \in Nat  BY <2>1 DEF Call
  <2>3. CASE Return(r)
    BY <1>6, <2>3, ReturnType DEF CheckBalance, TypeOK
  <2>4. CASE ~Return(r)
    <3> DEFINE amount == IF c.amount = 0 THEN Balance(c.tx) ELSE c.amount
               next == [c EXCEPT !.at = "existing", !.amount = amount]
    <3>1. Affordable(amount, Balance(c.tx)) /\ Goto(r, next)
      BY <1>6, <2>4 DEF CheckBalance
    <3>2. Balance(c.tx) \in Int /\ Balance(c.tx) > 0
      BY <2>2, <3>1, BalanceType DEF Affordable
    <3>3. amount \in Nat  BY <2>2, <3>2
    <3>4. next \in Call  BY <2>1, <3>3 DEF Call, Points
    <3>5. call' \in [Requests -> Call \cup {Idle}]
      BY <3>1, <3>4, GotoType
    <3>6. QED  BY <1>6, <3>5 DEF CheckBalance, TypeOK
  <2>5. QED  BY <2>3, <2>4
<1>7. CASE FindExisting(r)
  <2>1. c \in Call  BY <1>7, AtTyped DEF FindExisting, Points
  <2>2. Requested(r) \/ Advance(r, "create") \/ Advance(r, "refresh")
    BY <1>7 DEF FindExisting
  <2>3. call' \in [Requests -> Call \cup {Idle}]
    BY <2>1, <2>2, RequestedType, AdvanceType DEF Points
  <2>4. QED  BY <1>7, <2>3 DEF FindExisting, TypeOK
<1>8. CASE RefreshOrder(r) \/ CreateOrder(r)
  <2>1. c \in Call /\ MakeReady(r)
    BY <1>8, AtTyped DEF RefreshOrder, CreateOrder, Points
  <2>2. c.tx \in Transactions /\ c.kind \in Kinds /\ c.amount \in Nat
    BY <2>1 DEF Call
  <2>3. [c EXCEPT !.at = "dispatch", !.amount = 0] \in Call
    BY <2>1 DEF Call, Points
  <2>4. call' \in [Requests -> Call \cup {Idle}]
    BY <2>1, <2>3, GotoType DEF MakeReady
  <2>5. order' \in [Transactions ->
                      [Kinds -> [status : OrderStatus, amount : Nat]]]
    BY <2>1, <2>2 DEF MakeReady, TypeOK, OrderStatus
  <2>6. QED  BY <2>1, <2>4, <2>5 DEF MakeReady, TypeOK
<1>9. CASE CreateConflict(r)
  BY <1>9, ReturnType DEF CreateConflict, TypeOK
<1>10. CASE Dispatch(r)
  <2>1. c \in Call  BY <1>10, AtTyped DEF Dispatch, Points
  <2>2. c.tx \in Transactions /\ c.kind \in Kinds /\ c.via \in DOMAIN Answer
    BY <2>1 DEF Call
  <2>3. Answer[c.via] \in OrderStatus  BY <2>2 DEF Answer, OrderStatus
  <2>4. order' \in [Transactions ->
                      [Kinds -> [status : OrderStatus, amount : Nat]]]
    BY <1>10, <2>2, <2>3, StatusType DEF Dispatch
  <2>5. call' \in [Requests -> Call \cup {Idle}]
    BY <1>10, <2>1, RequestedType DEF Dispatch
  <2>6. QED  BY <1>10, <2>4, <2>5 DEF Dispatch, TypeOK
<1>11. CASE LockOrder(r) \/ LockTransaction(r)
  <2>1. c \in Call  BY <1>11, AtTyped DEF LockOrder, LockTransaction, Points
  <2>2. QED
    BY <1>11, <2>1, AdvanceType DEF LockOrder, LockTransaction, TypeOK, Points
<1>12. CASE DebitEscrow(r)
  <2>1. c \in Call  BY <1>12, AtTyped DEF DebitEscrow, Points
  <2>2. [c EXCEPT !.at = "remaining",
                  !.fresh = ~(ledger[c.tx][c.kind] # 0)] \in Call
    BY <2>1 DEF Call, Points
  <2>3. QED
    BY <1>12, <2>2, GotoType, ReturnType DEF DebitEscrow, RollBack, TypeOK
<1>13. CASE ReadRemaining(r)
  <2>1. c \in Call  BY <1>13, AtTyped DEF ReadRemaining, Points
  <2>2. c.tx \in Transactions /\ c.amount \in Nat  BY <2>1 DEF Call
  <2>3. Balance(c.tx) - (IF c.fresh THEN c.amount ELSE 0) \in Int
    BY <2>2, BalanceType
  <2>4. [c EXCEPT !.at = "update",
                  !.escrow = Balance(c.tx) - (IF c.fresh THEN c.amount ELSE 0)]
          \in Call
    BY <2>1, <2>3 DEF Call, Points
  <2>5. QED  BY <1>13, <2>4, GotoType DEF ReadRemaining, TypeOK
<1>14. CASE CommitSettlement(r)
  <2>1. c \in Call  BY <1>14, AtTyped DEF CommitSettlement, Points
  <2>2. /\ c.tx \in Transactions /\ c.kind \in Kinds /\ c.amount \in Nat
        /\ c.pay \in PaymentStatus /\ c.escrow \in Int
    BY <2>1 DEF Call
  <2>3. Settled[c.kind] \in OrderStatus  BY <2>2 DEF Settled, OrderStatus
  <2>4. order' \in [Transactions ->
                      [Kinds -> [status : OrderStatus, amount : Nat]]]
    BY <1>14, <2>2, <2>3, StatusType DEF CommitSettlement
  <2>5. ledger' \in [Transactions -> [Entries -> Nat]]
    BY <1>14, <2>2 DEF CommitSettlement, TypeOK
  <2>6. PaymentAfter(c) \in PaymentStatus
    BY <2>2 DEF PaymentAfter, PaymentStatus, TypeOK
  <2>7. tx' \in [Transactions ->
               [status : TransactionStatus, paymentStatus : PaymentStatus,
                escrowAmount : Int]]
    BY <1>14, <2>2, <2>6 DEF CommitSettlement, TypeOK
  <2>8. QED
    BY <1>14, <2>4, <2>5, <2>7, ReturnType DEF CommitSettlement, TypeOK
<1>15. CASE WriteFailed(r)
  <2>1. c \in Call  BY <1>15, AtTyped DEF WriteFailed, Points
  <2>2. c.tx \in Transactions /\ c.kind \in Kinds  BY <2>1 DEF Call
  <2>3. order' \in [Transactions ->
                      [Kinds -> [status : OrderStatus, amount : Nat]]]
    BY <1>15, <2>2, StatusType DEF WriteFailed, OrderStatus
  <2>4. QED  BY <1>15, <2>3, ReturnType DEF WriteFailed, TypeOK
<1>16. QED
  BY <1>1, <1>2, <1>3, <1>4, <1>5, <1>6, <1>7, <1>8, <1>9, <1>10, <1>11,
     <1>12, <1>13, <1>14, <1>15 DEF Progress

LEMMA ResolveType ==
  ASSUME TypeOK, NEW r \in Requests, NEW t \in Transactions,
         NEW refund \in 0 .. Amount[t], NEW release \in 0 .. Amount[t],
         ResolveRequests(r, t, refund, release)
  PROVE  TypeOK'
<1>1. refund \in Nat /\ release \in Nat  BY AmountType
<1>2. NewCall("gate", t) \in Call  BY NewCallType DEF Points
<1>3. RefundCall(t, refund, release) \in Call
  BY <1>1, <1>2 DEF RefundCall, Call
<1>4. PayoutCall(t, release) \in Call
  BY <1>1, <1>2 DEF PayoutCall, Call
<1>5. QED  BY <1>3, <1>4, GotoType DEF ResolveRequests, FirstCall, TypeOK

LEMMA TypeReceive ==
  ASSUME TypeOK, NEW r \in Requests, NEW t \in Transactions, Receive(r, t)
  PROVE  TypeOK'
<1>1. CASE \E ps \in PaymentResults : MarkPayment(r, t, ps)
  <2>1. PICK ps \in PaymentResults : MarkPayment(r, t, ps)  BY <1>1
  <2>2. ps \in PaymentStatus  BY DEF PaymentResults, PaymentStatus
  <2>3. NewCall("kyc", t) \in Call /\ NewCall("payment", t) \in Call
    BY NewCallType DEF Points
  <2>4. tx[t].status \in TransactionStatus /\ tx[t].escrowAmount \in Int
    BY DEF TypeOK
  <2>5. [NewCall("kyc", t) EXCEPT !.pay = ps] \in Call
    BY <2>2, <2>3 DEF Call
  <2>6. [NewCall("payment", t) EXCEPT
           !.pay = ps, !.status = tx[t].status,
           !.escrow = tx[t].escrowAmount] \in Call
    BY <2>2, <2>3, <2>4 DEF Call
  <2>7. QED  BY <2>1, <2>5, <2>6, GotoType DEF MarkPayment, TypeOK
<1>2. CASE ReleaseFunds(r, t)
  BY <1>2, NewCallType, GotoType DEF ReleaseFunds, TypeOK, Points
<1>3. CASE \E p \in DOMAIN Answer : RequestPayout(r, t, p)
  <2>1. PICK p \in DOMAIN Answer : RequestPayout(r, t, p)  BY <1>3
  <2>2. NewCall("gate", t) \in Call  BY NewCallType DEF Points
  <2>3. [NewCall("gate", t) EXCEPT !.via = p] \in Call
    BY <2>2 DEF Call
  <2>4. QED  BY <2>1, <2>3, GotoType DEF RequestPayout, TypeOK
<1>4. CASE \E refund, release \in 0 .. Amount[t] :
             ResolveRequests(r, t, refund, release)
  BY <1>4, ResolveType
<1>5. CASE \E k \in Kinds : Settle(r, t, k)
  <2>1. PICK k \in Kinds : Settle(r, t, k)  BY <1>5
  <2>2. NewCall("lock", t) \in Call  BY NewCallType DEF Points
  <2>3. order[t][k].amount \in Nat /\ tx[t].paymentStatus \in PaymentStatus
    BY DEF TypeOK
  <2>4. \A pay \in PaymentStatus :
          [NewCall("lock", t) EXCEPT !.kind = k, !.amount = order[t][k].amount,
                                     !.pay = pay] \in Call
    BY <2>2, <2>3 DEF Call
  <2>5. NewCall("lock", t).pay \in PaymentStatus  BY <2>2 DEF Call
  <2>6. QED  BY <2>1, <2>3, <2>4, <2>5, GotoType DEF Settle, TypeOK
<1>6. CASE \E k \in Kinds : Fail(r, t, k)
  <2>1. PICK k \in Kinds : Fail(r, t, k)  BY <1>6
  <2>2. NewCall("fail", t) \in Call  BY NewCallType DEF Points
  <2>3. [NewCall("fail", t) EXCEPT !.kind = k] \in Call
    BY <2>2 DEF Call
  <2>4. QED  BY <2>1, <2>3, GotoType DEF Fail, TypeOK
<1>7. QED
  BY <1>1, <1>2, <1>3, <1>4, <1>5, <1>6
  DEF Receive, MarkPaid, MarkRefunded, MarkPayoutFailed, MarkRefundFailed

LEMMA TypeStep == TypeOK /\ [Next]_vars => TypeOK'
<1> SUFFICES ASSUME TypeOK, [Next]_vars PROVE TypeOK'
  OBVIOUS
<1>1. CASE \E r \in Requests : Progress(r)
  BY <1>1, TypeProgress
<1>2. CASE \E r \in Requests : Interrupted(r)
  BY <1>2, ReturnType DEF Interrupted, TypeOK
<1>3. CASE \E r \in Requests, t \in Transactions : Receive(r, t)
  BY <1>3, TypeReceive
<1>4. CASE \E t \in Transactions, s \in TransactionStatus : UpdateStatus(t, s)
  BY <1>4 DEF UpdateStatus, TypeOK
<1>5. CASE UNCHANGED vars
  BY <1>5 DEF vars, TypeOK
<1>6. QED  BY <1>1, <1>2, <1>3, <1>4, <1>5 DEF Next

\* Every reachable state is well-typed.
THEOREM TypeCorrect == Spec => []TypeOK
<1>1. QED  BY TypeInit, TypeStep, PTL DEF Spec

-----------------------------------------------------------------------------
(* The inductive invariant. *)

\* What may be written to an order next to its ledger.
Writable(t, k, o) ==
  /\ o # NoOrder
  /\ ledger[t]["payment"] = Amount[t]
  /\ o.amount \in 1 .. Amount[t]
  /\ o.status = Settled[k] => ledger[t][k] # 0

\* A handler may be in a $transaction if it was in that one before, or if
\* nobody else was in one that excludes it.
Admitted(r, c) ==
  \/ InTx(r, c.tx) /\ call[r].kind = c.kind
  \/ OrderFree(c.tx, c.kind)

\* One handler moves on and writes orders at most.
LEMMA GotoConsistent ==
  ASSUME TypeOK, Consistent, NEW r \in Requests, NEW c \in Call \cup {Idle},
         Goto(r, c), UNCHANGED ledger,
         \A t \in Transactions, k \in Kinds :
           order'[t][k] = order[t][k] \/ Writable(t, k, order'[t][k]),
         Reliable(c)',
         c.at \in TxPhase => Admitted(r, c)
  PROVE  Consistent'
<1>1. call' = [call EXCEPT ![r] = c] /\ call \in [Requests -> Call \cup {Idle}]
  BY DEF Goto, TypeOK
<1>2. LedgerInBounds'
  BY DEF Consistent, LedgerInBounds
<1>3. OrdersAreFunded' /\ SettledHasDebit'
  BY DEF Consistent, OrdersAreFunded, SettledHasDebit, Writable
<1>4. CallsAreReliable'
  <2> SUFFICES ASSUME NEW q \in Requests, NEW d, d = call'[q]
               PROVE  Reliable(d)'
    BY DEF CallsAreReliable, Reliable, Funded
  <2>1. CASE q = r
    BY <1>1, <2>1
  <2>2. CASE q # r
    <3>1. d = call[q] /\ Reliable(d)
      BY <1>1, <2>2 DEF Consistent, CallsAreReliable
    <3>2. CASE d = Idle
      BY <3>2 DEF Reliable, Idle
    <3>3. CASE d \in Call
      <4>1. d.tx \in Transactions /\ d.kind \in Kinds
        BY <3>3 DEF Call
      <4>2. order[d.tx][d.kind] # NoOrder => order'[d.tx][d.kind] # NoOrder
        BY <4>1 DEF Writable
      <4>3. QED  BY <3>1, <4>2 DEF Reliable, Funded
    <3>4. QED  BY <1>1, <3>1, <3>2, <3>3
  <2>3. QED  BY <2>1, <2>2
<1>5. OneTransactionPerOrder'
  BY <1>1 DEF Consistent, OneTransactionPerOrder, Admitted, OrderFree, InTx
<1>6. QED  BY <1>2, <1>3, <1>4, <1>5 DEF Consistent

\* A handler that keeps nothing it has to rely on.
Unbound(c) ==
  c.at \notin TxPhase \cup
                {"existing", "create", "refresh", "lock", "dispatch", "fail"}

LEMMA UnboundConsistent ==
  ASSUME TypeOK, Consistent, NEW r \in Requests, NEW c \in Call \cup {Idle},
         Goto(r, c), Unbound(c), UNCHANGED <<ledger, order>>
  PROVE  Consistent'
<1>1. Reliable(c)'  BY DEF Unbound, Reliable
<1>2. c.at \notin TxPhase  BY DEF Unbound
<1>3. QED  BY <1>1, <1>2, GotoConsistent

LEMMA ReturnConsistent ==
  ASSUME TypeOK, Consistent, NEW r \in Requests, Return(r),
         UNCHANGED <<ledger, order>>
  PROVE  Consistent'
<1>1. Unbound(Idle)  BY DEF Unbound, Idle
<1>2. QED  BY <1>1, UnboundConsistent DEF Return

LEMMA AdvanceIsGoto ==
  ASSUME TypeOK, NEW r \in Requests, NEW p \in Points, Advance(r, p),
         call[r] \in Call
  PROVE  /\ Goto(r, [call[r] EXCEPT !.at = p])
         /\ [call[r] EXCEPT !.at = p] \in Call
<1>1. [call[r] EXCEPT !.at = p] \in Call  BY DEF Call
<1>2. QED  BY <1>1 DEF TypeOK, Advance, Goto

\* A handler moves to a point where it relies on nothing.
LEMMA AdvanceUnbound ==
  ASSUME TypeOK, Consistent, NEW r \in Requests, call[r] \in Call,
         NEW p \in {"payment", "credit", "gate", "balance"}, Advance(r, p),
         UNCHANGED <<ledger, order>>
  PROVE  Consistent'
<1>1. p \in Points  BY DEF Points
<1>2. /\ Goto(r, [call[r] EXCEPT !.at = p])
      /\ [call[r] EXCEPT !.at = p] \in Call
  BY <1>1, AdvanceIsGoto
<1>3. Unbound([call[r] EXCEPT !.at = p])  BY DEF Unbound, Call
<1>4. QED  BY <1>2, <1>3, UnboundConsistent

LEMMA NewUnbound ==
  ASSUME TypeOK, Consistent, NEW r \in Requests, NEW c \in Call, Goto(r, c),
         c.at \in {"kyc", "payment", "escrow", "gate"},
         UNCHANGED <<ledger, order>>
  PROVE  Consistent'
<1>1. Unbound(c)  BY DEF Unbound
<1>2. QED  BY <1>1, UnboundConsistent

\* The order of a handler that relies on it.
LEMMA ReliableCall ==
  ASSUME TypeOK, Consistent, NEW r \in Requests, call[r] \in Call
  PROVE  /\ Reliable(call[r])
         /\ call[r].tx \in Transactions /\ call[r].kind \in Kinds
         /\ call[r].amount \in Nat
BY DEF Consistent, CallsAreReliable, Call

\* Where a handler goes once it has its order, it relies on nothing.
LEMMA RequestedForm ==
  ASSUME TypeOK, NEW r \in Requests, Requested(r), call[r] \in Call
  PROVE  \E c \in Call \cup {Idle} : Goto(r, c) /\ Unbound(c)
<1> DEFINE next == PayoutCall(call[r].tx, call[r].then)
<1>1. next \in Call /\ next.at = "gate"
  <2>1. NewCall("gate", call[r].tx) \in Call
    BY NewCallType DEF Call, Points
  <2>2. call[r].then \in Nat  BY DEF Call
  <2>3. QED  BY <2>1, <2>2 DEF PayoutCall, Call, NewCall
<1>2. Unbound(next) /\ Unbound(Idle)  BY <1>1 DEF Unbound, Idle
<1>3. QED  BY <1>1, <1>2 DEF Requested

\* Overwriting the status of an order that exists, with none of the statuses
\* that settle it.
LEMMA StatusWritable ==
  ASSUME TypeOK, Consistent, NEW t \in Transactions, NEW k \in Kinds,
         NEW s \in {"REQUESTED", "PROCESSING", "FAILED"},
         order[t][k] # NoOrder,
         order' = [order EXCEPT ![t][k].status = s], UNCHANGED ledger
  PROVE  /\ Writable(t, k, order'[t][k])
         /\ \A u \in Transactions, j \in Kinds :
              order'[u][j] = order[u][j] \/ Writable(u, j, order'[u][j])
<1>1. order'[t][k] = [order[t][k] EXCEPT !.status = s]  BY DEF TypeOK
<1>2. order[t][k] \in [status : OrderStatus, amount : Nat]  BY DEF TypeOK
<1>3. order'[t][k].status = s /\ order'[t][k].amount = order[t][k].amount
  BY <1>1, <1>2
<1>4. order'[t][k] # NoOrder  BY <1>3 DEF NoOrder
<1>5. s # Settled[k]  BY DEF Settled
<1>6. Writable(t, k, order'[t][k])
  BY <1>3, <1>4, <1>5 DEF Writable, Consistent, OrdersAreFunded
<1>7. \A u \in Transactions, j \in Kinds :
        u # t \/ j # k => order'[u][j] = order[u][j]
  BY DEF TypeOK
<1>8. QED  BY <1>6, <1>7

-----------------------------------------------------------------------------
(* The steps of a handler that only read. *)

LEMMA LookUps ==
  ASSUME TypeOK, Consistent, NEW r \in Requests,
         \/ KycAnswer(r) \/ UpdatePayment(r) \/ ReleaseBalance(r)
         \/ PaymentGate(r) \/ CreateConflict(r)
  PROVE  Consistent'
<1>1. CASE KycAnswer(r)
  <2>1. call[r] \in Call  BY <1>1, AtTyped DEF KycAnswer, Points
  <2>2. QED  BY <1>1, <2>1, AdvanceUnbound, ReturnConsistent DEF KycAnswer
<1>2. CASE UpdatePayment(r)
  <2>1. call[r] \in Call  BY <1>2, AtTyped DEF UpdatePayment, Points
  <2>2. /\ AfterPayment(call[r]) \in Call \cup {Idle}
        /\ Unbound(AfterPayment(call[r]))
    <3>1. call[r].tx \in Transactions  BY <2>1 DEF Call
    <3>2. NewCall("credit", call[r].tx) \in Call  BY <3>1, NewCallType DEF Points
    <3>3. QED  BY <3>2 DEF AfterPayment, Unbound, NewCall, Idle
  <2>3. QED  BY <1>2, <2>2, UnboundConsistent DEF UpdatePayment
<1>3. CASE ReleaseBalance(r)
  <2>1. call[r] \in Call  BY <1>3, AtTyped DEF ReleaseBalance, Points
  <2>2. QED
    BY <1>3, <2>1, AdvanceUnbound, ReturnConsistent DEF ReleaseBalance
<1>4. CASE PaymentGate(r)
  <2>1. call[r] \in Call  BY <1>4, AtTyped DEF PaymentGate, Points
  <2>2. QED  BY <1>4, <2>1, AdvanceUnbound, ReturnConsistent DEF PaymentGate
<1>5. CASE CreateConflict(r)
  BY <1>5, ReturnConsistent DEF CreateConflict
<1>6. QED  BY <1>1, <1>2, <1>3, <1>4, <1>5

\* A request that passes the balance check works for a funded amount: the
\* balance is positive, so the credit is there, and no debit exceeds it.
LEMMA CheckBalanceConsistent ==
  ASSUME TypeOK, Consistent, NEW r \in Requests, CheckBalance(r)
  PROVE  Consistent'
<1> DEFINE c == call[r]
           amount == IF c.amount = 0 THEN Balance(c.tx) ELSE c.amount
           target == [c EXCEPT !.at = "existing", !.amount = amount]
<1>1. c \in Call  BY AtTyped DEF CheckBalance, Points
<1>2. c.tx \in Transactions /\ c.amount \in Nat /\ c.kind \in Kinds
  BY <1>1 DEF Call
<1>3. CASE Return(r)
  BY <1>3, ReturnConsistent DEF CheckBalance
<1>4. CASE ~Return(r)
  <2>1. Affordable(amount, Balance(c.tx)) /\ Goto(r, target)
    BY <1>4 DEF CheckBalance
  <2>2. Balance(c.tx) \in Int /\ Balance(c.tx) > 0 /\ amount <= Balance(c.tx)
    BY <1>2, <2>1, BalanceType DEF Affordable
  <2>3. amount \in Nat /\ amount >= 1  BY <1>2, <2>2
  <2>4. /\ ledger[c.tx]["payment"] = Amount[c.tx]
        /\ Balance(c.tx) <= Amount[c.tx]
    <3>1. /\ ledger[c.tx]["payment"] \in Nat
          /\ ledger[c.tx]["payout"] \in Nat
          /\ ledger[c.tx]["refund"] \in Nat
      BY <1>2 DEF TypeOK
    <3>2. ledger[c.tx]["payment"] \in {0, Amount[c.tx]}
      BY <1>2 DEF Consistent, LedgerInBounds
    <3>3. Amount[c.tx] \in Nat  BY <1>2, AmountType
    <3>4. QED  BY <2>2, <3>1, <3>2, <3>3 DEF Balance
  <2>5. amount \in 1 .. Amount[c.tx]
    BY <1>2, <2>2, <2>3, <2>4, AmountType
  <2>6. PICK next \in Call : next = target
    BY <1>1, <2>3 DEF Call, Points
  <2>7. next.at = "existing" /\ next.tx = c.tx /\ next.amount = amount
    BY <1>1, <2>6 DEF Call
  <2>8. UNCHANGED <<ledger, order>>  BY DEF CheckBalance
  <2>9. Reliable(next)'
    BY <2>4, <2>5, <2>7, <2>8 DEF Reliable, Funded
  <2>10. next.at \notin TxPhase  BY <2>7
  <2>11. QED  BY <2>1, <2>6, <2>8, <2>9, <2>10, GotoConsistent
<1>5. QED  BY <1>3, <1>4

LEMMA FindExistingConsistent ==
  ASSUME TypeOK, Consistent, NEW r \in Requests, FindExisting(r)
  PROVE  Consistent'
<1> DEFINE c == call[r]
<1>1. c \in Call  BY AtTyped DEF FindExisting, Points
<1>2. UNCHANGED <<ledger, order>>  BY DEF FindExisting
<1>3. Requested(r) \/ \E p \in {"create", "refresh"} : Advance(r, p)
  BY DEF FindExisting
<1>4. CASE Requested(r)
  BY <1>1, <1>2, <1>4, RequestedForm, UnboundConsistent
<1>5. ASSUME NEW p \in {"create", "refresh"}, Advance(r, p)
      PROVE  Consistent'
  <2>1. PICK next \in Call : Goto(r, next) /\ next = [c EXCEPT !.at = p]
    BY <1>1, <1>5, AdvanceIsGoto DEF Points
  <2>2. next.at = p /\ next.tx = c.tx /\ next.amount = c.amount
    BY <1>1, <2>1 DEF Call
  <2>3. Funded(c)
    BY <1>1, ReliableCall DEF FindExisting, At, Reliable
  <2>4. Reliable(next)'
    BY <1>2, <2>2, <2>3 DEF Reliable, Funded
  <2>5. next.at \notin TxPhase  BY <2>2
  <2>6. QED  BY <1>2, <2>1, <2>4, <2>5, GotoConsistent
<1>6. QED  BY <1>3, <1>4, <1>5

-----------------------------------------------------------------------------
(* The steps that write an order. *)

LEMMA MakeReadyConsistent ==
  ASSUME TypeOK, Consistent, NEW r \in Requests,
         RefreshOrder(r) \/ CreateOrder(r)
  PROVE  Consistent'
<1> DEFINE c == call[r]
           target == [c EXCEPT !.at = "dispatch", !.amount = 0]
           row == [status |-> "READY", amount |-> c.amount]
<1>1. c \in Call /\ MakeReady(r)
  BY AtTyped DEF RefreshOrder, CreateOrder, Points
<1>2. Funded(c)
  BY <1>1, ReliableCall DEF RefreshOrder, CreateOrder, At, Reliable
<1>3. c.tx \in Transactions /\ c.kind \in Kinds  BY <1>1 DEF Call
<1>4. Goto(r, target) /\ UNCHANGED ledger  BY <1>1 DEF MakeReady
<1>5. PICK next \in Call : next = target  BY <1>1 DEF Call, Points
<1>6. next.at = "dispatch" /\ next.tx = c.tx /\ next.kind = c.kind
  BY <1>1, <1>5 DEF Call
<1>7. /\ order'[c.tx][c.kind] = row
      /\ \A u \in Transactions, j \in Kinds :
           u # c.tx \/ j # c.kind => order'[u][j] = order[u][j]
  BY <1>1, <1>3 DEF MakeReady, TypeOK
<1>8. row # NoOrder /\ row.status # Settled[c.kind]
  BY <1>3 DEF NoOrder, Settled
<1>9. Writable(c.tx, c.kind, row)
  BY <1>2, <1>8 DEF Writable, Funded
<1>10. Reliable(next)'
  BY <1>6, <1>7, <1>8 DEF Reliable
<1>11. next.at \notin TxPhase  BY <1>6
<1>12. QED
  BY <1>4, <1>5, <1>7, <1>9, <1>10, <1>11, GotoConsistent

LEMMA DispatchConsistent ==
  ASSUME TypeOK, Consistent, NEW r \in Requests, Dispatch(r)
  PROVE  Consistent'
<1> DEFINE c == call[r]
<1>1. c \in Call  BY AtTyped DEF Dispatch, Points
<1>2. c.tx \in Transactions /\ c.kind \in Kinds /\ c.via \in DOMAIN Answer
  BY <1>1 DEF Call
<1>3. order[c.tx][c.kind] # NoOrder
  BY <1>1, ReliableCall DEF Dispatch, At, Reliable
<1>4. Answer[c.via] \in {"REQUESTED", "PROCESSING"}
  BY <1>2 DEF Answer
<1>5. \A u \in Transactions, j \in Kinds :
        order'[u][j] = order[u][j] \/ Writable(u, j, order'[u][j])
  BY <1>2, <1>3, <1>4, StatusWritable DEF Dispatch
<1>6. PICK n \in Call \cup {Idle} : Goto(r, n) /\ Unbound(n)
  BY <1>1, RequestedForm DEF Dispatch
<1>7. Reliable(n)' /\ n.at \notin TxPhase
  BY <1>6 DEF Unbound, Reliable
<1>8. UNCHANGED ledger  BY DEF Dispatch
<1>9. QED  BY <1>5, <1>6, <1>7, <1>8, GotoConsistent

LEMMA WriteFailedConsistent ==
  ASSUME TypeOK, Consistent, NEW r \in Requests, WriteFailed(r)
  PROVE  Consistent'
<1> DEFINE c == call[r]
<1>1. c \in Call  BY AtTyped DEF WriteFailed, Points
<1>2. c.tx \in Transactions /\ c.kind \in Kinds  BY <1>1 DEF Call
<1>3. order[c.tx][c.kind] # NoOrder
  BY <1>1, ReliableCall DEF WriteFailed, At, Reliable
<1>4. \A u \in Transactions, j \in Kinds :
        order'[u][j] = order[u][j] \/ Writable(u, j, order'[u][j])
  BY <1>2, <1>3, StatusWritable DEF WriteFailed
<1>5. Goto(r, Idle) /\ UNCHANGED ledger  BY DEF WriteFailed, Return
<1>6. Reliable(Idle)' /\ Idle.at \notin TxPhase
  BY DEF Reliable, Idle
<1>7. QED  BY <1>4, <1>5, <1>6, GotoConsistent

-----------------------------------------------------------------------------
(* The steps of a $transaction, and the credit. *)

LEMMA LockOrderConsistent ==
  ASSUME TypeOK, Consistent, NEW r \in Requests, LockOrder(r)
  PROVE  Consistent'
<1> DEFINE c == call[r]
<1>1. c \in Call  BY AtTyped DEF LockOrder, Points
<1>2. PICK next \in Call : Goto(r, next) /\ next = [c EXCEPT !.at = "debit"]
  BY <1>1, AdvanceIsGoto DEF LockOrder, Points
<1>3. /\ next.at = "debit" /\ next.tx = c.tx /\ next.kind = c.kind
      /\ next.amount = c.amount
  BY <1>1, <1>2 DEF Call
<1>4. UNCHANGED <<ledger, order>>  BY DEF LockOrder
<1>5. Funded(c) /\ order[c.tx][c.kind] # NoOrder
  BY <1>1, ReliableCall DEF LockOrder, At, Reliable
<1>6. Reliable(next)'
  BY <1>3, <1>4, <1>5 DEF Reliable, Funded
<1>7. Admitted(r, next)
  BY <1>3 DEF Admitted, LockOrder
<1>8. QED  BY <1>2, <1>4, <1>6, <1>7, GotoConsistent

LEMMA DebitEscrowConsistent ==
  ASSUME TypeOK, Consistent, NEW r \in Requests, DebitEscrow(r)
  PROVE  Consistent'
<1> DEFINE c == call[r]
           absent == ~(ledger[c.tx][c.kind] # 0)
           target == [c EXCEPT !.at = "remaining", !.fresh = absent]
<1>1. c \in Call  BY AtTyped DEF DebitEscrow, Points
<1>2. UNCHANGED <<ledger, order>>  BY DEF DebitEscrow
<1>3. CASE Return(r)
  BY <1>2, <1>3, ReturnConsistent
<1>4. CASE ~Return(r)
  <2>1. Goto(r, target)  BY <1>4 DEF DebitEscrow, RollBack
  <2>2. PICK next \in Call : next = target  BY <1>1 DEF Call, Points
  <2>3. /\ next.at = "remaining" /\ next.tx = c.tx /\ next.kind = c.kind
        /\ next.amount = c.amount /\ next.fresh = absent
    BY <1>1, <2>2 DEF Call
  <2>4. Funded(c) /\ order[c.tx][c.kind] # NoOrder
    BY <1>1, ReliableCall DEF DebitEscrow, At, Reliable
  <2>5. Reliable(next)'
    BY <1>2, <2>3, <2>4 DEF Reliable, Funded
  <2>6. Admitted(r, next)
    BY <2>3 DEF Admitted, InTx, DebitEscrow, At
  <2>7. QED  BY <1>2, <2>1, <2>2, <2>5, <2>6, GotoConsistent
<1>5. QED  BY <1>3, <1>4

LEMMA ReadRemainingConsistent ==
  ASSUME TypeOK, Consistent, NEW r \in Requests, ReadRemaining(r)
  PROVE  Consistent'
<1> DEFINE c == call[r]
           left == Balance(c.tx) - (IF c.fresh THEN c.amount ELSE 0)
           target == [c EXCEPT !.at = "update", !.escrow = left]
<1>1. c \in Call /\ c.at = "remaining"
  BY AtTyped DEF ReadRemaining, Points, At
<1>2. UNCHANGED <<ledger, order>>  BY DEF ReadRemaining
<1>3. c.tx \in Transactions /\ c.amount \in Nat  BY <1>1 DEF Call
<1>4. left \in Int  BY <1>3, BalanceType
<1>5. PICK next \in Call : Goto(r, next) /\ next = target
  BY <1>1, <1>4 DEF ReadRemaining, Call, Points
<1>6. /\ next.at = "update" /\ next.tx = c.tx /\ next.kind = c.kind
      /\ next.amount = c.amount /\ next.fresh = c.fresh
  BY <1>1, <1>5 DEF Call
<1>7. /\ Funded(c) /\ order[c.tx][c.kind] # NoOrder
      /\ c.fresh <=> ledger[c.tx][c.kind] = 0
  BY <1>1, ReliableCall DEF Reliable
<1>8. Reliable(next)'
  BY <1>2, <1>6, <1>7 DEF Reliable, Funded
<1>9. Admitted(r, next)  BY <1>1, <1>6 DEF Admitted, InTx
<1>10. QED  BY <1>2, <1>5, <1>8, <1>9, GotoConsistent

LEMMA LockTransactionConsistent ==
  ASSUME TypeOK, Consistent, NEW r \in Requests, LockTransaction(r)
  PROVE  Consistent'
<1> DEFINE c == call[r]
<1>1. c \in Call /\ c.at = "update"
  BY AtTyped DEF LockTransaction, Points, At
<1>2. PICK next \in Call : Goto(r, next) /\ next = [c EXCEPT !.at = "commit"]
  BY <1>1, AdvanceIsGoto DEF LockTransaction, Points
<1>3. /\ next.at = "commit" /\ next.tx = c.tx /\ next.kind = c.kind
      /\ next.amount = c.amount /\ next.fresh = c.fresh
  BY <1>1, <1>2 DEF Call
<1>4. UNCHANGED <<ledger, order>>  BY DEF LockTransaction
<1>5. /\ Funded(c) /\ order[c.tx][c.kind] # NoOrder
      /\ c.fresh <=> ledger[c.tx][c.kind] = 0
  BY <1>1, ReliableCall DEF Reliable
<1>6. Reliable(next)'
  BY <1>3, <1>4, <1>5 DEF Reliable, Funded
<1>7. Admitted(r, next)  BY <1>1, <1>3 DEF Admitted, InTx
<1>8. QED  BY <1>2, <1>4, <1>6, <1>7, GotoConsistent

LEMMA CreditConsistent ==
  ASSUME TypeOK, Consistent, NEW r \in Requests, CreditEscrow(r)
  PROVE  Consistent'
<1> DEFINE t == call[r].tx
<1>1. call[r] \in Call  BY AtTyped DEF CreditEscrow, Points
<1>2. t \in Transactions /\ Amount[t] \in Nat /\ Amount[t] >= 1
  BY <1>1, AmountType DEF Call
<1>3. CASE ledger[t]["payment"] # 0
  <2>1. ledger' = ledger
    BY <1>2, <1>3 DEF CreditEscrow, Recorded, TypeOK
  <2>2. QED  BY <2>1, ReturnConsistent DEF CreditEscrow
<1>4. CASE ledger[t]["payment"] = 0
  <2>1. ledger' = [ledger EXCEPT ![t]["payment"] = Amount[t]]
    BY <1>2, <1>4 DEF CreditEscrow, Recorded, TypeOK
  <2>2. /\ ledger'[t]["payment"] = Amount[t]
        /\ \A u \in Transactions, f \in Entries :
             u # t \/ f # "payment" => ledger'[u][f] = ledger[u][f]
    BY <1>2, <2>1 DEF TypeOK
  <2>3. /\ call' = [call EXCEPT ![r] = Idle] /\ order' = order
        /\ call \in [Requests -> Call \cup {Idle}]
    BY DEF CreditEscrow, Return, Goto, TypeOK
  <2>4. LedgerInBounds'
    <3> SUFFICES ASSUME NEW u \in Transactions, NEW k \in Kinds
                 PROVE  /\ ledger'[u]["payment"] \in {0, Amount[u]}
                        /\ ledger'[u][k] <= ledger'[u]["payment"]
      BY DEF LedgerInBounds
    <3>1. ledger[u][k] \in Nat  BY DEF TypeOK
    <3>2. QED  BY <1>2, <1>4, <2>2, <3>1 DEF Consistent, LedgerInBounds
  <2>5. OrdersAreFunded' /\ SettledHasDebit'
    BY <2>2, <2>3 DEF Consistent, OrdersAreFunded, SettledHasDebit
  <2>6. CallsAreReliable'
    <3> SUFFICES ASSUME NEW q \in Requests, NEW d, d = call'[q]
                 PROVE  Reliable(d)'
      BY DEF CallsAreReliable, Reliable, Funded
    <3>1. CASE d = Idle
      BY <3>1 DEF Reliable, Idle
    <3>2. CASE d # Idle
      <4>1. d = call[q] /\ d \in Call  BY <2>3, <3>2
      <4>2. Reliable(d)  BY <4>1 DEF Consistent, CallsAreReliable
      <4>3. d.tx \in Transactions /\ d.kind \in Kinds  BY <4>1 DEF Call
      <4>4. ledger'[d.tx][d.kind] = ledger[d.tx][d.kind]  BY <2>2, <4>3
      <4>5. ledger[d.tx]["payment"] = Amount[d.tx]
              => ledger'[d.tx]["payment"] = Amount[d.tx]
        BY <2>2, <4>3
      <4>6. QED  BY <2>3, <4>2, <4>4, <4>5 DEF Reliable, Funded
    <3>3. QED  BY <3>1, <3>2
  <2>7. OneTransactionPerOrder'
    BY <2>3 DEF Consistent, OneTransactionPerOrder, InTx, Idle
  <2>8. QED  BY <2>4, <2>5, <2>6, <2>7 DEF Consistent
<1>5. QED  BY <1>3, <1>4

\* What a commit does to the ledger: at most one entry appears, for an amount
\* that the credit covers.
LEMMA CommitLedger ==
  ASSUME TypeOK, Consistent, NEW r \in Requests, CommitSettlement(r)
  PROVE  LET t == call[r].tx
             k == call[r].kind
             a == call[r].amount
         IN  /\ t \in Transactions /\ k \in Kinds
             /\ a \in 1 .. Amount[t] /\ ledger[t]["payment"] = Amount[t]
             /\ order[t][k] # NoOrder
             /\ \/ call[r].fresh = FALSE /\ ledger[t][k] # 0 /\ ledger' = ledger
                \/ /\ call[r].fresh = TRUE /\ ledger[t][k] = 0
                   /\ ledger' = [ledger EXCEPT ![t][k] = a]
<1> DEFINE c == call[r]
<1>1. c \in Call /\ c.at = "commit"
  BY AtTyped DEF CommitSettlement, Points, At
<1>2. c.tx \in Transactions /\ c.kind \in Kinds /\ c.fresh \in BOOLEAN
  BY <1>1 DEF Call
<1>3. /\ Funded(c) /\ order[c.tx][c.kind] # NoOrder
      /\ c.fresh <=> ledger[c.tx][c.kind] = 0
  BY <1>1, ReliableCall DEF Reliable
<1>4. CASE c.fresh
  <2>1. ledger' = [ledger EXCEPT ![c.tx][c.kind] = c.amount]
    BY <1>4 DEF CommitSettlement
  <2>2. QED  BY <1>2, <1>3, <1>4, <2>1 DEF Funded
<1>5. CASE ~c.fresh
  <2>1. ledger' = ledger
    BY <1>2, <1>5 DEF CommitSettlement, TypeOK
  <2>2. QED  BY <1>2, <1>3, <1>5, <2>1 DEF Funded
<1>6. QED  BY <1>4, <1>5

LEMMA CommitConsistent ==
  ASSUME TypeOK, Consistent, NEW r \in Requests, CommitSettlement(r)
  PROVE  Consistent'
<1> DEFINE c == call[r]
<1>1. PICK t \in Transactions, k \in Kinds, a \in Nat :
        /\ t = c.tx /\ k = c.kind /\ a = c.amount
        /\ a \in 1 .. Amount[t] /\ ledger[t]["payment"] = Amount[t]
        /\ order[t][k] # NoOrder
        /\ \/ ledger[t][k] # 0 /\ ledger' = ledger
           \/ ledger[t][k] = 0 /\ ledger' = [ledger EXCEPT ![t][k] = a]
  <2>1. c.tx \in Transactions /\ c.kind \in Kinds /\ c.amount \in 1 .. Amount[c.tx]
    BY CommitLedger
  <2>2. c.amount \in Nat  BY <2>1, AmountType
  <2>3. /\ ledger[c.tx]["payment"] = Amount[c.tx]
        /\ order[c.tx][c.kind] # NoOrder
        /\ \/ ledger[c.tx][c.kind] # 0 /\ ledger' = ledger
           \/ /\ ledger[c.tx][c.kind] = 0
              /\ ledger' = [ledger EXCEPT ![c.tx][c.kind] = c.amount]
    BY CommitLedger
  <2>4. QED  BY <2>1, <2>2, <2>3
<1>2. /\ ledger'[t][k] \in Nat /\ ledger'[t][k] # 0
      /\ ledger'[t][k] <= ledger'[t]["payment"]
      /\ \A u \in Transactions, f \in Entries :
           u # t \/ f # k => ledger'[u][f] = ledger[u][f]
  <2>1. ledger[t][k] \in Nat /\ Amount[t] \in Nat /\ k # "payment"
    BY AmountType DEF TypeOK
  <2>2. ledger[t][k] <= ledger[t]["payment"]
    BY DEF Consistent, LedgerInBounds
  <2>3. CASE ledger[t][k] # 0 /\ ledger' = ledger
    BY <2>1, <2>2, <2>3
  <2>4. CASE ledger' = [ledger EXCEPT ![t][k] = a]
    <3>1. /\ ledger'[t][k] = a
          /\ \A u \in Transactions, f \in Entries :
               u # t \/ f # k => ledger'[u][f] = ledger[u][f]
      BY <2>4 DEF TypeOK
    <3>2. QED  BY <1>1, <2>1, <3>1
  <2>5. QED  BY <1>1, <2>3, <2>4
<1>3. /\ c \in Call /\ c.at = "commit"
      /\ call' = [call EXCEPT ![r] = Idle]
      /\ call \in [Requests -> Call \cup {Idle}]
  BY AtTyped DEF CommitSettlement, Points, At, Return, Goto, TypeOK
<1>4. /\ order'[t][k].status = Settled[k]
      /\ order'[t][k].amount = order[t][k].amount
      /\ \A u \in Transactions, j \in Kinds :
           u # t \/ j # k => order'[u][j] = order[u][j]
  <2>1. order' = [order EXCEPT ![t][k].status = Settled[k]]
    BY <1>1 DEF CommitSettlement
  <2>2. order[t][k] \in [status : OrderStatus, amount : Nat]  BY DEF TypeOK
  <2>3. order'[t][k] = [order[t][k] EXCEPT !.status = Settled[k]]
    BY <2>1 DEF TypeOK
  <2>4. QED  BY <2>1, <2>2, <2>3 DEF TypeOK
<1>5. order'[t][k] # NoOrder
  BY <1>4 DEF NoOrder, Settled
<1>6. LedgerInBounds'
  <2> SUFFICES ASSUME NEW u \in Transactions, NEW j \in Kinds
               PROVE  /\ ledger'[u]["payment"] \in {0, Amount[u]}
                      /\ ledger'[u][j] <= ledger'[u]["payment"]
    BY DEF LedgerInBounds
  <2>1. ledger'[u]["payment"] = ledger[u]["payment"]  BY <1>2
  <2>2. QED  BY <1>2, <2>1 DEF Consistent, LedgerInBounds
<1>7. OrdersAreFunded'
  <2> SUFFICES ASSUME NEW u \in Transactions, NEW j \in Kinds,
                      order'[u][j] # NoOrder
               PROVE  /\ ledger'[u]["payment"] = Amount[u]
                      /\ order'[u][j].amount \in 1 .. Amount[u]
    BY DEF OrdersAreFunded
  <2>1. order[u][j] # NoOrder /\ order'[u][j].amount = order[u][j].amount
    BY <1>1, <1>4
  <2>2. ledger'[u]["payment"] = ledger[u]["payment"]  BY <1>2
  <2>3. QED  BY <2>1, <2>2 DEF Consistent, OrdersAreFunded
<1>8. SettledHasDebit'
  BY <1>2, <1>4 DEF Consistent, SettledHasDebit
<1>9. \A q \in Requests : call'[q] = Idle \/ (q # r /\ call'[q] = call[q])
  <2>1. call' = [call EXCEPT ![r] = Idle] /\ call \in [Requests -> Call \cup {Idle}]
    BY <1>3
  <2>2. QED  BY <2>1
<1>10. CallsAreReliable'
  <2> SUFFICES ASSUME NEW q \in Requests, NEW d, d = call'[q]
               PROVE  Reliable(d)'
    BY DEF CallsAreReliable, Reliable, Funded
  <2>1. CASE d = Idle
    BY <2>1 DEF Reliable, Idle
  <2>2. CASE d # Idle
    <3>1. q # r /\ d = call[q] /\ d \in Call  BY <1>3, <1>9, <2>2
    <3>2. Reliable(d)  BY <3>1 DEF Consistent, CallsAreReliable
    <3>3. d.tx \in Transactions /\ d.kind \in Kinds  BY <3>1 DEF Call
    <3>4. ledger'[d.tx]["payment"] = ledger[d.tx]["payment"]
      BY <1>2, <3>3
    <3>5. order[d.tx][d.kind] # NoOrder => order'[d.tx][d.kind] # NoOrder
      BY <1>4, <1>5, <3>3
    <3>6. d.at \in TxPhase => d.tx # t \/ d.kind # k
      BY <1>1, <1>3, <3>1 DEF Consistent, OneTransactionPerOrder, InTx
    <3>7. d.at \in TxPhase => ledger'[d.tx][d.kind] = ledger[d.tx][d.kind]
      BY <1>2, <3>3, <3>6
    <3>8. QED  BY <3>2, <3>4, <3>5, <3>7 DEF Reliable, Funded
  <2>3. QED  BY <2>1, <2>2
<1>11. OneTransactionPerOrder'
  BY <1>9 DEF Consistent, OneTransactionPerOrder, InTx, Idle
<1>12. QED  BY <1>6, <1>7, <1>8, <1>10, <1>11 DEF Consistent

-----------------------------------------------------------------------------
(* Every step. *)

LEMMA ProgressConsistent ==
  ASSUME TypeOK, Consistent, NEW r \in Requests, Progress(r)
  PROVE  Consistent'
BY LookUps, CreditConsistent, CheckBalanceConsistent, FindExistingConsistent,
   MakeReadyConsistent, DispatchConsistent, LockOrderConsistent,
   DebitEscrowConsistent, ReadRemainingConsistent,
   LockTransactionConsistent, CommitConsistent, WriteFailedConsistent
DEF Progress

LEMMA ResolveConsistent ==
  ASSUME TypeOK, Consistent, NEW r \in Requests, NEW t \in Transactions,
         NEW refund \in 0 .. Amount[t], NEW release \in 0 .. Amount[t],
         ResolveRequests(r, t, refund, release)
  PROVE  Consistent'
<1>1. refund \in Nat /\ release \in Nat  BY AmountType
<1>2. NewCall("gate", t) \in Call  BY NewCallType DEF Points
<1>3. /\ RefundCall(t, refund, release) \in Call
      /\ RefundCall(t, refund, release).at = "gate"
  BY <1>1, <1>2 DEF RefundCall, Call, NewCall
<1>4. PayoutCall(t, release) \in Call /\ PayoutCall(t, release).at = "gate"
  BY <1>1, <1>2 DEF PayoutCall, Call, NewCall
<1>5. QED  BY <1>3, <1>4, NewUnbound DEF ResolveRequests, FirstCall

\* A request that arrives relies on nothing yet, except that the order it
\* settles or fails is there.
LEMMA ReceiveConsistent ==
  ASSUME TypeOK, Consistent, NEW r \in Requests, NEW t \in Transactions,
         Receive(r, t)
  PROVE  Consistent'
<1>1. CASE \E ps \in PaymentResults : MarkPayment(r, t, ps)
  <2>1. PICK ps \in PaymentResults : MarkPayment(r, t, ps)  BY <1>1
  <2>2. ps \in PaymentStatus  BY DEF PaymentResults, PaymentStatus
  <2>3. NewCall("kyc", t) \in Call /\ NewCall("payment", t) \in Call
    BY NewCallType DEF Points
  <2>4. tx[t].status \in TransactionStatus /\ tx[t].escrowAmount \in Int
    BY DEF TypeOK
  <2>5. PICK c \in Call : c.at \in {"kyc", "payment"} /\ Goto(r, c)
    <3> DEFINE kyc == [NewCall("kyc", t) EXCEPT !.pay = ps]
               pay == [NewCall("payment", t) EXCEPT
                         !.pay = ps, !.status = tx[t].status,
                         !.escrow = tx[t].escrowAmount]
    <3>1. kyc \in Call /\ kyc.at = "kyc"
      BY <2>2, <2>3 DEF Call, NewCall
    <3>2. pay \in Call /\ pay.at = "payment"
      BY <2>2, <2>3, <2>4 DEF Call, NewCall
    <3>3. Goto(r, kyc) \/ Goto(r, pay)  BY <2>1 DEF MarkPayment
    <3>4. QED  BY <3>1, <3>2, <3>3
  <2>6. UNCHANGED <<ledger, order>>  BY <2>1 DEF MarkPayment
  <2>7. QED  BY <2>5, <2>6, NewUnbound
<1>2. CASE ReleaseFunds(r, t)
  <2>1. NewCall("escrow", t) \in Call  BY NewCallType DEF Points
  <2>2. QED  BY <1>2, <2>1, NewUnbound DEF ReleaseFunds, NewCall
<1>3. CASE \E p \in DOMAIN Answer : RequestPayout(r, t, p)
  <2>1. PICK p \in DOMAIN Answer : RequestPayout(r, t, p)  BY <1>3
  <2>2. NewCall("gate", t) \in Call  BY NewCallType DEF Points
  <2>3. /\ [NewCall("gate", t) EXCEPT !.via = p] \in Call
        /\ [NewCall("gate", t) EXCEPT !.via = p].at = "gate"
    BY <2>2 DEF Call, NewCall
  <2>4. QED  BY <2>1, <2>3, NewUnbound DEF RequestPayout
<1>4. CASE \E refund, release \in 0 .. Amount[t] :
             ResolveRequests(r, t, refund, release)
  BY <1>4, ResolveConsistent
<1>5. CASE \E k \in Kinds : Settle(r, t, k)
  <2>1. PICK k \in Kinds : Settle(r, t, k)  BY <1>5
  <2> DEFINE o == order[t][k]
  <2>2. o.status # "NONE" /\ o # NoOrder
    BY <2>1 DEF Settle, NoOrder
  <2>3. /\ ledger[t]["payment"] = Amount[t] /\ o.amount \in 1 .. Amount[t]
        /\ o.amount \in Nat
    BY <2>2 DEF Consistent, OrdersAreFunded, TypeOK
  <2>4. PICK c \in Call : /\ Goto(r, c) /\ c.at = "lock" /\ c.tx = t
                          /\ c.kind = k /\ c.amount = o.amount
    <3>1. NewCall("lock", t) \in Call  BY NewCallType DEF Points
    <3>2. tx[t].paymentStatus \in PaymentStatus  BY DEF TypeOK
    <3>3. NewCall("lock", t).pay \in PaymentStatus  BY <3>1 DEF Call
    <3> DEFINE pay == IF k = "refund" THEN tx[t].paymentStatus
                                      ELSE NewCall("lock", t).pay
               target == [NewCall("lock", t) EXCEPT !.kind = k,
                                                    !.amount = o.amount,
                                                    !.pay = pay]
    <3>4. pay \in PaymentStatus  BY <3>2, <3>3
    <3>5. /\ target \in Call /\ target.at = "lock" /\ target.tx = t
          /\ target.kind = k /\ target.amount = o.amount
      BY <2>3, <3>1, <3>4 DEF Call, NewCall
    <3>6. Goto(r, target)  BY <2>1 DEF Settle
    <3>7. QED  BY <3>5, <3>6
  <2>5. UNCHANGED <<ledger, order>>  BY <2>1 DEF Settle
  <2>6. Reliable(c)'
    BY <2>2, <2>3, <2>4, <2>5 DEF Reliable, Funded
  <2>7. c.at \notin TxPhase  BY <2>4
  <2>8. QED  BY <2>4, <2>5, <2>6, <2>7, GotoConsistent
<1>6. CASE \E k \in Kinds : Fail(r, t, k)
  <2>1. PICK k \in Kinds : Fail(r, t, k)  BY <1>6
  <2>2. order[t][k] # NoOrder
    BY <2>1 DEF Fail, Unsettled, NoOrder
  <2>3. PICK c \in Call : Goto(r, c) /\ c.at = "fail" /\ c.tx = t /\ c.kind = k
    <3>1. NewCall("fail", t) \in Call  BY NewCallType DEF Points
    <3>2. /\ [NewCall("fail", t) EXCEPT !.kind = k] \in Call
          /\ [NewCall("fail", t) EXCEPT !.kind = k].at = "fail"
          /\ [NewCall("fail", t) EXCEPT !.kind = k].tx = t
          /\ [NewCall("fail", t) EXCEPT !.kind = k].kind = k
      BY <3>1 DEF Call, NewCall
    <3>3. QED  BY <2>1, <3>2 DEF Fail
  <2>4. UNCHANGED <<ledger, order>>  BY <2>1 DEF Fail
  <2>5. Reliable(c)'  BY <2>2, <2>3, <2>4 DEF Reliable
  <2>6. c.at \notin TxPhase  BY <2>3
  <2>7. QED  BY <2>3, <2>4, <2>5, <2>6, GotoConsistent
<1>7. QED
  BY <1>1, <1>2, <1>3, <1>4, <1>5, <1>6
  DEF Receive, MarkPaid, MarkRefunded, MarkPayoutFailed, MarkRefundFailed

LEMMA Unmoved ==
  ASSUME Consistent, UNCHANGED <<ledger, order, call>>
  PROVE  Consistent'
BY DEF Consistent, LedgerInBounds, OrdersAreFunded, SettledHasDebit,
       CallsAreReliable, Reliable, Funded, OneTransactionPerOrder, InTx

LEMMA ConsistentInit == Init => Consistent
<1> SUFFICES ASSUME Init PROVE Consistent  OBVIOUS
<1>1. LedgerInBounds
  <2> SUFFICES ASSUME NEW t \in Transactions, NEW k \in Kinds
               PROVE  /\ ledger[t]["payment"] \in {0, Amount[t]}
                      /\ ledger[t][k] <= ledger[t]["payment"]
    BY DEF LedgerInBounds
  <2>1. ledger[t]["payment"] \in 0 .. 0 /\ ledger[t][k] \in 0 .. 0
    BY DEF Init
  <2>2. QED  BY <2>1
<1>2. OrdersAreFunded /\ SettledHasDebit
  BY DEF Init, OrdersAreFunded, SettledHasDebit, NoOrder, Settled
<1>3. \A r \in Requests : call[r] = Idle  BY DEF Init
<1>4. CallsAreReliable  BY <1>3 DEF CallsAreReliable, Reliable, Idle
<1>5. OneTransactionPerOrder
  BY <1>3 DEF OneTransactionPerOrder, InTx, Idle
<1>6. QED  BY <1>1, <1>2, <1>4, <1>5 DEF Consistent

LEMMA ConsistentStep == TypeOK /\ Consistent /\ [Next]_vars => Consistent'
<1> SUFFICES ASSUME TypeOK, Consistent, [Next]_vars PROVE Consistent'
  OBVIOUS
<1>1. CASE \E r \in Requests : Progress(r)
  BY <1>1, ProgressConsistent
<1>2. CASE \E r \in Requests : Interrupted(r)
  BY <1>2, ReturnConsistent DEF Interrupted
<1>3. CASE \E r \in Requests, t \in Transactions : Receive(r, t)
  BY <1>3, ReceiveConsistent
<1>4. CASE \E t \in Transactions, s \in TransactionStatus : UpdateStatus(t, s)
  BY <1>4, Unmoved DEF UpdateStatus
<1>5. CASE UNCHANGED vars
  BY <1>5, Unmoved DEF vars
<1>6. QED  BY <1>1, <1>2, <1>3, <1>4, <1>5 DEF Next

(***************************************************************************)
(* The inductive invariant holds whatever the faults, the endpoints in use *)
(* and the number of handlers in flight.                                   *)
(***************************************************************************)
THEOREM AlwaysConsistent == Spec => []Consistent
<1>1. QED
  BY TypeInit, TypeStep, ConsistentInit, ConsistentStep, PTL DEF Spec

\* No payout or refund row exists before the sender's payment is credited
\* (the gate of requestPayoutForTransaction and its balance check).
THEOREM OrdersAlwaysFunded == Spec => []OrdersAreFunded
<1>1. Consistent => OrdersAreFunded  BY DEF Consistent
<1>2. QED  BY <1>1, AlwaysConsistent, PTL

\* A PAID payout or REFUNDED refund has its debit, although other handlers
\* overwrite its status at any time (markPaid, markRefunded).
THEOREM SettledAlwaysHasDebit == Spec => []SettledHasDebit
<1>1. Consistent => SettledHasDebit  BY DEF Consistent
<1>2. QED  BY <1>1, AlwaysConsistent, PTL

-----------------------------------------------------------------------------
(* Settlement implements EscrowAccount. *)

\* Only two steps touch the ledger.
LEMMA ReceiveLedger ==
  ASSUME NEW r \in Requests, NEW t \in Transactions, Receive(r, t)
  PROVE  UNCHANGED ledger
BY DEF Receive, MarkPayment, ReleaseFunds, RequestPayout, ResolveRequests,
       MarkPaid, MarkRefunded, Settle, MarkPayoutFailed, MarkRefundFailed, Fail

LEMMA ProgressLedger ==
  ASSUME NEW r \in Requests, Progress(r)
  PROVE  UNCHANGED ledger \/ CreditEscrow(r) \/ CommitSettlement(r)
<1>1. CASE KycAnswer(r) \/ UpdatePayment(r) \/ ReleaseBalance(r)
  BY <1>1 DEF KycAnswer, UpdatePayment, ReleaseBalance
<1>2. CASE PaymentGate(r) \/ CheckBalance(r) \/ FindExisting(r)
  BY <1>2 DEF PaymentGate, CheckBalance, FindExisting
<1>3. CASE RefreshOrder(r) \/ CreateOrder(r) \/ CreateConflict(r)
  BY <1>3 DEF RefreshOrder, CreateOrder, CreateConflict, MakeReady
<1>4. CASE Dispatch(r) \/ LockOrder(r) \/ WriteFailed(r)
  BY <1>4 DEF Dispatch, LockOrder, WriteFailed
<1>5. CASE DebitEscrow(r) \/ ReadRemaining(r) \/ LockTransaction(r)
  BY <1>5 DEF DebitEscrow, ReadRemaining, LockTransaction
<1>6. QED  BY <1>1, <1>2, <1>3, <1>4, <1>5 DEF Progress

\* The credit of markPayment deposits, the commit of markPaid or markRefunded
\* withdraws; every other step stutters.
LEMMA ImplementsStep ==
  TypeOK /\ Consistent /\ [Next]_vars => [Account!Next]_ledger
<1> SUFFICES ASSUME TypeOK, Consistent, [Next]_vars, ledger' # ledger
             PROVE  Account!Next
  OBVIOUS
<1>1. PICK r \in Requests : CreditEscrow(r) \/ CommitSettlement(r)
  BY ReceiveLedger, ProgressLedger DEF Next, vars, Interrupted, UpdateStatus
<1>2. CASE CreditEscrow(r)
  <2> DEFINE t == call[r].tx
  <2>1. call[r] \in Call  BY <1>2, AtTyped DEF CreditEscrow, Points
  <2>2. t \in Transactions  BY <2>1 DEF Call
  <2>3. ledger[t]["payment"] = 0
    BY <1>2, <2>2 DEF CreditEscrow, Recorded, TypeOK
  <2>4. ledger' = [ledger EXCEPT ![t]["payment"] = Amount[t]]
    BY <1>2, <2>2, <2>3 DEF CreditEscrow, Recorded, TypeOK
  <2>5. Account!Deposit(t)  BY <2>3, <2>4 DEF Account!Deposit
  <2>6. QED  BY <2>2, <2>5 DEF Account!Next
<1>3. CASE CommitSettlement(r)
  <2> DEFINE t == call[r].tx
             k == call[r].kind
             a == call[r].amount
  <2>1. /\ t \in Transactions /\ k \in Kinds /\ a \in 1 .. Amount[t]
        /\ ledger[t]["payment"] = Amount[t] /\ ledger[t][k] = 0
        /\ ledger' = [ledger EXCEPT ![t][k] = a]
    BY <1>3, CommitLedger
  <2>2. a <= ledger[t]["payment"]  BY <2>1, AmountType
  <2>3. Account!Withdraw(t, k)  BY <2>1, <2>2 DEF Account!Withdraw
  <2>4. QED  BY <2>1, <2>3 DEF Account!Next, Account!Kinds
<1>4. QED  BY <1>1, <1>2, <1>3

(***************************************************************************)
(* The ledger keeps its promise under every interleaving of the handlers   *)
(* and with crashes: one credit, at most one debit per order, no rewriting *)
(* (LedgerService.addEntryIdempotent).                                     *)
(***************************************************************************)
THEOREM Implements == Spec => LedgerKeepsItsPromise
<1>1. Init => Account!Init
  BY DEF Init, Account!Init, Account!Entries, Account!Kinds
<1>2. QED
  BY <1>1, TypeInit, TypeStep, ConsistentInit, ConsistentStep, ImplementsStep,
     PTL
  DEF Spec, LedgerKeepsItsPromise, Account!Spec

-----------------------------------------------------------------------------
(* A payment marked SUCCESS is credited unless a call fails.               *)

\* A credit stays in the ledger.
LEMMA CreditStays ==
  ASSUME TypeOK, Consistent, [Next]_vars, NEW t \in Transactions,
         ledger[t]["payment"] = Amount[t]
  PROVE  ledger'[t]["payment"] = Amount[t]
<1>1. CASE ledger' = ledger
  BY <1>1
<1>2. ASSUME NEW r \in Requests, CreditEscrow(r)
      PROVE  ledger'[t]["payment"] = Amount[t]
  <2>1. PICK u \in Transactions : u = call[r].tx
    BY <1>2, AtTyped DEF CreditEscrow, Points, Call
  <2>2. ledger' = [ledger EXCEPT ![u]["payment"] = Recorded(@, Amount[u])]
    BY <1>2, <2>1 DEF CreditEscrow
  <2>3. Amount[t] # 0  BY AmountType
  <2>4. QED  BY <2>2, <2>3 DEF TypeOK, Recorded
<1>3. ASSUME NEW r \in Requests, CommitSettlement(r)
      PROVE  ledger'[t]["payment"] = Amount[t]
  <2>1. /\ call[r].tx \in Transactions /\ call[r].kind \in Kinds
        /\ \/ ledger' = ledger
           \/ ledger' = [ledger EXCEPT ![call[r].tx][call[r].kind]
                                        = call[r].amount]
    BY <1>3, CommitLedger
  <2>2. QED  BY <2>1 DEF TypeOK
<1>4. QED
  BY <1>1, <1>2, <1>3, ReceiveLedger, ProgressLedger
  DEF Next, vars, Interrupted, UpdateStatus

\* What a step of a handler can make of a paymentStatus: SUCCESS is new only
\* when the credit follows.
LEMMA PaymentStep ==
  ASSUME TypeOK, Consistent, NEW r \in Requests, Progress(r),
         NEW t \in Transactions, tx'[t].paymentStatus = "SUCCESS"
  PROVE  \/ tx[t].paymentStatus = "SUCCESS"
         \/ ledger[t]["payment"] = Amount[t]
         \/ At(r, "credit")' /\ call'[r].tx = t
<1>1. CASE UpdatePayment(r)
  <2>1. PICK u \in Transactions : u = call[r].tx
    BY <1>1, AtTyped DEF UpdatePayment, Points, Call
  <2>2. CASE u = t
    <3>1. call[r].pay = "SUCCESS"
      BY <1>1, <2>1, <2>2 DEF UpdatePayment, TypeOK
    <3>2. Goto(r, NewCall("credit", t))
      BY <1>1, <2>1, <2>2, <3>1 DEF UpdatePayment, AfterPayment
    <3>3. call'[r] = NewCall("credit", t)  BY <3>2 DEF Goto, TypeOK
    <3>4. QED  BY <3>3 DEF At, NewCall
  <2>3. CASE u # t
    BY <1>1, <2>1, <2>3 DEF UpdatePayment, TypeOK
  <2>4. QED  BY <2>2, <2>3
<1>2. CASE CommitSettlement(r)
  <2>1. PICK u \in Transactions :
          u = call[r].tx /\ ledger[u]["payment"] = Amount[u]
    BY <1>2, CommitLedger
  <2>2. CASE u # t
    BY <1>2, <2>1, <2>2 DEF CommitSettlement, TypeOK
  <2>3. QED  BY <2>1, <2>2
<1>3. CASE UNCHANGED tx
  BY <1>3
<1>4. UNCHANGED tx \/ UpdatePayment(r) \/ CommitSettlement(r)
  <2>1. CASE KycAnswer(r) \/ CreditEscrow(r) \/ ReleaseBalance(r)
    BY <2>1 DEF KycAnswer, CreditEscrow, ReleaseBalance
  <2>2. CASE PaymentGate(r) \/ CheckBalance(r) \/ FindExisting(r)
    BY <2>2 DEF PaymentGate, CheckBalance, FindExisting
  <2>3. CASE RefreshOrder(r) \/ CreateOrder(r) \/ CreateConflict(r)
    BY <2>3 DEF RefreshOrder, CreateOrder, CreateConflict, MakeReady
  <2>4. CASE Dispatch(r) \/ LockOrder(r) \/ WriteFailed(r)
    BY <2>4 DEF Dispatch, LockOrder, WriteFailed
  <2>5. CASE DebitEscrow(r) \/ ReadRemaining(r) \/ LockTransaction(r)
    BY <2>5 DEF DebitEscrow, ReadRemaining, LockTransaction
  <2>6. QED  BY <2>1, <2>2, <2>3, <2>4, <2>5 DEF Progress
<1>5. QED  BY <1>1, <1>2, <1>3, <1>4

\* A handler on its way to the credit gets there.
LEMMA CreditDone ==
  ASSUME TypeOK, Consistent, NEW r \in Requests, Progress(r), At(r, "credit"),
         NEW t \in Transactions, call[r].tx = t
  PROVE  ledger'[t]["payment"] = Amount[t]
<1>1. CreditEscrow(r)
  BY DEF Progress, At, KycAnswer, UpdatePayment, CreditEscrow, ReleaseBalance,
         PaymentGate, CheckBalance, FindExisting, RefreshOrder, CreateOrder,
         CreateConflict, Dispatch, LockOrder, DebitEscrow, ReadRemaining,
         LockTransaction, CommitSettlement, WriteFailed
<1>2. ledger' = [ledger EXCEPT ![t]["payment"] = Recorded(@, Amount[t])]
  BY <1>1 DEF CreditEscrow
<1>3. ledger[t]["payment"] \in {0, Amount[t]}
  BY DEF Consistent, LedgerInBounds
<1>4. QED  BY <1>2, <1>3 DEF TypeOK, Recorded

\* A step moves one handler at most.
LEMMA OthersWait ==
  ASSUME NEW r \in Requests, NEW q \in Requests, q # r, TypeOK,
         Progress(r) \/ \E t \in Transactions : Receive(r, t)
  PROVE  call'[q] = call[q]
<1>1. PICK c : call' = [call EXCEPT ![r] = c]
  <2>1. CASE Progress(r)
    <3>1. CASE KycAnswer(r) \/ UpdatePayment(r) \/ CreditEscrow(r)
      BY <3>1 DEF KycAnswer, UpdatePayment, CreditEscrow, Advance, Return, Goto
    <3>2. CASE ReleaseBalance(r) \/ PaymentGate(r) \/ CheckBalance(r)
      BY <3>2
      DEF ReleaseBalance, PaymentGate, CheckBalance, Advance, Return, Goto
    <3>3. CASE FindExisting(r)
      BY <3>3 DEF FindExisting, Requested, Advance, Goto
    <3>4. CASE RefreshOrder(r) \/ CreateOrder(r) \/ CreateConflict(r)
      BY <3>4
      DEF RefreshOrder, CreateOrder, CreateConflict, MakeReady, Return, Goto
    <3>5. CASE Dispatch(r) \/ LockOrder(r) \/ DebitEscrow(r)
      BY <3>5
      DEF Dispatch, LockOrder, DebitEscrow, RollBack, Requested, Advance,
          Return, Goto
    <3>6. CASE ReadRemaining(r) \/ LockTransaction(r)
      BY <3>6 DEF ReadRemaining, LockTransaction, Advance, Goto
    <3>7. CASE CommitSettlement(r) \/ WriteFailed(r)
      BY <3>7 DEF CommitSettlement, WriteFailed, Return, Goto
    <3>8. QED
      BY <2>1, <3>1, <3>2, <3>3, <3>4, <3>5, <3>6, <3>7 DEF Progress
  <2>2. CASE \E t \in Transactions : Receive(r, t)
    BY <2>2
    DEF Receive, MarkPayment, ReleaseFunds, RequestPayout, ResolveRequests,
        MarkPaid, MarkRefunded, Settle, MarkPayoutFailed, MarkRefundFailed,
        Fail, Goto
  <2>3. QED  BY <2>1, <2>2
<1>2. QED  BY <1>1 DEF TypeOK

LEMMA CreditFollowsStep ==
  ASSUME ~Faults
  PROVE  TypeOK /\ Consistent /\ CreditFollows /\ [Next]_vars => CreditFollows'
<1> SUFFICES ASSUME TypeOK, Consistent, CreditFollows, [Next]_vars,
                    NEW t \in Transactions, tx'[t].paymentStatus = "SUCCESS"
             PROVE  \/ ledger'[t]["payment"] = Amount[t]
                    \/ \E r \in Requests : At(r, "credit")' /\ call'[r].tx = t
  BY DEF CreditFollows, At
<1>1. CASE ledger[t]["payment"] = Amount[t]
  BY <1>1, CreditStays
<1> SUFFICES ASSUME ledger[t]["payment"] # Amount[t]
             PROVE  \/ ledger'[t]["payment"] = Amount[t]
                    \/ \E r \in Requests : At(r, "credit")' /\ call'[r].tx = t
  BY <1>1
<1>2. ASSUME tx[t].paymentStatus = "SUCCESS"
      PROVE  \E q \in Requests : At(q, "credit") /\ call[q].tx = t
  BY <1>2 DEF CreditFollows
<1>3. CASE \E r \in Requests : Progress(r)
  <2>1. PICK r \in Requests : Progress(r)  BY <1>3
  <2>2. CASE tx[t].paymentStatus = "SUCCESS"
    <3>1. PICK q \in Requests : At(q, "credit") /\ call[q].tx = t
      BY <1>2, <2>2
    <3>2. CASE q = r
      BY <2>1, <3>1, <3>2, CreditDone
    <3>3. CASE q # r
      <4>1. call'[q] = call[q]  BY <2>1, <3>3, OthersWait
      <4>2. QED  BY <3>1, <4>1 DEF At
    <3>4. QED  BY <3>2, <3>3
  <2>3. CASE tx[t].paymentStatus # "SUCCESS"
    BY <2>1, <2>3, PaymentStep
  <2>4. QED  BY <2>2, <2>3
<1>4. CASE \E r \in Requests, u \in Transactions : Receive(r, u)
  <2>1. PICK r \in Requests, u \in Transactions : Receive(r, u)  BY <1>4
  <2>2. call[r] = Idle /\ UNCHANGED tx
    BY <2>1
    DEF Receive, MarkPayment, ReleaseFunds, RequestPayout, ResolveRequests,
        MarkPaid, MarkRefunded, Settle, MarkPayoutFailed, MarkRefundFailed, Fail
  <2>3. PICK q \in Requests : At(q, "credit") /\ call[q].tx = t
    BY <1>2, <2>2
  <2>4. q # r  BY <2>2, <2>3 DEF At, Idle
  <2>5. call'[q] = call[q]  BY <2>1, <2>4, OthersWait
  <2>6. QED  BY <2>3, <2>5 DEF At
<1>5. CASE \E u \in Transactions, s \in TransactionStatus : UpdateStatus(u, s)
  <2>1. PICK u \in Transactions, s \in TransactionStatus : UpdateStatus(u, s)
    BY <1>5
  <2>2. tx'[t].paymentStatus = tx[t].paymentStatus
    BY <2>1 DEF UpdateStatus, TypeOK
  <2>3. QED  BY <1>2, <2>1, <2>2 DEF UpdateStatus, At
<1>6. CASE UNCHANGED vars
  BY <1>2, <1>6 DEF vars, At
<1>7. QED  BY <1>3, <1>4, <1>5, <1>6 DEF Next, Interrupted

(***************************************************************************)
(* However many handlers are in flight, a payment marked SUCCESS has been  *)
(* credited or is about to be: among calls that do not fail nothing can    *)
(* come between the two writes of markPayment to stay.                     *)
(***************************************************************************)
THEOREM CreditAlwaysFollows ==
  ASSUME ~Faults
  PROVE  Spec => []CreditFollows
<1>1. Init => CreditFollows  BY DEF Init, CreditFollows
<1>2. QED
  BY <1>1, CreditFollowsStep, TypeCorrect, AlwaysConsistent, PTL DEF Spec

\* So only a crash, or a call that rejects, can leave a SUCCESS payment
\* uncredited: no race does (TransactionService.markPayment).
THEOREM SuccessIsCreditedWithoutFaults ==
  ASSUME ~Faults
  PROVE  Spec => []SuccessIsCredited
<1>1. CreditFollows => SuccessIsCredited
  BY DEF CreditFollows, SuccessIsCredited, At, Idle
<1>2. QED  BY <1>1, CreditAlwaysFollows, PTL
=============================================================================
