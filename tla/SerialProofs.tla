----------------------------- MODULE SerialProofs -----------------------------
(* Proofs about SerialSettlement: with requests that take turns on each    *)
(* transaction, for any transactions, amounts, endpoints and faults, and   *)
(* any number of requests for different transactions.                      *)
EXTENDS SerialSettlement, SettlementProofs

USE DEF TxPhase, Kinds, Entries

-----------------------------------------------------------------------------
(* The shape of a step. *)

\* A handler moves on and writes no row.
LEMMA ReadSerial ==
  ASSUME TypeOK, SerialConsistent, OneAtATime', NEW r \in Requests,
         NEW c \in Call \cup {Idle}, Goto(r, c), c # Idle => UpToDate(c),
         UNCHANGED <<tx, ledger, order>>
  PROVE  SerialConsistent'
<1>1. call' = [call EXCEPT ![r] = c] /\ call \in [Requests -> Call \cup {Idle}]
  BY DEF Goto, TypeOK
<1>2. NothingIsStale'
  <2> SUFFICES ASSUME NEW q \in Requests, NEW d, d = call'[q], d # Idle
               PROVE  UpToDate(d)'
    BY DEF NothingIsStale, UpToDate, Balance
  <2>1. UpToDate(d)
    BY <1>1 DEF SerialConsistent, NothingIsStale
  <2>2. QED  BY <2>1 DEF UpToDate, Balance
<1>3. NeverOverdrawn' /\ SettledMatchesLedger' /\ RefundedMeansReturned'
  BY DEF SerialConsistent, NeverOverdrawn, Balance, SettledMatchesLedger,
         RefundedMeansReturned
<1>4. QED  BY <1>2, <1>3 DEF SerialConsistent

\* A handler of transaction t moves on and writes rows of t alone: nobody
\* else is at work on them.
LEMMA WriteSerial ==
  ASSUME TypeOK, SerialConsistent, OneAtATime', NEW r \in Requests,
         NEW c \in Call \cup {Idle}, Goto(r, c), c # Idle => UpToDate(c)',
         NEW t \in Transactions, call[r] # Idle, call[r].tx = t,
         \A u \in Transactions :
           u # t => /\ tx'[u].paymentStatus = tx[u].paymentStatus
                    /\ ledger'[u] = ledger[u]
                    /\ order'[u] = order[u],
         Balance(t)' >= 0,
         \A k \in Kinds :
           ledger'[t][k] = IF order'[t][k].status = Settled[k]
                           THEN order'[t][k].amount ELSE 0,
         tx'[t].paymentStatus = "REFUNDED" => ledger'[t]["refund"] = Amount[t]
  PROVE  SerialConsistent'
<1>1. call' = [call EXCEPT ![r] = c] /\ call \in [Requests -> Call \cup {Idle}]
  BY DEF Goto, TypeOK
<1>2. NothingIsStale'
  <2> SUFFICES ASSUME NEW q \in Requests, NEW d, d = call'[q], d # Idle
               PROVE  UpToDate(d)'
    BY DEF NothingIsStale, UpToDate, Balance
  <2>1. CASE q = r
    BY <1>1, <2>1
  <2>2. CASE q # r
    <3>1. d = call[q] /\ d \in Call  BY <1>1, <2>2
    <3>2. d.tx # t  BY <2>2, <3>1 DEF SerialConsistent, OneAtATime
    <3>3. d.tx \in Transactions  BY <3>1 DEF Call
    <3>4. UpToDate(d)  BY <3>1 DEF SerialConsistent, NothingIsStale
    <3>5. QED  BY <3>2, <3>3, <3>4 DEF UpToDate, Balance
  <2>3. QED  BY <2>1, <2>2
<1>3. NeverOverdrawn'
  BY DEF SerialConsistent, NeverOverdrawn, Balance
<1>4. SettledMatchesLedger'
  BY DEF SerialConsistent, SettledMatchesLedger
<1>5. RefundedMeansReturned'
  BY DEF SerialConsistent, RefundedMeansReturned
<1>6. QED  BY <1>2, <1>3, <1>4, <1>5 DEF SerialConsistent

\* What a handler at work may rely on.
LEMMA CurrentCall ==
  ASSUME TypeOK, SerialConsistent, NEW r \in Requests, NEW p \in Points,
         At(r, p)
  PROVE  /\ call[r] # Idle /\ call[r] \in Call /\ call[r].at = p
         /\ call[r].tx \in Transactions /\ call[r].kind \in Kinds
         /\ call[r].amount \in Nat /\ call[r].fresh \in BOOLEAN
         /\ UpToDate(call[r])
<1>1. call[r] \in Call  BY AtTyped
<1>2. call[r] # Idle  BY DEF At, Idle, Points
<1>3. UpToDate(call[r])  BY <1>2 DEF SerialConsistent, NothingIsStale
<1>4. QED  BY <1>1, <1>2, <1>3 DEF Call, At

LEMMA ReturnSerial ==
  ASSUME TypeOK, SerialConsistent, OneAtATime', NEW r \in Requests, Return(r),
         UNCHANGED <<tx, ledger, order>>
  PROVE  SerialConsistent'
BY ReadSerial DEF Return

\* The points at which a handler has nothing in hand that could be stale.
EmptyHanded(c) == c.at \in {"credit", "escrow", "gate", "balance"}

LEMMA EmptyHandedIsUpToDate ==
  ASSUME NEW c, EmptyHanded(c)
  PROVE  UpToDate(c) /\ UpToDate(c)'
BY DEF EmptyHanded, UpToDate

\* A handler that has its order returns, or goes on with the payout.
LEMMA RequestedEmptyHanded ==
  ASSUME TypeOK, NEW r \in Requests, Requested(r), call[r] \in Call
  PROVE  \E c \in Call \cup {Idle} :
           Goto(r, c) /\ (c # Idle => EmptyHanded(c))
<1> DEFINE next == PayoutCall(call[r].tx, call[r].then)
<1>1. next \in Call /\ next.at = "gate"
  <2>1. NewCall("gate", call[r].tx) \in Call
    BY NewCallType DEF Call, Points
  <2>2. call[r].then \in Nat  BY DEF Call
  <2>3. QED  BY <2>1, <2>2 DEF PayoutCall, Call, NewCall
<1>2. QED  BY <1>1 DEF Requested, EmptyHanded

-----------------------------------------------------------------------------
(* The steps that only read. *)

LEMMA LookUpsSerial ==
  ASSUME TypeOK, SerialConsistent, OneAtATime', NEW r \in Requests,
         \/ KycAnswer(r) \/ ReleaseBalance(r) \/ PaymentGate(r)
         \/ CreateConflict(r)
  PROVE  SerialConsistent'
<1> DEFINE c == call[r]
<1>1. CASE KycAnswer(r)
  <2>1. c \in Call /\ UpToDate(c) /\ c.at = "kyc"
    BY <1>1, CurrentCall DEF KycAnswer, Points
  <2>2. CASE Advance(r, "payment")
    <3>1. PICK next \in Call : Goto(r, next) /\ next = [c EXCEPT !.at = "payment"]
      BY <2>1, <2>2, AdvanceIsGoto DEF Points
    <3>2. next.at = "payment" /\ next.pay = c.pay  BY <2>1, <3>1 DEF Call
    <3>3. UpToDate(next)  BY <2>1, <3>2 DEF UpToDate
    <3>4. QED  BY <1>1, <3>1, <3>3, ReadSerial DEF KycAnswer
  <2>3. CASE Return(r)
    BY <1>1, <2>3, ReturnSerial DEF KycAnswer
  <2>4. QED  BY <1>1, <2>2, <2>3 DEF KycAnswer
<1>2. ASSUME NEW p \in {"gate", "balance"}, Advance(r, p), c \in Call,
             UNCHANGED <<tx, ledger, order>>
      PROVE  SerialConsistent'
  <2>1. PICK next \in Call : Goto(r, next) /\ next = [c EXCEPT !.at = p]
    BY <1>2, AdvanceIsGoto DEF Points
  <2>2. EmptyHanded(next)  BY <1>2, <2>1 DEF EmptyHanded, Call
  <2>3. QED  BY <1>2, <2>1, <2>2, EmptyHandedIsUpToDate, ReadSerial
<1>3. CASE ReleaseBalance(r)
  <2>1. c \in Call  BY <1>3, CurrentCall DEF ReleaseBalance, Points
  <2>2. QED  BY <1>2, <1>3, <2>1, ReturnSerial DEF ReleaseBalance
<1>4. CASE PaymentGate(r)
  <2>1. c \in Call  BY <1>4, CurrentCall DEF PaymentGate, Points
  <2>2. QED  BY <1>2, <1>4, <2>1, ReturnSerial DEF PaymentGate
<1>5. CASE CreateConflict(r)
  BY <1>5, ReturnSerial DEF CreateConflict
<1>6. QED  BY <1>1, <1>3, <1>4, <1>5

LEMMA CheckBalanceSerial ==
  ASSUME TypeOK, SerialConsistent, OneAtATime', NEW r \in Requests,
         CheckBalance(r)
  PROVE  SerialConsistent'
<1> DEFINE c == call[r]
           amount == IF c.amount = 0 THEN Balance(c.tx) ELSE c.amount
           target == [c EXCEPT !.at = "existing", !.amount = amount]
<1>1. c \in Call /\ c.tx \in Transactions /\ c.amount \in Nat
  BY CurrentCall DEF CheckBalance, Points
<1>2. CASE Return(r)
  BY <1>2, ReturnSerial DEF CheckBalance
<1>3. CASE ~Return(r)
  <2>1. Affordable(amount, Balance(c.tx)) /\ Goto(r, target)
    BY <1>3 DEF CheckBalance
  <2>2. Balance(c.tx) \in Int /\ Balance(c.tx) > 0 /\ amount <= Balance(c.tx)
    BY <1>1, <2>1, BalanceType DEF Affordable
  <2>3. amount \in Nat  BY <1>1, <2>2
  <2>4. PICK next \in Call : next = target
    BY <1>1, <2>3 DEF Call, Points
  <2>5. next.at = "existing" /\ next.tx = c.tx /\ next.amount = amount
    BY <1>1, <2>4 DEF Call
  <2>6. UpToDate(next)  BY <2>2, <2>5 DEF UpToDate
  <2>7. QED  BY <2>1, <2>4, <2>6, ReadSerial DEF CheckBalance
<1>4. QED  BY <1>2, <1>3

LEMMA FindExistingSerial ==
  ASSUME TypeOK, SerialConsistent, OneAtATime', NEW r \in Requests,
         FindExisting(r)
  PROVE  SerialConsistent'
<1> DEFINE c == call[r]
           status == order[c.tx][c.kind].status
<1>1. /\ c \in Call /\ UpToDate(c) /\ c.at = "existing"
      /\ c.tx \in Transactions /\ c.kind \in Kinds
  BY CurrentCall DEF FindExisting, Points
<1>2. CASE Requested(r)
  <2>1. PICK n \in Call \cup {Idle} :
          Goto(r, n) /\ (n # Idle => EmptyHanded(n))
    BY <1>1, <1>2, RequestedEmptyHanded
  <2>2. QED  BY <2>1, EmptyHandedIsUpToDate, ReadSerial DEF FindExisting
<1>3. ASSUME NEW p \in {"create", "refresh"}, Advance(r, p),
             p = "refresh" => status \notin {"NONE", Settled[c.kind]}
      PROVE  SerialConsistent'
  <2>1. PICK next \in Call : Goto(r, next) /\ next = [c EXCEPT !.at = p]
    BY <1>1, <1>3, AdvanceIsGoto DEF Points
  <2>2. /\ next.at = p /\ next.tx = c.tx /\ next.kind = c.kind
        /\ next.amount = c.amount
    BY <1>1, <2>1 DEF Call
  <2>3. UpToDate(next)  BY <1>1, <1>3, <2>2 DEF UpToDate
  <2>4. QED  BY <2>1, <2>3, ReadSerial DEF FindExisting
<1>4. QED  BY <1>2, <1>3 DEF FindExisting, Active

\* An order that is not settled has no debit yet.
LEMMA NoDebitYet ==
  ASSUME SerialConsistent, NEW t \in Transactions, NEW k \in Kinds,
         order[t][k].status # Settled[k]
  PROVE  ledger[t][k] = 0
BY DEF SerialConsistent, SettledMatchesLedger

LEMMA TxReadsSerial ==
  ASSUME TypeOK, Consistent, SerialConsistent, OneAtATime', NEW r \in Requests,
         \/ LockOrder(r) \/ DebitEscrow(r) \/ ReadRemaining(r)
         \/ LockTransaction(r)
  PROVE  SerialConsistent'
<1> DEFINE c == call[r]
<1>1. /\ c \in Call /\ UpToDate(c) /\ c.tx \in Transactions /\ c.kind \in Kinds
      /\ c.amount \in Nat
      /\ c.at \in {"lock", "debit", "remaining", "update"}
  BY CurrentCall
  DEF LockOrder, DebitEscrow, ReadRemaining, LockTransaction, Points
<1>2. /\ order[c.tx][c.kind].status \notin {"NONE", Settled[c.kind]}
      /\ c.amount = order[c.tx][c.kind].amount
      /\ c.kind = "refund" => c.pay = tx[c.tx].paymentStatus
  BY <1>1 DEF UpToDate
<1>3. ledger[c.tx][c.kind] = 0  BY <1>1, <1>2, NoDebitYet
<1>4. CASE LockOrder(r)
  <2>1. PICK next \in Call : Goto(r, next) /\ next = [c EXCEPT !.at = "debit"]
    BY <1>1, <1>4, AdvanceIsGoto DEF LockOrder, Points
  <2>2. /\ next.at = "debit" /\ next.tx = c.tx /\ next.kind = c.kind
        /\ next.amount = c.amount /\ next.pay = c.pay
    BY <1>1, <2>1 DEF Call
  <2>3. UpToDate(next)  BY <1>2, <2>2 DEF UpToDate
  <2>4. QED  BY <1>4, <2>1, <2>3, ReadSerial DEF LockOrder
<1>5. CASE DebitEscrow(r)
  <2>1. CASE ~Sufficient(c)
    BY <1>3, <1>5, <2>1, ReturnSerial DEF DebitEscrow, RollBack
  <2>2. CASE Sufficient(c)
    <3> DEFINE target == [c EXCEPT !.at = "remaining",
                                   !.fresh = ~(ledger[c.tx][c.kind] # 0)]
    <3>1. Goto(r, target)  BY <1>5, <2>2 DEF DebitEscrow
    <3>2. PICK next \in Call : next = target  BY <1>1 DEF Call, Points
    <3>3. /\ next.at = "remaining" /\ next.tx = c.tx /\ next.kind = c.kind
          /\ next.amount = c.amount /\ next.pay = c.pay
      BY <1>1, <3>2 DEF Call
    <3>4. UpToDate(next)  BY <1>2, <2>2, <3>3 DEF UpToDate, Sufficient
    <3>5. QED  BY <1>5, <3>1, <3>2, <3>4, ReadSerial DEF DebitEscrow
  <2>3. QED  BY <2>1, <2>2
<1>6. CASE ReadRemaining(r)
  <2> DEFINE own == IF c.fresh THEN c.amount ELSE 0
             target == [c EXCEPT !.at = "update",
                                 !.escrow = Balance(c.tx) - own]
  <2>1. c.at = "remaining"  BY <1>6 DEF ReadRemaining, At
  <2>2. c.fresh
    BY <1>1, <1>3, <2>1, ReliableCall DEF Reliable
  <2>3. Goto(r, target) /\ own = c.amount
    BY <1>6, <2>2 DEF ReadRemaining
  <2>4. Balance(c.tx) - own \in Int  BY <1>1, <2>3, BalanceType
  <2>5. PICK next \in Call : next = target  BY <1>1, <2>4 DEF Call, Points
  <2>6. /\ next.at = "update" /\ next.tx = c.tx /\ next.kind = c.kind
        /\ next.amount = c.amount /\ next.pay = c.pay
        /\ next.escrow = Balance(c.tx) - c.amount
    BY <1>1, <2>3, <2>5 DEF Call
  <2>7. c.amount <= Balance(c.tx)  BY <1>1, <2>1 DEF UpToDate
  <2>8. UpToDate(next)  BY <1>2, <2>6, <2>7 DEF UpToDate
  <2>9. QED  BY <1>6, <2>3, <2>5, <2>8, ReadSerial DEF ReadRemaining
<1>7. CASE LockTransaction(r)
  <2>1. PICK next \in Call : Goto(r, next) /\ next = [c EXCEPT !.at = "commit"]
    BY <1>1, <1>7, AdvanceIsGoto DEF LockTransaction, Points
  <2>2. /\ next.at = "commit" /\ next.tx = c.tx /\ next.kind = c.kind
        /\ next.amount = c.amount /\ next.pay = c.pay
        /\ next.escrow = c.escrow
    BY <1>1, <2>1 DEF Call
  <2>3. c.at = "update"  BY <1>7 DEF LockTransaction, At
  <2>4. c.amount <= Balance(c.tx) /\ c.escrow = Balance(c.tx) - c.amount
    BY <1>1, <2>3 DEF UpToDate
  <2>5. UpToDate(next)  BY <1>2, <2>2, <2>4 DEF UpToDate
  <2>6. QED  BY <1>7, <2>1, <2>5, ReadSerial DEF LockTransaction
<1>8. QED  BY <1>4, <1>5, <1>6, <1>7

\* A request is received with what its handler has just read.
LEMMA ReceiveSerial ==
  ASSUME TypeOK, SerialConsistent, OneAtATime', NEW r \in Requests,
         NEW t \in Transactions, Receive(r, t)
  PROVE  SerialConsistent'
<1>1. CASE \E ps \in PaymentResults : MarkPayment(r, t, ps)
  <2>1. PICK ps \in PaymentResults : MarkPayment(r, t, ps)  BY <1>1
  <2>2. ps \in PaymentStatus /\ ps # "REFUNDED"
    BY DEF PaymentResults, PaymentStatus
  <2>3. NewCall("kyc", t) \in Call /\ NewCall("payment", t) \in Call
    BY NewCallType DEF Points
  <2>4. tx[t].status \in TransactionStatus /\ tx[t].escrowAmount \in Int
    BY DEF TypeOK
  <2>5. PICK c \in Call : /\ c.at \in {"kyc", "payment"} /\ c.pay # "REFUNDED"
                          /\ Goto(r, c)
    <3> DEFINE kyc == [NewCall("kyc", t) EXCEPT !.pay = ps]
               pay == [NewCall("payment", t) EXCEPT
                         !.pay = ps, !.status = tx[t].status,
                         !.escrow = tx[t].escrowAmount]
    <3>1. kyc \in Call /\ kyc.at = "kyc" /\ kyc.pay = ps
      BY <2>2, <2>3 DEF Call, NewCall
    <3>2. pay \in Call /\ pay.at = "payment" /\ pay.pay = ps
      BY <2>2, <2>3, <2>4 DEF Call, NewCall
    <3>3. Goto(r, kyc) \/ Goto(r, pay)  BY <2>1 DEF MarkPayment
    <3>4. QED  BY <2>2, <3>1, <3>2, <3>3
  <2>6. UpToDate(c)  BY <2>5 DEF UpToDate
  <2>7. QED  BY <2>1, <2>5, <2>6, ReadSerial DEF MarkPayment
<1>2. ASSUME NEW c \in Call, c.at \in {"escrow", "gate"}, Goto(r, c),
             UNCHANGED <<tx, ledger, order>>
      PROVE  SerialConsistent'
  <2>1. EmptyHanded(c)  BY <1>2 DEF EmptyHanded
  <2>2. QED  BY <1>2, <2>1, EmptyHandedIsUpToDate, ReadSerial
<1>3. NewCall("gate", t) \in Call /\ NewCall("escrow", t) \in Call
  BY NewCallType DEF Points
<1>4. CASE ReleaseFunds(r, t)
  BY <1>2, <1>3, <1>4 DEF ReleaseFunds, NewCall
<1>5. CASE \E p \in DOMAIN Answer : RequestPayout(r, t, p)
  <2>1. PICK p \in DOMAIN Answer : RequestPayout(r, t, p)  BY <1>5
  <2>2. /\ [NewCall("gate", t) EXCEPT !.via = p] \in Call
        /\ [NewCall("gate", t) EXCEPT !.via = p].at = "gate"
    BY <1>3 DEF Call, NewCall
  <2>3. QED  BY <1>2, <2>1, <2>2 DEF RequestPayout
<1>6. CASE \E refund, release \in 0 .. Amount[t] :
             ResolveRequests(r, t, refund, release)
  <2>1. PICK refund \in 0 .. Amount[t], release \in 0 .. Amount[t] :
          ResolveRequests(r, t, refund, release)
    BY <1>6
  <2>2. refund \in Nat /\ release \in Nat  BY AmountType
  <2>3. /\ RefundCall(t, refund, release) \in Call
        /\ RefundCall(t, refund, release).at = "gate"
        /\ PayoutCall(t, release) \in Call
        /\ PayoutCall(t, release).at = "gate"
    BY <1>3, <2>2 DEF RefundCall, PayoutCall, Call, NewCall
  <2>4. QED  BY <1>2, <2>1, <2>3 DEF ResolveRequests, FirstCall
<1>7. CASE \E k \in Kinds : Settle(r, t, k)
  <2>1. PICK k \in Kinds : Settle(r, t, k)  BY <1>7
  <2> DEFINE o == order[t][k]
             pay == IF k = "refund" THEN tx[t].paymentStatus
                                    ELSE NewCall("lock", t).pay
             target == [NewCall("lock", t) EXCEPT !.kind = k,
                                                  !.amount = o.amount,
                                                  !.pay = pay]
  <2>2. NewCall("lock", t) \in Call  BY NewCallType DEF Points
  <2>3. pay \in PaymentStatus /\ o.amount \in Nat
    BY <2>2 DEF TypeOK, Call
  <2>4. /\ target \in Call /\ target.at = "lock" /\ target.tx = t
        /\ target.kind = k /\ target.amount = o.amount /\ target.pay = pay
    BY <2>2, <2>3 DEF Call, NewCall
  <2>5. Goto(r, target) /\ o.status \notin {"NONE", Settled[k]}
    BY <2>1 DEF Settle
  <2>6. PICK next \in Call : next = target  BY <2>4
  <2>7. UpToDate(next)  BY <2>4, <2>5, <2>6 DEF UpToDate
  <2>8. QED  BY <2>1, <2>5, <2>6, <2>7, ReadSerial DEF Settle
<1>8. CASE \E k \in Kinds : Fail(r, t, k)
  <2>1. PICK k \in Kinds : Fail(r, t, k)  BY <1>8
  <2>2. NewCall("fail", t) \in Call  BY NewCallType DEF Points
  <2> DEFINE target == [NewCall("fail", t) EXCEPT !.kind = k]
  <2>3. PICK next \in Call : next = target  BY <2>2 DEF Call
  <2>4. next.at = "fail" /\ next.tx = t /\ next.kind = k
    BY <2>2, <2>3 DEF Call, NewCall
  <2>5. Goto(r, next) /\ order[t][k].status \notin {"NONE", Settled[k]}
    BY <2>1, <2>3 DEF Fail, Unsettled
  <2>6. UpToDate(next)  BY <2>4, <2>5 DEF UpToDate
  <2>7. QED  BY <2>1, <2>5, <2>6, ReadSerial DEF Fail
<1>9. CASE \/ MarkPaid(r, t) \/ MarkRefunded(r, t)
           \/ MarkPayoutFailed(r, t) \/ MarkRefundFailed(r, t)
  BY <1>7, <1>8, <1>9
  DEF MarkPaid, MarkRefunded, MarkPayoutFailed, MarkRefundFailed
<1>10. QED  BY <1>1, <1>4, <1>5, <1>6, <1>9 DEF Receive

-----------------------------------------------------------------------------
(* The steps that write: each is an atomic step of EscrowOrders, and those *)
(* keep what the rows promise.                                             *)

Payments == [t \in Transactions |-> tx[t].paymentStatus]

AtomicStep(t) ==
  \/ Orders!Pay(t) \/ Orders!Credit(t)
  \/ \E k \in Kinds : \/ Orders!Prepare(t, k) \/ Orders!HandOver(t, k)
                      \/ Orders!Fail(t, k) \/ Orders!Settle(t, k)

\* What the rows of one transaction promise.
Promise(t) ==
  /\ Balance(t) >= 0
  /\ \A k \in Kinds :
       ledger[t][k] = IF order[t][k].status = Settled[k]
                      THEN order[t][k].amount ELSE 0
  /\ tx[t].paymentStatus = "REFUNDED" => ledger[t]["refund"] = Amount[t]

LEMMA RowsPromise ==
  ASSUME SerialConsistent, NEW t \in Transactions
  PROVE  Promise(t)
BY DEF SerialConsistent, NeverOverdrawn, SettledMatchesLedger,
       RefundedMeansReturned, Promise

\* The rows an atomic step leaves alone.
OthersUnmoved(t) ==
  \A u \in Transactions :
    u # t => /\ tx'[u].paymentStatus = tx[u].paymentStatus
             /\ ledger'[u] = ledger[u]
             /\ order'[u] = order[u]

LEMMA PaymentsMoved ==
  ASSUME NEW t \in Transactions, NEW ps, Payments' = [Payments EXCEPT ![t] = ps]
  PROVE  /\ tx'[t].paymentStatus = ps
         /\ \A u \in Transactions :
              u # t => tx'[u].paymentStatus = tx[u].paymentStatus
<1>1. \A u \in Transactions : Payments'[u] = tx'[u].paymentStatus
  BY DEF Payments
<1>2. \A u \in Transactions :
        [Payments EXCEPT ![t] = ps][u] = IF u = t THEN ps ELSE tx[u].paymentStatus
  BY DEF Payments
<1>3. QED  BY <1>1, <1>2

LEMMA PaymentsUnmoved ==
  ASSUME Payments' = Payments
  PROVE  \A u \in Transactions : tx'[u].paymentStatus = tx[u].paymentStatus
<1>1. \A u \in Transactions : Payments'[u] = tx'[u].paymentStatus
  BY DEF Payments
<1>2. \A u \in Transactions : Payments[u] = tx[u].paymentStatus
  BY DEF Payments
<1>3. QED  BY <1>1, <1>2

\* Every atomic step keeps the promise of its transaction, and leaves the rows
\* of the others alone.
LEMMA AtomicKeeps ==
  ASSUME TypeOK, NEW t \in Transactions, Promise(t),
         AtomicStep(t)
  PROVE  Promise(t)' /\ OthersUnmoved(t)
<1>0. USE DEF Orders!Kinds, Orders!Entries, Orders!Settled, Settled,
              Orders!NoOrder
<1>1. /\ ledger[t]["payment"] \in Nat /\ ledger[t]["payout"] \in Nat
      /\ ledger[t]["refund"] \in Nat
      /\ \A k \in Kinds : order[t][k].amount \in Nat
      /\ Amount[t] \in Nat /\ Amount[t] >= 1
  BY AmountType DEF TypeOK
<1>2. CASE Orders!Pay(t)
  <2>1. PICK ps \in {"PENDING", "SUCCESS", "FAILED"} :
          Payments' = [Payments EXCEPT ![t] = ps]
    BY <1>2 DEF Orders!Pay, Payments
  <2>2. UNCHANGED <<ledger, order>>  BY <1>2 DEF Orders!Pay
  <2>3. QED
    BY <2>1, <2>2, PaymentsMoved DEF Promise, Balance, OthersUnmoved
<1>3. CASE Orders!Credit(t)
  <2>1. /\ ledger[t]["payment"] = 0
        /\ ledger' = [ledger EXCEPT ![t]["payment"] = Amount[t]]
        /\ order' = order /\ Payments' = Payments
    BY <1>3 DEF Orders!Credit, Payments
  <2>2. /\ ledger'[t]["payment"] = Amount[t]
        /\ \A k \in Kinds : ledger'[t][k] = ledger[t][k]
        /\ \A u \in Transactions : u # t => ledger'[u] = ledger[u]
    BY <2>1 DEF TypeOK
  <2>3. Balance(t)' >= 0
    BY <1>1, <2>1, <2>2 DEF Promise, Balance
  <2>4. QED
    BY <2>1, <2>2, <2>3, PaymentsUnmoved DEF Promise, OthersUnmoved
<1>4. ASSUME NEW k \in Kinds, NEW o \in [status : OrderStatus, amount : Nat],
             order' = [order EXCEPT ![t][k] = o],
             order[t][k].status # Settled[k], o.status # Settled[k],
             ledger' = ledger, Payments' = Payments
      PROVE  Promise(t)' /\ OthersUnmoved(t)
  <2>1. /\ order'[t][k] = o
        /\ \A u \in Transactions, j \in Kinds :
             u # t \/ j # k => order'[u][j] = order[u][j]
        /\ \A u \in Transactions : u # t => order'[u] = order[u]
    BY <1>4 DEF TypeOK
  <2>2. QED
    BY <1>4, <2>1, PaymentsUnmoved DEF Promise, Balance, OthersUnmoved
<1>5. ASSUME NEW k \in Kinds, NEW s \in OrderStatus, s # Settled[k],
             order' = [order EXCEPT ![t][k].status = s],
             order[t][k].status # Settled[k],
             ledger' = ledger, Payments' = Payments
      PROVE  Promise(t)' /\ OthersUnmoved(t)
  <2> DEFINE o == [order[t][k] EXCEPT !.status = s]
  <2>1. o \in [status : OrderStatus, amount : Nat] /\ o.status = s
    BY <1>5 DEF TypeOK
  <2>2. order' = [order EXCEPT ![t][k] = o]  BY <1>5 DEF TypeOK
  <2>3. QED  BY <1>4, <1>5, <2>1, <2>2
<1>6. ASSUME NEW k \in Kinds, Orders!Prepare(t, k)
      PROVE  Promise(t)' /\ OthersUnmoved(t)
  <2>1. PICK a \in 1 .. Orders!Balance(t) :
          order' = [order EXCEPT ![t][k] = [status |-> "READY", amount |-> a]]
    BY <1>6 DEF Orders!Prepare
  <2> DEFINE o == [status |-> "READY", amount |-> a]
  <2>2. a \in Nat  BY <1>1, <2>1 DEF Orders!Balance
  <2>3. o \in [status : OrderStatus, amount : Nat] /\ o.status # Settled[k]
    BY <2>2 DEF OrderStatus
  <2>4. order' = [order EXCEPT ![t][k] = o]  BY <2>1
  <2>5. /\ ledger' = ledger /\ Payments' = Payments
        /\ order[t][k].status # Settled[k]
    BY <1>6 DEF Orders!Prepare, Payments
  <2>6. QED  BY <1>4, <2>3, <2>4, <2>5
<1>7. ASSUME NEW k \in Kinds, Orders!HandOver(t, k)
      PROVE  Promise(t)' /\ OthersUnmoved(t)
  <2>1. PICK s \in {"REQUESTED", "PROCESSING"} :
          order' = [order EXCEPT ![t][k].status = s]
    BY <1>7 DEF Orders!HandOver
  <2>2. s \in OrderStatus /\ s # Settled[k]  BY DEF OrderStatus
  <2>3. /\ ledger' = ledger /\ Payments' = Payments
        /\ order[t][k].status # Settled[k]
    BY <1>7 DEF Orders!HandOver, Payments
  <2>4. QED  BY <1>5, <2>1, <2>2, <2>3
<1>8. ASSUME NEW k \in Kinds, Orders!Fail(t, k)
      PROVE  Promise(t)' /\ OthersUnmoved(t)
  <2>1. "FAILED" \in OrderStatus /\ "FAILED" # Settled[k]  BY DEF OrderStatus
  <2>2. /\ ledger' = ledger /\ Payments' = Payments
        /\ order[t][k].status # Settled[k]
        /\ order' = [order EXCEPT ![t][k].status = "FAILED"]
    BY <1>8 DEF Orders!Fail, Orders!Open, Payments
  <2>3. QED  BY <1>5, <2>1, <2>2
<1>9. ASSUME NEW k \in Kinds, Orders!Settle(t, k)
      PROVE  Promise(t)' /\ OthersUnmoved(t)
  <2> DEFINE a == order[t][k].amount
  <2>1. /\ order[t][k].status # Settled[k] /\ a <= Balance(t)
        /\ ledger' = [ledger EXCEPT ![t][k] = a]
        /\ order' = [order EXCEPT ![t][k].status = Settled[k]]
    BY <1>9 DEF Orders!Settle, Orders!Open, Orders!Balance, Balance
  <2>2. ledger[t][k] = 0  BY <2>1 DEF Promise
  <2>3. /\ ledger'[t][k] = a
        /\ \A e \in Entries : e # k => ledger'[t][e] = ledger[t][e]
        /\ \A u \in Transactions : u # t => ledger'[u] = ledger[u]
    BY <2>1 DEF TypeOK
  <2>4. /\ order'[t][k].status = Settled[k] /\ order'[t][k].amount = a
        /\ \A j \in Kinds : j # k => order'[t][j] = order[t][j]
        /\ \A u \in Transactions : u # t => order'[u] = order[u]
    <3>1. order'[t][k] = [order[t][k] EXCEPT !.status = Settled[k]]
      BY <2>1 DEF TypeOK
    <3>2. order[t][k] \in [status : OrderStatus, amount : Nat]  BY DEF TypeOK
    <3>3. QED  BY <2>1, <3>1, <3>2 DEF TypeOK
  <2>5. Balance(t)' >= 0
    <3>1. CASE k = "payout"
      BY <1>1, <2>1, <2>2, <2>3, <3>1 DEF Balance
    <3>2. CASE k = "refund"
      BY <1>1, <2>1, <2>2, <2>3, <3>2 DEF Balance
    <3>3. QED  BY <3>1, <3>2
  <2>6. \A j \in Kinds :
          ledger'[t][j] = IF order'[t][j].status = Settled[j]
                          THEN order'[t][j].amount ELSE 0
    BY <2>3, <2>4 DEF Promise
  <2>7. CASE k = "refund" /\ a = Amount[t]
    <3>1. Payments' = [Payments EXCEPT ![t] = "REFUNDED"]
      BY <1>9, <2>7 DEF Orders!Settle, Payments
    <3>2. OthersUnmoved(t)
      BY <2>3, <2>4, <3>1, PaymentsMoved DEF OthersUnmoved
    <3>3. ledger'[t]["refund"] = Amount[t]  BY <2>3, <2>7
    <3>4. QED  BY <2>5, <2>6, <3>2, <3>3 DEF Promise
  <2>8. CASE ~(k = "refund" /\ a = Amount[t])
    <3>1. Payments' = Payments
      BY <1>9, <2>8 DEF Orders!Settle, Payments
    <3>2. OthersUnmoved(t)
      BY <2>3, <2>4, <3>1, PaymentsUnmoved DEF OthersUnmoved
    <3>3. tx'[t].paymentStatus = "REFUNDED" => k # "refund"
      BY <1>1, <2>2, <3>1, PaymentsUnmoved DEF Promise
    <3>4. tx'[t].paymentStatus = "REFUNDED" => ledger'[t]["refund"] = Amount[t]
      BY <2>3, <3>1, <3>3, PaymentsUnmoved DEF Promise
    <3>5. QED  BY <2>5, <2>6, <3>2, <3>4 DEF Promise
  <2>9. QED  BY <2>7, <2>8
<1>10. QED
  BY <1>2, <1>3, <1>6, <1>7, <1>8, <1>9 DEF AtomicStep

\* A handler that takes an atomic step and keeps up with it.
LEMMA AtomicSerial ==
  ASSUME TypeOK, SerialConsistent, OneAtATime', NEW r \in Requests,
         NEW c \in Call \cup {Idle}, Goto(r, c), c # Idle => UpToDate(c)',
         NEW t \in Transactions, call[r] # Idle, call[r].tx = t, AtomicStep(t)
  PROVE  SerialConsistent'
<1>1. Promise(t)' /\ OthersUnmoved(t)
  BY RowsPromise, AtomicKeeps
<1>2. QED  BY <1>1, WriteSerial DEF Promise, OthersUnmoved

\* Each writing step, for its transaction: an atomic step, after which the
\* handler knows what it has to know.
Atomically(r, t) ==
  /\ AtomicStep(t)
  /\ \E c \in Call \cup {Idle} : Goto(r, c) /\ (c # Idle => UpToDate(c)')

LEMMA UpdatePaymentAtomic ==
  ASSUME TypeOK, SerialConsistent, NEW r \in Requests,
         NEW t \in Transactions, call[r].tx = t, UpdatePayment(r)
  PROVE  Atomically(r, t)
<1> DEFINE c == call[r]
<1>1. c \in Call /\ t \in Transactions /\ UpToDate(c) /\ c.at = "payment"
  BY CurrentCall DEF UpdatePayment, Points
<1>2. c.pay \in {"PENDING", "SUCCESS", "FAILED"}
  BY <1>1 DEF UpToDate, Call, PaymentStatus
<1>3. [u \in Transactions |-> tx'[u].paymentStatus]
        = [[u \in Transactions |-> tx[u].paymentStatus] EXCEPT ![t] = c.pay]
  <2>1. /\ tx'[t].paymentStatus = c.pay
        /\ \A u \in Transactions : u # t => tx'[u] = tx[u]
    BY <1>1 DEF UpdatePayment, TypeOK
  <2>2. QED  BY <1>1, <2>1
<1>4. Orders!Pay(t)
  BY <1>2, <1>3 DEF Orders!Pay, UpdatePayment
<1>5. AfterPayment(c) \in Call \cup {Idle}
  BY <1>1, NewCallType DEF AfterPayment, Points
<1>6. PICK next \in Call \cup {Idle} : Goto(r, next) /\ next = AfterPayment(c)
  BY <1>5 DEF UpdatePayment
<1>7. next # Idle => EmptyHanded(next)
  BY <1>6 DEF AfterPayment, NewCall, EmptyHanded
<1>8. next # Idle => UpToDate(next)'  BY <1>7, EmptyHandedIsUpToDate
<1>9. QED  BY <1>4, <1>6, <1>8 DEF Atomically, AtomicStep

LEMMA CreditEscrowAtomic ==
  ASSUME TypeOK, Consistent, SerialConsistent, NEW r \in Requests,
         NEW t \in Transactions, call[r].tx = t, CreditEscrow(r)
  PROVE  Atomically(r, t) \/ UNCHANGED <<tx, ledger, order>>
<1>1. CASE ledger[t]["payment"] # 0
  <2>1. ledger' = ledger
    BY <1>1 DEF CreditEscrow, Recorded, TypeOK
  <2>2. QED  BY <2>1 DEF CreditEscrow
<1>2. CASE ledger[t]["payment"] = 0
  <2>1. ledger' = [ledger EXCEPT ![t]["payment"] = Amount[t]]
    BY <1>2 DEF CreditEscrow, Recorded, TypeOK
  <2>2. Orders!Credit(t)
    BY <1>2, <2>1 DEF Orders!Credit, CreditEscrow
  <2>3. Goto(r, Idle)  BY DEF CreditEscrow, Return
  <2>4. QED  BY <2>2, <2>3 DEF Atomically, AtomicStep
<1>3. QED  BY <1>1, <1>2

LEMMA MakeReadyAtomic ==
  ASSUME TypeOK, Consistent, SerialConsistent, NEW r \in Requests,
         NEW t \in Transactions, call[r].tx = t, RefreshOrder(r) \/ CreateOrder(r)
  PROVE  Atomically(r, t)
<1> DEFINE c == call[r]
           k == c.kind
           target == [c EXCEPT !.at = "dispatch", !.amount = 0]
           row == [status |-> "READY", amount |-> c.amount]
<1>1. /\ c \in Call /\ t \in Transactions /\ k \in Kinds /\ c.amount \in Nat
      /\ UpToDate(c) /\ c.at \in {"refresh", "create"}
  BY CurrentCall DEF RefreshOrder, CreateOrder, Points
<1>2. MakeReady(r)  BY DEF RefreshOrder, CreateOrder
<1>3. order[t][k].status # Settled[k]
  BY <1>1 DEF UpToDate, RefreshOrder, CreateOrder, At, NoOrder, Settled
<1>4. c.amount \in 1 .. Balance(t)
  <2>1. Funded(c) /\ c.amount <= Balance(t)
    BY <1>1, ReliableCall DEF UpToDate, Reliable
  <2>2. Balance(t) \in Int /\ c.amount >= 1
    BY <1>1, <2>1, BalanceType, AmountType DEF Funded
  <2>3. QED  BY <1>1, <2>1, <2>2
<1>5. Orders!Prepare(t, k)
  <2>1. order' = [order EXCEPT ![t][k] = row] /\ UNCHANGED <<tx, ledger>>
    BY <1>2 DEF MakeReady
  <2>2. Orders!Settled[k] = Settled[k] /\ Orders!Balance(t) = Balance(t)
    BY DEF Orders!Settled, Settled, Orders!Balance, Balance
  <2>3. QED  BY <1>3, <1>4, <2>1, <2>2 DEF Orders!Prepare
<1>6. PICK next \in Call : next = target  BY <1>1 DEF Call, Points
<1>7. next.at = "dispatch" /\ next.tx = t /\ next.kind = k
  BY <1>1, <1>6 DEF Call
<1>8. order'[t][k].status = "READY"
  BY <1>1, <1>2 DEF MakeReady, TypeOK
<1>9. UpToDate(next)'  BY <1>7, <1>8 DEF UpToDate
<1>10. Goto(r, next)  BY <1>2, <1>6 DEF MakeReady
<1>11. QED  BY <1>1, <1>5, <1>9, <1>10 DEF Atomically, AtomicStep

LEMMA DispatchAtomic ==
  ASSUME TypeOK, SerialConsistent, NEW r \in Requests,
         NEW t \in Transactions, call[r].tx = t, Dispatch(r)
  PROVE  Atomically(r, t)
<1> DEFINE c == call[r]
           k == c.kind
<1>1. /\ c \in Call /\ t \in Transactions /\ k \in Kinds
      /\ UpToDate(c) /\ c.at = "dispatch"
  BY CurrentCall DEF Dispatch, Points
<1>2. Answer[c.via] \in {"REQUESTED", "PROCESSING"}
  BY <1>1 DEF Call, Answer
<1>3. order[t][k].status = "READY"  BY <1>1 DEF UpToDate
<1>4. Orders!HandOver(t, k)
  BY <1>2, <1>3 DEF Orders!HandOver, Dispatch
<1>5. PICK n \in Call \cup {Idle} : Goto(r, n) /\ (n # Idle => EmptyHanded(n))
  BY <1>1, RequestedEmptyHanded DEF Dispatch
<1>6. n # Idle => UpToDate(n)'  BY <1>5, EmptyHandedIsUpToDate
<1>7. QED  BY <1>1, <1>4, <1>5, <1>6 DEF Atomically, AtomicStep

LEMMA WriteFailedAtomic ==
  ASSUME TypeOK, SerialConsistent, NEW r \in Requests,
         NEW t \in Transactions, call[r].tx = t, WriteFailed(r)
  PROVE  Atomically(r, t)
<1> DEFINE c == call[r]
           k == c.kind
<1>1. t \in Transactions /\ k \in Kinds /\ UpToDate(c) /\ c.at = "fail"
  BY CurrentCall DEF WriteFailed, Points
<1>2. order[t][k].status \notin {"NONE", Settled[k]}
  BY <1>1 DEF UpToDate
<1>3. Orders!Fail(t, k)
  BY <1>2 DEF Orders!Fail, Orders!Open, Orders!Settled, Settled, WriteFailed
<1>4. Goto(r, Idle)  BY DEF WriteFailed, Return
<1>5. QED  BY <1>1, <1>3, <1>4 DEF Atomically, AtomicStep

LEMMA CommitAtomic ==
  ASSUME TypeOK, Consistent, SerialConsistent, NEW r \in Requests,
         NEW t \in Transactions, call[r].tx = t,
         NEW k \in Kinds, call[r].kind = k, CommitSettlement(r)
  PROVE  Atomically(r, t)
<1> DEFINE c == call[r]
           a == c.amount
<1>1. /\ c \in Call /\ a \in Nat
      /\ c.fresh \in BOOLEAN /\ UpToDate(c) /\ c.at = "commit"
  BY CurrentCall DEF CommitSettlement, Points
<1>2. /\ order[t][k].status \notin {"NONE", Settled[k]}
      /\ a = order[t][k].amount /\ a <= Balance(t)
      /\ c.escrow = Balance(t) - a
      /\ k = "refund" => c.pay = tx[t].paymentStatus
  BY <1>1 DEF UpToDate
<1>3. ledger[t][k] = 0  BY <1>1, <1>2, NoDebitYet
<1>4. c.fresh  BY <1>1, <1>3, ReliableCall DEF Reliable
<1>5. /\ ledger' = [ledger EXCEPT ![t][k] = a]
      /\ order' = [order EXCEPT ![t][k].status = Settled[k]]
      /\ tx' = [tx EXCEPT ![t].escrowAmount = c.escrow,
                          ![t].paymentStatus = PaymentAfter(c)]
  BY <1>4 DEF CommitSettlement
<1>6. a = Amount[t] => c.escrow = 0
  <2>1. /\ ledger[t]["payment"] \in Nat /\ ledger[t]["payout"] \in Nat
        /\ ledger[t]["refund"] \in Nat /\ Amount[t] \in Nat
    BY <1>1, AmountType DEF TypeOK
  <2>2. ledger[t]["payment"] \in {0, Amount[t]}
    BY <1>1 DEF Consistent, LedgerInBounds
  <2>3. QED  BY <1>1, <1>2, <2>1, <2>2 DEF Balance
<1>7. PaymentAfter(c) = IF k = "refund" /\ a = Amount[t]
                        THEN "REFUNDED" ELSE tx[t].paymentStatus
  BY <1>1, <1>2, <1>6 DEF PaymentAfter, WhollyRefunded
<1>8. /\ tx'[t].paymentStatus = PaymentAfter(c)
      /\ \A u \in Transactions :
           u # t => tx'[u].paymentStatus = tx[u].paymentStatus
  BY <1>1, <1>5 DEF TypeOK
<1> DEFINE pays == [u \in Transactions |-> tx[u].paymentStatus]
<1>9. [u \in Transactions |-> tx'[u].paymentStatus]
        = IF k = "refund" /\ a = Amount[t]
          THEN [pays EXCEPT ![t] = "REFUNDED"] ELSE pays
  BY <1>1, <1>7, <1>8
<1>10. Orders!Settle(t, k)
  <2>1. Orders!Settled[k] = Settled[k] /\ Orders!Balance(t) = Balance(t)
    BY DEF Orders!Settled, Settled, Orders!Balance, Balance
  <2>2. QED
    BY <1>2, <1>5, <1>9, <2>1 DEF Orders!Settle, Orders!Open
<1>11. Goto(r, Idle)  BY DEF CommitSettlement, Return
<1>12. AtomicStep(t)  BY <1>10 DEF AtomicStep
<1>13. QED  BY <1>11, <1>12 DEF Atomically

-----------------------------------------------------------------------------
(* Every step. *)

Reads(r) ==
  \/ KycAnswer(r) \/ ReleaseBalance(r) \/ PaymentGate(r) \/ CreateConflict(r)
  \/ CheckBalance(r) \/ FindExisting(r)
  \/ LockOrder(r) \/ DebitEscrow(r) \/ ReadRemaining(r) \/ LockTransaction(r)

Writes(r) ==
  \/ UpdatePayment(r) \/ CreditEscrow(r) \/ RefreshOrder(r) \/ CreateOrder(r)
  \/ Dispatch(r) \/ CommitSettlement(r) \/ WriteFailed(r)

LEMMA ReadsOrWrites ==
  ASSUME NEW r \in Requests
  PROVE  Progress(r) <=> Reads(r) \/ Writes(r)
BY DEF Progress, Reads, Writes

LEMMA ReadsUnmoved ==
  ASSUME NEW r \in Requests, Reads(r)
  PROVE  UNCHANGED <<tx, ledger, order>>
<1>1. CASE KycAnswer(r) \/ ReleaseBalance(r) \/ PaymentGate(r)
  BY <1>1 DEF KycAnswer, ReleaseBalance, PaymentGate
<1>2. CASE CreateConflict(r) \/ CheckBalance(r) \/ FindExisting(r)
  BY <1>2 DEF CreateConflict, CheckBalance, FindExisting
<1>3. CASE \/ LockOrder(r) \/ DebitEscrow(r) \/ ReadRemaining(r)
           \/ LockTransaction(r)
  BY <1>3 DEF LockOrder, DebitEscrow, ReadRemaining, LockTransaction
<1>4. QED  BY <1>1, <1>2, <1>3 DEF Reads

LEMMA ReceiveUnmoved ==
  ASSUME NEW r \in Requests, NEW t \in Transactions, Receive(r, t)
  PROVE  UNCHANGED <<tx, ledger, order>>
BY DEF Receive, MarkPayment, ReleaseFunds, RequestPayout, ResolveRequests,
       MarkPaid, MarkRefunded, Settle, MarkPayoutFailed, MarkRefundFailed, Fail

LEMMA WritesAtomic ==
  ASSUME TypeOK, Consistent, SerialConsistent, NEW r \in Requests, Writes(r)
  PROVE  /\ call[r] # Idle
         /\ \E t \in Transactions :
              /\ call[r].tx = t
              /\ \/ Atomically(r, t)
                 \/ CreditEscrow(r) /\ UNCHANGED <<tx, ledger, order>>
<1>1. PICK p \in {"payment", "credit", "refresh", "create", "dispatch",
                  "commit", "fail"} : At(r, p)
  BY DEF Writes, UpdatePayment, CreditEscrow, RefreshOrder, CreateOrder,
         Dispatch, CommitSettlement, WriteFailed
<1>2. /\ call[r] # Idle /\ call[r].tx \in Transactions
      /\ call[r].kind \in Kinds
  BY <1>1, CurrentCall DEF Points
<1>3. PICK t \in Transactions, k \in Kinds : call[r].tx = t /\ call[r].kind = k
  BY <1>2
<1>4. \/ Atomically(r, t)
      \/ CreditEscrow(r) /\ UNCHANGED <<tx, ledger, order>>
  BY <1>3, UpdatePaymentAtomic, CreditEscrowAtomic, MakeReadyAtomic,
     DispatchAtomic, CommitAtomic, WriteFailedAtomic
  DEF Writes
<1>5. QED  BY <1>2, <1>3, <1>4

LEMMA ProgressSerial ==
  ASSUME TypeOK, Consistent, SerialConsistent, OneAtATime', NEW r \in Requests,
         Progress(r)
  PROVE  SerialConsistent'
<1>1. CASE Reads(r)
  BY <1>1, LookUpsSerial, CheckBalanceSerial, FindExistingSerial, TxReadsSerial
  DEF Reads
<1>2. CASE Writes(r)
  <2>1. PICK t \in Transactions :
          /\ call[r] # Idle /\ call[r].tx = t
          /\ \/ Atomically(r, t)
             \/ CreditEscrow(r) /\ UNCHANGED <<tx, ledger, order>>
    BY <1>2, WritesAtomic
  <2>2. CASE Atomically(r, t)
    BY <2>1, <2>2, AtomicSerial DEF Atomically
  <2>3. CASE CreditEscrow(r) /\ UNCHANGED <<tx, ledger, order>>
    BY <2>3, ReturnSerial DEF CreditEscrow
  <2>4. QED  BY <2>1, <2>2, <2>3
<1>3. QED  BY <1>1, <1>2, ReadsOrWrites

\* Only the status of a transaction moves, or nothing.
LEMMA StatusSerial ==
  ASSUME SerialConsistent, UNCHANGED <<ledger, order, call>>,
         \A t \in Transactions : tx'[t].paymentStatus = tx[t].paymentStatus,
         TypeOK
  PROVE  SerialConsistent'
<1>1. NothingIsStale'
  <2> SUFFICES ASSUME NEW q \in Requests, NEW d, d = call[q], d # Idle
               PROVE  UpToDate(d)'
    BY DEF NothingIsStale, UpToDate, Balance
  <2>1. UpToDate(d)  BY DEF SerialConsistent, NothingIsStale
  <2>2. d.tx \in Transactions  BY DEF TypeOK, Call
  <2>3. QED  BY <2>1, <2>2 DEF UpToDate, Balance
<1>2. NeverOverdrawn' /\ SettledMatchesLedger' /\ RefundedMeansReturned'
  BY DEF SerialConsistent, NeverOverdrawn, Balance, SettledMatchesLedger,
         RefundedMeansReturned
<1>3. OneAtATime'  BY DEF SerialConsistent, OneAtATime
<1>4. QED  BY <1>1, <1>2, <1>3 DEF SerialConsistent

LEMMA UpdateStatusPayments ==
  ASSUME TypeOK, NEW t \in Transactions, NEW s \in TransactionStatus,
         UpdateStatus(t, s)
  PROVE  \A u \in Transactions : tx'[u].paymentStatus = tx[u].paymentStatus
<1>1. tx' = [tx EXCEPT ![t].status = s]  BY DEF UpdateStatus
<1>2. tx'[t] = [tx[t] EXCEPT !.status = s]  BY <1>1 DEF TypeOK
<1>3. tx[t] \in [status : TransactionStatus, paymentStatus : PaymentStatus,
                 escrowAmount : Int]
  BY DEF TypeOK
<1>4. tx'[t].paymentStatus = tx[t].paymentStatus  BY <1>2, <1>3
<1>5. QED  BY <1>1, <1>4 DEF TypeOK

LEMMA SerialInit == Init => SerialConsistent
<1> SUFFICES ASSUME Init PROVE SerialConsistent  OBVIOUS
<1>1. OneAtATime /\ NothingIsStale
  BY DEF Init, OneAtATime, NothingIsStale
<1>2. NeverOverdrawn
  <2> SUFFICES ASSUME NEW t \in Transactions PROVE Balance(t) >= 0
    BY DEF NeverOverdrawn
  <2>1. /\ ledger[t]["payment"] \in 0 .. 0 /\ ledger[t]["payout"] \in 0 .. 0
        /\ ledger[t]["refund"] \in 0 .. 0
    BY DEF Init
  <2>2. QED  BY <2>1 DEF Balance
<1>3. SettledMatchesLedger /\ RefundedMeansReturned
  BY DEF Init, SettledMatchesLedger, RefundedMeansReturned, NoOrder, Settled
<1>4. QED  BY <1>1, <1>2, <1>3 DEF SerialConsistent

LEMMA SerialStep ==
  TypeOK /\ Consistent /\ SerialConsistent /\ [Next /\ OneAtATime']_vars
    => SerialConsistent'
<1> SUFFICES ASSUME TypeOK, Consistent, SerialConsistent,
                    [Next /\ OneAtATime']_vars
             PROVE  SerialConsistent'
  OBVIOUS
<1>1. CASE UNCHANGED vars
  BY <1>1, StatusSerial DEF vars
<1>2. CASE Next /\ OneAtATime'
  <2>1. CASE \E r \in Requests : Progress(r)
    BY <1>2, <2>1, ProgressSerial
  <2>2. CASE \E r \in Requests : Interrupted(r)
    BY <1>2, <2>2, ReturnSerial DEF Interrupted
  <2>3. CASE \E r \in Requests, t \in Transactions : Receive(r, t)
    BY <1>2, <2>3, ReceiveSerial
  <2>4. CASE \E t \in Transactions, s \in TransactionStatus : UpdateStatus(t, s)
    <3>1. PICK t \in Transactions, s \in TransactionStatus : UpdateStatus(t, s)
      BY <2>4
    <3>2. QED
      BY <3>1, UpdateStatusPayments, StatusSerial DEF UpdateStatus
  <2>5. QED  BY <1>2, <2>1, <2>2, <2>3, <2>4 DEF Next
<1>3. QED  BY <1>1, <1>2

-----------------------------------------------------------------------------
(* Theorems. *)

LEMMA SerialIsSpec == SerialSpec => Spec
<1>1. [Next /\ OneAtATime']_vars => [Next]_vars  OBVIOUS
<1>2. QED  BY <1>1, PTL DEF SerialSpec, Spec

(***************************************************************************)
(* When the requests for one transaction take turns, no handler of         *)
(* PayoutService, RefundService or markPayment ever acts on something that *)
(* is no longer so, although it holds no lock between its awaits and any   *)
(* of them may be interrupted: the inductive invariant.                    *)
(***************************************************************************)
THEOREM SerialAlwaysConsistent == SerialSpec => []SerialConsistent
<1>1. QED
  BY SerialInit, SerialStep, SerialIsSpec, TypeCorrect, AlwaysConsistent, PTL
  DEF SerialSpec

\* The debit of an order is then in the ledger exactly when the order is
\* settled, and for its amount (markPaid, markRefunded, markFailed).
THEOREM SerialSettledMatchesLedger == SerialSpec => []SettledMatchesLedger
<1>1. SerialConsistent => SettledMatchesLedger  BY DEF SerialConsistent
<1>2. QED  BY <1>1, SerialAlwaysConsistent, PTL

\* A REFUNDED payment then means that the whole amount went back
\* (RefundService.markRefunded).
THEOREM SerialRefundedMeansReturned == SerialSpec => []RefundedMeansReturned
<1>1. SerialConsistent => RefundedMeansReturned  BY DEF SerialConsistent
<1>2. QED  BY <1>1, SerialAlwaysConsistent, PTL

\* The escrow is then never overdrawn, with the isolation level PostgreSQL has
\* by default (addEntryIdempotentInsideTx).
THEOREM SerialNeverOverdrawn == SerialSpec => []NeverOverdrawn
<1>1. SerialConsistent => NeverOverdrawn  BY DEF SerialConsistent
<1>2. QED  BY <1>1, SerialAlwaysConsistent, PTL

LEMMA AtomicOrStutter ==
  TypeOK /\ Consistent /\ SerialConsistent /\ [Next /\ OneAtATime']_vars
    => \/ \E t \in Transactions : AtomicStep(t)
       \/ UNCHANGED <<ledger, order, Payments>>
<1> SUFFICES ASSUME TypeOK, Consistent, SerialConsistent, [Next]_vars
             PROVE  \/ \E t \in Transactions : AtomicStep(t)
                    \/ UNCHANGED <<ledger, order, Payments>>
  OBVIOUS
<1>1. CASE UNCHANGED <<tx, ledger, order>>
  BY <1>1 DEF Payments
<1>2. CASE \E r \in Requests : Writes(r)
  BY <1>1, <1>2, WritesAtomic DEF Atomically
<1>3. CASE \E t \in Transactions, s \in TransactionStatus : UpdateStatus(t, s)
  BY <1>3, UpdateStatusPayments DEF Payments, UpdateStatus
<1>4. QED
  BY <1>1, <1>2, <1>3, ReadsOrWrites, ReadsUnmoved, ReceiveUnmoved
  DEF Next, Interrupted, vars

(***************************************************************************)
(* Handlers that take turns on each transaction implement atomic handlers: *)
(* every write of theirs is a step that EscrowOrders allows on the rows as *)
(* they are, whatever the handlers of other transactions do meanwhile.     *)
(***************************************************************************)
THEOREM SerialImplementsOrders == SerialSpec => HandlersAreAtomic
<1>1. Init => Orders!Init
  BY DEF Init, Orders!Init, Orders!Entries, Orders!Kinds, Orders!NoOrder, NoOrder
<1>2. TypeOK /\ Consistent /\ SerialConsistent /\ [Next /\ OneAtATime']_vars
        => [Orders!Next]_<<ledger, order,
                           [t \in Transactions |-> tx[t].paymentStatus]>>
  BY AtomicOrStutter
  DEF AtomicStep, Payments, Orders!Next, Orders!Kinds
<1>3. QED
  BY <1>1, <1>2, SerialAlwaysConsistent, SerialIsSpec, TypeCorrect,
     AlwaysConsistent, PTL
  DEF SerialSpec, HandlersAreAtomic, Orders!Spec

\* An atomic step writes only orders that are not settled.
LEMMA AtomicSparesSettled ==
  ASSUME TypeOK, NEW t \in Transactions, AtomicStep(t),
         NEW u \in Transactions, NEW k \in Kinds,
         order[u][k].status = Settled[k]
  PROVE  order'[u][k] = order[u][k]
<1>1. CASE Orders!Pay(t) \/ Orders!Credit(t)
  BY <1>1 DEF Orders!Pay, Orders!Credit
<1>2. ASSUME NEW j \in Kinds,
             \/ Orders!Prepare(t, j) \/ Orders!HandOver(t, j)
             \/ Orders!Fail(t, j) \/ Orders!Settle(t, j)
      PROVE  order'[u][k] = order[u][k]
  <2>1. order[t][j].status # Settled[j]
    BY <1>2
    DEF Orders!Prepare, Orders!HandOver, Orders!Fail, Orders!Settle,
        Orders!Open, Orders!Settled, Settled
  <2>2. t # u \/ j # k  BY <2>1
  <2>3. \/ \E o : order' = [order EXCEPT ![t][j] = o]
        \/ \E s : order' = [order EXCEPT ![t][j].status = s]
    BY <1>2
    DEF Orders!Prepare, Orders!HandOver, Orders!Fail, Orders!Settle
  <2>4. QED  BY <2>2, <2>3 DEF TypeOK
<1>3. QED  BY <1>1, <1>2 DEF AtomicStep

\* No handler then changes an order that is PAID or REFUNDED (markFailed, and
\* a new request).
THEOREM SerialSettledIsFinal == SerialSpec => SettledIsFinal
<1>1. TypeOK /\ Consistent /\ SerialConsistent /\ [Next /\ OneAtATime']_vars
        => [\A t \in Transactions, k \in Kinds :
              order[t][k].status = Settled[k]
                => order'[t][k] = order[t][k]]_vars
  BY AtomicOrStutter, AtomicSparesSettled
<1>2. QED
  BY <1>1, SerialAlwaysConsistent, SerialIsSpec, TypeCorrect,
     AlwaysConsistent, PTL
  DEF SerialSpec, SettledIsFinal

\* An atomic step deposits, withdraws what is there, or leaves the ledger.
LEMMA AtomicAccount ==
  ASSUME TypeOK, Consistent, SerialConsistent, NEW t \in Transactions,
         AtomicStep(t)
  PROVE  Shared!Next \/ UNCHANGED ledger
<1>1. CASE Orders!Credit(t)
  BY <1>1 DEF Orders!Credit, Shared!Next, Shared!Deposit
<1>2. CASE Orders!Pay(t)  BY <1>2 DEF Orders!Pay
<1>3. ASSUME NEW k \in Kinds,
             Orders!Prepare(t, k) \/ Orders!HandOver(t, k) \/ Orders!Fail(t, k)
      PROVE  UNCHANGED ledger
  BY <1>3 DEF Orders!Prepare, Orders!HandOver, Orders!Fail
<1>4. ASSUME NEW k \in Kinds, Orders!Settle(t, k)  PROVE Shared!Next
  <2> DEFINE a == order[t][k].amount
  <2>1. /\ a <= Balance(t) /\ ledger' = [ledger EXCEPT ![t][k] = a]
        /\ order[t][k].status \notin {"NONE", Settled[k]}
    BY <1>4
    DEF Orders!Settle, Orders!Open, Orders!Settled, Settled, Orders!Balance,
        Balance
  <2>2. ledger[t][k] = 0
    BY <2>1 DEF SerialConsistent, SettledMatchesLedger
  <2>3. a \in 1 .. Amount[t]
    <3>1. order[t][k] # NoOrder  BY <2>1 DEF NoOrder
    <3>2. QED  BY <3>1 DEF Consistent, OrdersAreFunded
  <2>4. Shared!Withdraw(t, k)
    BY <2>1, <2>2, <2>3 DEF Shared!Withdraw, Shared!Balance, Balance
  <2>5. QED  BY <2>4 DEF Shared!Next, Shared!Kinds
<1>5. QED  BY <1>1, <1>2, <1>3, <1>4 DEF AtomicStep

(***************************************************************************)
(* If requests for a transaction take turns, its payout and its refund are *)
(* withdrawals from one account that is never overdrawn, at any isolation  *)
(* level: what Implements has of serialized $transactions only.            *)
(***************************************************************************)
THEOREM SerialImplementsSharedAccount == SerialSpec => SharedAccount
<1>1. Init => Shared!Init
  BY DEF Init, Shared!Init, Shared!Entries, Shared!Kinds
<1>2. TypeOK /\ Consistent /\ SerialConsistent /\ [Next /\ OneAtATime']_vars
        => [Shared!Next]_ledger
  BY AtomicOrStutter, AtomicAccount
<1>3. QED
  BY <1>1, <1>2, SerialAlwaysConsistent, SerialIsSpec, TypeCorrect,
     AlwaysConsistent, PTL
  DEF SerialSpec, SharedAccount, Shared!Spec
=============================================================================
