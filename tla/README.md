# A verification of the Valises backend

Valises lets a traveler carry a sender's package for money that is held in
escrow until the parcel is delivered or a dispute is decided. The backend is a
NestJS service: every HTTP request runs a handler of some service, the handler
awaits one Prisma query after another, and PostgreSQL holds all state that
outlives the request. Nothing locks a row across two awaits except an
interactive `$transaction`, and that runs at PostgreSQL's default isolation,
READ COMMITTED. So whatever a handler has read may be stale when it is used, and
a rejected query or a dead process leaves whatever was written before. That is
what these modules are about.

All paths below are relative to the repository. "Request" always means one
handler in flight.

## 1. Inventory

| Component | State | Operations | What is hard | What makes it correct |
|---|---|---|---|---|
| Payments (`src/transaction`) | `Transaction.status, paymentStatus, escrowAmount` | `markPayment`, `updateStatus`, `releaseFunds` | the row is written before the ledger; status and escrow written back from a stale read | a successful payment is credited, once |
| Ledger (`src/ledger`) | `LedgerEntry`, unique `idempotencyKey` | `addEntryIdempotent`, `...InsideTx`, balance | sum and insert are two statements | entries never change, never repeat; the escrow is not overdrawn |
| Payouts (`src/payout`) | `Payout`, one per transaction | request, dispatch to a provider, `markPaid`, `markFailed` | status read before, written after other awaits; re-request after a failure | a settled order has its debit and stays settled; orders are funded |
| Refunds (`src/refund`) | `Refund`, one per transaction | the same, and the `REFUNDED` payment status | the same, and the remaining balance decides a status | the same; REFUNDED means the price went back |
| Disputes (`src/dispute`) | `Dispute`, `DisputeResolution` | `create`, `resolve`, `getRecommendation` | two admins at once; money is requested after the commit | one resolution; refunds are those decided, and are requested |
| Transaction creation (`src/transaction`) | `Transaction`, `Package.status` | `create` | check and reservation are apart | a package is booked once |
| Trips (`src/trip`) | `Trip.status, flightTicketStatus` | `createDraft`, `submitTicket`, `adminVerifyTicket`, `publish` | verdicts come in any order, also after publication | only vetted trips are booked |
| Packages (`src/package`) | `Package.status` | `createDraft`, `publish`, `cancel` | a stale check of RESERVED | a booked package stays reserved |
| KYC (`src/kyc`) | `User.kycStatus` | `setUserKycStatus` | revoked while a payment is confirmed | pending means reminded |
| Abandonment (`src/abandonment`) | `AbandonmentEvent`, `ReminderJob` | `markAbandoned`, `resolveAbandoned`, `resolveActiveByReference`, `processDueReminders` | no `$transaction` anywhere; batches sent from an old read | what is unfinished, and only that, is reminded; once, and in order |
| Messaging (`src/message`) | `Conversation`, `Message`; at the client, a cursor | `sendMessage`, `listMessages` | two first messages at once; messages stored between two pages, with times the reader is past | one conversation per transaction; pages never skip, repeat or leak a message |
| State machine (`src/transaction/transaction-state-machine.ts`) | none | `assertValidTransition` | no code calls it | |
| Users, auth, roles | `User` | register, login, guards | unique e-mail | |
| Health, config, bootstrap, common helpers | none | wiring, error mapping, key formatting | | |

How they interact. Controllers call services; services call each other in
process and share rows. `DisputeService.resolve` calls `RefundService` and
`PayoutService` after its own commit; `releaseFunds` and the payout controller
call `PayoutService` as well; all three, and `markPayment`, write through
`LedgerService`. Trips, packages, transactions and KYC end their handlers with a
call to `AbandonmentService`, awaited but outside any `$transaction`. Provider
adapters are stubs that answer at once. There is no scheduler: `process-due` is
an endpoint an admin calls.

`PROJECT.json` lists every hazard at its line, with the properties that cover it
or the reason why none does.

## 2. Modules

```
EscrowAccount            what the ledger promises
      ^  implemented by (LedgerKeepsItsPromise)
Settlement               payments, ledger, payouts, refunds  SettlementProofs
      ^  extended by, and implemented by (DisputesOnlyUseSettlement)
Dispute                  disputes and their resolutions      DisputeProofs

EscrowOrders             payouts and refunds, with atomic handlers
      ^  implemented by (HandlersAreAtomic)
SerialSettlement         Settlement, requests for a transaction
      |                  taking turns                        SerialProofs
      v  extends Settlement

Abandonment              events and reminder jobs            AbandonmentProofs
      ^  extended by
Booking                  trips, packages, transactions, KYC  BookingProofs
      v  implements (OffersAreAtomic)
Catalogue                trips and packages, with atomic handlers

Messaging                conversations, messages, pages      MessagingProofs

MCSettlement, MCDispute, MCAbandonment, MCBooking, MCMessaging   for TLC
```

Conventions. `call[r]` is where request `r` is (the await that comes next) and
what it has read; one action is the code between two awaits, so all guards and
early returns of that stretch are its guards. A `$transaction` is the sequence of
its awaits; what it writes is kept in `call[r]` until the commit, and every row it
updates stays locked until then (`InTx`, `OrderFree`, `RowFree`). A read with no effect on what follows is folded into
the next step. A definition marked *Mutant* is the definition after it with a
plausible mistake; it is not part of the specification and exists so that each
property is seen to fail when the code is wrong.

**Settlement.** `tx`, `ledger`, `order`, `call` are the columns of
`Transaction`, the entries of `LedgerEntry` by idempotency key, the `Payout` and
`Refund` rows, and the handlers. The two order services are the same code over
two tables, so a row is an order of kind `"payout"` or `"refund"` and an action
takes the kind from `call[r].kind`; where they differ (the settled status
`Settled`, the ledger key, and `WhollyRefunded` and `PaymentAfter`, by which a
refund also writes the payment status) the module says so.
`MarkPayment, KycAnswer, UpdatePayment, CreditEscrow` are `markPayment`;
`PaymentGate, CheckBalance, FindExisting, RefreshOrder, CreateOrder,
CreateConflict, Dispatch` are a request for a payout or refund; `MarkPaid`,
`MarkRefunded`, `LockOrder, DebitEscrow, ReadRemaining, LockTransaction,
CommitSettlement` are a settlement, whose `$transaction` locks the order row first
and the transaction row last; `MarkPayoutFailed, MarkRefundFailed, WriteFailed` are `markFailed`.
`Interrupted` is a query that rejects or a process that dies, at any await.
`Endpoints` restricts which calls an instance makes. The database is at READ
COMMITTED, as the code leaves it: only row locks keep two `$transaction`s apart.
All of them lock the order row before the transaction row, so no two can wait for
each other in a circle; no property is about that.

**SerialSettlement** is Settlement with one more condition on every step: no two
requests are in flight for the same transaction (`OneAtATime`). Requests for
different transactions interleave as before, and any of them may be interrupted.
Nothing in the backend makes requests wait for each other; the module separates
what only a race can break from what a sequence of calls, or a crash, could break
as well, and it says what a queue per transaction, or a lock held for the whole
handler, would buy. **EscrowOrders** is what it implements: a payout and a
refund whose handlers are one step each on the rows as they are, so that a
settlement is the debit, the final status and the REFUNDED payment in one.

**Dispute** adds `dispute` and `clerk`. A clerk opens a dispute in two writes
(`OpenDispute`, `InsertDispute`) or resolves one (`Resolve, DecideAmounts,
FindResolution, RecordResolution` or `RecordConflict`), and `Orchestrate` turns
it into a call of Settlement. `Recommend` is the matrix. The amounts are those
of the code: halves rounded down for the refund, the rest for the traveler.

**Abandonment** has the clock `now`, the rows `event` and `job`, and `call`. A
subject stands for the user, kind and reference by which events are looked up.
Of the delays of 30 minutes and 24 hours only the order is kept.

**Booking** adds `trip, package, deal, kyc` and `desk`: a request works at its
desk first and ends as a call of Abandonment, as the handlers do. `vetted` is a
history variable: some admin has verified the ticket. `deal` is the
`Transaction` row as far as creation and payment go. The kinds of references are
disjoint (`KindsAssumption`), as `(kind, id)` pairs are. `BookingSpec` lets all
requests interleave; in `TurnsSpec` those about one row take turns (`TakeTurns`;
`WorksOn` says which row a request is about, in its own service and then in
AbandonmentService), and those about different rows still interleave, such as a
ticket that is rejected while a transaction is made on its trip. `UpdateDealStatus`
is one write without a read and takes no turn. Users may also open and dismiss
reminders themselves: `UserMarks` and `UserResolves` are POST
`/abandonment/mark` and `/abandonment/resolve`, which ask for no status of what
the reminder is about. `choice` is a history variable: what the user has last
done so about a subject, forgotten as soon as a service marks or resolves it
itself. **Catalogue** is what it then
implements: each change of a trip or package is one step that is legal on the
rows as they are.

**Messaging** has the rows `conversation` and `message`, one `call` per client and
its `walk`: the pages it has been given and the cursor for the next.
`Enter` is the access check, `FindConversation, InsertConversation,
InsertConflict` the upsert (Prisma turns one that updates nothing into a SELECT
and an INSERT), `RejectMessage, StampMessage, StoreMessage` the rest of
`sendMessage`: the time of a message is taken before its row can be seen, so rows
become visible in another order than `createdAt`. `ReadPage` is the query of
`listMessages`, with the order (`Newer`), the cursor (`PastCursor`), the page
size (`IsPage`) and `nextCursor`. `start` is a history variable: what there was
when the walk began. Ids of messages are numbers because the query orders by
them; a new message may get any free one, as uuids are random.

## 3. Runs

| Run | Asks | Bounds | Result |
|---|---|---|---|
| `settlement_sequential` | do ledger, orders and payment status agree if requests take turns, and do handlers act as atomic ones? | 1 request, 1 transaction, price 3, all endpoints, failures | holds |
| `settlement_concurrent` | what survives interleaving at every await? | 2 requests, price 2, failures | holds |
| `settlement_liveness` | do payments arrive, orders go out? is every success credited at once? | 2 requests, price 1, no failures | holds |
| `dispute_concurrent` | two admins on one dispute, money moving meanwhile | 2 requests, 1 dispute, price 2, failures | holds |
| `reminders` | are reminders sent once, in order, and never for what was resolved before the batch was read? | 2 requests, one of which may be in `process-due`, 1 subject, 3 events, batches of 2, clock to 3, failures | holds |
| `booking` | do all rows agree if requests about one row take turns? | 2 requests, 1 trip, 1 package, 2 transactions, 1 user, 4 events, statuses set to CREATED and CANCELLED, KYC to PENDING and VERIFIED | holds |
| `messaging` | do pages stay whole and private while others send? | 2 clients, 1 of them reading, 2 transactions (one client has no part in the second), 3 messages, pages of 1 and 2, 2 moments, failures | holds |
| `overdraft` | `NeverOverdrawn` with two requests | 2 requests, price 2 | violated |
| `settled_reverts` | `SettledIsFinal` with two requests | 2 requests, price 1 | violated |
| `uncredited_payment` | `SuccessIsCredited` with a failure | 1 request, price 1 | violated |
| `unhonoured_resolution` | `ResolutionIsHonoured` with a failure | 1 request, 1 dispute, price 2 | violated |
| `double_booking` | `BookedOnce` with two requests | 2 requests, 1 package, 2 transactions | violated |

Why the bounds are enough. Transactions do not share rows, except through a
package, so one (two where a package is shared) is the general case. The races in
this code are between two handlers: the hazards listed each need one handler
between its read and its write and another that runs through. A price of 2 is
the smallest that splits into two non-zero shares and so the smallest where
refund and payout compete; 3 also splits unevenly and allows partial refunds
followed by others. `dispute_concurrent` has one dispute, so that two clerks
always meet on it; that the second dispute of a transaction meets the order of
the first changes none of its properties is a theorem for any number of disputes
(section 4), and the invariant that proves it, `Grounded`, is checked by the run.
Three messages and pages of one and two give walks of up to four pages with full
pages in the middle and at the end; two moments give messages of one `createdAt`
on both sides of a page and messages that appear late; two transactions, one of
them foreign to a client, show what a mixed-up conversation would leak. Three
events and two jobs each exceed a batch of 2, so a
batch can cut an event's jobs apart; at time 2 both jobs of an event are due,
at 3 both of an event created later, so jobs of different events interleave.
Four events let the trip, the package, a transaction and the user have one each,
or fewer of them be reminded again; when they are used up, the calls that need
one wait (`Room`, `Spare`). `Updates` are the statuses `updateStatus` is asked for: of those
only CANCELLED is told from the others, by the search of `create` for an existing
transaction, so one other status is enough. `KycUpdates` are the statuses an admin sets: NOT_STARTED, the first, and
REJECTED are the same to all that read it, so PENDING and VERIFIED are enough. The
theorems hold for any of both. The theorems about Booking hold for any number of events. Settlement and
Booking have no cap on how often a call is repeated. In `settlement_concurrent`
the `status`, `release` and `request` endpoints are left out to keep the run
short: the first writes a column nobody there reads, and the other two lead into
the payout request that `resolve` also makes. The theorems cover all endpoints.

Turns. In `settlement_sequential` and `booking` the requests about one row take
turns. Without them most of their properties are
false, for the reasons given under hazards, and `overdraft`, `settled_reverts` and
`double_booking` show the worst of it. What the two runs add is that nothing else
breaks these properties: no order of calls, no failure between two awaits, no
request about another row. With one transaction, requests that take turns are one request at a time, and so
`settlement_sequential` runs `Spec` with a single request; that requests for
different transactions do not disturb each other is part of the theorems. The booking run has no
failures and no `process-due`: an interruption before the last call of a handler
leaves its reminder undone, and no property could then say more than that; what
failures and `process-due` do to events and jobs is the question of `reminders`.

Fairness. `FairSpec` assumes SF of `Progress(r)` for each request and nothing
else. Node resumes every handler whose query has been answered, and PostgreSQL
hands a row lock to its waiters in order of arrival, so a handler that can go on
again and again does. No client has to call and nothing has to fail. The
liveness run assumes no failures, because with one `PaymentIsCredited` is false
(that is what `uncredited_payment` shows).

## 4. What is proved

`SettlementProofs` proves, for any sets of transactions and requests, any
positive prices, any endpoints, with or without failures:

- `TypeCorrect`: `Spec => []TypeOK`.
- `AlwaysConsistent`: `Spec => []Consistent`, the inductive invariant.
- `OrdersAlwaysFunded`, `SettledAlwaysHasDebit`: two parts of it a reader wants.
- `Implements`: `Spec => LedgerKeepsItsPromise`, that is, Settlement implements
  EscrowAccount; a step of a handler is a deposit, a withdrawal or a stutter.
- `CreditAlwaysFollows`, `SuccessIsCreditedWithoutFaults`: without failures a
  SUCCESS has its credit or its handler is on the way to it. With a failure the
  run `uncredited_payment` has a counterexample. `CreditFollows` is inductive
  together with `Consistent`: whoever writes SUCCESS either goes on to the credit
  itself, or is a `markRefunded` that writes back a status it read earlier, and
  then its refund is funded, so the credit is there already and stays.

Assumptions: `AmountAssumption` (prices are positive integers, which
`TransactionService.create` checks), `EndpointsAssumption`, `FaultsAssumption`; TLC evaluates them in every run.

The argument. `OrdersAreFunded` is not inductive: a handler past its checks
creates an order out of what it remembers. `Consistent` therefore says for each
point of a handler what it may still rely on (`Reliable`). Past the balance
check the credit is in the ledger for good, because entries are never changed;
past `create` the row exists for good, because rows are never deleted; and
within a `$transaction` the entry found absent is still absent, because the row
lock admits one `$transaction` per order (`OneTransactionPerOrder`) and the key
contains the order. That the balance which was checked is still there at the
commit is what it cannot say: another order's `$transaction` may have taken it
(`overdraft`). The step lemma has one case per action; the actions that
only move a handler along share the lemma `GotoConsistent`, the ledger writes
(`CreditConsistent`, `CommitConsistent`) have their own.

`SerialProofs` proves with the same generality, of `SerialSpec`: any number of
transactions and of requests for different ones, with or without failures:

- `SerialAlwaysConsistent`: `SerialSpec => []SerialConsistent`, the inductive
  invariant. No run checks it: with one request, as in `settlement_sequential`,
  nothing that was read can become stale, and it says little there.
- `SerialNeverOverdrawn`, `SerialSettledMatchesLedger`,
  `SerialRefundedMeansReturned`, `SerialSettledIsFinal`: the properties that the
  violation runs refute for requests that race, and two that are false then too.
- `SerialImplementsOrders`: `SerialSpec => HandlersAreAtomic`.
- `SerialImplementsSharedAccount`: `SerialSpec => SharedAccount`, the strict
  EscrowAccount, from which no withdrawal takes more than is left; `Implements`
  has it without that bound. It follows from properties the runs
  check and has no run of its own.

The argument. `SettledMatchesLedger` and the others are not inductive: a handler
settles with the amount, and marks failed by the status, that it has read some
awaits ago. `NothingIsStale` says of each point of a handler that what it holds
is still what the rows say; others cannot touch those rows, since rows belong to
one transaction and its requests take turns, and the handler itself reads again
what it has changed. `ReadSerial` proves this for steps that only move a handler
on, `WriteSerial` for those that write rows of one transaction. For the refinement
every action is shown to be an atomic step on the rows (`WritesAtomic`), with
`NothingIsStale` supplying its guard, or to leave the rows alone; and since no
atomic step touches a settled order, `SerialSettledIsFinal` follows
(`AtomicSparesSettled`). An interruption leaves no row half-written because the
$transaction writes debit and status together and every other handler writes one
row; only the credit of `markPayment` is a write of its own.

`AbandonmentProofs` proves, for any subjects, events, requests, batch size and
horizon, with or without failures:

- `AbandonmentTypeCorrect`: `AbandonmentSpec => []AbandonmentTypeOK`.
- `AlwaysOrderly`, `RemindersAlwaysInOrder`: the second reminder of an event is
  never sent while the first still waits, for any number of processors.
- `OneProcessorSendsOnce`: no reminder is sent twice, assuming that any two
  processors are the same one, i.e. that `process-due` runs once at a time. The
  code does not see to that; with two processors `SentOnce` is false.
- `SilencedAlwaysForGood`: a RESOLVED event of which no batch in flight holds a
  job never reminds anybody again, for any number of processors. A failure between
  the two writes of a resolve may leave its jobs PENDING; the query of
  `process-due` asks for ACTIVE events, and nothing makes an event ACTIVE again.

Assumptions: `ProcessorsAssumption`, `BatchAssumption`, `HorizonAssumption`. The
type invariant needs `CallsAreKnown`: an UPDATE keeps a row well formed only if
there is one. `RemindersInOrder` is not inductive because a batch is sent from
what was read before; `Ordered` adds that a batch with the second reminder has
the first as well, or nobody has to send it any more (`InSequence`).
`BatchInSequence` proves it of every batch the query can return, from the order
of `scheduledFor` and the delays; `SendOrdered` keeps it as the batch shrinks.
`Counted` (attempts are 1 exactly for what is SENT, and what the processor holds
is unsent) makes `SentOnce` inductive.

`DisputeProofs` proves, for any number of transactions, requests and disputes,
any prices, reasons and endpoints, with or without failures:

- `DisputeTypeCorrect`, `AlwaysGrounded`: the types and the inductive invariant.
- `RefundsAlwaysDecided`: every refund row has the amount a resolved dispute of
  its transaction grants, assuming that the endpoint `resolve` of Settlement is
  off, since Dispute makes those calls itself.
- `ResolvedAlwaysOnce`: a resolution is never replaced.
- `DisputesImplementSettlement`: `DisputeSpec => DisputesOnlyUseSettlement`; a
  clerk's step is a stutter, the status endpoint or the `resolve` endpoint of
  Settlement. So every theorem of SettlementProofs holds with disputes at work.

The argument. `RefundsAreDecided` is not inductive: a clerk records its
resolution, then requests money, and the request wanders through five awaits
before a row is written. `Grounded` says what each of them may rely on
(`ClerkIsReliable`, and `RefundRequest` for the requests under way): what was
recorded stays recorded, so the amount that is carried along stays decided. A
refund row that is there already is refreshed only by a request that is decided
as well. `Within` of the shares, in the same invariant, is what makes the call
of `resolve` one that Settlement allows: two shares that are not negative and
together not above the price.

`BookingProofs` proves, for any trips, packages, transactions, users and events
and any number of requests:

- `BookingTypeCorrect`: the types.
- `DealsAlwaysVetted`: transactions are only made on vetted trips. The invariant
  `Vetting` says of every trip that it is vetted if it is ACTIVE or its ticket is
  VERIFIED, and of every request what it has read that cannot be undone: a trip
  that was VERIFIED when `publish` looked has been vetted for good, whatever
  ticket it has when it becomes ACTIVE.
- `ResolvedAlwaysSilent`: RESOLVED events have no reminder left unless somebody
  is about to cancel it (`Silent`). The handlers here are not interrupted; with
  an interruption between the two writes the property is false.

and if the requests about one row take turns (`TurnsSpec`), with the same
generality otherwise, requests about other rows interleaving:

- `BookedInTurns`, `ReservedInTurns`: no package has two transactions, and it is
  RESERVED exactly if it has one. `Booked` adds that what a request has read of
  its package is still so, which is what a race takes away: `double_booking` is
  the counterexample.
- `TurnsImplementCatalogue`: `TurnsSpec => OffersAreAtomic`. `TripIsKnown` is the
  counterpart of `Booked` for trips. A transaction is made on a trip that its
  request read as ACTIVE, without a turn on that trip; the step is still legal,
  because a trip never leaves ACTIVE.
- `RemindedInTurns`, `ForgottenInTurns`: what is unfinished has an ACTIVE event
  and what is finished has none, as soon as no request is about it, unless the
  user himself has dismissed or opened the reminder and no service has marked or
  resolved it since (`choice`). Without that exception both are false after one
  call of `/abandonment/resolve` or `/abandonment/mark`. `Tracking`
  says for each subject that it is so, or that some request has still to open or
  to close its event and the row calls for that (`Apt`). It rests on `Booked`: a
  package that is reserved was not a draft.
- `RemindedOnceInTurns`: no subject has two ACTIVE events. What makes it inductive
  is that who is about to create one has found none and there still is none
  (`Searched`).

Assumptions: those of Abandonment, `SubjectsAssumption`, `KindsAssumption`,
`CarrierAssumption`, `UpdatesAssumption`.

`MessagingProofs` proves, for any clients, transactions, memberships, page sizes
and horizon, with or without interruptions: `MessagingTypeCorrect`,
`OneConversationAlways`, `OnlyForMembers`, `PagesAlwaysFollow`, `PagesAlwaysComplete`, all from
`AlwaysCoherent`. `Coherent` says that handlers hold the conversation of their
own transaction, that ids are unique also among messages not yet stored, and
that the cursor is the oldest message given, with all that is still missing
behind it. A page that is not full has no cursor and ends the walk, and then
nothing is behind it; a message stored later with an older time does not matter,
since it was not there at the start.

Only model-checked: `PaymentIsCredited` and `ReadyIsDispatched`, because liveness under fairness is out of reach of the
prover, and `ResolutionIsHonoured`, which the code violates. Every other
invariant, action property and refinement that a run checks is a theorem.

## 5. What the code does and its documents do not say

Each of the first five is a run that ends in a counterexample, listed with its
quotation under `findings`.

1. *Overdraft.* A payout and a refund of one transaction marked settled at the
   same time both pass the balance check: the `$transaction`s lock different order
   rows before it, and the transaction row only after the debit.
2. *Settled orders revert.* `markFailed` and the dispatch write by id alone and
   turn a PAID payout into FAILED or REQUESTED.
3. *Uncredited payment.* A failure between the update to SUCCESS and the credit
   leaves the escrow empty, and no repeated SUCCESS writes the credit: the repeated
   call returns early. Only a payment set to FAILED and then to SUCCESS would.
4. *Unhonoured resolution.* A failure after the commit of a resolution loses its
   refund: the repeated call only returns the resolution.
5. *Double booking.* Two requests book one package.

Seen while modelling, without a run of their own:

- `DisputeService.create` sets the transaction DISPUTED, and the recommendation
  later asks whether it is DELIVERED: the rows of the matrix for delivered
  parcels are out of reach unless somebody sets the status back.
- A ticket REJECTED after the trip is published opens an event that only
  a manual resolve closes: the carrier is asked to complete a trip that is public.
  `FinishedIsForgotten` leaves trips out for this reason.
- No transition of `Transaction.status` is ever refused, although a table of
  allowed ones exists; the models have it so.
- `docs/release-readiness-v1-checklist.md:226` asks that invalid transitions are
  rejected ("Les transitions invalides sont rejetées"); that line is about the
  same table.
- `/abandonment/mark` opens a reminder for a package that is published or a
  payment that has succeeded, and `/abandonment/resolve` closes that of a draft:
  neither looks at what the reminder is about. `UnfinishedIsReminded` and
  `FinishedIsForgotten` make that exception.
- A dispute of a transaction whose order is under way gets that order back; a
  second share that it grants is dropped without an error.
- A message that is sent again because its answer was lost is stored twice: there
  is no idempotency key. The model has it; no document promises otherwise.
- `escrowAmount` is reset to the price when a payment is set to FAILED and to
  SUCCESS again after a payout. No code reads it, and no property is about it.

## 6. Not modelled

Users and authentication: registration is one insert under a unique e-mail, login
only reads, the guards are stateless, and what is left is password hashing and
tokens. The state machine of `transaction-state-machine.ts`: no code calls it.
Health, configuration and bootstrap, the exception filter and the key formatter:
no state. Scripts and end-to-end tests drive the endpoints from outside.

Within the modelled parts: ownership and roles (except in Messaging, where they
decide who may read), corridors and dates, which never change and only refuse
calls; texts, metadata and currencies; of the message sanitizer all but that it
may leave nothing of a text; the read-only endpoints other than the pages of
messages; the ledger endpoint types no handler uses. The 2 000 000 limit never
refuses a payment that creation has let pass. After a refund `Booking` would have
a payment status REFUNDED; it does not, since refunds belong to Settlement. The
clock of Messaging does not run backwards, and its clients only send cursors the
service has given them. Failures and `process-due` are in Abandonment and not in
Booking.

## 7. Plan

Done: EscrowAccount, EscrowOrders and Catalogue as abstract specifications;
Settlement, SerialSettlement, Dispute, Abandonment, Booking and Messaging, each
with its proofs.

Next, in this order:

1. Abandonment with handlers that take turns: CANCELLED and SENT are then final,
   which a batch read before a cancellation breaks today.
2. Abstract specifications of reminders and of conversations, as those of the
   ledger and the catalogue.

Left, and why it was put last:

1. A rule about who may set a transaction DISPUTED: `updateStatus` writes
   any status, so nothing stronger than what is proved holds until the code
   calls its own table of transitions. With that, the hazards at
   `dispute.service.ts:43` and `:48` get properties.
2. The `escrowAmount` column as soon as code reads it.
3. `ResolutionIsHonoured` for handlers that take turns and never fail: it is
   still false, because a payment that is marked FAILED after its credit makes
   the gate of a refund refuse.
4. Several process instances with clocks of their own, for the order of
   `createdAt` and for `process-due`.
