-------------------------------- MODULE Booking --------------------------------
(***************************************************************************)
(* From a draft to a paid transaction: TripService, PackageService,        *)
(* TransactionService.create, updateStatus and markPayment, KycService,    *)
(* each with the event of Abandonment it opens or resolves in the end; and *)
(* the users' own calls to AbandonmentController.  A request first works   *)
(* at a desk (its own reads and writes), and then becomes a call of        *)
(* Abandonment.                                                            *)
(*                                                                         *)
(* Ownership and corridors never change and decide only who is refused;    *)
(* they are left out.  The money of a payment is the matter of Settlement. *)
(***************************************************************************)
EXTENDS Abandonment

CONSTANTS
  Trips, Packages, Deals, Users,   \* ids of the rows; a deal is a Transaction
  Carrier,     \* Carrier[p]: the traveler who offers trip p
  Updates,     \* the statuses that updateStatus is asked for; of those, only
               \* CANCELLED is told from the others
  KycUpdates   \* those that setUserKycStatus is asked for; of those, only
               \* PENDING and VERIFIED are told from the others

ASSUME SubjectsAssumption == Subjects = Trips \cup Packages \cup Deals \cup Users
\* The kind of a reference is part of it: it tells a trip from a package.
ASSUME KindsAssumption ==
  /\ Trips \cap (Packages \cup Deals \cup Users) = {}
  /\ Packages \cap (Deals \cup Users) = {}
  /\ Deals \cap Users = {}
ASSUME CarrierAssumption == Carrier \in [Trips -> Users]

TripStatus == {"DRAFT", "ACTIVE", "CANCELLED"}
FlightTicketStatus == {"NOT_PROVIDED", "PROVIDED", "VERIFIED", "REJECTED"}
PackageStatus == {"DRAFT", "PUBLISHED", "RESERVED", "CANCELLED"}
TransactionStatus ==
  {"CREATED", "PAID", "IN_TRANSIT", "DELIVERED", "CANCELLED", "DISPUTED"}
PaymentStatus == {"PENDING", "SUCCESS", "FAILED"}
KycStatus == {"NOT_STARTED", "PENDING", "VERIFIED", "REJECTED"}

ASSUME UpdatesAssumption ==
  Updates \subseteq TransactionStatus /\ KycUpdates \subseteq KycStatus

VARIABLES
  trip,     \* trip[p]: row p of Trip
  package,  \* package[k]: the status of row k of Package
  deal,     \* deal[t]: row t of Transaction
  kyc,      \* kyc[u]: the kycStatus of user u
  desk,     \* desk[r]: what request r is doing before its abandonment call
  choice    \* history: choice[s] is what the user has done about the reminder
            \* of s himself since a service last marked or resolved it

rows == <<trip, package, deal, kyc>>
bookingVars == <<abandonmentVars, rows, desk, choice>>

NoTrip == [status |-> "NONE"]
NoDeal == [status |-> "NONE"]
Free   == [at |-> "free"]

\* vetted is history: an admin has VERIFIED the ticket at some time.
TripRow ==
  [status : TripStatus, ticket : FlightTicketStatus, vetted : BOOLEAN]

DealRow ==
  [trip : Trips, package : Packages, status : TransactionStatus,
   payment : PaymentStatus]

Desk ==
  [at : {"ticket", "activate"}, trip : Trips]
  \cup [at : {"verify"}, trip : Trips, decision : {"VERIFIED", "REJECTED"}]
  \cup [at : {"publish", "cancel"}, package : Packages]
  \cup [at : {"existing", "reserve"}, trip : Trips, package : Packages]
  \cup [at : {"kyc", "pay"}, deal : Deals, pay : PaymentStatus,
        status : TransactionStatus]

Choice == {"none", "opened", "dismissed"}

BookingTypeOK ==
  /\ AbandonmentTypeOK
  /\ trip \in [Trips -> TripRow \cup {NoTrip}]
  /\ package \in [Packages -> PackageStatus \cup {"NONE"}]
  /\ deal \in [Deals -> DealRow \cup {NoDeal}]
  /\ kyc \in [Users -> KycStatus]
  /\ desk \in [Requests -> Desk \cup {Free}]
  /\ choice \in [Subjects -> Choice]

BookingInit ==
  /\ AbandonmentInit
  /\ trip = [p \in Trips |-> NoTrip]
  /\ package = [k \in Packages |-> "NONE"]
  /\ deal = [t \in Deals |-> NoDeal]
  /\ kyc = [u \in Users |-> "NOT_STARTED"]
  /\ desk = [r \in Requests |-> Free]
  /\ choice = [s \in Subjects |-> "none"]

Vacant(r) == call[r] = Idle /\ desk[r] = Free

\* The bound on events, the requests at a desk included.
Spare ==
  Cardinality({e \in Events : event[e] = NoEvent})
    > Cardinality({r \in Requests : ~Vacant(r)})

Sit(r, d) == desk' = [desk EXCEPT ![r] = d]

Leave(r) == Sit(r, Free)

Working(r, point) == desk[r].at = point

\* A read that is refused, or goes on to the next await.
ReadOnly == UNCHANGED <<abandonmentVars, rows, choice>>

Chosen(s, c) == choice' = [choice EXCEPT ![s] = c]

\* The end of every handler: what it says to AbandonmentService.
ThenMark(r, s) ==
  Mark(r, s) /\ Chosen(s, "none") /\ Leave(r) /\ UNCHANGED <<now, event, job>>
ThenSeek(r, s) ==
  Seek(r, s) /\ Chosen(s, "none") /\ Leave(r) /\ UNCHANGED <<now, event, job>>
ThenReturn(r) == Leave(r) /\ UNCHANGED <<abandonmentVars, choice>>

-----------------------------------------------------------------------------
(* TripService *)

CreateTrip(r, p) ==
  /\ Vacant(r) /\ Spare
  /\ trip[p] = NoTrip
  /\ trip' = [trip EXCEPT ![p] = [status |-> "DRAFT",
                                  ticket |-> "NOT_PROVIDED", vetted |-> FALSE]]
  /\ ThenMark(r, p)
  /\ UNCHANGED <<package, deal, kyc>>

SubmitTicket(r, p) ==
  /\ Vacant(r) /\ Spare
  /\ trip[p].status = "DRAFT"
  /\ Sit(r, [at |-> "ticket", trip |-> p])
  /\ ReadOnly

WriteTicket(r) ==
  LET p == desk[r].trip
  IN  /\ Working(r, "ticket")
      /\ trip' = [trip EXCEPT ![p].ticket = "PROVIDED"]
      /\ ThenMark(r, p)
      /\ UNCHANGED <<package, deal, kyc>>

\* No status of the trip is refused.
AdminVerifyTicket(r, p, decision) ==
  /\ Vacant(r) /\ Spare
  /\ trip[p] # NoTrip
  /\ Sit(r, [at |-> "verify", trip |-> p, decision |-> decision])
  /\ ReadOnly

\* Mutant: a rejection closes the reminder, as an approval of a draft should.
RejectionCloses(r, p) == ThenSeek(r, p)

OnRejection(r, p) == ThenMark(r, p)

WriteDecision(r) ==
  LET p == desk[r].trip
      decision == desk[r].decision
  IN  /\ Working(r, "verify")
      /\ trip' = [trip EXCEPT ![p].ticket = decision,
                              ![p].vetted = @ \/ decision = "VERIFIED"]
      /\ IF decision = "REJECTED" THEN OnRejection(r, p) ELSE ThenReturn(r)
      /\ UNCHANGED <<package, deal, kyc>>

\* Mutant: a ticket that is PROVIDED will do.
AnyTicket(p) == trip[p].ticket \in {"PROVIDED", "VERIFIED"}

Verified(p) == trip[p].ticket = "VERIFIED"

PublishTrip(r, p) ==
  /\ Vacant(r)
  /\ trip[p].status = "DRAFT"
  /\ Verified(p)
  /\ Sit(r, [at |-> "activate", trip |-> p])
  /\ ReadOnly

ActivateTrip(r) ==
  LET p == desk[r].trip
  IN  /\ Working(r, "activate")
      /\ trip' = [trip EXCEPT ![p].status = "ACTIVE"]
      /\ ThenSeek(r, p)
      /\ UNCHANGED <<package, deal, kyc>>

-----------------------------------------------------------------------------
(* PackageService *)

CreatePackage(r, k) ==
  /\ Vacant(r) /\ Spare
  /\ package[k] = "NONE"
  /\ package' = [package EXCEPT ![k] = "DRAFT"]
  /\ ThenMark(r, k)
  /\ UNCHANGED <<trip, deal, kyc>>

PublishPackage(r, k) ==
  /\ Vacant(r)
  /\ package[k] = "DRAFT"
  /\ Sit(r, [at |-> "publish", package |-> k])
  /\ ReadOnly

\* Mutant: a package is published without a word to AbandonmentService.
Untold(r, k) == ThenReturn(r)

Finished(r, k) == ThenSeek(r, k)

WritePublished(r) ==
  LET k == desk[r].package
  IN  /\ Working(r, "publish")
      /\ package' = [package EXCEPT ![k] = "PUBLISHED"]
      /\ Finished(r, k)
      /\ UNCHANGED <<trip, deal, kyc>>

\* Mutant: a RESERVED package may be cancelled.
NotYetCancelled(k) == package[k] \notin {"NONE", "CANCELLED"}

Cancellable(k) == package[k] \notin {"NONE", "CANCELLED", "RESERVED"}

CancelPackage(r, k) ==
  /\ Vacant(r)
  /\ Cancellable(k)
  /\ Sit(r, [at |-> "cancel", package |-> k])
  /\ ReadOnly

WriteCancelled(r) ==
  LET k == desk[r].package
  IN  /\ Working(r, "cancel")
      /\ package' = [package EXCEPT ![k] = "CANCELLED"]
      /\ Finished(r, k)
      /\ UNCHANGED <<trip, deal, kyc>>

-----------------------------------------------------------------------------
(* TransactionService *)

\* The reads of the trip, which stays ACTIVE, and of the package.
CreateDeal(r, p, k) ==
  /\ Vacant(r) /\ Spare
  /\ trip[p].status = "ACTIVE"
  /\ package[k] = "PUBLISHED"
  /\ Sit(r, [at |-> "existing", trip |-> p, package |-> k])
  /\ ReadOnly

DealsOf(k) == {t \in Deals : deal[t] # NoDeal /\ deal[t].package = k}

FindExistingDeal(r) ==
  LET d == desk[r]
  IN  /\ Working(r, "existing")
      /\ IF \E t \in DealsOf(d.package) : deal[t].status # "CANCELLED"
         THEN Leave(r) ELSE Sit(r, [d EXCEPT !.at = "reserve"])
      /\ ReadOnly

\* Mutant: a status the enum does not have, which the cast `as any` lets pass.
Misspelt == "BOOKED"

\* Mutant: the package stays on offer.
StillPublished == "PUBLISHED"

ReservedStatus == "RESERVED"

\* The UPDATE of the package, the INSERT and the commit: the row lock keeps
\* other writers of the package out until the commit.
ReservePackage(r, t) ==
  LET d == desk[r]
  IN  /\ Working(r, "reserve")
      /\ deal[t] = NoDeal
      /\ package' = [package EXCEPT ![d.package] = ReservedStatus]
      /\ deal' = [deal EXCEPT ![t] = [trip |-> d.trip, package |-> d.package,
                                      status |-> "CREATED",
                                      payment |-> "PENDING"]]
      /\ ThenMark(r, t)
      /\ UNCHANGED <<trip, kyc>>

UpdateDealStatus(t, s) ==
  /\ deal[t] # NoDeal
  /\ deal' = [deal EXCEPT ![t].status = s]
  /\ UNCHANGED <<abandonmentVars, trip, package, kyc, desk, choice>>

MarkDealPayment(r, t, ps) ==
  /\ Vacant(r)
  /\ deal[t] # NoDeal
  /\ ~(deal[t].payment = "SUCCESS" /\ ps = "SUCCESS")
  /\ ps # "SUCCESS" => Spare
  /\ Sit(r, [at |-> IF ps = "SUCCESS" THEN "kyc" ELSE "pay", deal |-> t,
             pay |-> ps, status |-> deal[t].status])
  /\ ReadOnly

CheckTravelerKyc(r) ==
  LET d == desk[r]
  IN  /\ Working(r, "kyc")
      /\ IF kyc[Carrier[deal[d.deal].trip]] = "VERIFIED"
         THEN Sit(r, [d EXCEPT !.at = "pay"]) ELSE Leave(r)
      /\ ReadOnly

WritePayment(r) ==
  LET d == desk[r]
      success == d.pay = "SUCCESS"
  IN  /\ Working(r, "pay")
      /\ deal' = [deal EXCEPT ![d.deal].payment = d.pay,
                              ![d.deal].status = IF success THEN "PAID"
                                                            ELSE d.status]
      /\ IF success THEN ThenSeek(r, d.deal) ELSE ThenMark(r, d.deal)
      /\ UNCHANGED <<trip, package, kyc>>

-----------------------------------------------------------------------------
(* KycService *)

SetUserKycStatus(r, u, s) ==
  /\ Vacant(r)
  /\ s = "PENDING" => Spare
  /\ kyc' = [kyc EXCEPT ![u] = s]
  /\ IF s = "PENDING" THEN ThenMark(r, u) ELSE ThenSeek(r, u)
  /\ UNCHANGED <<trip, package, deal>>

-----------------------------------------------------------------------------
(* AbandonmentController: the owner of a row about its reminder. *)

\* The foreign keys of AbandonmentEvent; the user of a KYC is always there.
Exists(s) ==
  \/ s \in Trips /\ trip[s] # NoTrip
  \/ s \in Packages /\ package[s] # "NONE"
  \/ s \in Deals /\ deal[s] # NoDeal
  \/ s \in Users

\* Nothing asks whether s is unfinished.
UserMarks(r, s) ==
  /\ Vacant(r) /\ Spare
  /\ Exists(s)
  /\ MarkAbandoned(r, s)
  /\ Chosen(s, "opened")
  /\ UNCHANGED <<rows, desk>>

\* Nothing asks whether e is ACTIVE, or s finished.
UserResolves(r, e) ==
  /\ Vacant(r)
  /\ ResolveAbandoned(r, e)
  /\ IF event[e].status = "ACTIVE" THEN Chosen(event[e].subject, "dismissed")
                                   ELSE UNCHANGED choice
  /\ UNCHANGED <<rows, desk>>

-----------------------------------------------------------------------------
DeskProgress(r) ==
  \/ WriteTicket(r) \/ WriteDecision(r) \/ ActivateTrip(r)
  \/ WritePublished(r) \/ WriteCancelled(r)
  \/ FindExistingDeal(r) \/ \E t \in Deals : ReservePackage(r, t)
  \/ CheckTravelerKyc(r) \/ WritePayment(r)

DeskReceive(r) ==
  \/ \E p \in Trips :
       \/ CreateTrip(r, p) \/ SubmitTicket(r, p) \/ PublishTrip(r, p)
       \/ \E decision \in {"VERIFIED", "REJECTED"} :
            AdminVerifyTicket(r, p, decision)
  \/ \E k \in Packages :
       \/ CreatePackage(r, k) \/ PublishPackage(r, k) \/ CancelPackage(r, k)
       \/ \E p \in Trips : CreateDeal(r, p, k)
  \/ \E t \in Deals, ps \in PaymentStatus : MarkDealPayment(r, t, ps)
  \/ \E u \in Users, s \in KycUpdates : SetUserKycStatus(r, u, s)

\* Failures and process-due are in AbandonmentNext only.
AbandonmentStep ==
  /\ \E r \in Requests : Progress(r)
  /\ UNCHANGED <<rows, desk, choice>>

BookingNext ==
  \/ AbandonmentStep
  \/ \E r \in Requests, s \in Subjects : UserMarks(r, s)
  \/ \E r \in Requests, e \in Events : UserResolves(r, e)
  \/ \E r \in Requests : DeskProgress(r) \/ DeskReceive(r)
  \/ \E t \in Deals, s \in Updates : UpdateDealStatus(t, s)

BookingSpec == BookingInit /\ [][BookingNext]_bookingVars

-----------------------------------------------------------------------------
(* The rows that request r is about, at its desk and then in               *)
(* AbandonmentService.  Who makes a transaction is about the package until *)
(* it is RESERVED, and then about the transaction.                         *)

WorksOn(r, s) ==
  LET d == desk[r]
      c == call[r]
  IN  \/ d.at \in {"ticket", "verify", "activate"} /\ d.trip = s
      \/ d.at \in {"publish", "cancel", "existing", "reserve"} /\ d.package = s
      \/ d.at \in {"kyc", "pay"} /\ d.deal = s
      \/ c.at \in {"mark", "create", "seek"} /\ c.subject = s
      \/ c.at \in {"resolve", "cancel"} /\ \E e \in c.events : event[e].subject = s

Unattended(s) == \A r \in Requests : ~WorksOn(r, s)

TakeTurns ==
  \A s \in Subjects : \A q, r \in Requests :
    WorksOn(q, s) /\ WorksOn(r, s) => q = r

(***************************************************************************)
(* Booking when the requests about one row take turns; those about         *)
(* different rows interleave at every await.  Nothing in the backend makes *)
(* requests wait for each other: this tells the promises that only a race  *)
(* on one row breaks.                                                      *)
(***************************************************************************)
TurnsSpec == BookingInit /\ [][BookingNext /\ TakeTurns']_bookingVars

-----------------------------------------------------------------------------
(* Properties. *)

Reminded(s) == ActiveEvents(s) # {}

(***************************************************************************)
(* UnfinishedIsReminded: every draft, every payment that has not succeeded *)
(* and every pending KYC that no request is about has an ACTIVE event      *)
(* (markAbandoned in TripService, PackageService, TransactionService and   *)
(* KycService), after any sequence of calls; unless it was dismissed with  *)
(* POST /abandonment/resolve and no service has marked it since.           *)
(***************************************************************************)
NotDismissed(s) == Unattended(s) /\ choice[s] # "dismissed"

UnfinishedIsReminded ==
  /\ \A p \in Trips : trip[p].status = "DRAFT" /\ NotDismissed(p) => Reminded(p)
  /\ \A k \in Packages : package[k] = "DRAFT" /\ NotDismissed(k) => Reminded(k)
  /\ \A t \in Deals :
       deal[t] # NoDeal /\ deal[t].payment # "SUCCESS" /\ NotDismissed(t)
         => Reminded(t)
  /\ \A u \in Users : kyc[u] = "PENDING" /\ NotDismissed(u) => Reminded(u)

(***************************************************************************)
(* FinishedIsForgotten: no package that has left DRAFT, no successful      *)
(* payment and no decided KYC that no request is about has an ACTIVE event *)
(* (resolveActiveByReference in the same services), after any sequence of  *)
(* calls; unless it was opened with POST /abandonment/mark, which asks for *)
(* no status, and no service has resolved it since.  For trips it fails: a *)
(* ticket REJECTED after publication opens an event that nothing resolves. *)
(***************************************************************************)
Lingering(s) == Reminded(s) /\ Unattended(s) /\ choice[s] # "opened"

FinishedIsForgotten ==
  /\ \A k \in Packages : Lingering(k) => package[k] = "DRAFT"
  /\ \A t \in Deals : Lingering(t) => deal[t].payment # "SUCCESS"
  /\ \A u \in Users : Lingering(u) => kyc[u] = "PENDING"

(***************************************************************************)
(* RemindedOnce: nothing has two ACTIVE events, and so two pairs of        *)
(* reminders, however often it is marked, resolved and marked again; no    *)
(* unique key sees to it, only the findFirst before the create             *)
(* (AbandonmentService.markAbandoned).                                     *)
(***************************************************************************)
RemindedOnce == \A s \in Subjects : \A e, f \in ActiveEvents(s) : e = f

(***************************************************************************)
(* BookedOnce: a package has at most one transaction, even when that one   *)
(* is CANCELLED and brought back later (TransactionService.create reserves *)
(* the package, and nothing frees it).                                     *)
(***************************************************************************)
BookedOnce ==
  \A k \in Packages : \A t, u \in DealsOf(k) :
    deal[t].status # "CANCELLED" /\ deal[u].status # "CANCELLED" => t = u

(***************************************************************************)
(* BookedIsReserved: the package of a transaction stays RESERVED, and a    *)
(* package is RESERVED only for a transaction (cancel and publish refuse   *)
(* it).                                                                    *)
(***************************************************************************)
BookedIsReserved ==
  \A k \in Packages : package[k] = "RESERVED" <=> DealsOf(k) # {}

(***************************************************************************)
(* DealsAreVetted: a transaction is only ever made on an ACTIVE trip whose *)
(* ticket an admin has VERIFIED, although a new ticket may be submitted    *)
(* and a VERIFIED one rejected at any time (TripService.publish).          *)
(***************************************************************************)
DealsAreVetted ==
  \A t \in Deals :
    deal[t] # NoDeal =>
      trip[deal[t].trip].status = "ACTIVE" /\ trip[deal[t].trip].vetted

-----------------------------------------------------------------------------
\* Trips, packages and what is booked, with atomic handlers.
Shelf == INSTANCE Catalogue WITH deals <- [k \in Packages |-> DealsOf(k)]

(***************************************************************************)
(* OffersAreAtomic: handlers that read a row, wait and write it without    *)
(* looking again leave trips, packages and bookings as atomic handlers     *)
(* would: what publish, cancel, submitTicket and create have checked still *)
(* holds when they write (TripService, PackageService,                     *)
(* TransactionService.create).                                             *)
(***************************************************************************)
OffersAreAtomic == Shelf!Spec
=============================================================================
