----------------------------- MODULE BookingProofs -----------------------------
(* Proofs about Booking, for any trips, packages, deals, users, events and *)
(* requests; some of them if the requests about one row take turns.        *)
EXTENDS Booking, AbandonmentProofs

-----------------------------------------------------------------------------
(* Types. *)

Typed == BookingTypeOK /\ Sound

Handler == [at : {"existing", "reserve"}, trip : Trips, package : Packages]
Cashier == [at : {"kyc", "pay"}, deal : Deals, pay : PaymentStatus,
            status : TransactionStatus]

\* What a request holds at each desk.
LEMMA DeskForm ==
  ASSUME Typed, NEW r \in Requests
  PROVE  /\ desk[r].at \in {"ticket", "verify", "activate"}
              => desk[r].trip \in Trips
         /\ desk[r].at = "verify" => desk[r].decision \in {"VERIFIED", "REJECTED"}
         /\ desk[r].at \in {"publish", "cancel"} => desk[r].package \in Packages
         /\ desk[r].at \in {"existing", "reserve"}
              => /\ desk[r] \in Handler
                 /\ desk[r].trip \in Trips /\ desk[r].package \in Packages
         /\ desk[r].at \in {"kyc", "pay"}
              => /\ desk[r] \in Cashier
                 /\ desk[r].deal \in Deals /\ desk[r].pay \in PaymentStatus
                 /\ desk[r].status \in TransactionStatus
<1>1. desk[r] \in Desk \cup {Free}  BY DEF Typed, BookingTypeOK
<1>2. QED  BY <1>1 DEF Desk, Free, Handler, Cashier

LEMMA SitType ==
  ASSUME Typed, NEW r \in Requests, NEW d \in Desk \cup {Free}, Sit(r, d)
  PROVE  /\ desk' \in [Requests -> Desk \cup {Free}]
         /\ desk'[r] = d
         /\ \A q \in Requests : q # r => desk'[q] = desk[q]
BY DEF Typed, BookingTypeOK, Sit

LEMMA LeaveType ==
  ASSUME Typed, NEW r \in Requests, Leave(r)
  PROVE  /\ desk' \in [Requests -> Desk \cup {Free}]
         /\ desk'[r] = Free
         /\ \A q \in Requests : q # r => desk'[q] = desk[q]
BY SitType DEF Leave

LEMMA TripForm ==
  ASSUME Typed, NEW p \in Trips
  PROVE  /\ trip[p] # NoTrip => trip[p] \in TripRow
         /\ trip[p].status \in {"ACTIVE", "DRAFT"} => trip[p] # NoTrip
BY DEF Typed, BookingTypeOK, NoTrip

LEMMA DealForm ==
  ASSUME Typed, NEW t \in Deals, deal[t] # NoDeal
  PROVE  /\ deal[t] \in DealRow /\ deal[t].trip \in Trips
         /\ deal[t].package \in Packages
         /\ deal[t].status \in TransactionStatus
         /\ deal[t].payment \in PaymentStatus
BY DEF Typed, BookingTypeOK, DealRow

LEMMA RowIsNone ==
  /\ \A row \in TripRow : row # NoTrip
  /\ \A row \in DealRow : row # NoDeal
BY DEF TripRow, DealRow, NoTrip, NoDeal, TripStatus, TransactionStatus

LEMMA SubjectTypes ==
  /\ Trips \subseteq Subjects /\ Packages \subseteq Subjects
  /\ Deals \subseteq Subjects /\ Users \subseteq Subjects
BY SubjectsAssumption

\* A handler ends with a call of AbandonmentService, or without one.
LEMMA ThenSound ==
  ASSUME Typed, NEW r \in Requests, NEW s \in Subjects,
         ThenMark(r, s) \/ ThenSeek(r, s) \/ ThenReturn(r)
  PROVE  /\ Sound' /\ UNCHANGED <<now, event, job>>
         /\ desk' \in [Requests -> Desk \cup {Free}]
         /\ desk'[r] = Free
         /\ \A q \in Requests : q # r => desk'[q] = desk[q]
         /\ choice' \in [Subjects -> Choice]
<1>1. Leave(r) /\ UNCHANGED <<now, event, job>>
  BY DEF ThenMark, ThenSeek, ThenReturn, abandonmentVars
<1>2. Sound'
  <2>1. CASE ThenReturn(r)
    BY <2>1 DEF ThenReturn, abandonmentVars, Typed, Sound, AbandonmentTypeOK,
                CallsAreKnown, Known
  <2>2. CASE ThenMark(r, s) \/ ThenSeek(r, s)
    <3>1. PICK c \in Call : c.at \in {"mark", "seek"} /\ Goto(r, c)
      <4>1. [at |-> "mark", subject |-> s] \in Call  BY DEF Call
      <4>2. [at |-> "seek", subject |-> s] \in Call  BY DEF Call
      <4>3. QED
        BY <2>2, <4>1, <4>2 DEF ThenMark, ThenSeek, Mark, Seek
    <3>2. call' \in [Requests -> Call \cup {Idle}] /\ CallsAreKnown'
      BY <1>1, <3>1, GotoSound DEF Typed
    <3>3. QED  BY <1>1, <3>2 DEF Typed, Sound, AbandonmentTypeOK
  <2>3. QED  BY <2>1, <2>2
<1>3. choice' \in [Subjects -> Choice]
  BY DEF ThenMark, ThenSeek, ThenReturn, Chosen, Typed, BookingTypeOK, Choice
<1>4. QED  BY <1>1, <1>2, <1>3, LeaveType

\* What a user tells AbandonmentService himself: no row and no desk changes.
LEMMA UserCalls ==
  ASSUME Typed, NEW r \in Requests,
         \/ \E s \in Subjects : UserMarks(r, s)
         \/ \E e \in Events : UserResolves(r, e)
  PROVE  /\ call[r] = Idle /\ UNCHANGED <<now, event, job, rows, desk>>
         /\ Sound' /\ choice' \in [Subjects -> Choice]
         /\ call'[r] # Idle /\ call'[r].at \in {"mark", "resolve"}
         /\ \A q \in Requests : q # r => call'[q] = call[q]
         /\ desk[r] = Free
<1>1. CASE \E s \in Subjects : UserMarks(r, s)
  <2>1. PICK s \in Subjects : UserMarks(r, s)  BY <1>1
  <2>2. PICK c \in Call : c = [at |-> "mark", subject |-> s]  BY DEF Call
  <2>3. /\ call[r] = Idle /\ desk[r] = Free /\ Goto(r, c)
        /\ UNCHANGED <<now, event, job, rows, desk>>
        /\ choice' = [choice EXCEPT ![s] = "opened"]
    BY <2>1, <2>2 DEF UserMarks, Vacant, MarkAbandoned, Mark, Chosen
  <2>4. call' \in [Requests -> Call \cup {Idle}] /\ CallsAreKnown'
    BY <2>2, <2>3, GotoSound DEF Typed
  <2>5. choice' \in [Subjects -> Choice]
    BY <2>3 DEF Typed, BookingTypeOK, Choice
  <2>6. call'[r] = c /\ \A q \in Requests : q # r => call'[q] = call[q]
    BY <2>3 DEF Goto, Typed, Sound, AbandonmentTypeOK
  <2>7. c # Idle /\ c.at = "mark"  BY <2>2 DEF Idle
  <2>8. QED
    BY <2>3, <2>4, <2>5, <2>6, <2>7 DEF Typed, Sound, AbandonmentTypeOK
<1>2. CASE \E e \in Events : UserResolves(r, e)
  <2>1. PICK e \in Events : UserResolves(r, e)  BY <1>2
  <2>2. PICK c \in Call : c = [at |-> "resolve", events |-> {e}]  BY DEF Call
  <2>3. /\ call[r] = Idle /\ desk[r] = Free /\ Goto(r, c) /\ event[e] # NoEvent
        /\ UNCHANGED <<now, event, job, rows, desk>>
        /\ \/ choice' = choice
           \/ choice' = [choice EXCEPT ![event[e].subject] = "dismissed"]
    BY <2>1, <2>2 DEF UserResolves, Vacant, ResolveAbandoned, Chosen
  <2>4. call' \in [Requests -> Call \cup {Idle}] /\ CallsAreKnown'
    BY <2>2, <2>3, GotoSound DEF Typed
  <2>5. choice' \in [Subjects -> Choice]
    BY <2>3 DEF Typed, BookingTypeOK, Choice
  <2>6. call'[r] = c /\ \A q \in Requests : q # r => call'[q] = call[q]
    BY <2>3 DEF Goto, Typed, Sound, AbandonmentTypeOK
  <2>7. c # Idle /\ c.at = "resolve"  BY <2>2 DEF Idle
  <2>8. QED
    BY <2>3, <2>4, <2>5, <2>6, <2>7 DEF Typed, Sound, AbandonmentTypeOK
<1>3. QED  BY <1>1, <1>2

\* A read: the request sits down at its next desk, or leaves.
LEMMA ReadType ==
  ASSUME Typed, NEW r \in Requests, NEW d \in Desk \cup {Free}, Sit(r, d),
         ReadOnly
  PROVE  Typed'
BY SitType
DEF Typed, ReadOnly, rows, abandonmentVars, BookingTypeOK, Sound,
    AbandonmentTypeOK, CallsAreKnown, Known

-----------------------------------------------------------------------------
(* Deals are vetted. *)

\* A trip that may be booked, now or later: it has been vetted.
TripIsVetted(p) ==
  trip[p] # NoTrip /\ (trip[p].status = "ACTIVE" \/ trip[p].ticket = "VERIFIED")
    => trip[p].vetted

\* What a request at a desk may still rely on after its awaits.
DeskIsKnown(r) ==
  LET d == desk[r]
  IN  /\ d.at \in {"ticket", "verify", "activate"} => trip[d.trip] # NoTrip
      /\ d.at = "activate" => trip[d.trip].vetted
      /\ d.at \in {"existing", "reserve"} => trip[d.trip].status = "ACTIVE"
      /\ d.at \in {"kyc", "pay"} => deal[d.deal] # NoDeal

Vetting ==
  /\ \A p \in Trips : TripIsVetted(p)
  /\ \A r \in Requests : DeskIsKnown(r)
  /\ DealsAreVetted

VettingInv == Typed /\ Vetting

\* How a trip may change.
TripKept(p) ==
  /\ trip[p] # NoTrip => trip'[p] # NoTrip
  /\ trip[p] # NoTrip /\ trip[p].vetted => trip'[p].vetted
  /\ trip[p].status = "ACTIVE" => trip'[p].status = "ACTIVE"

\* How a deal may change, or come to be.
DealKept(t) ==
  /\ deal[t] # NoDeal => deal'[t] # NoDeal
  /\ deal'[t] # NoDeal =>
       \/ deal[t] # NoDeal /\ deal'[t].trip = deal[t].trip
       \/ deal'[t].trip \in Trips /\ trip[deal'[t].trip].status = "ACTIVE"

LEMMA VettingKept ==
  ASSUME Typed, Vetting, NEW r \in Requests,
         \A q \in Requests : q # r => desk'[q] = desk[q],
         DeskIsKnown(r)',
         \A p \in Trips : TripKept(p) /\ TripIsVetted(p)',
         \A t \in Deals : DealKept(t)
  PROVE  Vetting'
<1>1. ASSUME NEW q \in Requests  PROVE DeskIsKnown(q)'
  <2>1. CASE q = r  BY <2>1
  <2>2. CASE q # r
    <3>1. desk'[q] = desk[q] /\ DeskIsKnown(q)  BY <2>2 DEF Vetting
    <3> DEFINE d == desk[q]
    <3>2. /\ d.at \in {"ticket", "verify", "activate", "existing", "reserve"}
               => d.trip \in Trips
          /\ d.at \in {"kyc", "pay"} => d.deal \in Deals
      BY DeskForm
    <3>3. QED  BY <3>1, <3>2 DEF DeskIsKnown, TripKept, DealKept
  <2>3. QED  BY <2>1, <2>2
<1>2. ASSUME NEW t \in Deals, deal'[t] # NoDeal
      PROVE  trip'[deal'[t].trip].status = "ACTIVE"
               /\ trip'[deal'[t].trip].vetted
  <2>1. CASE deal[t] # NoDeal /\ deal'[t].trip = deal[t].trip
    <3>1. deal[t].trip \in Trips  BY <2>1, DealForm
    <3>2. /\ trip[deal[t].trip].status = "ACTIVE"
          /\ trip[deal[t].trip].vetted
      BY <2>1 DEF Vetting, DealsAreVetted
    <3>3. QED  BY <2>1, <3>1, <3>2, TripForm DEF TripKept
  <2>2. CASE deal'[t].trip \in Trips /\ trip[deal'[t].trip].status = "ACTIVE"
    <3> DEFINE p == deal'[t].trip
    <3>1. trip[p] # NoTrip  BY <2>2, TripForm
    <3>2. trip[p].vetted  BY <2>2, <3>1 DEF Vetting, TripIsVetted
    <3>3. QED  BY <2>2, <3>1, <3>2 DEF TripKept
  <2>3. QED  BY <1>2, <2>1, <2>2 DEF DealKept
<1>3. QED  BY <1>1, <1>2 DEF Vetting, DealsAreVetted

\* No row changes.
LEMMA RowsKept ==
  ASSUME Typed, Vetting, NEW r \in Requests, UNCHANGED rows,
         \A q \in Requests : q # r => desk'[q] = desk[q],
         DeskIsKnown(r)'
  PROVE  Vetting'
<1>1. \A p \in Trips : TripKept(p) /\ TripIsVetted(p)'
  BY DEF rows, TripKept, TripIsVetted, Vetting
<1>2. \A t \in Deals : DealKept(t)  BY DEF rows, DealKept
<1>3. QED  BY <1>1, <1>2, VettingKept

LEMMA FreeIsKnown ==
  ASSUME NEW r \in Requests, desk'[r] = Free
  PROVE  DeskIsKnown(r)'
BY DEF DeskIsKnown, Free

\* A request is read and goes to a desk.
LEMMA ReadVetted ==
  ASSUME VettingInv, NEW r \in Requests, NEW d \in Desk \cup {Free}, Sit(r, d),
         ReadOnly,
         d.at \in {"ticket", "verify", "activate"} => trip[d.trip] # NoTrip,
         d.at = "activate" => trip[d.trip].vetted,
         d.at \in {"existing", "reserve"} => trip[d.trip].status = "ACTIVE",
         d.at \in {"kyc", "pay"} => deal[d.deal] # NoDeal
  PROVE  VettingInv'
<1>1. Typed /\ Vetting  BY DEF VettingInv
<1>2. Typed'  BY <1>1, ReadType
<1>3. desk'[r] = d /\ \A q \in Requests : q # r => desk'[q] = desk[q]
  BY <1>1, SitType
<1>4. UNCHANGED rows  BY DEF ReadOnly
<1>5. DeskIsKnown(r)'  BY <1>3, <1>4 DEF DeskIsKnown, rows
<1>6. Vetting'  BY <1>1, <1>3, <1>4, <1>5, RowsKept
<1>7. QED  BY <1>2, <1>6 DEF VettingInv

\* One trip is written, or none, and the handler ends.
LEMMA TripWritten ==
  ASSUME VettingInv, NEW r \in Requests, NEW p \in Trips, NEW row \in TripRow,
         trip' = [trip EXCEPT ![p] = row], UNCHANGED <<package, deal, kyc>>,
         ThenMark(r, p) \/ ThenSeek(r, p) \/ ThenReturn(r),
         trip[p] # NoTrip /\ trip[p].vetted => row.vetted,
         trip[p].status = "ACTIVE" => row.status = "ACTIVE",
         row.status = "ACTIVE" \/ row.ticket = "VERIFIED" => row.vetted
  PROVE  VettingInv'
<1>1. Typed /\ Vetting  BY DEF VettingInv
<1>2. /\ Sound' /\ desk' \in [Requests -> Desk \cup {Free}] /\ desk'[r] = Free
      /\ \A q \in Requests : q # r => desk'[q] = desk[q]
      /\ choice' \in [Subjects -> Choice]
  BY <1>1, SubjectTypes, ThenSound
<1>3. trip' \in [Trips -> TripRow \cup {NoTrip}]
  BY <1>1 DEF Typed, BookingTypeOK
<1>4. Typed'  BY <1>1, <1>2, <1>3 DEF Typed, BookingTypeOK, Sound
<1>5. trip'[p] = row /\ row # NoTrip
      /\ \A q \in Trips : q # p => trip'[q] = trip[q]
  BY <1>1, RowIsNone DEF Typed, BookingTypeOK
<1>6. \A q \in Trips : TripKept(q) /\ TripIsVetted(q)'
  BY <1>1, <1>5 DEF TripKept, TripIsVetted, Vetting
<1>7. \A t \in Deals : DealKept(t)  BY DEF DealKept
<1>8. Vetting'  BY <1>1, <1>2, <1>6, <1>7, FreeIsKnown, VettingKept
<1>9. QED  BY <1>4, <1>8 DEF VettingInv

\* Packages, deals or the KYC are written, and the handler ends.
LEMMA OtherWritten ==
  ASSUME VettingInv, NEW r \in Requests, NEW s \in Subjects,
         ThenMark(r, s) \/ ThenSeek(r, s) \/ ThenReturn(r),
         UNCHANGED trip,
         package' \in [Packages -> PackageStatus \cup {"NONE"}],
         deal' \in [Deals -> DealRow \cup {NoDeal}],
         kyc' \in [Users -> KycStatus],
         \A t \in Deals : DealKept(t)
  PROVE  VettingInv'
<1>1. Typed /\ Vetting  BY DEF VettingInv
<1>2. /\ Sound' /\ desk' \in [Requests -> Desk \cup {Free}] /\ desk'[r] = Free
      /\ \A q \in Requests : q # r => desk'[q] = desk[q]
      /\ choice' \in [Subjects -> Choice]
  BY <1>1, ThenSound
<1>3. Typed'  BY <1>1, <1>2 DEF Typed, BookingTypeOK, Sound
<1>4. \A p \in Trips : TripKept(p) /\ TripIsVetted(p)'
  BY <1>1 DEF TripKept, TripIsVetted, Vetting
<1>5. Vetting'  BY <1>1, <1>2, <1>4, FreeIsKnown, VettingKept
<1>6. QED  BY <1>3, <1>5 DEF VettingInv

LEMMA TripStep ==
  ASSUME VettingInv, NEW r \in Requests,
         \/ WriteTicket(r) \/ WriteDecision(r) \/ ActivateTrip(r)
         \/ \E p \in Trips : CreateTrip(r, p)
  PROVE  VettingInv'
<1> DEFINE d == desk[r]
           old == trip[d.trip]
<1>1. Typed /\ Vetting /\ DeskIsKnown(r)  BY DEF VettingInv, Vetting
<1>2. ASSUME d.at \in {"ticket", "verify", "activate"}
      PROVE  /\ d.trip \in Trips /\ old \in TripRow /\ TripIsVetted(d.trip)
             /\ trip[d.trip] # NoTrip
    BY <1>1, <1>2, DeskForm, TripForm DEF DeskIsKnown, Vetting
<1>3. CASE WriteTicket(r)
  <2> DEFINE row == [old EXCEPT !.ticket = "PROVIDED"]
  <2>1. d.at = "ticket"  BY <1>3 DEF WriteTicket, Working
  <2>2. /\ row \in TripRow /\ row.status = old.status
        /\ row.ticket = "PROVIDED" /\ row.vetted = old.vetted
    BY <1>2, <2>1 DEF TripRow, FlightTicketStatus
  <2>3. trip' = [trip EXCEPT ![d.trip] = row]
    BY <1>1, <1>2, <1>3, <2>1 DEF WriteTicket, Typed, BookingTypeOK
  <2> HIDE DEF row
  <2>4. ThenMark(r, d.trip) /\ UNCHANGED <<package, deal, kyc>>
    BY <1>3 DEF WriteTicket
  <2>5. row.status = "ACTIVE" \/ row.ticket = "VERIFIED" => row.vetted
    BY <1>2, <2>1, <2>2 DEF TripIsVetted
  <2>6. QED  BY <1>2, <2>1, <2>2, <2>3, <2>4, <2>5, TripWritten
<1>4. CASE WriteDecision(r)
  <2> DEFINE now_vetted == old.vetted \/ d.decision = "VERIFIED"
             row == [old EXCEPT !.ticket = d.decision, !.vetted = now_vetted]
  <2>1. d.at = "verify" /\ d.decision \in {"VERIFIED", "REJECTED"}
    BY <1>1, <1>4, DeskForm DEF WriteDecision, Working
  <2>2. now_vetted \in BOOLEAN  BY <1>2, <2>1 DEF TripRow
  <2>3. /\ row \in TripRow /\ row.status = old.status
        /\ row.ticket = d.decision /\ (row.vetted <=> now_vetted)
    BY <1>2, <2>1, <2>2 DEF TripRow, FlightTicketStatus
  <2>4. trip' = [trip EXCEPT ![d.trip] = row]
    BY <1>1, <1>2, <1>4, <2>1 DEF WriteDecision, Typed, BookingTypeOK
  <2> HIDE DEF row
  <2>5. /\ ThenMark(r, d.trip) \/ ThenReturn(r)
        /\ UNCHANGED <<package, deal, kyc>>
    BY <1>4 DEF WriteDecision, OnRejection
  <2>6. row.status = "ACTIVE" \/ row.ticket = "VERIFIED" => row.vetted
    BY <1>2, <2>1, <2>3 DEF TripIsVetted
  <2>7. QED  BY <1>2, <2>1, <2>3, <2>4, <2>5, <2>6, TripWritten
<1>5. CASE ActivateTrip(r)
  <2> DEFINE row == [old EXCEPT !.status = "ACTIVE"]
  <2>1. d.at = "activate" /\ old.vetted
    BY <1>1, <1>5 DEF ActivateTrip, Working, DeskIsKnown
  <2>2. /\ row \in TripRow /\ row.status = "ACTIVE"
        /\ row.ticket = old.ticket /\ row.vetted = old.vetted
    BY <1>2, <2>1 DEF TripRow, TripStatus
  <2>3. trip' = [trip EXCEPT ![d.trip] = row]
    BY <1>1, <1>2, <1>5, <2>1 DEF ActivateTrip, Typed, BookingTypeOK
  <2> HIDE DEF row
  <2>4. ThenSeek(r, d.trip) /\ UNCHANGED <<package, deal, kyc>>
    BY <1>5 DEF ActivateTrip
  <2>5. QED  BY <1>2, <2>1, <2>2, <2>3, <2>4, TripWritten
<1>6. ASSUME NEW p \in Trips, CreateTrip(r, p)  PROVE VettingInv'
  <2> DEFINE row == [status |-> "DRAFT", ticket |-> "NOT_PROVIDED",
                     vetted |-> FALSE]
  <2>1. row \in TripRow  BY DEF TripRow, TripStatus, FlightTicketStatus
  <2>2. /\ trip' = [trip EXCEPT ![p] = row] /\ trip[p] = NoTrip
        /\ ThenMark(r, p) /\ UNCHANGED <<package, deal, kyc>>
    BY <1>6 DEF CreateTrip
  <2>3. trip[p].status # "ACTIVE"  BY <2>2 DEF NoTrip
  <2>4. QED  BY <2>1, <2>2, <2>3, TripWritten
<1>7. QED  BY <1>3, <1>4, <1>5, <1>6

LEMMA PackageStep ==
  ASSUME VettingInv, NEW r \in Requests,
         \/ WritePublished(r) \/ WriteCancelled(r)
         \/ \E k \in Packages : CreatePackage(r, k)
  PROVE  VettingInv'
<1>1. Typed  BY DEF VettingInv
<1>2. PICK k \in Packages, s \in {"DRAFT", "PUBLISHED", "CANCELLED"} :
        /\ package' = [package EXCEPT ![k] = s]
        /\ ThenMark(r, k) \/ ThenSeek(r, k)
        /\ UNCHANGED <<trip, deal, kyc>>
  BY <1>1, DeskForm
  DEF WritePublished, WriteCancelled, CreatePackage, Finished, Working
<1>3. package' \in [Packages -> PackageStatus \cup {"NONE"}]
  BY <1>1, <1>2 DEF Typed, BookingTypeOK, PackageStatus
<1>4. deal' \in [Deals -> DealRow \cup {NoDeal}] /\ kyc' \in [Users -> KycStatus]
  BY <1>1, <1>2 DEF Typed, BookingTypeOK
<1>5. \A t \in Deals : DealKept(t)  BY <1>2 DEF DealKept
<1>6. QED  BY <1>2, <1>3, <1>4, <1>5, SubjectTypes, OtherWritten

LEMMA KycStep ==
  ASSUME VettingInv, NEW r \in Requests, NEW u \in Users, NEW s \in KycUpdates,
         SetUserKycStatus(r, u, s)
  PROVE  VettingInv'
<1>1. Typed  BY DEF VettingInv
<1>2. /\ kyc' \in [Users -> KycStatus] /\ UNCHANGED <<trip, package, deal>>
      /\ ThenMark(r, u) \/ ThenSeek(r, u)
  BY <1>1, UpdatesAssumption DEF SetUserKycStatus, Typed, BookingTypeOK
<1>3. /\ package' \in [Packages -> PackageStatus \cup {"NONE"}]
      /\ deal' \in [Deals -> DealRow \cup {NoDeal}]
  BY <1>1, <1>2 DEF Typed, BookingTypeOK
<1>4. \A t \in Deals : DealKept(t)  BY <1>2 DEF DealKept
<1>5. QED  BY <1>2, <1>3, <1>4, SubjectTypes, OtherWritten

LEMMA ReserveStep ==
  ASSUME VettingInv, NEW r \in Requests, NEW t \in Deals, ReservePackage(r, t)
  PROVE  VettingInv'
<1> DEFINE d == desk[r]
           row == [trip |-> d.trip, package |-> d.package,
                   status |-> "CREATED", payment |-> "PENDING"]
<1>1. Typed /\ DeskIsKnown(r)  BY DEF VettingInv, Vetting
<1>2. /\ d.at = "reserve" /\ d.trip \in Trips /\ d.package \in Packages
  BY <1>1, DeskForm DEF ReservePackage, Working
<1>3. trip[d.trip].status = "ACTIVE"  BY <1>1, <1>2 DEF DeskIsKnown
<1>4. row \in DealRow /\ row.trip = d.trip
  BY <1>2 DEF DealRow, TransactionStatus, PaymentStatus
<1>5. /\ deal' = [deal EXCEPT ![t] = row] /\ UNCHANGED <<trip, kyc>>
      /\ package' = [package EXCEPT ![d.package] = "RESERVED"]
      /\ ThenMark(r, t) /\ deal[t] = NoDeal
  BY DEF ReservePackage, ReservedStatus
<1> HIDE DEF row
<1>6. /\ package' \in [Packages -> PackageStatus \cup {"NONE"}]
      /\ deal' \in [Deals -> DealRow \cup {NoDeal}]
      /\ kyc' \in [Users -> KycStatus]
  BY <1>1, <1>2, <1>4, <1>5 DEF Typed, BookingTypeOK, PackageStatus
<1>7. ASSUME NEW u \in Deals  PROVE DealKept(u)
  <2>1. CASE u = t
    BY <1>1, <1>2, <1>3, <1>4, <1>5, <2>1 DEF DealKept, Typed, BookingTypeOK
  <2>2. CASE u # t
    BY <1>1, <1>5, <2>2 DEF DealKept, Typed, BookingTypeOK
  <2>3. QED  BY <2>1, <2>2
<1>8. QED  BY <1>5, <1>6, <1>7, SubjectTypes, OtherWritten

LEMMA PaymentStep ==
  ASSUME VettingInv, NEW r \in Requests, WritePayment(r)
  PROVE  VettingInv'
<1> DEFINE d == desk[r]
           status == IF d.pay = "SUCCESS" THEN "PAID" ELSE d.status
           row == [deal[d.deal] EXCEPT !.payment = d.pay, !.status = status]
<1>1. Typed /\ DeskIsKnown(r)  BY DEF VettingInv, Vetting
<1>2. /\ d.at = "pay" /\ d.deal \in Deals /\ d.pay \in PaymentStatus
      /\ d.status \in TransactionStatus
  BY <1>1, DeskForm DEF WritePayment, Working
<1>3. deal[d.deal] # NoDeal /\ deal[d.deal] \in DealRow
  BY <1>1, <1>2, DealForm DEF DeskIsKnown
<1>4. status \in TransactionStatus  BY <1>2 DEF TransactionStatus
<1> HIDE DEF status
<1>5. row \in DealRow /\ row.trip = deal[d.deal].trip
  BY <1>2, <1>3, <1>4 DEF DealRow
<1>6. /\ deal' = [deal EXCEPT ![d.deal] = row]
      /\ UNCHANGED <<trip, package, kyc>>
      /\ ThenSeek(r, d.deal) \/ ThenMark(r, d.deal)
  BY <1>1, <1>2 DEF WritePayment, status, Typed, BookingTypeOK
<1> HIDE DEF row
<1>7. /\ deal' \in [Deals -> DealRow \cup {NoDeal}]
      /\ package' \in [Packages -> PackageStatus \cup {"NONE"}]
      /\ kyc' \in [Users -> KycStatus]
  BY <1>1, <1>2, <1>5, <1>6 DEF Typed, BookingTypeOK
<1>8. ASSUME NEW u \in Deals  PROVE DealKept(u)
  <2>1. CASE u = d.deal
    <3>1. deal'[u] = row /\ row # NoDeal
      BY <1>1, <1>2, <1>5, <1>6, <2>1, RowIsNone DEF Typed, BookingTypeOK
    <3>2. QED  BY <1>3, <1>5, <2>1, <3>1 DEF DealKept
  <2>2. CASE u # d.deal
    BY <1>1, <1>6, <2>2 DEF DealKept, Typed, BookingTypeOK
  <2>3. QED  BY <2>1, <2>2
<1>9. QED  BY <1>2, <1>6, <1>7, <1>8, SubjectTypes, OtherWritten

\* The requests that only read before their first await is over.
LEMMA ReceiveRead ==
  ASSUME VettingInv, NEW r \in Requests,
         \/ \E p \in Trips : SubmitTicket(r, p) \/ PublishTrip(r, p)
         \/ \E p \in Trips, decision \in {"VERIFIED", "REJECTED"} :
              AdminVerifyTicket(r, p, decision)
         \/ \E k \in Packages : PublishPackage(r, k) \/ CancelPackage(r, k)
         \/ \E p \in Trips, k \in Packages : CreateDeal(r, p, k)
         \/ \E t \in Deals, ps \in PaymentStatus : MarkDealPayment(r, t, ps)
  PROVE  VettingInv'
<1>1. Typed /\ Vetting  BY DEF VettingInv
<1>2. ASSUME NEW p \in Trips, SubmitTicket(r, p) \/ PublishTrip(r, p)
      PROVE  VettingInv'
  <2>1. PICK d \in Desk :
          /\ d.at \in {"ticket", "activate"} /\ d.trip = p
          /\ d.at = "activate" => Verified(p)
          /\ Sit(r, d) /\ ReadOnly /\ trip[p].status = "DRAFT"
    <3>1. [at |-> "ticket", trip |-> p] \in Desk
          /\ [at |-> "activate", trip |-> p] \in Desk
      BY DEF Desk
    <3>2. QED  BY <1>2, <3>1 DEF SubmitTicket, PublishTrip
  <2>2. trip[p] # NoTrip  BY <1>1, <2>1, TripForm
  <2>3. d.at = "activate" => trip[p].vetted
    BY <1>1, <2>1, <2>2 DEF Vetting, TripIsVetted, Verified
  <2>4. QED  BY <2>1, <2>2, <2>3, ReadVetted
<1>3. ASSUME NEW p \in Trips, NEW decision \in {"VERIFIED", "REJECTED"},
             AdminVerifyTicket(r, p, decision)
      PROVE  VettingInv'
  <2> DEFINE d == [at |-> "verify", trip |-> p, decision |-> decision]
  <2>1. d \in Desk  BY DEF Desk
  <2>2. Sit(r, d) /\ ReadOnly /\ trip[p] # NoTrip  BY <1>3 DEF AdminVerifyTicket
  <2>3. QED  BY <2>1, <2>2, ReadVetted
<1>4. ASSUME NEW k \in Packages, PublishPackage(r, k) \/ CancelPackage(r, k)
      PROVE  VettingInv'
  <2>1. PICK d \in Desk :
          d.at \in {"publish", "cancel"} /\ Sit(r, d) /\ ReadOnly
    <3>1. [at |-> "publish", package |-> k] \in Desk
          /\ [at |-> "cancel", package |-> k] \in Desk
      BY DEF Desk
    <3>2. QED  BY <1>4, <3>1 DEF PublishPackage, CancelPackage
  <2>2. QED  BY <2>1, ReadVetted
<1>5. ASSUME NEW p \in Trips, NEW k \in Packages, CreateDeal(r, p, k)
      PROVE  VettingInv'
  <2> DEFINE d == [at |-> "existing", trip |-> p, package |-> k]
  <2>1. d \in Desk  BY DEF Desk
  <2>2. Sit(r, d) /\ ReadOnly /\ trip[p].status = "ACTIVE"
    BY <1>5 DEF CreateDeal
  <2>3. QED  BY <2>1, <2>2, ReadVetted
<1>6. ASSUME NEW t \in Deals, NEW ps \in PaymentStatus, MarkDealPayment(r, t, ps)
      PROVE  VettingInv'
  <2> DEFINE point == IF ps = "SUCCESS" THEN "kyc" ELSE "pay"
             d == [at |-> point, deal |-> t, pay |-> ps,
                   status |-> deal[t].status]
  <2>1. deal[t] # NoDeal /\ Sit(r, d) /\ ReadOnly  BY <1>6 DEF MarkDealPayment
  <2>2. deal[t].status \in TransactionStatus  BY <1>1, <2>1, DealForm
  <2>3. point \in {"kyc", "pay"}  OBVIOUS
  <2> HIDE DEF point
  <2>4. d \in Desk  BY <2>2, <2>3 DEF Desk
  <2>5. QED  BY <2>1, <2>3, <2>4, ReadVetted
<1>7. QED  BY <1>2, <1>3, <1>4, <1>5, <1>6

\* The second read of two requests.
LEMMA ReadOn ==
  ASSUME VettingInv, NEW r \in Requests,
         FindExistingDeal(r) \/ CheckTravelerKyc(r)
  PROVE  VettingInv'
<1> DEFINE d == desk[r]
<1>1. Typed /\ DeskIsKnown(r) /\ ReadOnly
  BY DEF VettingInv, Vetting, FindExistingDeal, CheckTravelerKyc
<1>2. Free \in Desk \cup {Free} /\ Free.at = "free"  BY DEF Free
<1>3. CASE Leave(r)  BY <1>1, <1>2, <1>3, ReadVetted DEF Leave
<1>4. CASE FindExistingDeal(r) /\ ~Leave(r)
  <2>1. Sit(r, [d EXCEPT !.at = "reserve"]) /\ d.at = "existing"
    BY <1>4 DEF FindExistingDeal, Working
  <2>2. d \in Handler  BY <1>1, <2>1, DeskForm
  <2>3. /\ [d EXCEPT !.at = "reserve"] \in Desk
        /\ [d EXCEPT !.at = "reserve"].at = "reserve"
        /\ [d EXCEPT !.at = "reserve"].trip = d.trip
    BY <2>2 DEF Handler, Desk
  <2>4. trip[d.trip].status = "ACTIVE"  BY <1>1, <2>1 DEF DeskIsKnown
  <2>5. QED  BY <1>1, <2>1, <2>3, <2>4, ReadVetted
<1>5. CASE CheckTravelerKyc(r) /\ ~Leave(r)
  <2>1. Sit(r, [d EXCEPT !.at = "pay"]) /\ d.at = "kyc"
    BY <1>5 DEF CheckTravelerKyc, Working
  <2>2. d \in Cashier  BY <1>1, <2>1, DeskForm
  <2>3. /\ [d EXCEPT !.at = "pay"] \in Desk
        /\ [d EXCEPT !.at = "pay"].at = "pay"
        /\ [d EXCEPT !.at = "pay"].deal = d.deal
    BY <2>2 DEF Cashier, Desk
  <2>4. deal[d.deal] # NoDeal  BY <1>1, <2>1 DEF DeskIsKnown
  <2>5. QED  BY <1>1, <2>1, <2>3, <2>4, ReadVetted
<1>6. QED  BY <1>3, <1>4, <1>5

LEMMA StatusStep ==
  ASSUME VettingInv, NEW t \in Deals, NEW s \in TransactionStatus,
         UpdateDealStatus(t, s)
  PROVE  VettingInv'
<1> DEFINE row == [deal[t] EXCEPT !.status = s]
<1>1. Typed /\ Vetting /\ deal[t] \in DealRow
  BY DealForm DEF VettingInv, UpdateDealStatus
<1>2. row \in DealRow /\ row.trip = deal[t].trip  BY <1>1 DEF DealRow
<1>3. /\ deal' = [deal EXCEPT ![t] = row] /\ deal[t] # NoDeal
      /\ UNCHANGED <<abandonmentVars, trip, package, kyc, desk, choice>>
  BY <1>1 DEF UpdateDealStatus, Typed, BookingTypeOK
<1> HIDE DEF row
<1>4. deal' \in [Deals -> DealRow \cup {NoDeal}]
  BY <1>1, <1>2, <1>3 DEF Typed, BookingTypeOK
<1>5. Typed'
  BY <1>1, <1>3, <1>4
  DEF Typed, BookingTypeOK, Sound, abandonmentVars, AbandonmentTypeOK,
      CallsAreKnown, Known
<1>6. \A u \in Deals :
        /\ deal[u] # NoDeal <=> deal'[u] # NoDeal
        /\ deal[u] # NoDeal => deal'[u].trip = deal[u].trip
  BY <1>1, <1>2, <1>3, RowIsNone DEF Typed, BookingTypeOK
<1>7. ASSUME NEW r \in Requests  PROVE DeskIsKnown(r)'
  <2>1. DeskIsKnown(r) /\ (desk[r].at \in {"kyc", "pay"} => desk[r].deal \in Deals)
    BY <1>1, DeskForm DEF Vetting
  <2>2. QED  BY <1>3, <1>6, <2>1 DEF DeskIsKnown
<1>8. Vetting'
  BY <1>1, <1>3, <1>6, <1>7 DEF Vetting, TripIsVetted, DealsAreVetted
<1>9. QED  BY <1>5, <1>8 DEF VettingInv

LEMMA VettingInit == BookingInit => VettingInv
<1> SUFFICES ASSUME BookingInit PROVE VettingInv  OBVIOUS
<1>1. Sound  BY TypeInit DEF BookingInit
<1>2. BookingTypeOK
  BY <1>1 DEF BookingInit, BookingTypeOK, Sound, KycStatus, Choice
<1>3. Vetting
  BY DEF BookingInit, Vetting, TripIsVetted, DeskIsKnown, Free, DealsAreVetted
<1>4. QED  BY <1>1, <1>2, <1>3 DEF VettingInv, Typed

LEMMA VettingStep == VettingInv /\ [BookingNext]_bookingVars => VettingInv'
<1> SUFFICES ASSUME VettingInv, [BookingNext]_bookingVars PROVE VettingInv'
  OBVIOUS
<1>1. Typed /\ Vetting  BY DEF VettingInv
<1>2. CASE \/ AbandonmentStep
           \/ \E r \in Requests, s \in Subjects : UserMarks(r, s)
           \/ \E r \in Requests, e \in Events : UserResolves(r, e)
  <2>1. Sound' /\ UNCHANGED <<rows, desk>> /\ choice' \in [Subjects -> Choice]
    <3>1. CASE AbandonmentStep
      BY <1>1, <3>1, TypeProgress DEF AbandonmentStep, Typed, BookingTypeOK
    <3>2. CASE ~AbandonmentStep
      <4>1. PICK r \in Requests : \/ \E s \in Subjects : UserMarks(r, s)
                                 \/ \E e \in Events : UserResolves(r, e)
        BY <1>2, <3>2
      <4>2. QED  BY <1>1, <4>1, UserCalls
    <3>3. QED  BY <3>1, <3>2
  <2>2. Typed'  BY <1>1, <2>1 DEF Typed, BookingTypeOK, Sound, rows
  <2>3. Vetting'
    BY <1>1, <2>1
    DEF Vetting, rows, TripIsVetted, DeskIsKnown, DealsAreVetted
  <2>4. QED  BY <2>2, <2>3 DEF VettingInv
<1>3. ASSUME NEW r \in Requests, DeskProgress(r)  PROVE VettingInv'
  BY <1>3, TripStep, PackageStep, ReadOn, ReserveStep, PaymentStep
  DEF DeskProgress
<1>4. ASSUME NEW r \in Requests, DeskReceive(r)  PROVE VettingInv'
  BY <1>4, TripStep, PackageStep, KycStep, ReceiveRead DEF DeskReceive
<1>5. ASSUME NEW t \in Deals, NEW s \in Updates, UpdateDealStatus(t, s)
      PROVE  VettingInv'
  BY <1>5, StatusStep, UpdatesAssumption
<1>6. CASE UNCHANGED bookingVars
  BY <1>1, <1>6
  DEF bookingVars, abandonmentVars, rows, VettingInv, Typed, BookingTypeOK,
      Sound, AbandonmentTypeOK, CallsAreKnown, Known, Vetting, TripIsVetted,
      DeskIsKnown, DealsAreVetted
<1>7. QED  BY <1>2, <1>3, <1>4, <1>5, <1>6 DEF BookingNext

\* Every reachable state is well-typed, for any number of requests.
THEOREM BookingTypeCorrect == BookingSpec => []BookingTypeOK
<1>1. VettingInv => BookingTypeOK  BY DEF VettingInv, Typed
<1>2. QED  BY <1>1, VettingInit, VettingStep, PTL DEF BookingSpec

(***************************************************************************)
(* A transaction is only made on a trip that is ACTIVE and was vetted,     *)
(* however many carriers, admins and senders interleave (TripService.      *)
(* publish and adminVerifyTicket, TransactionService.create): the ticket   *)
(* publish has read as VERIFIED may be replaced before it writes ACTIVE.   *)
(***************************************************************************)
THEOREM DealsAlwaysVetted == BookingSpec => []DealsAreVetted
<1>1. VettingInv => DealsAreVetted  BY DEF VettingInv, Vetting
<1>2. QED  BY <1>1, VettingInit, VettingStep, PTL DEF BookingSpec

-----------------------------------------------------------------------------
(* Resolved events fall silent. *)

\* A request at a desk has not called AbandonmentService yet.
DeskFirst == \A r \in Requests : desk[r] # Free => call[r] = Idle

\* Whoever has resolved an event is about to cancel its jobs.
Cancelling(e) == \E r \in Requests : At(r, "cancel") /\ e \in call[r].events

Silent ==
  \A e \in Events :
    event[e].status = "RESOLVED" =>
      (\A j \in Jobs : job[e][j].status # "PENDING") \/ Cancelling(e)

SilentInv == VettingInv /\ DeskFirst /\ Silent

\* A handler of AbandonmentService moves itself and nobody else.
LEMMA CallAlone ==
  ASSUME Sound, NEW r \in Requests, Progress(r)
  PROVE  call[r] # Idle /\ \A q \in Requests : q # r => call'[q] = call[q]
<1>1. CASE FindEvent(r) \/ FindActive(r)
  BY <1>1 DEF FindEvent, FindActive, At, Idle, Return, Goto, Sound,
              AbandonmentTypeOK
<1>2. CASE \E e \in Events : CreateEvent(r, e)
  BY <1>2 DEF CreateEvent, At, Idle, Return, Goto, Sound, AbandonmentTypeOK
<1>3. CASE WriteResolved(r) \/ CancelJobs(r)
  BY <1>3 DEF WriteResolved, CancelJobs, At, Idle, Return, Goto, Sound,
              AbandonmentTypeOK
<1>4. CASE SendNext(r)
  BY <1>4 DEF SendNext, At, Idle, Goto, Sound, AbandonmentTypeOK
<1>5. QED  BY <1>1, <1>2, <1>3, <1>4 DEF Progress

\* What a handler leaves of the events and jobs it does not cancel.
LEMMA SilentKept ==
  ASSUME Sound, Silent, NEW r \in Requests, ~At(r, "cancel"),
         \A q \in Requests : q # r => call'[q] = call[q],
         \A e \in Events :
           event'[e].status = "RESOLVED" =>
             \/ Cancelling(e)'
             \/ /\ event[e].status = "RESOLVED"
                /\ \A j \in Jobs : job'[e][j].status = "PENDING"
                                     => job[e][j].status = "PENDING"
  PROVE  Silent'
<1>1. \A e \in Events : Cancelling(e) => Cancelling(e)'
  BY DEF Cancelling, At
<1>2. QED  BY <1>1 DEF Silent

LEMMA SilentProgress ==
  ASSUME Sound, Silent, NEW r \in Requests, Progress(r)
  PROVE  Silent'
<1>1. \A q \in Requests : q # r => call'[q] = call[q]  BY CallAlone
<1>2. CASE FindEvent(r) \/ FindActive(r)
  BY <1>1, <1>2, SilentKept DEF FindEvent, FindActive, At
<1>3. ASSUME NEW f \in Events, CreateEvent(r, f)  PROVE Silent'
  <2>1. ~At(r, "cancel")  BY <1>3 DEF CreateEvent, At
  <2>2. event'[f].status = "ACTIVE"
        /\ \A e \in Events : e # f => event'[e] = event[e] /\ job'[e] = job[e]
    BY <1>3 DEF CreateEvent, Sound, AbandonmentTypeOK
  <2>3. QED  BY <1>1, <2>1, <2>2, SilentKept
<1>4. CASE WriteResolved(r)
  <2> DEFINE c == call[r]
  <2>1. c.at = "resolve" /\ c.events \in SUBSET Events
    BY <1>4, CallForm DEF WriteResolved, At, Sound
  <2>2. call'[r].at = "cancel" /\ call'[r].events = c.events /\ UNCHANGED job
    BY <1>4 DEF WriteResolved, Goto, Sound, AbandonmentTypeOK
  <2>3. \A e \in Events : e \notin c.events => event'[e] = event[e]
    BY <1>4 DEF WriteResolved
  <2>4. \A e \in c.events : Cancelling(e)'  BY <2>2 DEF Cancelling, At
  <2>5. QED  BY <1>1, <2>1, <2>2, <2>3, <2>4, SilentKept DEF At
<1>5. CASE CancelJobs(r)
  <2> DEFINE c == call[r]
  <2>1. c.at = "cancel" /\ c.events \in SUBSET Events /\ UNCHANGED event
    BY <1>5, CallForm DEF CancelJobs, At, Sound
  <2>2. ASSUME NEW e \in Events, event'[e].status = "RESOLVED"
        PROVE  (\A j \in Jobs : job'[e][j].status # "PENDING") \/ Cancelling(e)'
    <3>1. CASE e \in c.events
      <4>1. ASSUME NEW j \in Jobs  PROVE job'[e][j].status # "PENDING"
        <5>1. job'[e][j] = Cancelled(job[e][j])  BY <1>5, <3>1 DEF CancelJobs
        <5>2. job[e][j] \in JobRow  BY DEF Sound, AbandonmentTypeOK
        <5>3. QED  BY <5>1, <5>2 DEF Cancelled, JobRow
      <4>2. QED  BY <4>1
    <3>2. CASE e \notin c.events
      <4>1. job'[e] = job[e]  BY <1>5, <3>2 DEF CancelJobs
      <4>2. Cancelling(e) => Cancelling(e)'
        BY <1>1, <3>2 DEF Cancelling, At
      <4>3. QED  BY <2>1, <2>2, <4>1, <4>2 DEF Silent
    <3>3. QED  BY <3>1, <3>2
  <2>3. QED  BY <2>2 DEF Silent
<1>6. CASE SendNext(r)
  <2>1. ~At(r, "cancel") /\ UNCHANGED event  BY <1>6 DEF SendNext, At
  <2>2. \A e \in Events, j \in Jobs :
          job'[e][j] = job[e][j] \/ job'[e][j].status = "SENT"
    <3>1. PICK k : job' = [job EXCEPT ![k[1]][k[2]] =
                             [status |-> "SENT", attempts |-> @.attempts + 1]]
      BY <1>6 DEF SendNext
    <3>2. QED  BY <3>1 DEF Sound, AbandonmentTypeOK
  <2>3. QED  BY <1>1, <2>1, <2>2, SilentKept
<1>7. QED  BY <1>2, <1>3, <1>4, <1>5, <1>6 DEF Progress

\* What any request does before it calls AbandonmentService.
LEMMA DeskTurn ==
  ASSUME VettingInv, DeskFirst, NEW r \in Requests,
         DeskProgress(r) \/ DeskReceive(r)
  PROVE  /\ call[r] = Idle /\ UNCHANGED <<now, event, job>>
         /\ \A q \in Requests : q # r => call'[q] = call[q] /\ desk'[q] = desk[q]
         /\ desk'[r] # Free => call'[r] = Idle
<1>1. Typed  BY DEF VettingInv
<1>2. ASSUME NEW s, ThenMark(r, s) \/ ThenSeek(r, s) \/ ThenReturn(r)
      PROVE  /\ UNCHANGED <<now, event, job>> /\ desk'[r] = Free
             /\ \A q \in Requests : q # r => call'[q] = call[q] /\ desk'[q] = desk[q]
  BY <1>1, <1>2
  DEF ThenMark, ThenSeek, ThenReturn, Mark, Seek, Goto, Leave, Sit,
      abandonmentVars, Typed, Sound, AbandonmentTypeOK, BookingTypeOK
<1>3. ASSUME NEW d, ReadOnly, Sit(r, d)
      PROVE  /\ UNCHANGED <<now, event, job, call>>
             /\ \A q \in Requests : q # r => desk'[q] = desk[q]
  BY <1>1, <1>3 DEF ReadOnly, Sit, abandonmentVars, Typed, BookingTypeOK
<1>4. CASE DeskProgress(r)
  <2>1. desk[r] # Free
    <3>1. CASE WriteTicket(r) \/ WriteDecision(r) \/ ActivateTrip(r)
      BY <3>1 DEF WriteTicket, WriteDecision, ActivateTrip, Working, Free
    <3>2. CASE WritePublished(r) \/ WriteCancelled(r)
      BY <3>2 DEF WritePublished, WriteCancelled, Working, Free
    <3>3. CASE \/ FindExistingDeal(r) \/ CheckTravelerKyc(r)
               \/ \E t \in Deals : ReservePackage(r, t)
      BY <3>3 DEF FindExistingDeal, CheckTravelerKyc, ReservePackage, Working, Free
    <3>4. CASE WritePayment(r)
      BY <3>4 DEF WritePayment, Working, Free
    <3>5. QED  BY <1>4, <3>1, <3>2, <3>3, <3>4 DEF DeskProgress
  <2>2. call[r] = Idle  BY <2>1 DEF DeskFirst
  <2>3. \/ \E s : ThenMark(r, s) \/ ThenSeek(r, s) \/ ThenReturn(r)
        \/ ReadOnly /\ \E d : Sit(r, d)
    BY <1>4
    DEF DeskProgress, WriteTicket, WriteDecision, OnRejection, ActivateTrip,
        WritePublished, WriteCancelled, Finished, FindExistingDeal, Leave,
        ReservePackage, CheckTravelerKyc, WritePayment
  <2>4. QED  BY <1>2, <1>3, <2>2, <2>3
<1>5. CASE DeskReceive(r)
  <2>1. Vacant(r)
    BY <1>5
    DEF DeskReceive, CreateTrip, SubmitTicket, PublishTrip, AdminVerifyTicket,
        CreatePackage, PublishPackage, CancelPackage, CreateDeal,
        MarkDealPayment, SetUserKycStatus
  <2>2. \/ \E s : ThenMark(r, s) \/ ThenSeek(r, s) \/ ThenReturn(r)
        \/ ReadOnly /\ \E d : Sit(r, d)
    BY <1>5
    DEF DeskReceive, CreateTrip, SubmitTicket, PublishTrip, AdminVerifyTicket,
        CreatePackage, PublishPackage, CancelPackage, CreateDeal,
        MarkDealPayment, SetUserKycStatus
  <2>3. QED  BY <1>2, <1>3, <2>1, <2>2 DEF Vacant
<1>6. QED  BY <1>4, <1>5

LEMMA SilentInit == BookingInit => SilentInv
<1> SUFFICES ASSUME BookingInit PROVE SilentInv  OBVIOUS
<1>1. VettingInv  BY VettingInit
<1>2. DeskFirst /\ Silent
  BY DEF BookingInit, AbandonmentInit, DeskFirst, Silent, NoEvent
<1>3. QED  BY <1>1, <1>2 DEF SilentInv

LEMMA SilentStep == SilentInv /\ [BookingNext]_bookingVars => SilentInv'
<1> SUFFICES ASSUME SilentInv, [BookingNext]_bookingVars PROVE SilentInv'
  OBVIOUS
<1>1. VettingInv /\ DeskFirst /\ Silent /\ Sound
  BY DEF SilentInv, VettingInv, Typed
<1>2. VettingInv'  BY <1>1, VettingStep
<1>3. CASE AbandonmentStep
  <2>1. PICK r \in Requests : Progress(r)  BY <1>3 DEF AbandonmentStep
  <2>2. Silent'  BY <1>1, <2>1, SilentProgress
  <2>3. DeskFirst'
    BY <1>1, <1>3, <2>1, CallAlone DEF DeskFirst, AbandonmentStep
  <2>4. QED  BY <1>2, <2>2, <2>3 DEF SilentInv
<1>4. ASSUME NEW r \in Requests, DeskProgress(r) \/ DeskReceive(r)
      PROVE  SilentInv'
  <2>1. /\ call[r] = Idle /\ UNCHANGED <<now, event, job>>
        /\ \A q \in Requests : q # r => call'[q] = call[q] /\ desk'[q] = desk[q]
        /\ desk'[r] # Free => call'[r] = Idle
    BY <1>1, <1>4, DeskTurn
  <2>2. ~At(r, "cancel")  BY <2>1 DEF At, Idle
  <2>3. Silent'  BY <1>1, <2>1, <2>2, SilentKept
  <2>4. DeskFirst'  BY <1>1, <2>1 DEF DeskFirst
  <2>5. QED  BY <1>2, <2>3, <2>4 DEF SilentInv
<1>5. CASE \/ \E t \in Deals, s \in Updates : UpdateDealStatus(t, s)
           \/ UNCHANGED bookingVars
  <2>1. UNCHANGED <<abandonmentVars, desk>>
    BY <1>5 DEF UpdateDealStatus, bookingVars
  <2>2. DeskFirst' /\ Silent'
    BY <1>1, <2>1 DEF abandonmentVars, DeskFirst, Silent, Cancelling, At
  <2>3. QED  BY <1>2, <2>2 DEF SilentInv
<1>6. ASSUME NEW r \in Requests,
             \/ \E s \in Subjects : UserMarks(r, s)
             \/ \E e \in Events : UserResolves(r, e)
      PROVE  SilentInv'
  <2>1. /\ call[r] = Idle /\ UNCHANGED <<event, job, desk>> /\ desk[r] = Free
        /\ \A q \in Requests : q # r => call'[q] = call[q]
    BY <1>1, <1>6, UserCalls DEF VettingInv
  <2>2. ~At(r, "cancel")  BY <2>1 DEF At, Idle
  <2>3. Silent'  BY <1>1, <2>1, <2>2, SilentKept
  <2>4. DeskFirst'  BY <1>1, <2>1 DEF DeskFirst
  <2>5. QED  BY <1>2, <2>3, <2>4 DEF SilentInv
<1>7. QED  BY <1>3, <1>4, <1>5, <1>6 DEF BookingNext

(***************************************************************************)
(* When no call of AbandonmentService is under way, a RESOLVED event has   *)
(* no reminder left, for any number of requests that mark, resolve and     *)
(* write at the same time (resolveActiveByReference cancels the jobs of    *)
(* the events it has read, after it has resolved them).                    *)
(***************************************************************************)
THEOREM ResolvedAlwaysSilent == BookingSpec => []ResolvedIsSilent
<1>1. SilentInv => ResolvedIsSilent
  BY DEF SilentInv, Silent, ResolvedIsSilent, Cancelling, At, Idle
<1>2. QED  BY <1>1, SilentInit, SilentStep, PTL DEF BookingSpec

-----------------------------------------------------------------------------
(* Requests about one row take turns: packages and deals.  Without turns   *)
(* the statements are false; what is proved is that only a race on the     *)
(* package breaks them.                                                    *)

LEMMA TurnsInit == BookingInit => TakeTurns
BY DEF BookingInit, AbandonmentInit, TakeTurns, WorksOn, Free, Idle

LEMMA TurnsStep ==
  TakeTurns /\ [BookingNext /\ TakeTurns']_bookingVars => TakeTurns'
BY DEF TakeTurns, WorksOn, bookingVars, abandonmentVars

LEMMA TurnsIsBooking == TurnsSpec => BookingSpec
<1>1. [BookingNext /\ TakeTurns']_bookingVars => [BookingNext]_bookingVars
  OBVIOUS
<1>2. QED  BY <1>1, PTL DEF TurnsSpec, BookingSpec

\* What a request has read of its package is still so.
StockIsKnown(r) ==
  LET d == desk[r]
  IN  /\ d.at = "publish" => package[d.package] = "DRAFT"
      /\ d.at = "cancel" => Cancellable(d.package)
      /\ d.at \in {"existing", "reserve"} => package[d.package] = "PUBLISHED"

Booked ==
  /\ BookedIsReserved
  /\ \A k \in Packages : \A t, u \in DealsOf(k) : t = u
  /\ \A r \in Requests : StockIsKnown(r)

\* Neither a package nor the list of its deals changes.
LEMMA BookedKept ==
  ASSUME Booked, UNCHANGED package,
         \A k \in Packages : DealsOf(k)' = DealsOf(k),
         \A r \in Requests : StockIsKnown(r)'
  PROVE  Booked'
BY DEF Booked, BookedIsReserved

\* Nobody else moves.
Alone(r) == \A q \in Requests : q # r => desk'[q] = desk[q]

Left(r) == desk'[r] = Free /\ Alone(r)

LEMMA StockRead ==
  ASSUME Booked, NEW r \in Requests, Alone(r), UNCHANGED package,
         StockIsKnown(r)'
  PROVE  \A q \in Requests : StockIsKnown(q)'
BY DEF Booked, Alone, StockIsKnown, Cancellable

LEMMA FreeStock ==
  ASSUME Booked, NEW r \in Requests, Left(r), UNCHANGED package
  PROVE  \A q \in Requests : StockIsKnown(q)'
<1>1. StockIsKnown(r)'  BY DEF Left, StockIsKnown, Free
<1>2. QED  BY <1>1, StockRead DEF Left

\* The package a request writes is nobody else's.
LEMMA StockWritten ==
  ASSUME Typed, TakeTurns, Booked, NEW r \in Requests, Left(r),
         NEW k \in Packages, package[k] = "NONE" \/ WorksOn(r, k),
         NEW s, package' = [package EXCEPT ![k] = s]
  PROVE  \A q \in Requests : StockIsKnown(q)'
<1> SUFFICES ASSUME NEW q \in Requests  PROVE StockIsKnown(q)'  OBVIOUS
<1>1. CASE q = r  BY <1>1 DEF Left, StockIsKnown, Free
<1>2. CASE q # r
  <2> DEFINE d == desk[q]
  <2>1. CASE d.at \in {"publish", "cancel", "existing", "reserve"}
    <3>1. d.package \in Packages  BY <2>1, DeskForm
    <3>2. StockIsKnown(q) /\ package[d.package] # "NONE"
      BY <2>1 DEF Booked, StockIsKnown, Cancellable
    <3>3. d.package # k
      <4>1. d.package = k => WorksOn(q, k)  BY <2>1 DEF WorksOn
      <4>2. QED  BY <1>2, <3>2, <4>1, SubjectTypes DEF TakeTurns
    <3>4. package'[d.package] = package[d.package]
      BY <3>1, <3>3 DEF Typed, BookingTypeOK
    <3>5. QED  BY <1>2, <3>2, <3>4 DEF Left, Alone, StockIsKnown, Cancellable
  <2>2. CASE d.at \notin {"publish", "cancel", "existing", "reserve"}
    BY <1>2, <2>2 DEF Left, Alone, StockIsKnown
  <2>3. QED  BY <2>1, <2>2
<1>3. QED  BY <1>1, <1>2

\* The end of every handler.
LEMMA ThenFree ==
  ASSUME Typed, NEW r \in Requests, NEW s,
         ThenMark(r, s) \/ ThenSeek(r, s) \/ ThenReturn(r)
  PROVE  Left(r)
BY LeaveType DEF ThenMark, ThenSeek, ThenReturn, Left, Alone

\* An UPDATE of a deal keeps it in its list.
LEMMA SameDeals ==
  ASSUME Typed, NEW t \in Deals, NEW row \in DealRow, deal[t] # NoDeal,
         row.package = deal[t].package, deal' = [deal EXCEPT ![t] = row],
         NEW k \in Packages
  PROVE  DealsOf(k)' = DealsOf(k)
<1>1. deal'[t] = row /\ row # NoDeal
      /\ \A u \in Deals : u # t => deal'[u] = deal[u]
  BY RowIsNone DEF Typed, BookingTypeOK
<1>2. \A u \in Deals :
        /\ deal'[u] # NoDeal <=> deal[u] # NoDeal
        /\ deal[u] # NoDeal => deal'[u].package = deal[u].package
  BY <1>1
<1>3. QED  BY <1>2 DEF DealsOf

\* A package that was not RESERVED gets a status other than RESERVED.
LEMMA RestockBooked ==
  ASSUME Typed, Booked, NEW k \in Packages, package[k] # "RESERVED",
         NEW s \in {"DRAFT", "PUBLISHED", "CANCELLED"},
         package' = [package EXCEPT ![k] = s], UNCHANGED deal,
         \A r \in Requests : StockIsKnown(r)'
  PROVE  Booked'
<1>1. \A l \in Packages : DealsOf(l)' = DealsOf(l)  BY DEF DealsOf
<1>2. package'[k] = s /\ \A l \in Packages : l # k => package'[l] = package[l]
  BY DEF Typed, BookingTypeOK
<1>3. BookedIsReserved'
  BY <1>1, <1>2 DEF Booked, BookedIsReserved
<1>4. QED  BY <1>1, <1>3 DEF Booked

LEMMA PaymentSameDeals ==
  ASSUME VettingInv, NEW r \in Requests, WritePayment(r), NEW k \in Packages
  PROVE  DealsOf(k)' = DealsOf(k)
<1> DEFINE d == desk[r]
           status == IF d.pay = "SUCCESS" THEN "PAID" ELSE d.status
           row == [deal[d.deal] EXCEPT !.payment = d.pay, !.status = status]
<1>1. Typed /\ DeskIsKnown(r)  BY DEF VettingInv, Vetting
<1>2. /\ d.at = "pay" /\ d.deal \in Deals /\ d.pay \in PaymentStatus
      /\ d.status \in TransactionStatus
  BY <1>1, DeskForm DEF WritePayment, Working
<1>3. deal[d.deal] # NoDeal /\ deal[d.deal] \in DealRow
  BY <1>1, <1>2, DealForm DEF DeskIsKnown
<1>4. status \in TransactionStatus  BY <1>2 DEF TransactionStatus
<1>5. deal' = [deal EXCEPT ![d.deal] = row]
  BY <1>1, <1>2 DEF WritePayment, Typed, BookingTypeOK
<1> HIDE DEF status
<1>6. row \in DealRow /\ row.package = deal[d.deal].package
  BY <1>2, <1>3, <1>4 DEF DealRow
<1> HIDE DEF row
<1>7. QED  BY <1>1, <1>2, <1>3, <1>5, <1>6, SameDeals

LEMMA StatusSameDeals ==
  ASSUME Typed, NEW t \in Deals, NEW s \in TransactionStatus,
         UpdateDealStatus(t, s), NEW k \in Packages
  PROVE  DealsOf(k)' = DealsOf(k)
<1> DEFINE row == [deal[t] EXCEPT !.status = s]
<1>1. deal[t] # NoDeal /\ deal[t] \in DealRow  BY DealForm DEF UpdateDealStatus
<1>2. row \in DealRow /\ row.package = deal[t].package  BY <1>1 DEF DealRow
<1>3. deal' = [deal EXCEPT ![t] = row]
  BY <1>1 DEF UpdateDealStatus, Typed, BookingTypeOK
<1> HIDE DEF row
<1>4. QED  BY <1>1, <1>2, <1>3, SameDeals

\* The package was on offer, without a deal, and has just the new one.
LEMMA ReserveDeals ==
  ASSUME VettingInv, Booked, NEW r \in Requests, NEW t \in Deals,
         ReservePackage(r, t), NEW k \in Packages, k = desk[r].package
  PROVE  /\ package[k] = "PUBLISHED" /\ DealsOf(k) = {} /\ DealsOf(k)' = {t}
         /\ \A l \in Packages : l # k => DealsOf(l)' = DealsOf(l)
<1>1. Typed  BY DEF VettingInv
<1>2. package[k] = "PUBLISHED" /\ deal[t] = NoDeal
  BY DEF Booked, StockIsKnown, ReservePackage, Working
<1>3. DealsOf(k) = {}  BY <1>2 DEF Booked, BookedIsReserved
<1>4. \A u \in Deals : deal[u] # NoDeal => deal[u].package # k
  BY <1>3 DEF DealsOf
<1>5. PICK row : /\ row.package = k /\ row # NoDeal
                 /\ deal' = [deal EXCEPT ![t] = row]
  BY DEF ReservePackage, NoDeal
<1>6. deal'[t] = row /\ \A u \in Deals : u # t => deal'[u] = deal[u]
  BY <1>1, <1>5 DEF Typed, BookingTypeOK
<1>7. DealsOf(k)' = {t}
  <2>1. \A u \in Deals : deal'[u] # NoDeal /\ deal'[u].package = k <=> u = t
    BY <1>4, <1>5, <1>6
  <2>2. DealsOf(k)' = {u \in Deals : deal'[u] # NoDeal /\ deal'[u].package = k}
    BY DEF DealsOf
  <2>3. QED  BY <2>1, <2>2
<1>8. \A l \in Packages : l # k => DealsOf(l)' = DealsOf(l)
  BY <1>2, <1>5, <1>6 DEF DealsOf
<1>9. QED  BY <1>2, <1>3, <1>7, <1>8

LEMMA BookedProgress ==
  ASSUME TakeTurns, VettingInv, Booked, NEW r \in Requests, DeskProgress(r)
  PROVE  Booked'
<1> DEFINE d == desk[r]
<1>1. Typed /\ StockIsKnown(r) /\ DeskIsKnown(r)
  BY DEF VettingInv, Vetting, Booked
<1>2. CASE WriteTicket(r) \/ WriteDecision(r) \/ ActivateTrip(r)
  <2>1. UNCHANGED <<package, deal>> /\ Left(r)
    BY <1>1, <1>2, ThenFree
    DEF WriteTicket, WriteDecision, OnRejection, ActivateTrip
  <2>2. QED  BY <2>1, FreeStock, BookedKept DEF DealsOf
<1>3. CASE WritePublished(r) \/ WriteCancelled(r)
  <2>1. /\ d.at \in {"publish", "cancel"} /\ UNCHANGED deal /\ Left(r)
        /\ \E s \in {"DRAFT", "PUBLISHED", "CANCELLED"} :
             package' = [package EXCEPT ![d.package] = s]
    BY <1>1, <1>3, ThenFree DEF WritePublished, WriteCancelled, Finished, Working
  <2>2. d.package \in Packages /\ package[d.package] # "RESERVED"
    BY <1>1, <2>1, DeskForm DEF StockIsKnown, Cancellable
  <2>3. WorksOn(r, d.package)  BY <2>1 DEF WorksOn
  <2>4. QED  BY <1>1, <2>1, <2>2, <2>3, StockWritten, RestockBooked
<1>4. CASE FindExistingDeal(r)
  <2>1. UNCHANGED <<package, deal>> /\ d.at = "existing" /\ d \in Handler
    BY <1>1, <1>4, DeskForm DEF FindExistingDeal, ReadOnly, rows, Working
  <2>2. Alone(r) /\ (desk'[r] = Free \/ desk'[r] = [d EXCEPT !.at = "reserve"])
    BY <1>1, <1>4
    DEF FindExistingDeal, Leave, Sit, Typed, BookingTypeOK, Alone
  <2>3. StockIsKnown(r)'
    <3>1. CASE desk'[r] = Free  BY <3>1 DEF StockIsKnown, Free
    <3>2. CASE desk'[r] = [d EXCEPT !.at = "reserve"]
      <4>1. desk'[r].at = "reserve" /\ desk'[r].package = d.package
        BY <2>1, <3>2 DEF Handler
      <4>2. QED  BY <1>1, <2>1, <4>1 DEF StockIsKnown
    <3>3. QED  BY <2>2, <3>1, <3>2
  <2>4. QED  BY <2>1, <2>2, <2>3, StockRead, BookedKept DEF DealsOf
<1>5. ASSUME NEW t \in Deals, ReservePackage(r, t)  PROVE Booked'
  <2>1. PICK k \in Packages : k = d.package
    BY <1>1, <1>5, DeskForm DEF ReservePackage, Working
  <2>2. /\ package[k] = "PUBLISHED" /\ DealsOf(k)' = {t}
        /\ \A l \in Packages : l # k => DealsOf(l)' = DealsOf(l)
    BY <1>5, <2>1, ReserveDeals
  <2>3. package' = [package EXCEPT ![k] = "RESERVED"] /\ Left(r)
    BY <1>1, <1>5, <2>1, ThenFree DEF ReservePackage, ReservedStatus
  <2>4. /\ package'[k] = "RESERVED"
        /\ \A l \in Packages : l # k => package'[l] = package[l]
    BY <1>1, <2>3 DEF Typed, BookingTypeOK
  <2>5. ASSUME NEW l \in Packages
        PROVE  /\ package'[l] = "RESERVED" <=> DealsOf(l)' # {}
               /\ \A u, v \in DealsOf(l)' : u = v
    <3>1. CASE l = k  BY <2>2, <2>4, <3>1
    <3>2. CASE l # k
      <4>1. DealsOf(l)' = DealsOf(l) /\ package'[l] = package[l]
        BY <2>2, <2>4, <3>2
      <4>2. QED  BY <4>1 DEF Booked, BookedIsReserved
    <3>3. QED  BY <3>1, <3>2
  <2>6. \A q \in Requests : StockIsKnown(q)'
    <3>1. WorksOn(r, k)  BY <1>5, <2>1 DEF ReservePackage, Working, WorksOn
    <3>2. QED  BY <1>1, <2>3, <3>1, StockWritten
  <2>7. QED  BY <2>5, <2>6 DEF Booked, BookedIsReserved
<1>6. CASE CheckTravelerKyc(r)
  <2>1. UNCHANGED <<package, deal>> /\ d.at = "kyc" /\ d \in Cashier
    BY <1>1, <1>6, DeskForm DEF CheckTravelerKyc, ReadOnly, rows, Working
  <2>2. Alone(r) /\ (desk'[r] = Free \/ desk'[r] = [d EXCEPT !.at = "pay"])
    BY <1>1, <1>6
    DEF CheckTravelerKyc, Leave, Sit, Typed, BookingTypeOK, Alone
  <2>3. desk'[r].at \in {"free", "pay"}  BY <2>1, <2>2 DEF Free, Cashier
  <2>4. StockIsKnown(r)'  BY <2>3 DEF StockIsKnown
  <2>5. QED  BY <2>1, <2>2, <2>4, StockRead, BookedKept DEF DealsOf
<1>7. CASE WritePayment(r)
  <2>1. \A k \in Packages : DealsOf(k)' = DealsOf(k)
    BY <1>7, PaymentSameDeals
  <2>2. UNCHANGED package /\ Left(r)
    BY <1>1, <1>7, ThenFree DEF WritePayment
  <2>3. QED  BY <2>1, <2>2, FreeStock, BookedKept
<1>8. QED  BY <1>2, <1>3, <1>4, <1>5, <1>6, <1>7 DEF DeskProgress

LEMMA BookedReceive ==
  ASSUME TakeTurns, VettingInv, Booked, NEW r \in Requests, DeskReceive(r)
  PROVE  Booked'
<1>1. Typed  BY DEF VettingInv
<1>2. CASE \E p \in Trips : CreateTrip(r, p)
  <2>1. UNCHANGED <<package, deal>> /\ Left(r)
    BY <1>1, <1>2, ThenFree DEF CreateTrip
  <2>2. QED  BY <2>1, FreeStock, BookedKept DEF DealsOf
<1>3. CASE \E u \in Users, s \in KycUpdates : SetUserKycStatus(r, u, s)
  <2>1. UNCHANGED <<package, deal>> /\ Left(r)
    BY <1>1, <1>3, ThenFree DEF SetUserKycStatus
  <2>2. QED  BY <2>1, FreeStock, BookedKept DEF DealsOf
<1>4. ASSUME NEW k \in Packages, CreatePackage(r, k)  PROVE Booked'
  <2>1. /\ UNCHANGED deal /\ Left(r) /\ package[k] = "NONE"
        /\ package' = [package EXCEPT ![k] = "DRAFT"]
    BY <1>1, <1>4, ThenFree DEF CreatePackage
  <2>2. QED  BY <1>1, <2>1, StockWritten, RestockBooked
<1>5. ASSUME NEW d, Sit(r, d), ReadOnly,
             d.at = "publish" => package[d.package] = "DRAFT",
             d.at = "cancel" => Cancellable(d.package),
             d.at \in {"existing", "reserve"} => package[d.package] = "PUBLISHED"
      PROVE  Booked'
  <2>1. UNCHANGED <<package, deal>> /\ desk'[r] = d /\ Alone(r)
    BY <1>1, <1>5 DEF ReadOnly, rows, Sit, Typed, BookingTypeOK, Alone
  <2>2. StockIsKnown(r)'  BY <1>5, <2>1 DEF StockIsKnown, Cancellable
  <2>3. QED  BY <2>1, <2>2, StockRead, BookedKept DEF DealsOf
<1>6. CASE \E p \in Trips :
             \/ SubmitTicket(r, p) \/ PublishTrip(r, p)
             \/ \E decision \in {"VERIFIED", "REJECTED"} :
                  AdminVerifyTicket(r, p, decision)
  <2>1. PICK d : d.at \in {"ticket", "activate", "verify"} /\ Sit(r, d) /\ ReadOnly
    BY <1>6 DEF SubmitTicket, PublishTrip, AdminVerifyTicket
  <2>2. QED  BY <1>5, <2>1
<1>7. ASSUME NEW k \in Packages,
             \/ PublishPackage(r, k) \/ CancelPackage(r, k)
             \/ \E p \in Trips : CreateDeal(r, p, k)
      PROVE  Booked'
  <2>1. CASE PublishPackage(r, k)
    <3> DEFINE d == [at |-> "publish", package |-> k]
    <3>1. Sit(r, d) /\ ReadOnly /\ package[d.package] = "DRAFT"
      BY <2>1 DEF PublishPackage
    <3>2. QED  BY <1>5, <3>1
  <2>2. CASE CancelPackage(r, k)
    <3> DEFINE d == [at |-> "cancel", package |-> k]
    <3>1. Sit(r, d) /\ ReadOnly /\ Cancellable(d.package)
      BY <2>2 DEF CancelPackage
    <3>2. QED  BY <1>5, <3>1
  <2>3. ASSUME NEW p \in Trips, CreateDeal(r, p, k)  PROVE Booked'
    <3> DEFINE d == [at |-> "existing", trip |-> p, package |-> k]
    <3>1. Sit(r, d) /\ ReadOnly /\ package[d.package] = "PUBLISHED"
      BY <2>3 DEF CreateDeal
    <3>2. QED  BY <1>5, <3>1
  <2>4. QED  BY <1>7, <2>1, <2>2, <2>3
<1>8. CASE \E t \in Deals, ps \in PaymentStatus : MarkDealPayment(r, t, ps)
  <2>1. PICK d : d.at \in {"kyc", "pay"} /\ Sit(r, d) /\ ReadOnly
    BY <1>8 DEF MarkDealPayment
  <2>2. QED  BY <1>5, <2>1
<1>9. QED  BY <1>2, <1>3, <1>4, <1>6, <1>7, <1>8 DEF DeskReceive

\* Neither a row nor a desk: steps of AbandonmentService, and none.
NoDesk ==
  \/ AbandonmentStep \/ UNCHANGED bookingVars
  \/ \E r \in Requests, s \in Subjects : UserMarks(r, s)
  \/ \E r \in Requests, e \in Events : UserResolves(r, e)

LEMMA NoDeskKeeps == NoDesk => UNCHANGED <<rows, desk>>
BY DEF NoDesk, AbandonmentStep, UserMarks, UserResolves, bookingVars

LEMMA BookedInit == BookingInit => Booked
BY DEF BookingInit, Booked, BookedIsReserved, DealsOf, StockIsKnown, Free

LEMMA BookedStep ==
  TakeTurns /\ VettingInv /\ Booked /\ [BookingNext]_bookingVars => Booked'
<1> SUFFICES ASSUME TakeTurns, VettingInv, Booked, [BookingNext]_bookingVars
             PROVE  Booked'
  OBVIOUS
<1>1. CASE NoDesk
  BY <1>1, NoDeskKeeps, BookedKept
  DEF rows, DealsOf, Booked, StockIsKnown, Cancellable
<1>2. ASSUME NEW r \in Requests, DeskProgress(r) \/ DeskReceive(r)  PROVE Booked'
  BY <1>2, BookedProgress, BookedReceive
<1>3. ASSUME NEW t \in Deals, NEW s \in Updates, UpdateDealStatus(t, s)
      PROVE  Booked'
  <2>1. Typed  BY DEF VettingInv
  <2>2. UNCHANGED <<package, desk>>  BY <1>3 DEF UpdateDealStatus
  <2>3. \A k \in Packages : DealsOf(k)' = DealsOf(k)
    BY <1>3, <2>1, StatusSameDeals, UpdatesAssumption
  <2>4. QED
    BY <2>2, <2>3, BookedKept DEF Booked, StockIsKnown, Cancellable
<1>4. QED  BY <1>1, <1>2, <1>3 DEF BookingNext, NoDesk

LEMMA AlwaysBooked == TurnsSpec => [](TakeTurns /\ VettingInv /\ Booked)
<1>1. TakeTurns /\ VettingInv /\ Booked /\ [BookingNext /\ TakeTurns']_bookingVars
        => (TakeTurns /\ VettingInv /\ Booked)'
  BY TurnsStep, VettingStep, BookedStep
<1>2. QED  BY <1>1, TurnsInit, VettingInit, BookedInit, PTL DEF TurnsSpec

(***************************************************************************)
(* If the requests about one package take turns, it has at most one        *)
(* transaction, whatever the others do meanwhile and whatever the sequence *)
(* of calls (TransactionService.create, updateStatus to CANCELLED and      *)
(* back, PackageService.cancel and publish).                               *)
(***************************************************************************)
THEOREM BookedInTurns == TurnsSpec => []BookedOnce
<1>1. Booked => BookedOnce  BY DEF Booked, BookedOnce
<1>2. QED  BY <1>1, AlwaysBooked, PTL

\* And the package is RESERVED exactly as long as there is one.
THEOREM ReservedInTurns == TurnsSpec => []BookedIsReserved
<1>1. Booked => BookedIsReserved  BY DEF Booked
<1>2. QED  BY <1>1, AlwaysBooked, PTL

-----------------------------------------------------------------------------
(* Requests about one row take turns: trips, packages and bookings behave  *)
(* like a Catalogue.                                                       *)

\* What a request has read of its trip is still so.
TripIsKnown(r) ==
  LET d == desk[r]
  IN  /\ d.at \in {"ticket", "activate"} => trip[d.trip].status = "DRAFT"
      /\ d.at = "activate" => Verified(d.trip)

TripsAreKnown == \A r \in Requests : TripIsKnown(r)

LEMMA TripRead ==
  ASSUME TripsAreKnown, NEW r \in Requests, Alone(r), UNCHANGED trip,
         desk'[r].at \in {"ticket", "activate"} => TripIsKnown(r)'
  PROVE  TripsAreKnown'
BY DEF TripsAreKnown, TripIsKnown, Alone, Verified

\* The trip a request writes is nobody else's.
LEMMA TripTurn ==
  ASSUME Typed, TakeTurns, TripsAreKnown, NEW r \in Requests, Left(r),
         NEW p \in Trips, trip[p] = NoTrip \/ WorksOn(r, p),
         \A q \in Trips : q # p => trip'[q] = trip[q]
  PROVE  TripsAreKnown'
<1> SUFFICES ASSUME NEW q \in Requests  PROVE TripIsKnown(q)'
  BY DEF TripsAreKnown
<1>1. CASE q = r  BY <1>1 DEF Left, TripIsKnown, Free
<1>2. CASE q # r
  <2> DEFINE d == desk[q]
  <2>1. CASE d.at \in {"ticket", "activate"}
    <3>1. d.trip \in Trips  BY <2>1, DeskForm
    <3>2. TripIsKnown(q) /\ trip[d.trip] # NoTrip
      BY <2>1 DEF TripsAreKnown, TripIsKnown, NoTrip
    <3>3. d.trip # p
      <4>1. d.trip = p => WorksOn(q, p)  BY <2>1 DEF WorksOn
      <4>2. QED  BY <1>2, <3>2, <4>1, SubjectTypes DEF TakeTurns
    <3>4. QED
      BY <1>2, <3>1, <3>2, <3>3 DEF Left, Alone, TripIsKnown, Verified
  <2>2. CASE d.at \notin {"ticket", "activate"}
    BY <1>2, <2>2 DEF Left, Alone, TripIsKnown
  <2>3. QED  BY <2>1, <2>2
<1>3. QED  BY <1>1, <1>2

LEMMA TripKnownProgress ==
  ASSUME TakeTurns, Typed, TripsAreKnown, NEW r \in Requests, DeskProgress(r)
  PROVE  TripsAreKnown'
<1> DEFINE d == desk[r]
<1>1. CASE WriteTicket(r) \/ WriteDecision(r) \/ ActivateTrip(r)
  <2>1. PICK p \in Trips : p = d.trip
    BY <1>1, DeskForm DEF WriteTicket, WriteDecision, ActivateTrip, Working
  <2>2. Left(r)
    BY <1>1, ThenFree DEF WriteTicket, WriteDecision, OnRejection, ActivateTrip
  <2>3. WorksOn(r, p)
    BY <1>1, <2>1 DEF WriteTicket, WriteDecision, ActivateTrip, Working, WorksOn
  <2>4. \A q \in Trips : q # p => trip'[q] = trip[q]
    BY <1>1, <2>1
    DEF WriteTicket, WriteDecision, ActivateTrip, Typed, BookingTypeOK
  <2>5. QED  BY <2>2, <2>3, <2>4, TripTurn
<1>2. CASE \/ WritePublished(r) \/ WriteCancelled(r) \/ WritePayment(r)
           \/ \E t \in Deals : ReservePackage(r, t)
  <2>1. UNCHANGED trip /\ Left(r)
    BY <1>2, ThenFree
    DEF WritePublished, WriteCancelled, Finished, WritePayment, ReservePackage
  <2>2. QED  BY <2>1, TripRead DEF Left, Free
<1>3. CASE FindExistingDeal(r) \/ CheckTravelerKyc(r)
  <2>1. UNCHANGED trip /\ (d \in Handler \/ d \in Cashier)
    BY <1>3, DeskForm
    DEF FindExistingDeal, CheckTravelerKyc, ReadOnly, rows, Working
  <2>2. /\ Alone(r)
        /\ \/ desk'[r] = Free
           \/ desk'[r] = [d EXCEPT !.at = "reserve"]
           \/ desk'[r] = [d EXCEPT !.at = "pay"]
    BY <1>3
    DEF FindExistingDeal, CheckTravelerKyc, Leave, Sit, Typed, BookingTypeOK,
        Alone
  <2>3. desk'[r].at \in {"free", "reserve", "pay"}
    BY <2>1, <2>2 DEF Handler, Cashier, Free
  <2>4. QED  BY <2>1, <2>2, <2>3, TripRead
<1>4. QED  BY <1>1, <1>2, <1>3 DEF DeskProgress

LEMMA TripKnownReceive ==
  ASSUME TakeTurns, Typed, TripsAreKnown, NEW r \in Requests, DeskReceive(r)
  PROVE  TripsAreKnown'
<1>1. ASSUME NEW p \in Trips, CreateTrip(r, p)  PROVE TripsAreKnown'
  <2>1. /\ Left(r) /\ trip[p] = NoTrip
        /\ \A q \in Trips : q # p => trip'[q] = trip[q]
    BY <1>1, ThenFree DEF CreateTrip, Typed, BookingTypeOK
  <2>2. QED  BY <2>1, TripTurn
<1>2. CASE \/ \E k \in Packages : CreatePackage(r, k)
           \/ \E u \in Users, s \in KycUpdates : SetUserKycStatus(r, u, s)
  <2>1. UNCHANGED trip /\ Left(r)
    BY <1>2, ThenFree DEF CreatePackage, SetUserKycStatus
  <2>2. QED  BY <2>1, TripRead DEF Left, Free
<1>3. ASSUME NEW d, Sit(r, d), ReadOnly,
             d.at \in {"ticket", "activate"} => trip[d.trip].status = "DRAFT",
             d.at = "activate" => Verified(d.trip)
      PROVE  TripsAreKnown'
  <2>1. UNCHANGED trip /\ desk'[r] = d /\ Alone(r)
    BY <1>3 DEF ReadOnly, rows, Sit, Typed, BookingTypeOK, Alone
  <2>2. TripIsKnown(r)'  BY <1>3, <2>1 DEF TripIsKnown, Verified
  <2>3. QED  BY <2>1, <2>2, TripRead
<1>4. ASSUME NEW p \in Trips, SubmitTicket(r, p) \/ PublishTrip(r, p)
      PROVE  TripsAreKnown'
  <2>1. PICK point \in {"ticket", "activate"} :
          /\ Sit(r, [at |-> point, trip |-> p]) /\ ReadOnly
          /\ trip[p].status = "DRAFT"
          /\ point = "activate" => Verified(p)
    BY <1>4 DEF SubmitTicket, PublishTrip
  <2> DEFINE d == [at |-> point, trip |-> p]
  <2>2. d.at = point /\ d.trip = p  OBVIOUS
  <2> HIDE DEF d
  <2>3. Sit(r, d)  BY <2>1 DEF d
  <2>4. QED  BY <1>3, <2>1, <2>2, <2>3
<1>5. CASE \/ \E p \in Trips, decision \in {"VERIFIED", "REJECTED"} :
                AdminVerifyTicket(r, p, decision)
           \/ \E k \in Packages, p \in Trips : CreateDeal(r, p, k)
  <2>1. PICK d : d.at \in {"verify", "existing"} /\ Sit(r, d) /\ ReadOnly
    BY <1>5 DEF AdminVerifyTicket, CreateDeal
  <2>2. QED  BY <1>3, <2>1
<1>6. CASE \E t \in Deals, ps \in PaymentStatus : MarkDealPayment(r, t, ps)
  <2>1. PICK d : d.at \in {"kyc", "pay"} /\ Sit(r, d) /\ ReadOnly
    BY <1>6 DEF MarkDealPayment
  <2>2. QED  BY <1>3, <2>1
<1>7. CASE \E k \in Packages : PublishPackage(r, k) \/ CancelPackage(r, k)
  <2>1. PICK d : d.at \in {"publish", "cancel"} /\ Sit(r, d) /\ ReadOnly
    BY <1>7 DEF PublishPackage, CancelPackage
  <2>2. QED  BY <1>3, <2>1
<1>8. QED  BY <1>1, <1>2, <1>4, <1>5, <1>6, <1>7 DEF DeskReceive

LEMMA TripKnownInit == BookingInit => TripsAreKnown
BY DEF BookingInit, TripsAreKnown, TripIsKnown, Free

LEMMA TripKnownStep ==
  TakeTurns /\ Typed /\ TripsAreKnown /\ [BookingNext]_bookingVars
    => TripsAreKnown'
<1> SUFFICES ASSUME TakeTurns, Typed, TripsAreKnown, [BookingNext]_bookingVars
             PROVE  TripsAreKnown'
  OBVIOUS
<1>1. CASE \/ NoDesk
           \/ \E t \in Deals, s \in Updates : UpdateDealStatus(t, s)
  BY <1>1, NoDeskKeeps
  DEF UpdateDealStatus, rows, TripsAreKnown, TripIsKnown, Verified
<1>2. ASSUME NEW r \in Requests, DeskProgress(r) \/ DeskReceive(r)
      PROVE  TripsAreKnown'
  BY <1>2, TripKnownProgress, TripKnownReceive
<1>3. QED  BY <1>1, <1>2 DEF BookingNext, NoDesk

Shelves == [k \in Packages |-> DealsOf(k)]

LEMMA SameShelves ==
  ASSUME \A k \in Packages : DealsOf(k)' = DealsOf(k)
  PROVE  UNCHANGED Shelves
BY DEF Shelves

\* The writes of a desk are steps of Catalogue.
LEMMA ShelfProgress ==
  ASSUME VettingInv, Booked, TripsAreKnown, NEW r \in Requests, DeskProgress(r)
  PROVE  Shelf!Next \/ UNCHANGED <<trip, package, Shelves>>
<1> DEFINE d == desk[r]
<1>1. Typed /\ DeskIsKnown(r) /\ StockIsKnown(r) /\ TripIsKnown(r)
  BY DEF VettingInv, Vetting, Booked, TripsAreKnown
<1>2. CASE WriteTicket(r) \/ WriteDecision(r) \/ ActivateTrip(r)
  <2>1. PICK p \in Trips : p = d.trip
    BY <1>1, <1>2, DeskForm DEF WriteTicket, WriteDecision, ActivateTrip, Working
  <2>2. UNCHANGED <<package, Shelves>>
    BY <1>2, SameShelves DEF WriteTicket, WriteDecision, ActivateTrip, DealsOf
  <2>3. CASE WriteTicket(r)
    <3>1. Shelf!GiveTicket(p)
      BY <1>1, <2>1, <2>2, <2>3
      DEF WriteTicket, Working, TripIsKnown, Shelf!GiveTicket, Shelves
    <3>2. QED  BY <3>1 DEF Shelf!Next
  <2>4. CASE WriteDecision(r)
    <3>1. d.decision \in {"VERIFIED", "REJECTED"} /\ trip[p] # NoTrip
      BY <1>1, <2>1, <2>4, DeskForm DEF WriteDecision, Working, DeskIsKnown
    <3>2. Shelf!Decide(p, d.decision)
      BY <2>1, <2>2, <2>4, <3>1
      DEF WriteDecision, Shelf!Decide, Shelf!NoTrip, NoTrip, Shelves
    <3>3. QED  BY <3>1, <3>2 DEF Shelf!Next
  <2>5. CASE ActivateTrip(r)
    <3>1. Shelf!OfferTrip(p)
      BY <1>1, <2>1, <2>2, <2>5
      DEF ActivateTrip, Working, TripIsKnown, Verified, Shelf!OfferTrip, Shelves
    <3>2. QED  BY <3>1 DEF Shelf!Next
  <2>6. QED  BY <1>2, <2>3, <2>4, <2>5
<1>3. CASE WritePublished(r) \/ WriteCancelled(r)
  <2>1. PICK k \in Packages : k = d.package
    BY <1>1, <1>3, DeskForm DEF WritePublished, WriteCancelled, Working
  <2>2. UNCHANGED <<trip, Shelves>>
    BY <1>3, SameShelves DEF WritePublished, WriteCancelled, DealsOf
  <2>3. package[k] \in PackageStatus \cup {"NONE"}
    BY <1>1 DEF Typed, BookingTypeOK
  <2>4. \/ Shelf!Move(k, {"DRAFT"}, "PUBLISHED")
        \/ Shelf!Move(k, {"DRAFT", "PUBLISHED"}, "CANCELLED")
    BY <1>1, <1>3, <2>1, <2>3
    DEF WritePublished, WriteCancelled, Working, StockIsKnown, Cancellable,
        PackageStatus, Shelf!Move
  <2>5. Shelf!Restock(k)  BY <2>2, <2>4 DEF Shelf!Restock, Shelves
  <2>6. QED  BY <2>5 DEF Shelf!Next
<1>4. ASSUME NEW t \in Deals, ReservePackage(r, t)  PROVE Shelf!Next
  <2>1. PICK k \in Packages, p \in Trips : k = d.package /\ p = d.trip
    BY <1>1, <1>4, DeskForm DEF ReservePackage, Working
  <2>2. trip[p].status = "ACTIVE" /\ UNCHANGED trip
        /\ package' = [package EXCEPT ![k] = "RESERVED"]
    BY <1>1, <1>4, <2>1
    DEF ReservePackage, Working, DeskIsKnown, ReservedStatus
  <2>3. /\ package[k] = "PUBLISHED" /\ DealsOf(k) = {} /\ DealsOf(k)' = {t}
        /\ \A l \in Packages : l # k => DealsOf(l)' = DealsOf(l)
    BY <1>4, <2>1, ReserveDeals
  <2>4. Shelves' = [Shelves EXCEPT ![k] = {t}] /\ Shelves[k] = {}
    BY <2>3 DEF Shelves
  <2>5. Shelf!Book(k, t, p)
    BY <2>2, <2>3, <2>4 DEF Shelf!Book, Shelf!Move, Shelves
  <2>6. QED  BY <2>5 DEF Shelf!Next
<1>5. CASE WritePayment(r)
  BY <1>5, PaymentSameDeals, SameShelves DEF WritePayment
<1>6. CASE FindExistingDeal(r) \/ CheckTravelerKyc(r)
  BY <1>6, SameShelves
  DEF FindExistingDeal, CheckTravelerKyc, ReadOnly, rows, DealsOf
<1>7. QED  BY <1>2, <1>3, <1>4, <1>5, <1>6 DEF DeskProgress

LEMMA ShelfReceive ==
  ASSUME Typed, NEW r \in Requests, DeskReceive(r)
  PROVE  Shelf!Next \/ UNCHANGED <<trip, package, Shelves>>
<1>1. ASSUME NEW p \in Trips, CreateTrip(r, p)  PROVE Shelf!Next
  <2>1. UNCHANGED <<package, Shelves>>
    BY <1>1, SameShelves DEF CreateTrip, DealsOf
  <2>2. Shelf!OpenTrip(p)
    BY <1>1, <2>1
    DEF CreateTrip, Shelf!OpenTrip, Shelf!NoTrip, NoTrip, Shelves
  <2>3. QED  BY <2>2 DEF Shelf!Next
<1>2. ASSUME NEW k \in Packages, CreatePackage(r, k)  PROVE Shelf!Next
  <2>1. UNCHANGED <<trip, Shelves>>
    BY <1>2, SameShelves DEF CreatePackage, DealsOf
  <2>2. Shelf!Restock(k)
    BY <1>2, <2>1 DEF CreatePackage, Shelf!Restock, Shelf!Move, Shelves
  <2>3. QED  BY <2>2 DEF Shelf!Next
<1>3. CASE UNCHANGED <<trip, package, deal>>
  BY <1>3, SameShelves DEF DealsOf
<1>4. QED
  BY <1>1, <1>2, <1>3
  DEF DeskReceive, SubmitTicket, PublishTrip, AdminVerifyTicket,
      PublishPackage, CancelPackage, CreateDeal, MarkDealPayment,
      SetUserKycStatus, ReadOnly, rows

LEMMA ShelfStep ==
  VettingInv /\ Booked /\ TripsAreKnown /\ [BookingNext]_bookingVars
    => [Shelf!Next]_<<trip, package, Shelves>>
<1> SUFFICES ASSUME VettingInv, Booked, TripsAreKnown, [BookingNext]_bookingVars
             PROVE  Shelf!Next \/ UNCHANGED <<trip, package, Shelves>>
  OBVIOUS
<1>1. Typed  BY DEF VettingInv
<1>2. CASE NoDesk
  BY <1>2, NoDeskKeeps, SameShelves DEF rows, DealsOf
<1>3. ASSUME NEW r \in Requests, DeskProgress(r) \/ DeskReceive(r)
      PROVE  Shelf!Next \/ UNCHANGED <<trip, package, Shelves>>
  BY <1>1, <1>3, ShelfProgress, ShelfReceive
<1>4. ASSUME NEW t \in Deals, NEW s \in Updates, UpdateDealStatus(t, s)
      PROVE  UNCHANGED <<trip, package, Shelves>>
  BY <1>1, <1>4, StatusSameDeals, SameShelves, UpdatesAssumption
  DEF UpdateDealStatus
<1>5. QED  BY <1>2, <1>3, <1>4 DEF BookingNext, NoDesk

(***************************************************************************)
(* Handlers that take turns on each row implement Catalogue: every write   *)
(* of TripService, PackageService and TransactionService.create is a step  *)
(* that is legal on the rows as they are, although it was decided on       *)
(* before an await.                                                        *)
(***************************************************************************)
THEOREM TurnsImplementCatalogue == TurnsSpec => OffersAreAtomic
<1>1. BookingInit => Shelf!Init
  BY DEF BookingInit, Shelf!Init, Shelf!NoTrip, NoTrip, DealsOf
<1>2. BookingInit => TripsAreKnown  BY TripKnownInit
<1>3. TakeTurns /\ VettingInv /\ TripsAreKnown
        /\ [BookingNext /\ TakeTurns']_bookingVars => TripsAreKnown'
  BY TripKnownStep DEF VettingInv
<1>4. VettingInv /\ Booked /\ TripsAreKnown
        /\ [BookingNext /\ TakeTurns']_bookingVars
        => [Shelf!Next]_<<trip, package, [k \in Packages |-> DealsOf(k)]>>
  BY ShelfStep DEF Shelves
<1>5. QED
  BY <1>1, <1>2, <1>3, <1>4, AlwaysBooked, PTL
  DEF TurnsSpec, OffersAreAtomic, Shelf!Spec

-----------------------------------------------------------------------------
(* Requests about one row take turns: one event for each subject. *)

\* Who is about to create an event has found none, and there still is none.
Searched(r) == At(r, "create") => ~Reminded(call[r].subject)

OnceInv ==
  SilentInv /\ TakeTurns /\ RemindedOnce /\ \A r \in Requests : Searched(r)

\* A request about another subject than the one whose event is written.
LEMMA SearchedKept ==
  ASSUME NEW r \in Requests, Searched(r), call'[r] = call[r],
         At(r, "create") =>
           ActiveEvents(call[r].subject)' \subseteq ActiveEvents(call[r].subject)
  PROVE  Searched(r)'
BY DEF Searched, At, Reminded

\* No step of a desk creates an event.
LEMMA DeskSearches ==
  ASSUME VettingInv, DeskFirst, NEW r \in Requests,
         DeskProgress(r) \/ DeskReceive(r)
  PROVE  ~At(r, "create")'
<1>1. Typed  BY DEF VettingInv
<1>2. call[r] = Idle  BY DeskTurn
<1>3. ASSUME NEW s, ThenMark(r, s) \/ ThenSeek(r, s) \/ ThenReturn(r)
      PROVE  ~At(r, "create")'
  BY <1>1, <1>2, <1>3
  DEF ThenMark, ThenSeek, ThenReturn, Mark, Seek, Goto, At, Idle,
      abandonmentVars, Typed, Sound, AbandonmentTypeOK
<1>4. ASSUME ReadOnly  PROVE ~At(r, "create")'
  BY <1>2, <1>4 DEF ReadOnly, abandonmentVars, At, Idle
<1>5. \/ \E s : ThenMark(r, s) \/ ThenSeek(r, s) \/ ThenReturn(r)
      \/ ReadOnly
  <2>1. CASE WriteTicket(r) \/ WriteDecision(r) \/ ActivateTrip(r)
    BY <2>1 DEF WriteTicket, WriteDecision, OnRejection, ActivateTrip
  <2>2. CASE WritePublished(r) \/ WriteCancelled(r) \/ FindExistingDeal(r)
    BY <2>2 DEF WritePublished, WriteCancelled, Finished, FindExistingDeal
  <2>3. CASE \/ CheckTravelerKyc(r) \/ WritePayment(r)
             \/ \E t \in Deals : ReservePackage(r, t)
    BY <2>3 DEF ReservePackage, CheckTravelerKyc, WritePayment
  <2>4. CASE DeskReceive(r)
    BY <2>4
    DEF DeskReceive, CreateTrip, SubmitTicket, PublishTrip, AdminVerifyTicket,
        CreatePackage, PublishPackage, CancelPackage, CreateDeal,
        MarkDealPayment, SetUserKycStatus
  <2>5. QED  BY <2>1, <2>2, <2>3, <2>4 DEF DeskProgress
<1>6. QED  BY <1>3, <1>4, <1>5

LEMMA OnceProgress ==
  ASSUME OnceInv, NEW r \in Requests, Progress(r)
  PROVE  RemindedOnce' /\ \A q \in Requests : Searched(q)'
<1>1. /\ Sound /\ TakeTurns /\ RemindedOnce /\ \A q \in Requests : Searched(q)
      /\ AbandonmentTypeOK
  BY DEF OnceInv, SilentInv, VettingInv, Typed, BookingTypeOK
<1>2. \A q \in Requests : q # r => call'[q] = call[q]  BY <1>1, CallAlone
<1>3. ASSUME \A s \in Subjects : ActiveEvents(s)' \subseteq ActiveEvents(s),
             Searched(r)'
      PROVE  RemindedOnce' /\ \A q \in Requests : Searched(q)'
  <2>1. RemindedOnce'  BY <1>1, <1>3 DEF RemindedOnce
  <2>2. ASSUME NEW q \in Requests, q # r  PROVE Searched(q)'
    <3>1. At(q, "create") => call[q].subject \in Subjects
      BY <1>1 DEF AbandonmentTypeOK, Call, Idle, At
    <3>2. QED  BY <1>1, <1>2, <1>3, <2>2, <3>1, SearchedKept
  <2>3. QED  BY <1>3, <2>1, <2>2
<1>4. CASE FindEvent(r)
  <2>1. UNCHANGED event /\ \A s : ActiveEvents(s)' = ActiveEvents(s)
    BY <1>4 DEF FindEvent, ActiveEvents
  <2>2. CASE ActiveEvents(call[r].subject) # {}
    <3>1. call'[r] = Idle
      BY <1>1, <1>4, <2>2 DEF FindEvent, Return, Goto, AbandonmentTypeOK
    <3>2. QED  BY <1>3, <2>1, <3>1 DEF Searched, At, Idle
  <2>3. CASE ActiveEvents(call[r].subject) = {}
    <3>1. call'[r].subject = call[r].subject
      BY <1>1, <1>4, <2>3 DEF FindEvent, Goto, AbandonmentTypeOK
    <3>2. ~Reminded(call[r].subject)'  BY <2>1, <2>3, <3>1 DEF Reminded
    <3>3. QED  BY <1>3, <2>1, <3>2 DEF Searched
  <2>4. QED  BY <2>2, <2>3
<1>5. ASSUME NEW e \in Events, CreateEvent(r, e)
      PROVE  RemindedOnce' /\ \A q \in Requests : Searched(q)'
  <2>1. PICK s \in Subjects :
          s = call[r].subject /\ At(r, "create") /\ ActiveEvents(s) = {}
    <3>1. At(r, "create")  BY <1>5 DEF CreateEvent
    <3>2. call[r].subject \in Subjects
      BY <1>1, <3>1 DEF AbandonmentTypeOK, Call, Idle, At
    <3>3. QED  BY <1>1, <3>1, <3>2 DEF Searched, Reminded
  <2>2. /\ ActiveEvents(s)' \subseteq {e}
        /\ \A u \in Subjects : u # s => ActiveEvents(u)' \subseteq ActiveEvents(u)
    <3>1. /\ event'[e].subject = s
          /\ \A f \in Events : f # e => event'[f] = event[f]
      BY <1>1, <1>5, <2>1 DEF CreateEvent, AbandonmentTypeOK
    <3>2. QED  BY <2>1, <3>1 DEF ActiveEvents
  <2>3. RemindedOnce'  BY <1>1, <2>2 DEF RemindedOnce
  <2>4. Searched(r)'
    BY <1>1, <1>5 DEF CreateEvent, Searched, At, Goto, Return, Idle,
                      AbandonmentTypeOK
  <2>5. ASSUME NEW q \in Requests, q # r  PROVE Searched(q)'
    <3>1. At(q, "create") => call[q].subject \in Subjects
      BY <1>1 DEF AbandonmentTypeOK, Call, Idle, At
    <3>2. At(q, "create") => call[q].subject # s
      BY <1>1, <2>1, <2>5 DEF TakeTurns, WorksOn, At
    <3>3. QED  BY <1>1, <1>2, <2>2, <2>5, <3>1, <3>2, SearchedKept
  <2>6. QED  BY <2>3, <2>4, <2>5
<1>6. CASE FindActive(r) \/ CancelJobs(r) \/ SendNext(r)
  <2>1. UNCHANGED event /\ \A s : ActiveEvents(s)' = ActiveEvents(s)
    BY <1>6 DEF FindActive, CancelJobs, SendNext, ActiveEvents
  <2>2. Searched(r)'
    <3>1. CASE FindActive(r)
      BY <1>1, <3>1
      DEF FindActive, Searched, At, Goto, Return, Idle, AbandonmentTypeOK
    <3>2. CASE CancelJobs(r)
      BY <1>1, <3>2
      DEF CancelJobs, Searched, At, Goto, Return, Idle, AbandonmentTypeOK
    <3>3. CASE SendNext(r)
      BY <1>1, <3>3 DEF SendNext, Searched, At, Goto, Idle, AbandonmentTypeOK
    <3>4. QED  BY <1>6, <3>1, <3>2, <3>3
  <2>3. QED  BY <1>3, <2>1, <2>2
<1>7. CASE WriteResolved(r)
  <2>1. \A s : ActiveEvents(s)' \subseteq ActiveEvents(s)
    BY <1>1, <1>7 DEF WriteResolved, ActiveEvents, AbandonmentTypeOK
  <2>2. Searched(r)'
    BY <1>1, <1>7 DEF WriteResolved, Searched, At, Goto, AbandonmentTypeOK
  <2>3. QED  BY <1>3, <2>1, <2>2
<1>8. QED  BY <1>4, <1>5, <1>6, <1>7 DEF Progress

LEMMA OnceInit == BookingInit /\ TakeTurns => OnceInv
BY SilentInit
DEF OnceInv, BookingInit, AbandonmentInit, RemindedOnce, ActiveEvents, Searched,
    At, Idle, NoEvent

LEMMA OnceStep == OnceInv /\ [BookingNext /\ TakeTurns']_bookingVars => OnceInv'
<1> SUFFICES ASSUME OnceInv, [BookingNext /\ TakeTurns']_bookingVars
             PROVE  OnceInv'
  OBVIOUS
<1>1. /\ SilentInv /\ VettingInv /\ DeskFirst /\ TakeTurns /\ RemindedOnce
      /\ \A q \in Requests : Searched(q)
  BY DEF OnceInv, SilentInv
<1>2. SilentInv' /\ TakeTurns'  BY <1>1, SilentStep, TurnsStep
<1> SUFFICES RemindedOnce' /\ \A q \in Requests : Searched(q)'
  BY <1>2 DEF OnceInv
<1>3. ASSUME UNCHANGED event,
             \A q \in Requests : ~At(q, "create")' \/ call'[q] = call[q]
      PROVE  RemindedOnce' /\ \A q \in Requests : Searched(q)'
  <2>1. \A s : ActiveEvents(s)' = ActiveEvents(s)  BY <1>3 DEF ActiveEvents
  <2>2. \A q \in Requests : Searched(q)'
    BY <1>1, <1>3, <2>1, SearchedKept DEF Searched
  <2>3. QED  BY <1>1, <2>1, <2>2 DEF RemindedOnce
<1>4. CASE AbandonmentStep  BY <1>4, OnceProgress DEF AbandonmentStep
<1>5. ASSUME NEW r \in Requests, DeskProgress(r) \/ DeskReceive(r)
      PROVE  RemindedOnce' /\ \A q \in Requests : Searched(q)'
  BY <1>1, <1>3, <1>5, DeskTurn, DeskSearches
<1>6. CASE \E t \in Deals, s \in Updates : UpdateDealStatus(t, s)
  BY <1>3, <1>6 DEF UpdateDealStatus, abandonmentVars
<1>7. CASE UNCHANGED bookingVars
  BY <1>3, <1>7 DEF bookingVars, abandonmentVars
<1>8. ASSUME NEW r \in Requests,
             \/ \E s \in Subjects : UserMarks(r, s)
             \/ \E e \in Events : UserResolves(r, e)
      PROVE  RemindedOnce' /\ \A q \in Requests : Searched(q)'
  <2>1. /\ UNCHANGED event /\ call'[r].at \in {"mark", "resolve"}
        /\ \A q \in Requests : q # r => call'[q] = call[q]
    BY <1>1, <1>8, UserCalls DEF VettingInv
  <2>2. \A q \in Requests : ~At(q, "create")' \/ call'[q] = call[q]
    BY <2>1 DEF At
  <2>3. QED  BY <1>3, <2>1, <2>2
<1>9. QED  BY <1>4, <1>5, <1>6, <1>7, <1>8 DEF BookingNext

(***************************************************************************)
(* If the requests about one row take turns, no subject has two ACTIVE     *)
(* events: the findFirst of AbandonmentService.markAbandoned is enough,    *)
(* although the row and its event are written in different awaits, the     *)
(* user may mark and dismiss it himself, and an admin may reject a ticket, *)
(* which marks the trip again, at any time.                                *)
(***************************************************************************)
THEOREM RemindedOnceInTurns == TurnsSpec => []RemindedOnce
<1>1. OnceInv => RemindedOnce  BY DEF OnceInv
<1>2. QED  BY <1>1, TurnsInit, OnceInit, OnceStep, PTL DEF TurnsSpec

-----------------------------------------------------------------------------
(* Requests about one row take turns: what is unfinished is reminded, what *)
(* is finished is forgotten, as long as the user does not say otherwise.   *)

Unfinished(s) ==
  \/ s \in Trips /\ trip[s].status = "DRAFT"
  \/ s \in Packages /\ package[s] = "DRAFT"
  \/ s \in Deals /\ deal[s] # NoDeal /\ deal[s].payment # "SUCCESS"
  \/ s \in Users /\ kyc[s] = "PENDING"

\* The request has still to open, or to close, the events of s.
Opens(r, s) == call[r].at \in {"mark", "create"} /\ call[r].subject = s

Closes(r, s) ==
  \/ At(r, "seek") /\ call[r].subject = s
  \/ At(r, "resolve") /\ ActiveEvents(s) \subseteq call[r].events

\* What has to have a reminder, and what must not have one.
Due(s) == Unfinished(s) /\ choice[s] # "dismissed"

Done(s) == ~Unfinished(s) /\ choice[s] # "opened" /\ s \notin Trips

SameTask(s) == (Due(s)' <=> Due(s)) /\ (Done(s)' <=> Done(s))

\* No event is opened for what is done, and none closed for what is due.
Apt(r) ==
  LET c == call[r]
  IN  /\ c.at \in {"mark", "create"} => ~Done(c.subject)
      /\ c.at = "seek" => ~Due(c.subject)
      /\ c.at = "resolve" =>
           \A e \in c.events : event[e].status = "ACTIVE" => ~Due(event[e].subject)

\* Who has to open, or to close, an event will still do so.
Tracked(s) ==
  /\ Due(s) => Reminded(s) \/ \E r \in Requests : Opens(r, s)
  /\ Done(s) /\ Reminded(s) => \E r \in Requests : Closes(r, s)

Tracking ==
  /\ \A s \in Subjects : Tracked(s)
  /\ \A r \in Requests : Apt(r)

TrackInv == OnceInv /\ Booked /\ Tracking

LEMMA IsReminded ==
  ASSUME NEW s
  PROVE  /\ Reminded(s) <=> \E e \in Events :
                              event[e].status = "ACTIVE" /\ event[e].subject = s
         /\ Reminded(s)' <=> \E e \in Events :
                               event'[e].status = "ACTIVE" /\ event'[e].subject = s
BY DEF Reminded, ActiveEvents

LEMMA SameTasks ==
  ASSUME UNCHANGED <<rows, choice>>
  PROVE  \A s : SameTask(s)
BY DEF rows, Unfinished, Due, Done, SameTask

\* What a call of AbandonmentService is about.
LEMMA CallAbout ==
  ASSUME Sound, NEW r \in Requests
  PROVE  /\ call[r].at \in {"mark", "create", "seek"} =>
              call[r].subject \in Subjects /\ WorksOn(r, call[r].subject)
         /\ call[r].at = "resolve" =>
              /\ call[r].events \subseteq Events
              /\ \A e \in call[r].events :
                   /\ event[e] # NoEvent /\ event[e].subject \in Subjects
                   /\ WorksOn(r, event[e].subject)
<1>1. call[r] \in Call \cup {Idle} /\ Known(call[r])
      /\ \A e \in Events : event[e] # NoEvent => event[e] \in EventRow
  BY DEF Sound, AbandonmentTypeOK, CallsAreKnown
<1>2. QED  BY <1>1 DEF Call, Idle, Known, EventRow, WorksOn

\* What a request has begun stays apt while nobody writes the rows it is about.
LEMMA AptKept ==
  ASSUME Sound, NEW r \in Requests, Apt(r), call'[r] = call[r],
         \A e \in Events :
           event[e] # NoEvent =>
             /\ event'[e].subject = event[e].subject
             /\ event'[e].status = "ACTIVE" => event[e].status = "ACTIVE",
         \A s \in Subjects : WorksOn(r, s) => SameTask(s)
  PROVE  Apt(r)'
<1>1. CASE call[r].at \in {"mark", "create", "seek"}
  BY <1>1, CallAbout DEF Apt, SameTask
<1>2. CASE call[r].at = "resolve"
  <2>1. ASSUME NEW e \in call[r].events, event'[e].status = "ACTIVE"
        PROVE  ~Due(event[e].subject)'
    <3>1. /\ e \in Events /\ event[e] # NoEvent
          /\ event[e].subject \in Subjects /\ WorksOn(r, event[e].subject)
      BY <1>2, CallAbout
    <3>2. PICK s \in Subjects : s = event[e].subject /\ s = event'[e].subject
      BY <3>1
    <3>3. ~Due(s) /\ SameTask(s)  BY <1>2, <2>1, <3>1, <3>2 DEF Apt
    <3>4. QED  BY <3>2, <3>3 DEF SameTask
  <2>2. QED  BY <1>2, <2>1 DEF Apt
<1>3. CASE call[r].at \notin {"mark", "create", "seek", "resolve"}
  BY <1>3 DEF Apt
<1>4. QED  BY <1>1, <1>2, <1>3

\* Neither an event nor a call changes, nor what is unfinished.
LEMMA TrackedKept ==
  ASSUME Sound, Tracking, UNCHANGED <<event, call>>,
         \A s \in Subjects : SameTask(s)
  PROVE  Tracking'
<1>1. ASSUME NEW s \in Subjects  PROVE Tracked(s)'
  <2>1. /\ Reminded(s)' <=> Reminded(s)
        /\ \A r \in Requests : /\ Opens(r, s)' <=> Opens(r, s)
                               /\ Closes(r, s)' <=> Closes(r, s)
    BY DEF Reminded, ActiveEvents, Opens, Closes, At
  <2>2. QED  BY <2>1 DEF Tracking, Tracked, SameTask
<1>2. \A r \in Requests : Apt(r)'  BY AptKept DEF Tracking
<1>3. QED  BY <1>1, <1>2 DEF Tracking

\* A handler writes the row of s0 and turns to AbandonmentService.
LEMMA TrackedWritten ==
  ASSUME TakeTurns', Typed, Tracking, NEW r \in Requests, call[r] = Idle,
         Alone(r), NEW s0 \in Subjects,
         \A s \in Subjects : s # s0 => (Unfinished(s)' <=> Unfinished(s)),
         \/ ThenMark(r, s0) /\ (s0 \in Trips \/ Unfinished(s0)')
         \/ ThenSeek(r, s0) /\ ~Unfinished(s0)'
  PROVE  Tracking'
<1>1. PICK point \in {"mark", "seek"} :
        /\ call' = [call EXCEPT ![r] = [at |-> point, subject |-> s0]]
        /\ point = "mark" => s0 \in Trips \/ Unfinished(s0)'
        /\ point = "seek" => ~Unfinished(s0)'
  BY DEF ThenMark, ThenSeek, Mark, Seek, Goto
<1>2. UNCHANGED event /\ Chosen(s0, "none")  BY DEF ThenMark, ThenSeek
<1>3. call'[r] = [at |-> point, subject |-> s0]
      /\ \A q \in Requests : q # r => call'[q] = call[q]
  BY <1>1 DEF Typed, Sound, AbandonmentTypeOK
<1>4. choice'[s0] = "none"
      /\ \A s \in Subjects : s # s0 => choice'[s] = choice[s]
  BY <1>2 DEF Chosen, Typed, BookingTypeOK
<1>5. \A s \in Subjects : s # s0 => SameTask(s)
  BY <1>4 DEF SameTask, Due, Done
<1>6. ASSUME NEW s \in Subjects  PROVE Tracked(s)'
  <2>1. Reminded(s)' <=> Reminded(s)  BY <1>2, IsReminded
  <2>2. \A q \in Requests : /\ Opens(q, s) => Opens(q, s)'
                            /\ Closes(q, s) => Closes(q, s)'
    <3>1. ~Opens(r, s) /\ ~Closes(r, s)  BY DEF Opens, Closes, At, Idle
    <3>2. QED  BY <1>2, <1>3, <3>1 DEF Opens, Closes, At, ActiveEvents
  <2>3. Tracked(s)  BY DEF Tracking
  <2>4. CASE s # s0
    BY <1>5, <2>1, <2>2, <2>3, <2>4 DEF Tracked, SameTask
  <2>5. CASE s = s0 /\ point = "mark"
    <3>1. Opens(r, s)'  BY <1>3, <2>5 DEF Opens
    <3>2. QED  BY <1>1, <2>5, <3>1 DEF Tracked, Done
  <2>6. CASE s = s0 /\ point = "seek"
    <3>1. Closes(r, s)'  BY <1>3, <2>6 DEF Closes, At
    <3>2. QED  BY <1>1, <2>6, <3>1 DEF Tracked, Due
  <2>7. QED  BY <2>4, <2>5, <2>6
<1>7. ASSUME NEW q \in Requests  PROVE Apt(q)'
  <2>1. CASE q = r  BY <1>1, <1>3, <2>1 DEF Apt, Due, Done
  <2>2. CASE q # r
    <3>1. WorksOn(r, s0)'  BY <1>3 DEF WorksOn
    <3>2. call'[q] = call[q] /\ desk'[q] = desk[q]
      BY <1>3, <2>2 DEF Alone
    <3>3. \A s : WorksOn(q, s) => WorksOn(q, s)'
      BY <1>2, <3>2 DEF WorksOn
    <3>4. \A s \in Subjects : WorksOn(q, s) => s # s0
      BY <2>2, <3>1, <3>3 DEF TakeTurns
    <3>5. QED  BY <1>2, <1>5, <3>2, <3>4, AptKept DEF Tracking, Typed
  <2>3. QED  BY <2>1, <2>2
<1>8. QED  BY <1>6, <1>7 DEF Tracking

\* No event is opened or closed, and r has gone on as it had to.
LEMMA TrackedRead ==
  ASSUME Sound, Tracking, NEW r \in Requests, UNCHANGED <<rows, event, choice>>,
         \A q \in Requests : q # r => call'[q] = call[q],
         \A s \in Subjects : Opens(r, s) => Reminded(s) \/ Opens(r, s)',
         \A s \in Subjects : Closes(r, s) => ~Reminded(s) \/ Closes(r, s)',
         Apt(r)'
  PROVE  Tracking'
<1>1. \A s : SameTask(s)  BY SameTasks
<1>2. ASSUME NEW s \in Subjects  PROVE Tracked(s)'
  <2>1. Reminded(s)' <=> Reminded(s)  BY IsReminded
  <2>2. \A q \in Requests : q # r => /\ Opens(q, s) => Opens(q, s)'
                                     /\ Closes(q, s) => Closes(q, s)'
    BY DEF Opens, Closes, At, ActiveEvents
  <2>3. QED  BY <1>1, <2>1, <2>2 DEF Tracking, Tracked, SameTask
<1>3. \A q \in Requests : Apt(q)'  BY <1>1, AptKept DEF Tracking
<1>4. QED  BY <1>2, <1>3 DEF Tracking

LEMMA TrackedProgress ==
  ASSUME Sound, Tracking, NEW r \in Requests, Progress(r), UNCHANGED <<rows, choice>>
  PROVE  Tracking'
<1> DEFINE c == call[r]
<1>1. Apt(r) /\ \A s \in Subjects : Tracked(s)  BY DEF Tracking
<1>2. \A s : SameTask(s)  BY SameTasks
<1>3. \A q \in Requests : q # r => call'[q] = call[q]  BY CallAlone
<1>4. CASE FindEvent(r)
  <2>1. c.at = "mark" /\ UNCHANGED event  BY <1>4 DEF FindEvent, At
  <2>2. PICK s0 : s0 = c.subject  OBVIOUS
  <2>3. \A s : ~Closes(r, s)  BY <2>1 DEF Closes, At
  <2>4. \A s : Opens(r, s) => s = s0  BY <2>2 DEF Opens
  <2>5. CASE Reminded(s0)
    <3>1. call'[r] = Idle
      BY <1>4, <2>2, <2>5
      DEF FindEvent, Reminded, Return, Goto, Sound, AbandonmentTypeOK
    <3>2. Apt(r)'  BY <3>1 DEF Apt, Idle
    <3>3. QED  BY <1>3, <2>1, <2>3, <2>4, <2>5, <3>2, TrackedRead
  <2>6. CASE ~Reminded(s0)
    <3>1. call'[r] = [at |-> "create", subject |-> s0]
      BY <1>4, <2>2, <2>6 DEF FindEvent, Reminded, Goto, Sound, AbandonmentTypeOK
    <3>2. \A s : Opens(r, s) => Opens(r, s)'  BY <2>4, <3>1 DEF Opens
    <3>3. Apt(r)'  BY <1>1, <1>2, <2>1, <2>2, <3>1 DEF Apt, SameTask
    <3>4. QED  BY <1>3, <2>1, <2>3, <3>2, <3>3, TrackedRead
  <2>7. QED  BY <2>5, <2>6
<1>5. ASSUME NEW f \in Events, CreateEvent(r, f)  PROVE Tracking'
  <2>1. c.at = "create" /\ call'[r] = Idle /\ event[f] = NoEvent
    BY <1>5 DEF CreateEvent, At, Return, Goto, Sound, AbandonmentTypeOK
  <2>2. PICK s0 : s0 = c.subject  OBVIOUS
  <2>3. /\ event'[f].status = "ACTIVE" /\ event'[f].subject = s0
        /\ \A e \in Events : e # f => event'[e] = event[e]
    BY <1>5, <2>2 DEF CreateEvent, Sound, AbandonmentTypeOK
  <2>4. Reminded(s0)'  BY <2>3, IsReminded
  <2>5. event[f].status # "ACTIVE"  BY <2>1 DEF NoEvent
  <2>6. ~Done(s0)  BY <1>1, <2>1, <2>2 DEF Apt
  <2>7. ASSUME NEW s \in Subjects, s # s0  PROVE Tracked(s)'
    <3>1. ActiveEvents(s)' = ActiveEvents(s)
      BY <2>3, <2>5, <2>7 DEF ActiveEvents
    <3>2. Reminded(s)' <=> Reminded(s)  BY <3>1 DEF Reminded
    <3>3. ~Opens(r, s) /\ ~Closes(r, s)
      BY <2>1, <2>2, <2>7 DEF Opens, Closes, At
    <3>4. \A q \in Requests : /\ Opens(q, s) => Opens(q, s)'
                              /\ Closes(q, s) => Closes(q, s)'
      BY <1>3, <3>1, <3>3 DEF Opens, Closes, At
    <3>5. QED  BY <1>1, <1>2, <3>2, <3>4 DEF Tracked, SameTask
  <2>8. Tracked(s0)'  BY <1>2, <2>4, <2>6 DEF Tracked, SameTask
  <2>9. ASSUME NEW q \in Requests  PROVE Apt(q)'
    <3>1. CASE q = r  BY <2>1, <3>1 DEF Apt, Idle
    <3>2. CASE q # r
      BY <1>2, <1>3, <2>1, <2>3, <3>2, AptKept DEF Tracking
    <3>3. QED  BY <3>1, <3>2
  <2>10. QED  BY <2>7, <2>8, <2>9 DEF Tracking
<1>6. CASE FindActive(r)
  <2>1. c.at = "seek" /\ UNCHANGED event  BY <1>6 DEF FindActive, At
  <2>2. \A s : ~Opens(r, s)  BY <2>1 DEF Opens
  <2>3. PICK s0 : s0 = c.subject  OBVIOUS
  <2>4. \A s : Closes(r, s) => s = s0  BY <2>1, <2>3 DEF Closes, At
  <2>5. CASE ActiveEvents(s0) = {}
    <3>1. call'[r] = Idle
      BY <1>6, <2>3, <2>5 DEF FindActive, Return, Goto, Sound, AbandonmentTypeOK
    <3>2. ~Reminded(s0)  BY <2>5 DEF Reminded
    <3>3. Apt(r)'  BY <3>1 DEF Apt, Idle
    <3>4. QED  BY <1>3, <2>1, <2>2, <2>4, <3>2, <3>3, TrackedRead
  <2>6. CASE ActiveEvents(s0) # {}
    <3>1. call'[r] = [at |-> "resolve", events |-> ActiveEvents(s0)]
      BY <1>6, <2>3, <2>6 DEF FindActive, Goto, Sound, AbandonmentTypeOK
    <3>2. ActiveEvents(s0)' = ActiveEvents(s0)  BY <2>1 DEF ActiveEvents
    <3>3. Closes(r, s0)'  BY <3>1, <3>2 DEF Closes, At
    <3>4. ~Due(s0)'  BY <1>1, <1>2, <2>1, <2>3 DEF Apt, SameTask
    <3>5. \A e \in ActiveEvents(s0) : event'[e].subject = s0
      BY <2>1 DEF ActiveEvents
    <3>6. ASSUME NEW e \in call'[r].events  PROVE ~Due(event[e].subject)'
      BY <1>2, <2>1, <3>1, <3>4, <3>5
    <3>7. Apt(r)'  BY <3>1, <3>6 DEF Apt
    <3>8. QED  BY <1>3, <2>1, <2>2, <2>4, <3>3, <3>7, TrackedRead
  <2>7. QED  BY <2>5, <2>6
<1>7. CASE WriteResolved(r)
  <2>1. c.at = "resolve" /\ call'[r].at = "cancel"
    BY <1>7 DEF WriteResolved, At, Goto, Sound, AbandonmentTypeOK
  <2>2. /\ \A e \in Events : e \notin c.events => event'[e] = event[e]
        /\ \A e \in Events : e \in c.events =>
             /\ event'[e].status # "ACTIVE"
             /\ event[e] # NoEvent => event'[e].subject = event[e].subject
    <3>1. \A e \in Events : event[e] \in EventRow \cup {NoEvent}
      BY DEF Sound, AbandonmentTypeOK
    <3>2. QED  BY <1>7, <3>1 DEF WriteResolved, EventRow, NoEvent
  <2>3. ASSUME NEW s \in Subjects, Due(s)
        PROVE  Reminded(s)' \/ \E q \in Requests : Opens(q, s)'
    <3>1. CASE Reminded(s)
      <4>1. PICK e \in Events : event[e].status = "ACTIVE" /\ event[e].subject = s
        BY <3>1, IsReminded
      <4>2. e \notin c.events  BY <1>1, <2>1, <2>3, <4>1 DEF Apt
      <4>3. QED  BY <2>2, <4>1, <4>2, IsReminded
    <3>2. CASE \E q \in Requests : Opens(q, s)
      BY <1>3, <2>1, <3>2 DEF Opens
    <3>3. QED  BY <1>1, <2>3, <3>1, <3>2 DEF Tracked
  <2>4. ASSUME NEW s \in Subjects, Done(s), Reminded(s)'
        PROVE  \E q \in Requests : Closes(q, s)'
    <3>1. PICK e \in Events : event'[e].status = "ACTIVE" /\ event'[e].subject = s
      BY <2>4, IsReminded
    <3>2. e \notin c.events /\ event'[e] = event[e]  BY <2>2, <3>1
    <3>3. Reminded(s) /\ ~Closes(r, s)
      BY <2>1, <3>1, <3>2 DEF Reminded, ActiveEvents, Closes, At
    <3>4. ActiveEvents(s)' \subseteq ActiveEvents(s)
      BY <2>2 DEF ActiveEvents
    <3>5. ASSUME NEW q \in Requests, Closes(q, s)  PROVE Closes(q, s)'
      <4>1. call'[q] = call[q]  BY <1>3, <3>3, <3>5
      <4>2. QED  BY <3>4, <3>5, <4>1 DEF Closes, At
    <3>6. QED  BY <1>1, <2>4, <3>3, <3>5 DEF Tracked
  <2>5. ASSUME NEW q \in Requests  PROVE Apt(q)'
    <3>1. CASE q = r  BY <2>1, <3>1 DEF Apt
    <3>2. CASE q # r  BY <1>2, <1>3, <2>2, <3>2, AptKept DEF Tracking
    <3>3. QED  BY <3>1, <3>2
  <2>6. QED  BY <1>2, <2>3, <2>4, <2>5 DEF Tracking, Tracked, SameTask
<1>8. CASE CancelJobs(r) \/ SendNext(r)
  <2>1. c.at \in {"cancel", "send"} /\ UNCHANGED event
    BY <1>8 DEF CancelJobs, SendNext, At
  <2>2. call'[r] = Idle \/ \E js : call'[r] = [at |-> "send", jobs |-> js]
    BY <1>8 DEF CancelJobs, SendNext, Return, Goto, Sound, AbandonmentTypeOK
  <2>3. \A s : ~Opens(r, s) /\ ~Closes(r, s)  BY <2>1 DEF Opens, Closes, At
  <2>4. call'[r].at \in {"idle", "send"}
    <3>1. CASE call'[r] = Idle  BY <3>1 DEF Idle
    <3>2. ASSUME NEW js, call'[r] = [at |-> "send", jobs |-> js]
          PROVE  call'[r].at = "send"
      BY <3>2
    <3>3. QED  BY <2>2, <3>1, <3>2
  <2>5. Apt(r)'  BY <2>4 DEF Apt
  <2>6. QED  BY <1>3, <2>1, <2>3, <2>5, TrackedRead
<1>9. QED  BY <1>4, <1>5, <1>6, <1>7, <1>8 DEF Progress

\* What the kinds of references tell apart.
LEMMA Kinds ==
  /\ \A s \in Trips : s \notin Packages /\ s \notin Deals /\ s \notin Users
  /\ \A s \in Packages : s \notin Trips /\ s \notin Deals /\ s \notin Users
  /\ \A s \in Deals : s \notin Trips /\ s \notin Packages /\ s \notin Users
  /\ \A s \in Users : s \notin Trips /\ s \notin Packages /\ s \notin Deals
BY KindsAssumption

LEMMA TripTracked ==
  ASSUME TakeTurns', Typed, Tracking, NEW r \in Requests, call[r] = Idle, Alone(r),
         \/ WriteTicket(r) \/ WriteDecision(r) \/ ActivateTrip(r)
         \/ \E p \in Trips : CreateTrip(r, p)
  PROVE  Tracking'
<1>1. PICK p \in Trips :
        /\ \/ p = desk[r].trip
              /\ (WriteTicket(r) \/ WriteDecision(r) \/ ActivateTrip(r))
           \/ CreateTrip(r, p)
  BY DeskForm DEF WriteTicket, WriteDecision, ActivateTrip, Working
<1>2. UNCHANGED <<package, deal, kyc>>
      /\ \A q \in Trips : q # p => trip'[q] = trip[q]
  BY <1>1
  DEF WriteTicket, WriteDecision, ActivateTrip, CreateTrip, Typed, BookingTypeOK
<1>3. \A s \in Subjects : s # p => (Unfinished(s)' <=> Unfinished(s))
  BY <1>2 DEF Unfinished
<1>4. p \in Subjects  BY SubjectTypes
<1>5. CASE ThenMark(r, p)  BY <1>3, <1>4, <1>5, TrackedWritten
<1>6. CASE ThenReturn(r)
  <2>1. \/ p = desk[r].trip
           /\ (WriteDecision(r) \/ WriteTicket(r) \/ ActivateTrip(r))
        \/ CreateTrip(r, p)
    BY <1>1
  <2>2. UNCHANGED <<event, call, choice>>
    BY <1>6 DEF ThenReturn, abandonmentVars
  <2>3. ~ThenMark(r, p) /\ ~ThenSeek(r, p)
    BY <2>2 DEF ThenMark, ThenSeek, Mark, Seek, Goto, Typed, Sound,
                AbandonmentTypeOK, Idle
  <2>4. WriteDecision(r) /\ p = desk[r].trip
    BY <2>1, <2>3 DEF WriteTicket, ActivateTrip, CreateTrip
  <2>5. trip'[p].status = trip[p].status
    BY <2>4 DEF WriteDecision, Typed, BookingTypeOK, TripRow, NoTrip
  <2>6. Unfinished(p)' <=> Unfinished(p)
    BY <1>2, <2>5 DEF Unfinished
  <2>7. \A s \in Subjects : SameTask(s)
    BY <1>3, <2>2, <2>6 DEF SameTask, Due, Done
  <2>8. QED  BY <2>2, <2>7, TrackedKept DEF Typed
<1>7. CASE ThenSeek(r, p)
  <2>1. ~ThenMark(r, p) /\ ~ThenReturn(r)
    BY <1>7 DEF ThenMark, ThenSeek, ThenReturn, abandonmentVars, Mark, Seek,
                Goto, Typed, Sound, AbandonmentTypeOK, Idle
  <2>2. ActivateTrip(r) /\ p = desk[r].trip
    BY <1>1, <2>1 DEF WriteTicket, WriteDecision, OnRejection, CreateTrip
  <2>3. trip'[p].status = "ACTIVE"
    BY <2>2 DEF ActivateTrip, Typed, BookingTypeOK, TripRow, NoTrip
  <2>4. ~Unfinished(p)'  BY <2>3, Kinds DEF Unfinished
  <2>5. QED  BY <1>3, <1>4, <1>7, <2>4, TrackedWritten
<1>8. QED
  BY <1>1, <1>5, <1>6, <1>7
  DEF WriteTicket, WriteDecision, OnRejection, ActivateTrip, CreateTrip

LEMMA PackageTracked ==
  ASSUME TakeTurns', Typed, Tracking, NEW r \in Requests, call[r] = Idle, Alone(r),
         \/ WritePublished(r) \/ WriteCancelled(r)
         \/ \E k \in Packages : CreatePackage(r, k)
  PROVE  Tracking'
<1>1. PICK k \in Packages, s \in PackageStatus :
        /\ package' = [package EXCEPT ![k] = s]
        /\ \/ s = "DRAFT" /\ ThenMark(r, k)
           \/ s # "DRAFT" /\ ThenSeek(r, k)
        /\ UNCHANGED <<trip, deal, kyc>>
  <2>1. CASE WritePublished(r) \/ WriteCancelled(r)
    <3>1. desk[r].package \in Packages
      BY <2>1, DeskForm DEF WritePublished, WriteCancelled, Working
    <3>2. QED
      BY <2>1, <3>1 DEF WritePublished, WriteCancelled, Finished, PackageStatus
  <2>2. CASE \E k \in Packages : CreatePackage(r, k)
    BY <2>2 DEF CreatePackage, PackageStatus
  <2>3. QED  BY <2>1, <2>2
<1>2. package'[k] = s /\ \A l \in Packages : l # k => package'[l] = package[l]
  BY <1>1 DEF Typed, BookingTypeOK
<1>3. \A x \in Subjects : x # k => (Unfinished(x)' <=> Unfinished(x))
  BY <1>1, <1>2 DEF Unfinished
<1>4. Unfinished(k)' <=> s = "DRAFT"  BY <1>2, Kinds DEF Unfinished
<1>5. QED  BY <1>1, <1>3, <1>4, SubjectTypes, TrackedWritten

LEMMA KycTracked ==
  ASSUME TakeTurns', Typed, Tracking, NEW r \in Requests, call[r] = Idle, Alone(r),
         NEW u \in Users, NEW s \in KycUpdates, SetUserKycStatus(r, u, s)
  PROVE  Tracking'
<1>1. kyc'[u] = s /\ \A v \in Users : v # u => kyc'[v] = kyc[v]
  BY DEF SetUserKycStatus, Typed, BookingTypeOK
<1>2. \A x \in Subjects : x # u => (Unfinished(x)' <=> Unfinished(x))
  BY <1>1 DEF Unfinished, SetUserKycStatus
<1>3. Unfinished(u)' <=> s = "PENDING"  BY <1>1, Kinds DEF Unfinished
<1>4. \/ s = "PENDING" /\ ThenMark(r, u)
      \/ s # "PENDING" /\ ThenSeek(r, u)
  BY DEF SetUserKycStatus
<1>5. QED  BY <1>2, <1>3, <1>4, SubjectTypes, TrackedWritten

LEMMA DealTracked ==
  ASSUME TakeTurns', VettingInv, Booked, Tracking, NEW r \in Requests,
         call[r] = Idle, Alone(r),
         WritePayment(r) \/ \E t \in Deals : ReservePackage(r, t)
  PROVE  Tracking'
<1>1. Typed /\ DeskIsKnown(r)  BY DEF VettingInv, Vetting
<1>2. CASE WritePayment(r)
  <2> DEFINE d == desk[r]
  <2>1. d.at = "pay" /\ d.deal \in Deals  BY <1>1, <1>2, DeskForm DEF WritePayment, Working
  <2>2. PICK t \in Deals : t = d.deal  BY <2>1
  <2>3. deal[t] # NoDeal /\ deal[t] \in DealRow
    BY <1>1, <2>1, <2>2, DealForm DEF DeskIsKnown
  <2>4. PICK status \in {"PAID", d.status} :
          deal' = [deal EXCEPT ![t] =
                     [deal[t] EXCEPT !.payment = d.pay, !.status = status]]
    <3> DEFINE status == IF d.pay = "SUCCESS" THEN "PAID" ELSE d.status
    <3>1. deal' = [deal EXCEPT ![t] =
                     [deal[t] EXCEPT !.payment = d.pay, !.status = status]]
      BY <1>1, <1>2, <2>2 DEF WritePayment, Typed, BookingTypeOK
    <3>2. QED  BY <3>1
  <2>5. deal'[t].payment = d.pay /\ deal'[t] # NoDeal
        /\ \A u \in Deals : u # t => deal'[u] = deal[u]
    BY <1>1, <2>3, <2>4 DEF Typed, BookingTypeOK, DealRow, NoDeal
  <2>6. \A s \in Subjects : s # t => (Unfinished(s)' <=> Unfinished(s))
    BY <1>2, <2>5 DEF Unfinished, WritePayment
  <2>7. Unfinished(t)' <=> d.pay # "SUCCESS"  BY <2>5, Kinds DEF Unfinished
  <2>8. \/ d.pay = "SUCCESS" /\ ThenSeek(r, t)
        \/ d.pay # "SUCCESS" /\ ThenMark(r, t)
    BY <1>2, <2>2 DEF WritePayment
  <2>9. t \in Subjects  BY SubjectTypes
  <2> HIDE DEF d
  <2>10. QED  BY <1>1, <2>6, <2>7, <2>8, <2>9, TrackedWritten
<1>3. ASSUME NEW t \in Deals, ReservePackage(r, t)  PROVE Tracking'
  <2>1. PICK k \in Packages : k = desk[r].package
    BY <1>1, <1>3, DeskForm DEF ReservePackage, Working
  <2>2. PICK row : /\ row.payment = "PENDING" /\ row # NoDeal
                   /\ deal' = [deal EXCEPT ![t] = row]
    BY <1>3 DEF ReservePackage, NoDeal
  <2>3. deal'[t] = row /\ \A u \in Deals : u # t => deal'[u] = deal[u]
    BY <1>1, <2>2 DEF Typed, BookingTypeOK
  <2>4. UNCHANGED <<trip, kyc>> /\ ThenMark(r, t)
        /\ package' = [package EXCEPT ![k] = "RESERVED"]
    BY <1>3, <2>1 DEF ReservePackage, ReservedStatus
  <2>5. package[k] = "PUBLISHED"
    BY <1>3, <2>1 DEF Booked, StockIsKnown, ReservePackage, Working
  <2>6. \A l \in Packages : package'[l] = "DRAFT" <=> package[l] = "DRAFT"
    BY <1>1, <2>4, <2>5 DEF Typed, BookingTypeOK
  <2>7. \A s \in Subjects : s # t => (Unfinished(s)' <=> Unfinished(s))
    BY <2>3, <2>4, <2>6 DEF Unfinished
  <2>8. Unfinished(t)'  BY <2>2, <2>3 DEF Unfinished
  <2>9. QED  BY <1>1, <2>4, <2>7, <2>8, SubjectTypes, TrackedWritten
<1>4. QED  BY <1>2, <1>3

\* A request that only reads leaves the rows and the calls alone.
LEMMA ReadTracked ==
  ASSUME Typed, Tracking, ReadOnly
  PROVE  Tracking'
<1>1. UNCHANGED <<rows, choice>> /\ UNCHANGED <<event, call>>
  BY DEF ReadOnly, abandonmentVars
<1>2. QED  BY <1>1, SameTasks, TrackedKept DEF Typed

LEMMA StatusTracked ==
  ASSUME Typed, Tracking, NEW t \in Deals, NEW s \in TransactionStatus,
         UpdateDealStatus(t, s)
  PROVE  Tracking'
<1> DEFINE row == [deal[t] EXCEPT !.status = s]
<1>1. deal[t] # NoDeal /\ deal[t] \in DealRow
  BY DealForm DEF UpdateDealStatus
<1>2. row \in DealRow /\ row.payment = deal[t].payment  BY <1>1 DEF DealRow
<1>3. deal' = [deal EXCEPT ![t] = row]
      /\ UNCHANGED <<event, call, trip, package, kyc, choice>>
  BY <1>1 DEF UpdateDealStatus, abandonmentVars, Typed, BookingTypeOK
<1> HIDE DEF row
<1>4. deal'[t] = row /\ \A u \in Deals : u # t => deal'[u] = deal[u]
  BY <1>3 DEF Typed, BookingTypeOK
<1>5. row # NoDeal  BY <1>2, RowIsNone
<1>6. \A x \in Subjects : Unfinished(x)' <=> Unfinished(x)
  BY <1>1, <1>2, <1>3, <1>4, <1>5 DEF Unfinished
<1>7. \A x \in Subjects : SameTask(x)  BY <1>3, <1>6 DEF SameTask, Due, Done
<1>8. QED  BY <1>3, <1>7, TrackedKept DEF Typed

\* The user opens an event, or closes one; nobody else is about its subject.
LEMMA UserTracked ==
  ASSUME TakeTurns', RemindedOnce, Typed, Tracking, NEW r \in Requests,
         \/ \E s \in Subjects : UserMarks(r, s)
         \/ \E e \in Events : UserResolves(r, e)
  PROVE  Tracking'
<1>1. /\ call[r] = Idle /\ UNCHANGED event /\ UNCHANGED rows
      /\ \A q \in Requests : q # r => call'[q] = call[q] /\ desk'[q] = desk[q]
  BY UserCalls
<1>2. \A s : Unfinished(s)' <=> Unfinished(s)  BY <1>1 DEF rows, Unfinished
<1>3. \A s : Reminded(s)' <=> Reminded(s)  BY <1>1, IsReminded
<1>4. \A s : ActiveEvents(s)' = ActiveEvents(s)  BY <1>1 DEF ActiveEvents
<1>5. ASSUME NEW q \in Requests, NEW s
      PROVE  (Opens(q, s) => Opens(q, s)') /\ (Closes(q, s) => Closes(q, s)')
  <2>1. ~Opens(r, s) /\ ~Closes(r, s)  BY <1>1 DEF Opens, Closes, At, Idle
  <2>2. QED  BY <1>1, <1>4, <2>1 DEF Opens, Closes, At
<1>6. \A s \in Subjects : Tracked(s)  BY DEF Tracking
<1>7. ASSUME NEW s0 \in Subjects, WorksOn(r, s0)',
             \A s \in Subjects : s # s0 => choice'[s] = choice[s],
             Apt(r)', Tracked(s0)'
      PROVE  Tracking'
  <2>1. \A s \in Subjects : s # s0 => SameTask(s)
    BY <1>2, <1>7 DEF SameTask, Due, Done
  <2>2. ASSUME NEW s \in Subjects, s # s0  PROVE Tracked(s)'
    BY <1>3, <1>5, <1>6, <2>1, <2>2 DEF Tracked, SameTask
  <2>3. ASSUME NEW q \in Requests, q # r  PROVE Apt(q)'
    <3>1. \A s : WorksOn(q, s) => WorksOn(q, s)'
      BY <1>1, <2>3 DEF WorksOn
    <3>2. \A s \in Subjects : WorksOn(q, s) => s # s0
      BY <1>7, <2>3, <3>1 DEF TakeTurns
    <3>3. QED
      BY <1>1, <2>1, <2>3, <3>2, AptKept DEF Tracking, Typed
  <2>4. QED  BY <1>7, <2>2, <2>3 DEF Tracking
<1>8. ASSUME NEW s0 \in Subjects, UserMarks(r, s0)  PROVE Tracking'
  <2>1. /\ call' = [call EXCEPT ![r] = [at |-> "mark", subject |-> s0]]
        /\ choice' = [choice EXCEPT ![s0] = "opened"]
    BY <1>8 DEF UserMarks, MarkAbandoned, Mark, Goto, Chosen
  <2>2. call'[r].at = "mark" /\ call'[r].subject = s0
    BY <2>1 DEF Typed, Sound, AbandonmentTypeOK
  <2>3. /\ choice'[s0] = "opened"
        /\ \A s \in Subjects : s # s0 => choice'[s] = choice[s]
    BY <2>1 DEF Typed, BookingTypeOK
  <2>4. WorksOn(r, s0)' /\ Opens(r, s0)'  BY <2>2 DEF WorksOn, Opens
  <2>5. ~Done(s0)'  BY <2>3 DEF Done
  <2>6. Apt(r)' /\ Tracked(s0)'  BY <2>2, <2>4, <2>5 DEF Apt, Tracked
  <2>7. QED  BY <1>7, <2>3, <2>4, <2>6
<1>9. ASSUME NEW e \in Events, UserResolves(r, e)  PROVE Tracking'
  <2>1. PICK s0 \in Subjects : s0 = event[e].subject
    <3>1. event[e] \in EventRow
      BY <1>9 DEF UserResolves, ResolveAbandoned, Typed, Sound, AbandonmentTypeOK
    <3>2. QED  BY <3>1 DEF EventRow
  <2>2. /\ call' = [call EXCEPT ![r] = [at |-> "resolve", events |-> {e}]]
        /\ event[e].status = "ACTIVE"
             => choice' = [choice EXCEPT ![s0] = "dismissed"]
        /\ event[e].status # "ACTIVE" => choice' = choice
    BY <1>9, <2>1 DEF UserResolves, ResolveAbandoned, Goto, Chosen
  <2>3. call'[r].at = "resolve" /\ call'[r].events = {e}
    BY <2>2 DEF Typed, Sound, AbandonmentTypeOK
  <2>4. /\ \A s \in Subjects : s # s0 => choice'[s] = choice[s]
        /\ event[e].status = "ACTIVE" => choice'[s0] = "dismissed"
        /\ event[e].status # "ACTIVE" => choice'[s0] = choice[s0]
    BY <2>2 DEF Typed, BookingTypeOK
  <2>5. WorksOn(r, s0)'  BY <1>1, <2>1, <2>3 DEF WorksOn
  <2>6. CASE event[e].status = "ACTIVE"
    <3>1. ~Due(s0)'  BY <2>4, <2>6 DEF Due
    <3>2. ActiveEvents(s0)' \subseteq {e}
      <4>1. e \in ActiveEvents(s0)  BY <2>1, <2>6 DEF ActiveEvents
      <4>2. QED  BY <1>4, <4>1 DEF RemindedOnce
    <3>3. Closes(r, s0)'  BY <2>3, <3>2 DEF Closes, At
    <3>4. Apt(r)' /\ Tracked(s0)'
      BY <1>1, <2>1, <2>3, <3>1, <3>3 DEF Apt, Tracked
    <3>5. QED  BY <1>7, <2>4, <2>5, <3>4
  <2>7. CASE event[e].status # "ACTIVE"
    <3>1. SameTask(s0)  BY <1>2, <2>4, <2>7 DEF SameTask, Due, Done
    <3>2. Tracked(s0)'  BY <1>3, <1>5, <1>6, <3>1 DEF Tracked, SameTask
    <3>3. Apt(r)'  BY <1>1, <2>3, <2>7 DEF Apt
    <3>4. QED  BY <1>7, <2>4, <2>5, <3>2, <3>3
  <2>8. QED  BY <2>6, <2>7
<1>10. QED  BY <1>8, <1>9

LEMMA TrackInit == BookingInit => TrackInv
<1> SUFFICES ASSUME BookingInit PROVE TrackInv  OBVIOUS
<1>1. OnceInv /\ Booked  BY TurnsInit, OnceInit, BookedInit
<1>2. \A s : ~Unfinished(s)
  BY DEF BookingInit, Unfinished, NoTrip
<1>3. \A s : ~Reminded(s)
  BY IsReminded DEF BookingInit, AbandonmentInit, NoEvent
<1>4. \A r \in Requests : Apt(r)
  BY DEF BookingInit, AbandonmentInit, Apt, Idle
<1>5. QED  BY <1>1, <1>2, <1>3, <1>4 DEF TrackInv, Tracking, Tracked, Due

LEMMA TrackStep ==
  TrackInv /\ [BookingNext /\ TakeTurns']_bookingVars => TrackInv'
<1> SUFFICES ASSUME TrackInv, [BookingNext /\ TakeTurns']_bookingVars
             PROVE  TrackInv'
  OBVIOUS
<1>1. /\ SilentInv /\ VettingInv /\ DeskFirst /\ Booked /\ Tracking /\ Typed
      /\ TakeTurns /\ OnceInv /\ RemindedOnce
  BY DEF TrackInv, OnceInv, SilentInv, VettingInv
<1>2. OnceInv' /\ Booked' /\ TakeTurns'
  BY <1>1, OnceStep, BookedStep, TurnsStep
<1> SUFFICES Tracking'  BY <1>2 DEF TrackInv
<1>3. CASE AbandonmentStep
  BY <1>1, <1>3, TrackedProgress DEF AbandonmentStep, Typed
<1>4. ASSUME NEW r \in Requests, DeskProgress(r) \/ DeskReceive(r)
      PROVE  Tracking'
  <2>1. call[r] = Idle /\ Alone(r)  BY <1>1, <1>4, DeskTurn DEF Alone
  <2>2. CASE ReadOnly  BY <1>1, <2>2, ReadTracked
  <2>3. CASE DeskProgress(r) /\ ~ReadOnly
    BY <1>1, <1>2, <2>1, <2>3, TripTracked, PackageTracked, DealTracked
    DEF DeskProgress, FindExistingDeal, CheckTravelerKyc
  <2>4. CASE DeskReceive(r) /\ ~ReadOnly
    BY <1>1, <1>2, <2>1, <2>4, TripTracked, PackageTracked, KycTracked
    DEF DeskReceive, SubmitTicket, PublishTrip, AdminVerifyTicket,
        PublishPackage, CancelPackage, CreateDeal, MarkDealPayment
  <2>5. QED  BY <1>4, <2>2, <2>3, <2>4
<1>5. ASSUME NEW t \in Deals, NEW s \in Updates, UpdateDealStatus(t, s)
      PROVE  Tracking'
  BY <1>1, <1>5, StatusTracked, UpdatesAssumption
<1>6. CASE UNCHANGED bookingVars
  BY <1>1, <1>6, ReadTracked DEF bookingVars, ReadOnly
<1>7. ASSUME NEW r \in Requests,
             \/ \E s \in Subjects : UserMarks(r, s)
             \/ \E e \in Events : UserResolves(r, e)
      PROVE  Tracking'
  BY <1>1, <1>2, <1>7, UserTracked
<1>8. QED  BY <1>3, <1>4, <1>5, <1>6, <1>7 DEF BookingNext

\* When nobody is about s, nothing has still to be opened or closed for it.
LEMMA Settles ==
  ASSUME TrackInv, NEW s \in Subjects, Unattended(s)
  PROVE  (Due(s) => Reminded(s)) /\ ~(Done(s) /\ Reminded(s))
<1>1. Tracked(s) /\ Sound
  BY DEF TrackInv, Tracking, OnceInv, SilentInv, VettingInv, Typed
<1>2. ASSUME NEW r \in Requests, Opens(r, s)  PROVE FALSE
  BY <1>2 DEF Opens, Unattended, WorksOn
<1>3. ASSUME NEW r \in Requests, Closes(r, s), Reminded(s)  PROVE FALSE
  <2>1. CASE At(r, "seek") /\ call[r].subject = s
    BY <2>1 DEF At, Unattended, WorksOn
  <2>2. CASE At(r, "resolve") /\ ActiveEvents(s) \subseteq call[r].events
    <3>1. PICK e \in ActiveEvents(s) : TRUE  BY <1>3 DEF Reminded
    <3>2. e \in call[r].events /\ event[e].subject = s
      BY <2>2, <3>1 DEF ActiveEvents
    <3>3. QED  BY <2>2, <3>2 DEF At, Unattended, WorksOn
  <2>3. QED  BY <1>3, <2>1, <2>2 DEF Closes
<1>4. QED  BY <1>1, <1>2, <1>3 DEF Tracked

(***************************************************************************)
(* If the requests about one row take turns, every draft, payment without  *)
(* success and pending KYC has an ACTIVE event as soon as no request is    *)
(* about it, unless the user has dismissed it with POST                    *)
(* /abandonment/resolve and no service has marked it since (markAbandoned  *)
(* in TripService, PackageService, TransactionService and KycService, and  *)
(* whatever may resolve an event later), whatever requests about other     *)
(* rows do meanwhile.                                                      *)
(***************************************************************************)
THEOREM RemindedInTurns == TurnsSpec => []UnfinishedIsReminded
<1>1. TrackInv => UnfinishedIsReminded
  BY Settles, SubjectTypes
  DEF UnfinishedIsReminded, NotDismissed, Unfinished, Due
<1>2. QED  BY <1>1, TrackInit, TrackStep, PTL DEF TurnsSpec

(***************************************************************************)
(* And no package that has left DRAFT, no successful payment and no        *)
(* decided KYC keeps one (resolveActiveByReference in the same services),  *)
(* unless the user has opened it with POST /abandonment/mark and no        *)
(* service has resolved it since.                                          *)
(***************************************************************************)
THEOREM ForgottenInTurns == TurnsSpec => []FinishedIsForgotten
<1>1. ASSUME TrackInv, NEW s \in Subjects, s \notin Trips, Lingering(s)
      PROVE  Unfinished(s)
  BY <1>1, Settles DEF Lingering, Done
<1>2. TrackInv => FinishedIsForgotten
  BY <1>1, SubjectTypes, Kinds DEF FinishedIsForgotten, Unfinished
<1>3. QED  BY <1>2, TrackInit, TrackStep, PTL DEF TurnsSpec
=============================================================================
