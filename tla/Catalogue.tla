------------------------------- MODULE Catalogue -------------------------------
(***************************************************************************)
(* What trips, packages and the transactions made of them promise, with    *)
(* every handler shrunk to one atomic step over the rows as they are at    *)
(* that moment: a trip goes on offer once, with a VERIFIED ticket; a       *)
(* package is published once, and then either withdrawn or booked, by one  *)
(* transaction, on a trip that is on offer.                                *)
(***************************************************************************)
CONSTANTS
  Trips, Packages, Deals   \* ids of the rows; a deal is a Transaction

VARIABLES
  trip,     \* trip[p]: status and ticket of trip p, and whether it was vetted
  package,  \* package[k]: the status of package k
  deals     \* deals[k]: the transactions made of package k

NoTrip == [status |-> "NONE"]

Init ==
  /\ trip = [p \in Trips |-> NoTrip]
  /\ package = [k \in Packages |-> "NONE"]
  /\ deals = [k \in Packages |-> {}]

OpenTrip(p) ==
  /\ trip[p] = NoTrip
  /\ trip' = [trip EXCEPT ![p] = [status |-> "DRAFT",
                                  ticket |-> "NOT_PROVIDED", vetted |-> FALSE]]
  /\ UNCHANGED <<package, deals>>

GiveTicket(p) ==
  /\ trip[p].status = "DRAFT"
  /\ trip' = [trip EXCEPT ![p].ticket = "PROVIDED"]
  /\ UNCHANGED <<package, deals>>

Decide(p, decision) ==
  /\ trip[p] # NoTrip
  /\ trip' = [trip EXCEPT ![p].ticket = decision,
                          ![p].vetted = @ \/ decision = "VERIFIED"]
  /\ UNCHANGED <<package, deals>>

OfferTrip(p) ==
  /\ trip[p].status = "DRAFT"
  /\ trip[p].ticket = "VERIFIED"
  /\ trip' = [trip EXCEPT ![p].status = "ACTIVE"]
  /\ UNCHANGED <<package, deals>>

Move(k, from, to) ==
  /\ package[k] \in from
  /\ package' = [package EXCEPT ![k] = to]

Restock(k) ==
  /\ \/ Move(k, {"NONE"}, "DRAFT")
     \/ Move(k, {"DRAFT"}, "PUBLISHED")
     \/ Move(k, {"DRAFT", "PUBLISHED"}, "CANCELLED")
  /\ UNCHANGED <<trip, deals>>

Book(k, t, p) ==
  /\ trip[p].status = "ACTIVE"
  /\ Move(k, {"PUBLISHED"}, "RESERVED")
  /\ deals[k] = {}
  /\ deals' = [deals EXCEPT ![k] = {t}]
  /\ UNCHANGED trip

Next ==
  \/ \E p \in Trips :
       \/ OpenTrip(p) \/ GiveTicket(p) \/ OfferTrip(p)
       \/ \E decision \in {"VERIFIED", "REJECTED"} : Decide(p, decision)
  \/ \E k \in Packages :
       \/ Restock(k)
       \/ \E t \in Deals, p \in Trips : Book(k, t, p)

Spec == Init /\ [][Next]_<<trip, package, deals>>
=============================================================================
