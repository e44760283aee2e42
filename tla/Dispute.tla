-------------------------------- MODULE Dispute --------------------------------
(***************************************************************************)
(* DisputeService and DisputeMatrixService on top of Settlement: a dispute *)
(* is opened in two writes, resolved in one $transaction, and only after   *)
(* its commit are the refund and the payout requested, by the handlers of  *)
(* Settlement.  A request that works for a dispute is a clerk; when it     *)
(* requests money it becomes a call of Settlement.                         *)
(***************************************************************************)
EXTENDS Settlement

CONSTANTS
  Disputes,       \* ids that dispute rows may get
  Reasons,        \* reason codes that senders and travelers give
  Evidence,       \* evidence levels that admins enter
  Statuses        \* statuses that clients give a transaction

ReasonCode ==
  {"NOT_DELIVERED", "DAMAGED", "WRONG_ITEM", "WEIGHT_MISMATCH",
   "LATE_DELIVERY", "NO_SHOW_TRAVELER", "NO_SHOW_SENDER", "ILLEGAL_ITEM",
   "OTHER"}
EvidenceLevel == {"NONE", "BASIC", "STRONG"}
Outcome == {"REFUND_SENDER", "RELEASE_TO_TRAVELER", "SPLIT", "REJECT"}

ASSUME ReasonsAssumption == Reasons \subseteq ReasonCode
ASSUME EvidenceAssumption == Evidence \subseteq EvidenceLevel
ASSUME StatusesAssumption == Statuses \subseteq TransactionStatus

VARIABLES
  dispute,  \* dispute[d]: row d of Dispute, its DisputeResolution included
  clerk     \* clerk[r]: what request r is doing for a dispute

disputeVars == <<tx, ledger, order, call, dispute, clerk>>

Shares == [refund : Nat, release : Nat]
NoShares == [refund |-> 0, release |-> 0]

Decision ==
  [outcome : Outcome, evidence : EvidenceLevel, recommended : Outcome,
   shares : Shares]

Unresolved == [outcome |-> "NONE"]
NoDispute  == [status |-> "NONE"]

DisputeRow ==
  [status : {"OPEN", "RESOLVED"}, tx : Transactions, reason : ReasonCode,
   resolution : Decision \cup {Unresolved}]

Free == [at |-> "free"]

Clerk ==
  [at : {"insert"}, dispute : Disputes, tx : Transactions, reason : ReasonCode]
  \cup [at : {"escrow", "resolution", "record", "orchestrate"},
        dispute : Disputes, decision : Decision, even : BOOLEAN]

DisputeTypeOK ==
  /\ TypeOK
  /\ dispute \in [Disputes -> DisputeRow \cup {NoDispute}]
  /\ clerk \in [Requests -> Clerk \cup {Free}]

DisputeInit ==
  /\ Init
  /\ dispute = [d \in Disputes |-> NoDispute]
  /\ clerk = [r \in Requests |-> Free]

Vacant(r) == call[r] = Idle /\ clerk[r] = Free

Working(r, point) == clerk[r].at = point

Turn(r, c) == clerk' = [clerk EXCEPT ![r] = c]

Leave(r) == Turn(r, Free)

-----------------------------------------------------------------------------
(* DisputeMatrixService.recommend *)

\* Mutant: the switch has no default branch.
NoDefault == "NONE"

Default == "REJECT"

Recommend(reason, evidence, delivered, inWindow) ==
  CASE evidence # "STRONG" -> Default
    [] evidence = "STRONG" /\ reason = "NOT_DELIVERED" /\ ~delivered
         -> "REFUND_SENDER"
    [] evidence = "STRONG" /\ reason = "NO_SHOW_TRAVELER" -> "REFUND_SENDER"
    [] evidence = "STRONG" /\ reason = "NO_SHOW_SENDER"
         -> "RELEASE_TO_TRAVELER"
    [] evidence = "STRONG" /\ reason = "LATE_DELIVERY" /\ delivered
         -> "RELEASE_TO_TRAVELER"
    [] /\ evidence = "STRONG"
       /\ reason \in {"DAMAGED", "WRONG_ITEM", "WEIGHT_MISMATCH"}
       /\ delivered /\ inWindow
         -> "SPLIT"
    [] OTHER -> Default

(***************************************************************************)
(* The delivery context resolve and getRecommendation give the matrix.     *)
(* The delivery time is taken from updatedAt.  create itself has updated   *)
(* the row, away from DELIVERED, before the dispute got its createdAt; if  *)
(* the row says DELIVERED again it was updated later still, or at most one *)
(* await before, so a delivered parcel is always within the window.        *)
(***************************************************************************)
Recommended(d, evidence) ==
  LET delivered == tx[dispute[d].tx].status = "DELIVERED"
  IN  Recommend(dispute[d].reason, evidence, delivered, delivered)

-----------------------------------------------------------------------------
(* DisputeService.create *)

\* The bound on disputes: a new one needs an id nobody has.
Unused(d) ==
  /\ dispute[d] = NoDispute
  /\ \A q \in Requests : Working(q, "insert") => clerk[q].dispute # d

OpenDispute(r, d, t, reason) ==
  /\ Vacant(r)
  /\ Unused(d)
  /\ RowFree(t)
  /\ tx' = [tx EXCEPT ![t].status = "DISPUTED"]
  /\ Turn(r, [at |-> "insert", dispute |-> d, tx |-> t, reason |-> reason])
  /\ UNCHANGED <<ledger, order, call, dispute>>

InsertDispute(r) ==
  LET c == clerk[r]
  IN  /\ Working(r, "insert")
      /\ dispute' = [dispute EXCEPT ![c.dispute] =
                      [status |-> "OPEN", tx |-> c.tx, reason |-> c.reason,
                       resolution |-> Unresolved]]
      /\ Leave(r)
      /\ UNCHANGED <<tx, ledger, order, call>>

-----------------------------------------------------------------------------
(* DisputeService.resolve *)

\* A dispute that is not OPEN is answered with the resolution it has.
\* given: the amounts of the request, an absent one taken for 0; even: a split
\* whose amounts are both absent.
Resolve(r, d, outcome, evidence, given, even) ==
  /\ Vacant(r)
  /\ dispute[d].status = "OPEN"
  /\ even => outcome = "SPLIT" /\ given = NoShares
  /\ Turn(r, [at |-> "escrow", dispute |-> d, even |-> even,
              decision |-> [outcome |-> outcome, evidence |-> evidence,
                            recommended |-> Recommended(d, evidence),
                            shares |-> given]])
  /\ UNCHANGED <<tx, ledger, order, call, dispute>>

Halves(total) ==
  [refund |-> total \div 2, release |-> total - total \div 2]

Share(outcome, given, even, total) ==
  CASE outcome = "REFUND_SENDER" -> [refund |-> total, release |-> 0]
    [] outcome = "RELEASE_TO_TRAVELER" -> [refund |-> 0, release |-> total]
    [] outcome = "SPLIT" -> IF even THEN Halves(total) ELSE given
    [] outcome = "REJECT" -> NoShares

\* Mutant: each amount is compared with the balance by itself.
EachWithin(share, total) ==
  /\ share.refund \in 0 .. total
  /\ share.release \in 0 .. total

Within(share, total) ==
  share.refund >= 0 /\ share.release >= 0 /\ share.refund + share.release <= total

DecideAmounts(r) ==
  LET c     == clerk[r]
      total == Balance(dispute[c.dispute].tx)
      share == Share(c.decision.outcome, c.decision.shares, c.even, total)
  IN  /\ Working(r, "escrow")
      /\ IF Within(share, total)
         THEN Turn(r, [c EXCEPT !.at = "resolution", !.decision.shares = share])
         ELSE Leave(r)
      /\ UNCHANGED <<tx, ledger, order, call, dispute>>

FindResolution(r) ==
  LET c == clerk[r]
  IN  /\ Working(r, "resolution")
      /\ IF dispute[c.dispute].resolution # Unresolved
         THEN Leave(r) ELSE Turn(r, [c EXCEPT !.at = "record"])
      /\ UNCHANGED <<tx, ledger, order, call, dispute>>

\* Mutant: the resolution has no unique key.
AlwaysNew(d) == TRUE

\* disputeId and idempotencyKey are @unique in DisputeResolution.
FirstResolution(d) == dispute[d].resolution = Unresolved

RecordResolution(r) ==
  LET c == clerk[r]
      d == c.dispute
  IN  /\ Working(r, "record")
      /\ FirstResolution(d)
      /\ RowFree(dispute[d].tx)
      /\ dispute' = [dispute EXCEPT ![d].status = "RESOLVED",
                                    ![d].resolution = c.decision]
      /\ tx' = [tx EXCEPT ![dispute[d].tx].status = "DISPUTED"]
      /\ Turn(r, IF c.decision.shares = NoShares
                 THEN Free ELSE [c EXCEPT !.at = "orchestrate"])
      /\ UNCHANGED <<ledger, order, call>>

RecordConflict(r) ==
  /\ Working(r, "record")
  /\ ~FirstResolution(clerk[r].dispute)
  /\ Leave(r)
  /\ UNCHANGED <<tx, ledger, order, call, dispute>>

\* Mutant: the refund is requested for the amounts of the request.
RefundsAll(c) == [refund |-> Amount[dispute[c.dispute].tx], release |-> 0]

Granted(c) == c.decision.shares

Orchestrate(r) ==
  LET c == clerk[r]
  IN  /\ Working(r, "orchestrate")
      /\ Goto(r, FirstCall(dispute[c.dispute].tx,
                           Granted(c).refund, Granted(c).release))
      /\ Leave(r)
      /\ UNCHANGED <<tx, ledger, order, dispute>>

-----------------------------------------------------------------------------
ClerkInterrupted(r) ==
  /\ Faults
  /\ clerk[r] # Free
  /\ Leave(r)
  /\ UNCHANGED <<tx, ledger, order, call, dispute>>

ClerkProgress(r) ==
  \/ InsertDispute(r) \/ DecideAmounts(r) \/ FindResolution(r)
  \/ RecordResolution(r) \/ RecordConflict(r) \/ Orchestrate(r)

DisputeReceive(r) ==
  \/ \E d \in Disputes, t \in Transactions, reason \in Reasons :
       OpenDispute(r, d, t, reason)
  \/ \E d \in Disputes, o \in Outcome, e \in Evidence, even \in BOOLEAN :
       /\ dispute[d] # NoDispute
       /\ LET upTo == 0 .. Amount[dispute[d].tx]
          IN  \E given \in [refund : upTo, release : upTo] :
                /\ o # "SPLIT" => given = NoShares
                /\ Resolve(r, d, o, e, given, even)

\* Steps of the handlers of Settlement; a busy clerk takes no other request.
MoneyStep ==
  /\ \/ \E r \in Requests : Progress(r) \/ Interrupted(r)
     \/ \E r \in Requests, t \in Transactions : clerk[r] = Free /\ Receive(r, t)
     \/ \E t \in Transactions, s \in Statuses : UpdateStatus(t, s)
  /\ UNCHANGED <<dispute, clerk>>

DisputeNext ==
  \/ MoneyStep
  \/ \E r \in Requests :
       ClerkProgress(r) \/ ClerkInterrupted(r) \/ DisputeReceive(r)

DisputeSpec == DisputeInit /\ [][DisputeNext]_disputeVars

-----------------------------------------------------------------------------
(* Properties. *)

Core == INSTANCE Settlement WITH Endpoints <- AllEndpoints

(***************************************************************************)
(* DisputesOnlyUseSettlement: whatever the dispute handlers do to money is *)
(* something the handlers of Settlement do: they request a refund and a    *)
(* payout that together do not exceed the price, and never write the       *)
(* ledger or an order themselves (DisputeService.resolve).                 *)
(***************************************************************************)
DisputesOnlyUseSettlement == Core!Spec

(***************************************************************************)
(* ResolvedOnce: a resolution, once recorded, is never replaced, however   *)
(* many admins resolve the dispute at the same time (unique disputeId).    *)
(***************************************************************************)
ResolvedOnce ==
  [][\A d \in Disputes :
       dispute[d].status = "RESOLVED"
         => dispute'[d] = dispute[d]]_disputeVars

Decided(t, amount) ==
  \E d \in Disputes :
    /\ dispute[d].status = "RESOLVED"
    /\ dispute[d].tx = t
    /\ dispute[d].resolution.shares.refund = amount

(***************************************************************************)
(* RefundsAreDecided: a refund is owed only because a resolved dispute of  *)
(* that transaction grants it, in exactly that amount; refunds have no     *)
(* other origin (RefundController has no request route).                   *)
(***************************************************************************)
RefundsAreDecided ==
  \A t \in Transactions :
    order[t]["refund"] # NoOrder => Decided(t, order[t]["refund"].amount)

(***************************************************************************)
(* Grounded: what makes the properties above inductive.  It says what a    *)
(* clerk may rely on after its awaits, although other clerks work on the   *)
(* same dispute and handlers move its money: the shares it has decided on  *)
(* never exceed the price, and what it requests is what was recorded.      *)
(***************************************************************************)
ClerkIsReliable(r) ==
  LET c   == clerk[r]
      row == dispute[c.dispute]
  IN  /\ c # Free => call[r] = Idle
      /\ c.at = "insert" =>
           /\ row = NoDispute
           /\ \A q \in Requests :
                Working(q, "insert") /\ clerk[q].dispute = c.dispute => q = r
      /\ c.at \in {"escrow", "resolution", "record", "orchestrate"}
           => row # NoDispute
      /\ c.at \in {"resolution", "record", "orchestrate"}
           => Within(c.decision.shares, Amount[row.tx])
      /\ c.at = "orchestrate" =>
           /\ row.status = "RESOLVED"
           /\ row.resolution = c.decision
           /\ c.decision.shares # NoShares

RefundRequest(c) ==
  /\ c.at \in {"escrow", "gate", "balance", "existing", "create", "refresh"}
  /\ c.kind = "refund"

Grounded ==
  /\ \A r \in Requests : ClerkIsReliable(r)
  /\ \A d \in Disputes :
       dispute[d] # NoDispute =>
         (dispute[d].status = "OPEN" <=> dispute[d].resolution = Unresolved)
  /\ "resolve" \notin Endpoints =>
       /\ RefundsAreDecided
       /\ \A r \in Requests :
            RefundRequest(call[r]) =>
              call[r].amount > 0 /\ Decided(call[r].tx, call[r].amount)

Quiet == \A r \in Requests : Vacant(r)

(***************************************************************************)
(* ResolutionIsHonoured: when nobody is at work, the refund a resolution   *)
(* grants has been requested.  resolve commits the resolution first; after *)
(* a crash its retry finds the dispute RESOLVED and requests nothing.      *)
(***************************************************************************)
ResolutionIsHonoured ==
  Quiet =>
    \A d \in Disputes :
      /\ dispute[d].status = "RESOLVED"
      /\ dispute[d].resolution.shares.refund > 0
      => order[dispute[d].tx]["refund"] # NoOrder
=============================================================================
