----------------------------- MODULE DisputeProofs -----------------------------
(* Proofs about Dispute, for any transactions, amounts, requests, disputes, *)
(* endpoints, isolation level and fault assumption.                         *)
EXTENDS Dispute, SettlementProofs

USE DEF TxPhase, Kinds, Entries

-----------------------------------------------------------------------------
(* The matrix and the shares. *)

LEMMA RecommendType ==
  ASSUME NEW reason, NEW evidence, NEW delivered \in BOOLEAN,
         NEW inWindow \in BOOLEAN
  PROVE  Recommend(reason, evidence, delivered, inWindow) \in Outcome
BY DEF Recommend, Default, Outcome

\* Shares that pass the check of resolve are amounts.
LEMMA ShareType ==
  ASSUME NEW outcome \in Outcome, NEW given \in Shares, NEW even \in BOOLEAN,
         NEW total \in Int,
         NEW share, share = Share(outcome, given, even, total),
         Within(share, total)
  PROVE  share \in Shares
<1>1. CASE outcome = "REFUND_SENDER"
  <2>1. share = [refund |-> total, release |-> 0]  BY <1>1 DEF Share
  <2>2. QED  BY <2>1 DEF Within, Shares
<1>2. CASE outcome = "RELEASE_TO_TRAVELER"
  <2>1. share = [refund |-> 0, release |-> total]  BY <1>2 DEF Share
  <2>2. QED  BY <2>1 DEF Within, Shares
<1>3. CASE outcome = "SPLIT" /\ even
  <2>1. share = [refund |-> total \div 2, release |-> total - total \div 2]
    BY <1>3 DEF Share, Halves
  <2>2. total \div 2 \in Int  OBVIOUS
  <2>3. QED  BY <2>1, <2>2 DEF Within, Shares
<1>4. CASE outcome = "SPLIT" /\ ~even
  BY <1>4 DEF Share
<1>5. CASE outcome = "REJECT"
  <2>1. share = [refund |-> 0, release |-> 0]  BY <1>5 DEF Share, NoShares
  <2>2. QED  BY <2>1 DEF Shares
<1>6. QED  BY <1>1, <1>2, <1>3, <1>4, <1>5 DEF Outcome

\* What is left of a payment is at most the price.
LEMMA BalanceBound ==
  ASSUME TypeOK, Consistent, NEW t \in Transactions
  PROVE  Balance(t) \in Int /\ Balance(t) <= Amount[t]
<1>1. /\ ledger[t]["payment"] \in Nat /\ ledger[t]["payout"] \in Nat
      /\ ledger[t]["refund"] \in Nat
  BY DEF TypeOK
<1>2. ledger[t]["payment"] <= Amount[t]
  BY AmountType DEF Consistent, LedgerInBounds
<1>3. QED  BY <1>1, <1>2, AmountType DEF Balance

-----------------------------------------------------------------------------
(* Types. *)

Deciding == {"escrow", "resolution", "record", "orchestrate"}

\* The locals a clerk has at each of its points.
LEMMA ClerkForm ==
  ASSUME DisputeTypeOK, NEW r \in Requests
  PROVE  /\ Working(r, "insert")
              => /\ clerk[r].dispute \in Disputes
                 /\ clerk[r].tx \in Transactions
                 /\ clerk[r].reason \in ReasonCode
         /\ clerk[r].at \in Deciding
              => /\ clerk[r].dispute \in Disputes
                 /\ clerk[r].decision \in Decision
                 /\ clerk[r].even \in BOOLEAN
                 /\ clerk[r] \in [at : Deciding, dispute : Disputes,
                                  decision : Decision, even : BOOLEAN]
<1>1. clerk[r] \in Clerk \cup {Free}  BY DEF DisputeTypeOK
<1>2. QED  BY <1>1 DEF Clerk, Free, Working, Deciding

LEMMA TurnType ==
  ASSUME DisputeTypeOK, NEW r \in Requests, NEW c \in Clerk \cup {Free},
         Turn(r, c)
  PROVE  /\ clerk' \in [Requests -> Clerk \cup {Free}]
         /\ clerk'[r] = c
         /\ \A q \in Requests : q # r => clerk'[q] = clerk[q]
BY DEF DisputeTypeOK, Turn

LEMMA LeaveType ==
  ASSUME DisputeTypeOK, NEW r \in Requests, Leave(r)
  PROVE  /\ clerk' \in [Requests -> Clerk \cup {Free}]
         /\ clerk'[r] = Free
         /\ \A q \in Requests : q # r => clerk'[q] = clerk[q]
BY TurnType DEF Leave

\* A row that is there.
LEMMA RowForm ==
  ASSUME DisputeTypeOK, NEW d \in Disputes, dispute[d] # NoDispute
  PROVE  /\ dispute[d] \in DisputeRow
         /\ dispute[d].tx \in Transactions
         /\ dispute[d].resolution \in Decision \cup {Unresolved}
         /\ dispute[d].status \in {"OPEN", "RESOLVED"}
BY DEF DisputeTypeOK, DisputeRow

\* Two points of the same handler.
LEMMA ForwardType ==
  ASSUME DisputeTypeOK, NEW r \in Requests, clerk[r].at \in Deciding,
         NEW p \in Deciding
  PROVE  /\ [clerk[r] EXCEPT !.at = p] \in Clerk
         /\ [clerk[r] EXCEPT !.at = p].at = p
         /\ [clerk[r] EXCEPT !.at = p].dispute = clerk[r].dispute
         /\ [clerk[r] EXCEPT !.at = p].decision = clerk[r].decision
BY ClerkForm DEF Clerk, Deciding

LEMMA MoneyType ==
  ASSUME DisputeTypeOK, MoneyStep
  PROVE  DisputeTypeOK'
<1>1. TypeOK /\ UNCHANGED <<dispute, clerk>>  BY DEF DisputeTypeOK, MoneyStep
<1>2. CASE \E r \in Requests : Progress(r)
  BY <1>1, <1>2, TypeProgress DEF DisputeTypeOK
<1>3. CASE \E r \in Requests : Interrupted(r)
  BY <1>1, <1>3, ReturnType DEF DisputeTypeOK, TypeOK, Interrupted
<1>4. CASE \E r \in Requests, t \in Transactions : Receive(r, t)
  BY <1>1, <1>4, TypeReceive DEF DisputeTypeOK
<1>5. CASE \E t \in Transactions, s \in Statuses : UpdateStatus(t, s)
  BY <1>1, <1>5, StatusesAssumption DEF DisputeTypeOK, TypeOK, UpdateStatus
<1>6. QED  BY <1>2, <1>3, <1>4, <1>5 DEF MoneyStep

LEMMA TypeStays ==
  ASSUME DisputeTypeOK, UNCHANGED <<tx, ledger, order, call>>
  PROVE  TypeOK'
BY DEF DisputeTypeOK, TypeOK

LEMMA StatusStays ==
  ASSUME DisputeTypeOK, NEW t \in Transactions, NEW s \in TransactionStatus,
         tx' = [tx EXCEPT ![t].status = s], UNCHANGED <<ledger, order, call>>
  PROVE  TypeOK'
BY DEF DisputeTypeOK, TypeOK

LEMMA OpenType ==
  ASSUME DisputeTypeOK, NEW r \in Requests, NEW d \in Disputes,
         NEW t \in Transactions, NEW reason \in Reasons,
         OpenDispute(r, d, t, reason)
  PROVE  /\ DisputeTypeOK'
         /\ clerk'[r] = [at |-> "insert", dispute |-> d, tx |-> t,
                        reason |-> reason]
         /\ \A q \in Requests : q # r => clerk'[q] = clerk[q]
<1> DEFINE c == [at |-> "insert", dispute |-> d, tx |-> t, reason |-> reason]
<1>1. c \in Clerk  BY ReasonsAssumption DEF Clerk
<1>2. /\ clerk' \in [Requests -> Clerk \cup {Free}]
      /\ clerk'[r] = c /\ \A q \in Requests : q # r => clerk'[q] = clerk[q]
  BY <1>1, TurnType DEF OpenDispute
<1>3. TypeOK'  BY StatusStays DEF OpenDispute, TransactionStatus
<1>4. QED  BY <1>2, <1>3 DEF OpenDispute, DisputeTypeOK

LEMMA InsertType ==
  ASSUME DisputeTypeOK, NEW r \in Requests, InsertDispute(r)
  PROVE  /\ DisputeTypeOK'
         /\ clerk'[r] = Free
         /\ \A q \in Requests : q # r => clerk'[q] = clerk[q]
         /\ \E d \in Disputes, row \in DisputeRow :
              /\ d = clerk[r].dispute
              /\ row.status = "OPEN" /\ row.resolution = Unresolved
              /\ dispute' = [dispute EXCEPT ![d] = row]
<1> DEFINE c == clerk[r]
           row == [status |-> "OPEN", tx |-> c.tx, reason |-> c.reason,
                   resolution |-> Unresolved]
<1>1. c.dispute \in Disputes /\ row \in DisputeRow
  BY ClerkForm DEF InsertDispute, DisputeRow
<1>2. /\ clerk' \in [Requests -> Clerk \cup {Free}]
      /\ clerk'[r] = Free /\ \A q \in Requests : q # r => clerk'[q] = clerk[q]
  BY LeaveType DEF InsertDispute
<1>3. TypeOK'  BY TypeStays DEF InsertDispute
<1>4. dispute' = [dispute EXCEPT ![c.dispute] = row]  BY DEF InsertDispute
<1>5. row.status = "OPEN" /\ row.resolution = Unresolved  OBVIOUS
<1> HIDE DEF row
<1>6. dispute' \in [Disputes -> DisputeRow \cup {NoDispute}]
  BY <1>1, <1>4 DEF DisputeTypeOK
<1>7. QED  BY <1>1, <1>2, <1>3, <1>4, <1>5, <1>6 DEF DisputeTypeOK

LEMMA ResolveTurn ==
  ASSUME DisputeTypeOK, NEW r \in Requests, NEW d \in Disputes,
         NEW outcome \in Outcome, NEW evidence \in Evidence,
         NEW given \in Shares, NEW even \in BOOLEAN,
         Resolve(r, d, outcome, evidence, given, even)
  PROVE  /\ DisputeTypeOK'
         /\ clerk'[r].at = "escrow" /\ clerk'[r].dispute = d
         /\ \A q \in Requests : q # r => clerk'[q] = clerk[q]
<1> DEFINE decision == [outcome |-> outcome, evidence |-> evidence,
                        recommended |-> Recommended(d, evidence),
                        shares |-> given]
           c == [at |-> "escrow", dispute |-> d, even |-> even,
                 decision |-> decision]
<1>1. Recommended(d, evidence) \in Outcome
  BY RecommendType DEF Recommended
<1>2. decision \in Decision  BY <1>1, EvidenceAssumption DEF Decision
<1> HIDE DEF decision
<1>3. c \in Clerk  BY <1>2 DEF Clerk
<1>4. Turn(r, c)  BY DEF Resolve, decision
<1>5. /\ clerk' \in [Requests -> Clerk \cup {Free}]
      /\ clerk'[r] = c /\ \A q \in Requests : q # r => clerk'[q] = clerk[q]
  BY <1>3, <1>4, TurnType
<1>6. TypeOK'  BY TypeStays DEF Resolve
<1>7. QED  BY <1>5, <1>6 DEF Resolve, DisputeTypeOK

\* The shares that go on are within the price.
LEMMA DecideType ==
  ASSUME DisputeTypeOK, Consistent, NEW r \in Requests, DecideAmounts(r),
         dispute[clerk[r].dispute] # NoDispute
  PROVE  /\ DisputeTypeOK'
         /\ \A q \in Requests : q # r => clerk'[q] = clerk[q]
         /\ \/ clerk'[r] = Free
            \/ /\ clerk'[r].at = "resolution"
               /\ clerk'[r].dispute = clerk[r].dispute
               /\ Within(clerk'[r].decision.shares,
                         Amount[dispute[clerk[r].dispute].tx])
<1> DEFINE c == clerk[r]
           t == dispute[c.dispute].tx
           total == Balance(t)
           share == Share(c.decision.outcome, c.decision.shares, c.even, total)
<1>1. /\ c.dispute \in Disputes /\ c.decision \in Decision /\ c.even \in BOOLEAN
      /\ c \in [at : Deciding, dispute : Disputes, decision : Decision,
                even : BOOLEAN]
  BY ClerkForm DEF DecideAmounts, Working, Deciding
<1>2. t \in Transactions  BY <1>1, RowForm
<1>3. total \in Int /\ total <= Amount[t] /\ Amount[t] \in Nat
  BY <1>2, BalanceBound, AmountType DEF DisputeTypeOK
<1>4. TypeOK' /\ UNCHANGED dispute  BY TypeStays DEF DecideAmounts
<1>5. CASE Leave(r)
  BY <1>4, <1>5, LeaveType DEF DisputeTypeOK
<1>6. CASE ~Leave(r)
  <2> DEFINE next == [c EXCEPT !.at = "resolution", !.decision.shares = share]
  <2>1. Within(share, total) /\ Turn(r, next)  BY <1>6 DEF DecideAmounts
  <2> HIDE DEF total
  <2>2. share \in Shares
    <3>1. c.decision.outcome \in Outcome /\ c.decision.shares \in Shares
      BY <1>1 DEF Decision
    <3>2. QED  BY <1>1, <1>3, <2>1, <3>1, ShareType
  <2>3. Within(share, Amount[t])
    <3>1. share.refund \in Nat /\ share.release \in Nat  BY <2>2 DEF Shares
    <3> HIDE DEF share
    <3>2. QED  BY <1>3, <2>1, <3>1 DEF Within
  <2> HIDE DEF share
  <2>4. [c.decision EXCEPT !.shares = share] \in Decision
    BY <1>1, <2>2 DEF Decision
  <2>5. /\ next \in Clerk /\ next.at = "resolution" /\ next.dispute = c.dispute
        /\ next.decision.shares = share
    <3>1. next = [[c EXCEPT !.at = "resolution"] EXCEPT
                    !.decision = [c.decision EXCEPT !.shares = share]]
      BY <1>1
    <3>2. QED  BY <1>1, <2>4, <3>1 DEF Clerk, Deciding, Decision
  <2>6. /\ clerk' \in [Requests -> Clerk \cup {Free}]
        /\ clerk'[r] = next /\ \A q \in Requests : q # r => clerk'[q] = clerk[q]
    BY <2>1, <2>5, TurnType
  <2>7. QED  BY <1>4, <2>3, <2>5, <2>6 DEF DisputeTypeOK
<1>7. QED  BY <1>5, <1>6

LEMMA FindType ==
  ASSUME DisputeTypeOK, NEW r \in Requests, FindResolution(r)
  PROVE  /\ DisputeTypeOK'
         /\ \A q \in Requests : q # r => clerk'[q] = clerk[q]
         /\ \/ clerk'[r] = Free
            \/ /\ clerk'[r].at = "record"
               /\ clerk'[r].dispute = clerk[r].dispute
               /\ clerk'[r].decision = clerk[r].decision
<1>1. clerk[r].at \in Deciding /\ "record" \in Deciding
  BY DEF FindResolution, Working, Deciding
<1>2. TypeOK' /\ UNCHANGED dispute  BY TypeStays DEF FindResolution
<1>3. CASE Leave(r)
  BY <1>2, <1>3, LeaveType DEF DisputeTypeOK
<1>4. CASE Turn(r, [clerk[r] EXCEPT !.at = "record"])
  <2> DEFINE next == [clerk[r] EXCEPT !.at = "record"]
  <2>1. /\ next \in Clerk /\ next.at = "record"
        /\ next.dispute = clerk[r].dispute /\ next.decision = clerk[r].decision
    BY <1>1, ForwardType
  <2> HIDE DEF next
  <2>2. QED  BY <1>2, <1>4, <2>1, TurnType DEF DisputeTypeOK, next
<1>5. QED  BY <1>3, <1>4 DEF FindResolution

LEMMA RecordType ==
  ASSUME DisputeTypeOK, NEW r \in Requests, RecordResolution(r),
         dispute[clerk[r].dispute] # NoDispute
  PROVE  /\ DisputeTypeOK'
         /\ \A q \in Requests : q # r => clerk'[q] = clerk[q]
         /\ \/ clerk'[r] = Free
            \/ /\ clerk'[r].at = "orchestrate"
               /\ clerk'[r].dispute = clerk[r].dispute
               /\ clerk'[r].decision = clerk[r].decision
               /\ clerk[r].decision.shares # NoShares
         /\ \E row \in DisputeRow :
              /\ row.tx = dispute[clerk[r].dispute].tx
              /\ row.status = "RESOLVED"
              /\ row.resolution = clerk[r].decision
              /\ dispute' = [dispute EXCEPT ![clerk[r].dispute] = row]
<1> DEFINE c == clerk[r]
           old == dispute[c.dispute]
           row == [old EXCEPT !.status = "RESOLVED", !.resolution = c.decision]
<1>1. /\ c.at \in Deciding /\ "orchestrate" \in Deciding
      /\ c.dispute \in Disputes /\ c.decision \in Decision
  BY ClerkForm DEF RecordResolution, Working, Deciding
<1>2. old \in DisputeRow /\ old.tx \in Transactions  BY <1>1, RowForm
<1>3. /\ row \in DisputeRow /\ row.status = "RESOLVED"
      /\ row.tx = old.tx /\ row.resolution = c.decision
  BY <1>1, <1>2 DEF DisputeRow
<1>4. dispute' = [dispute EXCEPT ![c.dispute] = row]
  BY <1>1 DEF RecordResolution, DisputeTypeOK
<1> HIDE DEF row
<1>5. dispute' \in [Disputes -> DisputeRow \cup {NoDispute}]
  BY <1>3, <1>4 DEF DisputeTypeOK
<1>6. TypeOK'
  BY <1>2, StatusStays DEF RecordResolution, TransactionStatus
<1> DEFINE next == [c EXCEPT !.at = "orchestrate"]
<1>7. /\ next \in Clerk /\ next.at = "orchestrate"
      /\ next.dispute = c.dispute /\ next.decision = c.decision
  BY <1>1, ForwardType
<1>8. Turn(r, IF c.decision.shares = NoShares THEN Free ELSE next)
  BY DEF RecordResolution
<1> HIDE DEF next
<1>9. CASE c.decision.shares = NoShares
  BY <1>3, <1>4, <1>5, <1>6, <1>8, <1>9, TurnType DEF DisputeTypeOK
<1>10. CASE c.decision.shares # NoShares
  BY <1>3, <1>4, <1>5, <1>6, <1>7, <1>8, <1>10, TurnType DEF DisputeTypeOK
<1>11. QED  BY <1>9, <1>10

LEMMA ConflictType ==
  ASSUME DisputeTypeOK, NEW r \in Requests,
         RecordConflict(r) \/ ClerkInterrupted(r)
  PROVE  /\ DisputeTypeOK' /\ UNCHANGED <<ledger, order, call, dispute>>
         /\ clerk'[r] = Free
         /\ \A q \in Requests : q # r => clerk'[q] = clerk[q]
<1>1. /\ Leave(r) /\ UNCHANGED <<tx, ledger, order, call, dispute>>
  BY DEF RecordConflict, ClerkInterrupted
<1>2. QED  BY <1>1, LeaveType, TypeStays DEF DisputeTypeOK

\* What is requested is within the price, so it is a request of Settlement.
LEMMA OrchestrateResolves ==
  ASSUME DisputeTypeOK, Grounded, NEW r \in Requests, Orchestrate(r)
  PROVE  LET row == dispute[clerk[r].dispute]
         IN  /\ clerk[r].dispute \in Disputes /\ row \in DisputeRow
             /\ row.tx \in Transactions /\ row.status = "RESOLVED"
             /\ Granted(clerk[r]) = row.resolution.shares
             /\ Granted(clerk[r]).refund \in 0 .. Amount[row.tx]
             /\ Granted(clerk[r]).release \in 0 .. Amount[row.tx]
             /\ ResolveRequests(r, row.tx, Granted(clerk[r]).refund,
                                Granted(clerk[r]).release)
<1> DEFINE c == clerk[r]
           row == dispute[c.dispute]
           shares == Granted(c)
<1>1. c.at = "orchestrate" /\ c # Free  BY DEF Orchestrate, Working, Free
<1>2. c.dispute \in Disputes /\ c.decision \in Decision
  BY <1>1, ClerkForm DEF Deciding
<1>3. /\ call[r] = Idle /\ row # NoDispute /\ row.status = "RESOLVED"
      /\ row.resolution = c.decision /\ c.decision.shares # NoShares
      /\ Within(c.decision.shares, Amount[row.tx])
  BY <1>1 DEF Grounded, ClerkIsReliable
<1>4. row \in DisputeRow /\ row.tx \in Transactions  BY <1>2, <1>3, RowForm
<1>5. shares = row.resolution.shares /\ shares \in Shares /\ shares # NoShares
  BY <1>2, <1>3 DEF Granted, Decision
<1>6. Amount[row.tx] \in Nat  BY <1>4, AmountType
<1>7. /\ shares.refund \in Nat /\ shares.release \in Nat
      /\ shares.refund + shares.release <= Amount[row.tx]
  BY <1>3, <1>5 DEF Granted, Within, Shares
<1>8. shares.refund + shares.release >= 1
  <2>1. CASE shares.refund = 0 /\ shares.release = 0
    BY <1>5, <2>1 DEF Shares, NoShares
  <2>2. QED  BY <1>7, <2>1
<1>9. /\ Goto(r, FirstCall(row.tx, shares.refund, shares.release))
      /\ UNCHANGED <<tx, ledger, order>>
  BY DEF Orchestrate
<1> HIDE DEF shares
<1>10. /\ shares.refund \in 0 .. Amount[row.tx]
       /\ shares.release \in 0 .. Amount[row.tx]
       /\ shares.refund + shares.release \in 1 .. Amount[row.tx]
  BY <1>6, <1>7, <1>8
<1>11. ResolveRequests(r, row.tx, shares.refund, shares.release)
  BY <1>3, <1>9, <1>10 DEF ResolveRequests
<1>12. QED  BY <1>2, <1>3, <1>4, <1>5, <1>10, <1>11 DEF shares

LEMMA OrchestrateType ==
  ASSUME DisputeTypeOK, Grounded, NEW r \in Requests, Orchestrate(r)
  PROVE  /\ DisputeTypeOK'
         /\ clerk'[r] = Free
         /\ \A q \in Requests : q # r => clerk'[q] = clerk[q]
<1>1. TypeOK'  BY OrchestrateResolves, ResolveType DEF DisputeTypeOK
<1>2. Leave(r) /\ UNCHANGED dispute  BY DEF Orchestrate
<1>3. QED  BY <1>1, <1>2, LeaveType DEF DisputeTypeOK

-----------------------------------------------------------------------------
(* What the clerks rely on. *)

\* A recorded resolution is there for good.
LEMMA DecidedKept ==
  ASSUME DisputeTypeOK, NEW t \in Transactions, NEW amount, Decided(t, amount),
         \A d \in Disputes :
           dispute[d].status = "RESOLVED" => dispute'[d] = dispute[d]
  PROVE  Decided(t, amount)'
BY DEF Decided

\* A clerk turns, and no row changes.
LEMMA TurnGrounded ==
  ASSUME DisputeTypeOK, Grounded, NEW r \in Requests,
         UNCHANGED <<order, call, dispute>>,
         \A q \in Requests : q # r => clerk'[q] = clerk[q],
         ClerkIsReliable(r)',
         \A q \in Requests :
           q # r /\ Working(q, "insert") /\ Working(r, "insert")'
             => clerk[q].dispute # clerk'[r].dispute
  PROVE  Grounded'
<1>1. ASSUME NEW q \in Requests  PROVE ClerkIsReliable(q)'
  <2>1. CASE q = r  BY <2>1
  <2>2. CASE q # r
    <3>1. ClerkIsReliable(q) /\ clerk'[q] = clerk[q]  BY <2>2 DEF Grounded
    <3>2. QED  BY <2>2, <3>1 DEF ClerkIsReliable, Working
  <2>3. QED  BY <2>1, <2>2
<1>2. QED
  BY <1>1 DEF Grounded, RefundsAreDecided, Decided, RefundRequest

LEMMA FreeReliable ==
  ASSUME NEW r \in Requests, clerk'[r] = Free
  PROVE  ClerkIsReliable(r)' /\ ~Working(r, "insert")'
BY DEF ClerkIsReliable, Working, Free

LEMMA OpenGrounded ==
  ASSUME DisputeTypeOK, Grounded, NEW r \in Requests, NEW d \in Disputes,
         NEW t \in Transactions, NEW reason \in Reasons,
         OpenDispute(r, d, t, reason)
  PROVE  Grounded'
<1>1. /\ clerk'[r] = [at |-> "insert", dispute |-> d, tx |-> t,
                     reason |-> reason]
      /\ \A q \in Requests : q # r => clerk'[q] = clerk[q]
  BY OpenType
<1>2. /\ UNCHANGED <<order, call, dispute>> /\ call[r] = Idle
      /\ clerk[r] = Free /\ dispute[d] = NoDispute
      /\ \A q \in Requests : Working(q, "insert") => clerk[q].dispute # d
  BY DEF OpenDispute, Unused, Vacant
<1>3. clerk'[r].at = "insert" /\ clerk'[r].dispute = d  BY <1>1
<1>4. ClerkIsReliable(r)'
  BY <1>1, <1>2, <1>3 DEF ClerkIsReliable, Working
<1>5. QED  BY <1>1, <1>2, <1>3, <1>4, TurnGrounded

LEMMA ResolveGrounded ==
  ASSUME DisputeTypeOK, Grounded, NEW r \in Requests, NEW d \in Disputes,
         NEW outcome \in Outcome, NEW evidence \in Evidence,
         NEW given \in Shares, NEW even \in BOOLEAN,
         Resolve(r, d, outcome, evidence, given, even)
  PROVE  Grounded'
<1>1. /\ clerk'[r].at = "escrow" /\ clerk'[r].dispute = d
      /\ \A q \in Requests : q # r => clerk'[q] = clerk[q]
  BY ResolveTurn
<1>2. UNCHANGED <<order, call, dispute>> /\ call[r] = Idle
  BY DEF Resolve, Vacant
<1>3. dispute[d] # NoDispute  BY DEF Resolve, NoDispute
<1>4. ClerkIsReliable(r)' /\ ~Working(r, "insert")'
  BY <1>1, <1>2, <1>3 DEF ClerkIsReliable, Working
<1>5. QED  BY <1>1, <1>2, <1>4, TurnGrounded

LEMMA DecideGrounded ==
  ASSUME DisputeTypeOK, Consistent, Grounded, NEW r \in Requests,
         DecideAmounts(r)
  PROVE  DisputeTypeOK' /\ Grounded'
<1>1. /\ dispute[clerk[r].dispute] # NoDispute /\ call[r] = Idle
      /\ UNCHANGED <<order, call, dispute>>
  BY DEF Grounded, ClerkIsReliable, DecideAmounts, Working, Free
<1>2. /\ DisputeTypeOK' /\ \A q \in Requests : q # r => clerk'[q] = clerk[q]
      /\ \/ clerk'[r] = Free
         \/ /\ clerk'[r].at = "resolution"
            /\ clerk'[r].dispute = clerk[r].dispute
            /\ Within(clerk'[r].decision.shares,
                      Amount[dispute[clerk[r].dispute].tx])
  BY <1>1, DecideType
<1>3. ClerkIsReliable(r)' /\ ~Working(r, "insert")'
  BY <1>1, <1>2, FreeReliable DEF ClerkIsReliable, Working, Within
<1>4. QED  BY <1>1, <1>2, <1>3, TurnGrounded

LEMMA FindGrounded ==
  ASSUME DisputeTypeOK, Grounded, NEW r \in Requests, FindResolution(r)
  PROVE  Grounded'
<1>1. /\ clerk[r].at = "resolution" /\ clerk[r] # Free
      /\ UNCHANGED <<order, call, dispute>>
  BY DEF FindResolution, Working, Free
<1>2. /\ call[r] = Idle /\ dispute[clerk[r].dispute] # NoDispute
      /\ Within(clerk[r].decision.shares,
                Amount[dispute[clerk[r].dispute].tx])
  BY <1>1 DEF Grounded, ClerkIsReliable
<1>3. /\ \A q \in Requests : q # r => clerk'[q] = clerk[q]
      /\ \/ clerk'[r] = Free
         \/ /\ clerk'[r].at = "record"
            /\ clerk'[r].dispute = clerk[r].dispute
            /\ clerk'[r].decision = clerk[r].decision
  BY FindType
<1>4. ClerkIsReliable(r)' /\ ~Working(r, "insert")'
  BY <1>1, <1>2, <1>3, FreeReliable DEF ClerkIsReliable, Working, Within
<1>5. QED  BY <1>1, <1>3, <1>4, TurnGrounded

LEMMA LeaveGrounded ==
  ASSUME DisputeTypeOK, Grounded, NEW r \in Requests,
         RecordConflict(r) \/ ClerkInterrupted(r)
  PROVE  Grounded'
BY ConflictType, FreeReliable, TurnGrounded

\* One row is written, and no other clerk works on it in a way that matters.
LEMMA RowGrounded ==
  ASSUME DisputeTypeOK, Grounded, NEW r \in Requests, NEW e \in Disputes,
         NEW row \in DisputeRow, dispute' = [dispute EXCEPT ![e] = row],
         UNCHANGED <<order, call>>,
         \A q \in Requests : q # r => clerk'[q] = clerk[q],
         dispute[e].status # "RESOLVED",
         dispute[e] # NoDispute => row.tx = dispute[e].tx,
         row.status = "OPEN" <=> row.resolution = Unresolved,
         ClerkIsReliable(r)', ~Working(r, "insert")',
         \A q \in Requests :
           q # r /\ Working(q, "insert") => clerk[q].dispute # e
  PROVE  Grounded'
<1>1. /\ dispute'[e] = row /\ row # NoDispute
      /\ \A d \in Disputes : d # e => dispute'[d] = dispute[d]
  BY DEF DisputeTypeOK, DisputeRow, NoDispute
<1>2. ASSUME NEW q \in Requests  PROVE ClerkIsReliable(q)'
  <2>1. CASE q = r  BY <2>1
  <2>2. CASE q # r
    <3>1. ClerkIsReliable(q) /\ clerk'[q] = clerk[q] /\ call'[q] = call[q]
      BY <2>2 DEF Grounded
    <3> DEFINE c == clerk[q]
    <3>2. CASE c.at = "insert"
      <4>1. c.dispute \in Disputes /\ c.dispute # e
        BY <2>2, <3>2, ClerkForm DEF Working
      <4>2. dispute'[c.dispute] = dispute[c.dispute]  BY <1>1, <4>1
      <4>3. QED  BY <2>2, <3>1, <3>2, <4>2 DEF ClerkIsReliable, Working
    <3>3. CASE c.at \in Deciding
      <4>1. c.dispute \in Disputes  BY <3>3, ClerkForm
      <4>2. CASE c.dispute # e
        <5>1. dispute'[c.dispute] = dispute[c.dispute]  BY <1>1, <4>1, <4>2
        <5>2. QED
          BY <3>1, <3>3, <5>1 DEF ClerkIsReliable, Deciding, Within
      <4>3. CASE c.dispute = e
        <5>1. dispute[e] # NoDispute /\ c.at # "orchestrate"
          BY <3>1, <3>3, <4>3 DEF ClerkIsReliable, Deciding
        <5>2. dispute'[c.dispute] = row /\ row.tx = dispute[c.dispute].tx
          BY <1>1, <4>3, <5>1
        <5>3. QED
          BY <1>1, <3>1, <3>3, <5>1, <5>2 DEF ClerkIsReliable, Deciding, Within
      <4>4. QED  BY <4>2, <4>3
    <3>4. CASE c.at \notin {"insert"} \cup Deciding
      BY <3>1, <3>4 DEF ClerkIsReliable, Deciding
    <3>5. QED  BY <3>2, <3>3, <3>4
  <2>3. QED  BY <2>1, <2>2
<1>3. \A d \in Disputes :
        dispute'[d] # NoDispute =>
          (dispute'[d].status = "OPEN" <=> dispute'[d].resolution = Unresolved)
  BY <1>1 DEF Grounded
<1>4. \A t \in Transactions : \A a : Decided(t, a) => Decided(t, a)'
  BY <1>1, DecidedKept
<1>5. ASSUME "resolve" \notin Endpoints
      PROVE  /\ RefundsAreDecided'
             /\ \A q \in Requests :
                  RefundRequest(call[q]) =>
                    call[q].amount > 0 /\ Decided(call[q].tx, call[q].amount)'
  <2>1. RefundsAreDecided'  BY <1>4, <1>5 DEF Grounded, RefundsAreDecided
  <2>2. ASSUME NEW q \in Requests, RefundRequest(call[q])
        PROVE  call[q].amount > 0 /\ Decided(call[q].tx, call[q].amount)'
    <3>1. call[q] \in Call
      BY <2>2, CallTyped DEF RefundRequest, Idle, DisputeTypeOK
    <3>2. call[q].tx \in Transactions  BY <3>1 DEF Call
    <3>3. QED  BY <1>4, <1>5, <2>2, <3>2 DEF Grounded
  <2>3. QED  BY <2>1, <2>2
<1>6. QED  BY <1>2, <1>3, <1>5 DEF Grounded, RefundRequest

LEMMA InsertGrounded ==
  ASSUME DisputeTypeOK, Grounded, NEW r \in Requests, InsertDispute(r)
  PROVE  Grounded'
<1>1. PICK d \in Disputes, row \in DisputeRow :
        /\ d = clerk[r].dispute
        /\ row.status = "OPEN" /\ row.resolution = Unresolved
        /\ dispute' = [dispute EXCEPT ![d] = row]
  BY InsertType
<1>2. clerk'[r] = Free /\ \A q \in Requests : q # r => clerk'[q] = clerk[q]
  BY InsertType
<1>3. UNCHANGED <<order, call>> /\ clerk[r].at = "insert"
  BY DEF InsertDispute, Working
<1>4. /\ dispute[d] = NoDispute
      /\ \A q \in Requests : Working(q, "insert") /\ clerk[q].dispute = d => q = r
  BY <1>1, <1>3 DEF Grounded, ClerkIsReliable
<1>5. dispute[d].status # "RESOLVED"  BY <1>4 DEF NoDispute
<1>6. QED  BY <1>1, <1>2, <1>3, <1>4, <1>5, FreeReliable, RowGrounded

LEMMA RecordGrounded ==
  ASSUME DisputeTypeOK, Grounded, NEW r \in Requests, RecordResolution(r)
  PROVE  DisputeTypeOK' /\ Grounded'
<1> DEFINE c == clerk[r]
           d == c.dispute
<1>1. /\ c.at = "record" /\ c # Free /\ UNCHANGED <<order, call>>
      /\ dispute[d].resolution = Unresolved
  BY DEF RecordResolution, FirstResolution, Working, Free
<1>2. d \in Disputes /\ c.decision \in Decision  BY <1>1, ClerkForm DEF Deciding
<1>3. /\ call[r] = Idle /\ dispute[d] # NoDispute
      /\ Within(c.decision.shares, Amount[dispute[d].tx])
  BY <1>1 DEF Grounded, ClerkIsReliable
<1>4. DisputeTypeOK' /\ \A q \in Requests : q # r => clerk'[q] = clerk[q]
  BY <1>3, RecordType
<1>5. PICK row \in DisputeRow :
        /\ row.tx = dispute[d].tx
        /\ row.status = "RESOLVED" /\ row.resolution = c.decision
        /\ dispute' = [dispute EXCEPT ![d] = row]
  BY <1>3, RecordType
<1>6. \/ clerk'[r] = Free
      \/ /\ clerk'[r].at = "orchestrate" /\ clerk'[r].dispute = d
         /\ clerk'[r].decision = c.decision /\ c.decision.shares # NoShares
  BY <1>3, RecordType
<1>7. dispute'[d] = row /\ row # NoDispute
  BY <1>2, <1>5 DEF DisputeTypeOK, NoDispute
<1>8. ClerkIsReliable(r)' /\ ~Working(r, "insert")'
  <2>1. CASE clerk'[r] = Free  BY <2>1, FreeReliable
  <2>2. CASE clerk'[r] # Free
    BY <1>1, <1>3, <1>5, <1>6, <1>7, <2>2 DEF ClerkIsReliable, Working, Within
  <2>3. QED  BY <2>1, <2>2
<1>9. dispute[d].status # "RESOLVED"
  BY <1>1, <1>2, <1>3, RowForm DEF Grounded
<1>10. row.status = "OPEN" <=> row.resolution = Unresolved
  BY <1>2, <1>5 DEF Decision, Unresolved, Outcome
<1>11. \A q \in Requests : Working(q, "insert") => clerk[q].dispute # d
  BY <1>3 DEF Grounded, ClerkIsReliable, Working
<1>12. QED
  BY <1>1, <1>2, <1>4, <1>5, <1>8, <1>9, <1>10, <1>11, RowGrounded

LEMMA OrchestrateGrounded ==
  ASSUME DisputeTypeOK, Grounded, NEW r \in Requests, Orchestrate(r)
  PROVE  Grounded'
<1> DEFINE t == dispute[clerk[r].dispute].tx
           refund == Granted(clerk[r]).refund
           release == Granted(clerk[r]).release
<1>1. /\ clerk[r].dispute \in Disputes /\ t \in Transactions
      /\ refund \in 0 .. Amount[t] /\ release \in 0 .. Amount[t]
      /\ ResolveRequests(r, t, refund, release)
  BY OrchestrateResolves
<1>2. Decided(t, refund)
  BY <1>1, OrchestrateResolves DEF Decided
<1>3. /\ clerk'[r] = Free /\ \A q \in Requests : q # r => clerk'[q] = clerk[q]
      /\ UNCHANGED <<order, dispute>> /\ clerk[r] # Free
  BY OrchestrateType DEF Orchestrate, Working, Free
<1> HIDE DEF t, refund, release
<1>4. /\ call'[r] = FirstCall(t, refund, release)
      /\ \A q \in Requests : q # r => call'[q] = call[q]
  BY <1>1 DEF ResolveRequests, Goto, DisputeTypeOK, TypeOK
<1>5. RefundRequest(call'[r])
        => call'[r].amount > 0 /\ Decided(call'[r].tx, call'[r].amount)
  <2>1. NewCall("gate", t) \in Call  BY <1>1, NewCallType DEF Points
  <2>2. CASE refund > 0
    <3>1. call'[r] = RefundCall(t, refund, release)  BY <1>4, <2>2 DEF FirstCall
    <3>2. call'[r].tx = t /\ call'[r].amount = refund
      BY <2>1, <3>1 DEF RefundCall, NewCall
    <3>3. QED  BY <1>2, <2>2, <3>2
  <2>3. CASE ~(refund > 0)
    <3>1. call'[r] = PayoutCall(t, release)  BY <1>4, <2>3 DEF FirstCall
    <3>2. call'[r].kind = "payout"  BY <3>1 DEF PayoutCall, NewCall
    <3>3. QED  BY <3>2 DEF RefundRequest
  <2>4. QED  BY <2>2, <2>3
<1>6. ASSUME NEW q \in Requests  PROVE ClerkIsReliable(q)'
  <2>1. CASE q = r  BY <1>3, <2>1, FreeReliable
  <2>2. CASE q # r
    <3>1. /\ ClerkIsReliable(q) /\ clerk'[q] = clerk[q] /\ call'[q] = call[q]
          /\ ~Working(r, "insert")'
      BY <1>3, <1>4, <2>2, FreeReliable DEF Grounded
    <3>2. QED  BY <1>3, <2>2, <3>1 DEF ClerkIsReliable, Working
  <2>3. QED  BY <2>1, <2>2
<1>7. \A q \in Requests : RefundRequest(call'[q]) /\ "resolve" \notin Endpoints
        => call'[q].amount > 0 /\ Decided(call'[q].tx, call'[q].amount)
  BY <1>4, <1>5 DEF Grounded
<1>8. QED
  BY <1>3, <1>6, <1>7 DEF Grounded, RefundsAreDecided, Decided, RefundRequest

-----------------------------------------------------------------------------
(* The handlers of Settlement at work next to the clerks. *)

\* A handler that goes on moves itself and nobody else.
LEMMA ProgressAlone ==
  ASSUME TypeOK, NEW r \in Requests, Progress(r)
  PROVE  call[r] # Idle /\ \A q \in Requests : q # r => call'[q] = call[q]
<1>1. CASE KycAnswer(r) \/ UpdatePayment(r) \/ CreditEscrow(r)
  BY <1>1 DEF KycAnswer, UpdatePayment, CreditEscrow, At, Idle, Goto, Advance,
              Return, TypeOK
<1>2. CASE ReleaseBalance(r) \/ PaymentGate(r) \/ CheckBalance(r)
  BY <1>2 DEF ReleaseBalance, PaymentGate, CheckBalance, At, Idle, Goto,
              Advance, Return, TypeOK
<1>3. CASE FindExisting(r)
  BY <1>3 DEF FindExisting, At, Idle, Requested, Goto, Advance, TypeOK
<1>4. CASE RefreshOrder(r) \/ CreateOrder(r) \/ CreateConflict(r)
  BY <1>4 DEF RefreshOrder, CreateOrder, CreateConflict, MakeReady, At, Idle,
              Goto, Return, TypeOK
<1>5. CASE Dispatch(r) \/ LockOrder(r) \/ LockTransaction(r) \/ WriteFailed(r)
  BY <1>5 DEF Dispatch, LockOrder, LockTransaction, WriteFailed, At, Idle,
              Requested, Goto, Advance, Return, TypeOK
<1>6. CASE DebitEscrow(r) \/ ReadRemaining(r) \/ CommitSettlement(r)
  BY <1>6 DEF DebitEscrow, ReadRemaining, CommitSettlement, RollBack, At, Idle,
              Goto, Return, TypeOK
<1>7. QED  BY <1>1, <1>2, <1>3, <1>4, <1>5, <1>6 DEF Progress

\* What is left of a refund request when its handler goes on.
CarriesOn(r) ==
  RefundRequest(call[r])' =>
    /\ RefundRequest(call[r])
    /\ call'[r].tx = call[r].tx
    /\ call[r].amount > 0 => call'[r].amount = call[r].amount

\* Where a refund row may come from, and with which amount.
RefundRow(r, t) ==
  \/ order'[t]["refund"] = order[t]["refund"]
  \/ /\ order[t]["refund"] # NoOrder
     /\ order'[t]["refund"].amount = order[t]["refund"].amount
  \/ /\ RefundRequest(call[r])
     /\ t = call[r].tx
     /\ order'[t]["refund"].amount = call[r].amount

LEMMA ProgressRefund ==
  ASSUME TypeOK, Consistent, NEW r \in Requests, Progress(r)
  PROVE  CarriesOn(r) /\ \A t \in Transactions : RefundRow(r, t)
<1> DEFINE c == call[r]
<1>1. call[r] \in Call /\ call \in [Requests -> Call \cup {Idle}]
  BY ProgressAlone, CallTyped DEF TypeOK
<1>2. c.tx \in Transactions /\ c.kind \in Kinds /\ c.amount \in Nat
  BY <1>1 DEF Call
<1>3. ASSUME Requested(r)  PROVE CarriesOn(r)
  <2>1. call'[r] = Idle \/ call'[r] = PayoutCall(c.tx, c.then)
    BY <1>1, <1>3 DEF Requested, Goto
  <2>2. PayoutCall(c.tx, c.then).kind = "payout"  BY DEF PayoutCall, NewCall
  <2>3. QED  BY <2>1, <2>2 DEF CarriesOn, RefundRequest, Idle
<1>4. ASSUME Return(r)  PROVE CarriesOn(r)
  BY <1>1, <1>4 DEF Return, Goto, CarriesOn, RefundRequest, Idle
<1>5. ASSUME NEW p, Advance(r, p),
             c.at \in {"escrow", "gate", "balance", "existing"}
      PROVE  CarriesOn(r)
  <2>1. call'[r] = [c EXCEPT !.at = p]  BY <1>1, <1>5 DEF Advance
  <2>2. call'[r].kind = c.kind /\ call'[r].tx = c.tx /\ call'[r].amount = c.amount
    BY <1>1, <2>1 DEF Call
  <2>3. QED  BY <1>5, <2>2 DEF CarriesOn, RefundRequest
<1>6. ASSUME NEW next \in Call, Goto(r, next),
             next.at \notin {"escrow", "gate", "balance", "existing", "create",
                             "refresh"}
      PROVE  CarriesOn(r)
  BY <1>1, <1>6 DEF Goto, CarriesOn, RefundRequest
<1>7. ASSUME UNCHANGED order  PROVE \A t \in Transactions : RefundRow(r, t)
  BY <1>7 DEF RefundRow
<1>8. ASSUME order[c.tx][c.kind] # NoOrder, NEW s,
             order' = [order EXCEPT ![c.tx][c.kind].status = s]
      PROVE  \A t \in Transactions : RefundRow(r, t)
  <2> SUFFICES ASSUME NEW t \in Transactions PROVE RefundRow(r, t)
    OBVIOUS
  <2>1. order[c.tx][c.kind] \in [status : OrderStatus, amount : Nat]
    BY <1>2 DEF TypeOK
  <2>2. order'[c.tx][c.kind] = [order[c.tx][c.kind] EXCEPT !.status = s]
    BY <1>2, <1>8 DEF TypeOK
  <2>3. order'[c.tx][c.kind].amount = order[c.tx][c.kind].amount
    BY <2>1, <2>2
  <2>4. CASE t = c.tx /\ c.kind = "refund"
    BY <1>8, <2>3, <2>4 DEF RefundRow
  <2>5. CASE ~(t = c.tx /\ c.kind = "refund")
    BY <1>2, <1>8, <2>5 DEF RefundRow, TypeOK
  <2>6. QED  BY <2>4, <2>5
<1>9. CASE KycAnswer(r)
  <2>1. CASE Return(r)  BY <1>4, <1>7, <1>9, <2>1 DEF KycAnswer
  <2>2. CASE Advance(r, "payment")
    <3>1. call'[r].at = "payment"  BY <1>1, <2>2 DEF Advance, Call
    <3>2. QED  BY <1>7, <1>9, <3>1 DEF KycAnswer, CarriesOn, RefundRequest
  <2>3. QED  BY <1>9, <2>1, <2>2 DEF KycAnswer
<1>10. CASE UpdatePayment(r)
  <2>1. AfterPayment(c) = Idle \/ AfterPayment(c).at = "credit"
    BY DEF AfterPayment, NewCall
  <2>2. call'[r] = AfterPayment(c)  BY <1>1, <1>10 DEF UpdatePayment, Goto
  <2>3. CarriesOn(r)  BY <2>1, <2>2 DEF CarriesOn, RefundRequest, Idle
  <2>4. QED  BY <1>7, <1>10, <2>3 DEF UpdatePayment
<1>11. CASE CreditEscrow(r)  BY <1>4, <1>7, <1>11 DEF CreditEscrow
<1>12. CASE ReleaseBalance(r)
  BY <1>4, <1>5, <1>7, <1>12 DEF ReleaseBalance, At
<1>13. CASE PaymentGate(r)
  BY <1>4, <1>5, <1>7, <1>13 DEF PaymentGate, At
<1>14. CASE CheckBalance(r)
  <2>1. CASE Return(r)  BY <1>4, <1>7, <1>14, <2>1 DEF CheckBalance
  <2>2. CASE ~Return(r)
    <3> DEFINE amount == IF c.amount = 0 THEN Balance(c.tx) ELSE c.amount
    <3>1. Goto(r, [c EXCEPT !.at = "existing", !.amount = amount])
      BY <1>14, <2>2 DEF CheckBalance
    <3>2. call'[r] = [c EXCEPT !.at = "existing", !.amount = amount]
      BY <1>1, <3>1 DEF Goto
    <3>3. c.amount > 0 => amount = c.amount  BY <1>2
    <3> HIDE DEF amount
    <3>4. /\ call'[r].tx = c.tx /\ call'[r].kind = c.kind
          /\ call'[r].amount = amount
      BY <1>1, <3>2 DEF Call
    <3>5. CarriesOn(r)
      BY <1>14, <3>3, <3>4 DEF CheckBalance, At, CarriesOn, RefundRequest
    <3>6. QED  BY <1>7, <1>14, <3>5 DEF CheckBalance
  <2>3. QED  BY <2>1, <2>2
<1>15. CASE FindExisting(r)
  <2>1. Requested(r) \/ Advance(r, "create") \/ Advance(r, "refresh")
    BY <1>15 DEF FindExisting
  <2>2. CarriesOn(r)  BY <1>3, <1>5, <1>15, <2>1 DEF FindExisting, At
  <2>3. QED  BY <1>7, <1>15, <2>2 DEF FindExisting
<1>16. CASE RefreshOrder(r) \/ CreateOrder(r)
  <2>1. MakeReady(r) /\ c.at \in {"create", "refresh"}
    BY <1>16 DEF RefreshOrder, CreateOrder, At
  <2>2. [c EXCEPT !.at = "dispatch", !.amount = 0] \in Call
    BY <1>1 DEF Call, Points
  <2>3. CarriesOn(r)
    <3>1. [c EXCEPT !.at = "dispatch", !.amount = 0].at = "dispatch"
      BY <1>1 DEF Call
    <3>2. QED  BY <1>6, <2>1, <2>2, <3>1 DEF MakeReady
  <2>4. ASSUME NEW t \in Transactions  PROVE RefundRow(r, t)
    <3>1. CASE t = c.tx /\ c.kind = "refund"
      BY <1>2, <2>1, <3>1 DEF MakeReady, RefundRow, RefundRequest, TypeOK
    <3>2. CASE ~(t = c.tx /\ c.kind = "refund")
      BY <1>2, <2>1, <3>2 DEF MakeReady, RefundRow, TypeOK
    <3>3. QED  BY <3>1, <3>2
  <2>5. QED  BY <2>3, <2>4
<1>17. CASE CreateConflict(r)  BY <1>4, <1>7, <1>17 DEF CreateConflict
<1>18. CASE Dispatch(r)
  <2>1. order[c.tx][c.kind] # NoOrder
    BY <1>1, <1>18, ReliableCall DEF Dispatch, At, Reliable
  <2>2. QED  BY <1>3, <1>8, <1>18, <2>1 DEF Dispatch
<1>19. CASE LockOrder(r) \/ LockTransaction(r)
  <2>1. call'[r].at \in {"debit", "commit"}
    BY <1>1, <1>19 DEF LockOrder, LockTransaction, Advance, Call
  <2>2. QED
    BY <1>7, <1>19, <2>1
    DEF LockOrder, LockTransaction, CarriesOn, RefundRequest
<1>20. CASE DebitEscrow(r)
  <2>1. CASE Return(r)  BY <1>4, <1>7, <1>20, <2>1 DEF DebitEscrow
  <2>2. CASE ~Return(r)
    <3> DEFINE absent == ~(ledger[c.tx][c.kind] # 0)
    <3>1. Goto(r, [c EXCEPT !.at = "remaining", !.fresh = absent])
      BY <1>20, <2>2 DEF DebitEscrow, RollBack
    <3> HIDE DEF absent
    <3>2. call'[r].at = "remaining"  BY <1>1, <3>1 DEF Goto, Call
    <3>3. QED  BY <1>7, <1>20, <3>2 DEF DebitEscrow, CarriesOn, RefundRequest
  <2>3. QED  BY <2>1, <2>2
<1>21. CASE ReadRemaining(r)
  <2> DEFINE left == Balance(c.tx) - (IF c.fresh THEN c.amount ELSE 0)
  <2>1. Goto(r, [c EXCEPT !.at = "update", !.escrow = left])
    BY <1>21 DEF ReadRemaining
  <2> HIDE DEF left
  <2>2. call'[r].at = "update"  BY <1>1, <2>1 DEF Goto, Call
  <2>3. QED  BY <1>7, <1>21, <2>2 DEF ReadRemaining, CarriesOn, RefundRequest
<1>22. CASE CommitSettlement(r)
  <2>1. order[c.tx][c.kind] # NoOrder
    BY <1>22, CommitLedger
  <2>2. QED  BY <1>4, <1>8, <1>22, <2>1 DEF CommitSettlement
<1>23. CASE WriteFailed(r)
  <2>1. order[c.tx][c.kind] # NoOrder
    BY <1>1, <1>23, ReliableCall DEF WriteFailed, At, Reliable
  <2>2. QED  BY <1>4, <1>8, <1>23, <2>1 DEF WriteFailed
<1>24. QED
  BY <1>9, <1>10, <1>11, <1>12, <1>13, <1>14, <1>15, <1>16, <1>17, <1>18,
     <1>19, <1>20, <1>21, <1>22, <1>23 DEF Progress

\* No request of a client asks for a refund: only resolve does.
LEMMA ReceiveAlone ==
  ASSUME TypeOK, NEW r \in Requests, NEW t \in Transactions, Receive(r, t)
  PROVE  /\ \A q \in Requests : q # r => call'[q] = call[q]
         /\ UNCHANGED <<tx, ledger, order>>
         /\ "resolve" \notin Endpoints => ~RefundRequest(call[r])'
<1>1. CASE \E ps \in PaymentResults : MarkPayment(r, t, ps)
  <2>1. PICK ps \in PaymentResults : MarkPayment(r, t, ps)  BY <1>1
  <2>2. PICK next : /\ next.kind = "payout" /\ Goto(r, next)
                    /\ UNCHANGED <<tx, ledger, order>>
    BY <2>1 DEF MarkPayment, NewCall
  <2>3. QED  BY <2>2 DEF Goto, RefundRequest, TypeOK
<1>2. CASE ReleaseFunds(r, t)
  BY <1>2 DEF ReleaseFunds, NewCall, Goto, RefundRequest, TypeOK
<1>3. CASE \E p \in DOMAIN Answer : RequestPayout(r, t, p)
  BY <1>3 DEF RequestPayout, NewCall, Goto, RefundRequest, TypeOK
<1>4. CASE /\ "resolve" \in Endpoints
           /\ \E refund, release \in 0 .. Amount[t] :
                ResolveRequests(r, t, refund, release)
  BY <1>4 DEF ResolveRequests, Goto, TypeOK
<1>5. CASE \E k \in Kinds : Settle(r, t, k)
  <2>1. PICK k \in Kinds : Settle(r, t, k)  BY <1>5
  <2>2. PICK next : /\ next.at = "lock" /\ Goto(r, next)
                    /\ UNCHANGED <<tx, ledger, order>>
    BY <2>1 DEF Settle, NewCall
  <2>3. QED  BY <2>2 DEF Goto, RefundRequest, TypeOK
<1>6. CASE \E k \in Kinds : Fail(r, t, k)
  <2>1. PICK k \in Kinds : Fail(r, t, k)  BY <1>6
  <2>2. PICK next : /\ next.at = "fail" /\ Goto(r, next)
                    /\ UNCHANGED <<tx, ledger, order>>
    BY <2>1 DEF Fail, NewCall
  <2>3. QED  BY <2>2 DEF Goto, RefundRequest, TypeOK
<1>7. QED
  BY <1>1, <1>2, <1>3, <1>4, <1>5, <1>6
  DEF Receive, MarkPaid, MarkRefunded, MarkPayoutFailed, MarkRefundFailed

LEMMA MoneyConsistent ==
  ASSUME TypeOK, Consistent, MoneyStep
  PROVE  Consistent'
<1>1. CASE \E r \in Requests : Progress(r)
  BY <1>1, ProgressConsistent
<1>2. CASE \E r \in Requests : Interrupted(r)
  BY <1>2, ReturnConsistent DEF Interrupted
<1>3. CASE \E r \in Requests, t \in Transactions : Receive(r, t)
  BY <1>3, ReceiveConsistent
<1>4. CASE \E t \in Transactions, s \in Statuses : UpdateStatus(t, s)
  BY <1>4, Unmoved DEF UpdateStatus
<1>5. QED  BY <1>1, <1>2, <1>3, <1>4 DEF MoneyStep

\* A handler of Settlement moves, and the clerks with their rows stay.
LEMMA CallGrounded ==
  ASSUME DisputeTypeOK, Grounded, NEW r \in Requests, clerk[r] = Free,
         UNCHANGED <<dispute, clerk>>,
         \A q \in Requests : q # r => call'[q] = call[q],
         "resolve" \notin Endpoints =>
           /\ RefundRequest(call[r])' =>
                call'[r].amount > 0 /\ Decided(call'[r].tx, call'[r].amount)
           /\ \A t \in Transactions :
                order'[t]["refund"] # NoOrder =>
                  Decided(t, order'[t]["refund"].amount)
  PROVE  Grounded'
<1>1. ASSUME NEW q \in Requests  PROVE ClerkIsReliable(q)'
  <2>1. CASE q = r
    BY <2>1 DEF ClerkIsReliable, Free
  <2>2. CASE q # r
    <3>1. ClerkIsReliable(q) /\ call'[q] = call[q]  BY <2>2 DEF Grounded
    <3>2. QED  BY <3>1 DEF ClerkIsReliable, Working
  <2>3. QED  BY <2>1, <2>2
<1>2. \A t \in Transactions : \A a : Decided(t, a)' <=> Decided(t, a)
  BY DEF Decided
<1>3. ASSUME "resolve" \notin Endpoints, NEW q \in Requests,
             RefundRequest(call[q])'
      PROVE  call'[q].amount > 0 /\ Decided(call'[q].tx, call'[q].amount)
  <2>1. CASE q = r  BY <1>3, <2>1
  <2>2. CASE q # r
    <3>1. call'[q] = call[q] /\ RefundRequest(call[q])
      BY <1>3, <2>2 DEF RefundRequest
    <3>2. QED  BY <1>3, <3>1 DEF Grounded
  <2>3. QED  BY <2>1, <2>2
<1>4. QED
  BY <1>1, <1>3 DEF Grounded, RefundsAreDecided, Decided, RefundRequest

LEMMA MoneyGrounded ==
  ASSUME DisputeTypeOK, Consistent, Grounded, MoneyStep
  PROVE  Grounded'
<1>1. TypeOK /\ UNCHANGED <<dispute, clerk>>  BY DEF DisputeTypeOK, MoneyStep
<1>2. ASSUME NEW r \in Requests, Progress(r)  PROVE Grounded'
  <2>1. call[r] # Idle /\ \A q \in Requests : q # r => call'[q] = call[q]
    BY <1>1, <1>2, ProgressAlone
  <2>2. clerk[r] = Free  BY <2>1 DEF Grounded, ClerkIsReliable
  <2>3. CarriesOn(r) /\ \A t \in Transactions : RefundRow(r, t)
    BY <1>1, <1>2, ProgressRefund
  <2>4. ASSUME "resolve" \notin Endpoints, RefundRequest(call[r])'
        PROVE  call'[r].amount > 0 /\ Decided(call'[r].tx, call'[r].amount)
    BY <2>3, <2>4 DEF CarriesOn, Grounded
  <2>5. ASSUME "resolve" \notin Endpoints, NEW t \in Transactions,
               order'[t]["refund"] # NoOrder
        PROVE  Decided(t, order'[t]["refund"].amount)
    <3>1. CASE RefundRequest(call[r]) /\ t = call[r].tx
               /\ order'[t]["refund"].amount = call[r].amount
      BY <2>5, <3>1 DEF Grounded
    <3>2. CASE /\ order[t]["refund"] # NoOrder
               /\ order'[t]["refund"].amount = order[t]["refund"].amount
      BY <2>5, <3>2 DEF Grounded, RefundsAreDecided
    <3>3. QED  BY <2>3, <2>5, <3>1, <3>2 DEF RefundRow
  <2>6. QED  BY <1>1, <2>1, <2>2, <2>4, <2>5, CallGrounded
<1>3. ASSUME NEW r \in Requests, Interrupted(r)  PROVE Grounded'
  <2>1. /\ call'[r] = Idle /\ call[r] # Idle /\ UNCHANGED order
        /\ \A q \in Requests : q # r => call'[q] = call[q]
    BY <1>1, <1>3 DEF Interrupted, Return, Goto, TypeOK
  <2>2. clerk[r] = Free /\ ~RefundRequest(call[r])'
    BY <2>1 DEF Grounded, ClerkIsReliable, RefundRequest, Idle
  <2>3. QED
    BY <1>1, <2>1, <2>2, CallGrounded DEF Grounded, RefundsAreDecided
<1>4. ASSUME NEW r \in Requests, NEW t \in Transactions, clerk[r] = Free,
             Receive(r, t)
      PROVE  Grounded'
  BY <1>1, <1>4, ReceiveAlone, CallGrounded DEF Grounded, RefundsAreDecided
<1>5. ASSUME NEW t \in Transactions, NEW s \in Statuses, UpdateStatus(t, s)
      PROVE  Grounded'
  BY <1>1, <1>5
  DEF UpdateStatus, Grounded, ClerkIsReliable, Working, RefundsAreDecided,
      Decided, RefundRequest
<1>6. QED  BY <1>2, <1>3, <1>4, <1>5 DEF MoneyStep

-----------------------------------------------------------------------------
(* Every step. *)

DisputeInv == DisputeTypeOK /\ Consistent /\ Grounded

LEMMA ClerkStep ==
  ASSUME DisputeInv, NEW r \in Requests, ClerkProgress(r) \/ ClerkInterrupted(r)
  PROVE  DisputeInv'
<1>1. DisputeTypeOK /\ TypeOK /\ Consistent /\ Grounded
  BY DEF DisputeInv, DisputeTypeOK
<1>2. CASE InsertDispute(r)
  BY <1>1, <1>2, InsertType, InsertGrounded, Unmoved
  DEF DisputeInv, InsertDispute
<1>3. CASE DecideAmounts(r)
  BY <1>1, <1>3, DecideGrounded, Unmoved DEF DisputeInv, DecideAmounts
<1>4. CASE FindResolution(r)
  BY <1>1, <1>4, FindType, FindGrounded, Unmoved DEF DisputeInv, FindResolution
<1>5. CASE RecordResolution(r)
  BY <1>1, <1>5, RecordGrounded, Unmoved DEF DisputeInv, RecordResolution
<1>6. CASE RecordConflict(r) \/ ClerkInterrupted(r)
  BY <1>1, <1>6, ConflictType, LeaveGrounded, Unmoved DEF DisputeInv
<1>7. CASE Orchestrate(r)
  <2>1. DisputeTypeOK' /\ Grounded'
    BY <1>1, <1>7, OrchestrateType, OrchestrateGrounded
  <2>2. Consistent'  BY <1>1, <1>7, OrchestrateResolves, ResolveConsistent
  <2>3. QED  BY <2>1, <2>2 DEF DisputeInv
<1>8. QED  BY <1>2, <1>3, <1>4, <1>5, <1>6, <1>7 DEF ClerkProgress

\* The amounts of a request are amounts.
LEMMA GivenType ==
  ASSUME DisputeTypeOK, NEW d \in Disputes, dispute[d] # NoDispute,
         NEW given \in [refund : 0 .. Amount[dispute[d].tx],
                        release : 0 .. Amount[dispute[d].tx]]
  PROVE  given \in Shares
<1>1. Amount[dispute[d].tx] \in Nat  BY RowForm, AmountType
<1>2. QED  BY <1>1 DEF Shares

LEMMA ReceiveStep ==
  ASSUME DisputeInv, NEW r \in Requests, DisputeReceive(r)
  PROVE  DisputeInv' /\ UNCHANGED <<ledger, order, call, dispute>>
<1>1. DisputeTypeOK /\ TypeOK /\ Consistent /\ Grounded
  BY DEF DisputeInv, DisputeTypeOK
<1>2. ASSUME NEW d \in Disputes, NEW t \in Transactions,
             NEW reason \in Reasons, OpenDispute(r, d, t, reason)
      PROVE  DisputeInv' /\ UNCHANGED <<ledger, order, call, dispute>>
  BY <1>1, <1>2, OpenType, OpenGrounded, Unmoved DEF DisputeInv, OpenDispute
<1>3. ASSUME NEW d \in Disputes, NEW o \in Outcome, NEW e \in Evidence,
             NEW even \in BOOLEAN, dispute[d] # NoDispute,
             NEW given \in [refund : 0 .. Amount[dispute[d].tx],
                            release : 0 .. Amount[dispute[d].tx]],
             Resolve(r, d, o, e, given, even)
      PROVE  DisputeInv' /\ UNCHANGED <<ledger, order, call, dispute>>
  <2>1. given \in Shares  BY <1>1, <1>3, GivenType
  <2>2. DisputeTypeOK' /\ Grounded'
    BY <1>1, <1>3, <2>1, ResolveTurn, ResolveGrounded
  <2>3. QED  BY <1>1, <1>3, <2>2, Unmoved DEF DisputeInv, Resolve
<1>4. QED  BY <1>2, <1>3 DEF DisputeReceive

LEMMA DisputeInvInit == DisputeInit => DisputeInv
<1> SUFFICES ASSUME DisputeInit PROVE DisputeInv  OBVIOUS
<1>1. Init /\ TypeOK /\ Consistent
  BY TypeInit, ConsistentInit DEF DisputeInit
<1>2. DisputeTypeOK  BY <1>1 DEF DisputeInit, DisputeTypeOK
<1>3. /\ \A r \in Requests : clerk[r] = Free /\ call[r] = Idle
      /\ \A d \in Disputes : dispute[d] = NoDispute
      /\ \A t \in Transactions : order[t]["refund"] = NoOrder
  BY DEF DisputeInit, Init
<1>4. \A r \in Requests : ClerkIsReliable(r) /\ ~RefundRequest(call[r])
  BY <1>3 DEF ClerkIsReliable, Free, RefundRequest, Idle
<1>5. Grounded  BY <1>3, <1>4 DEF Grounded, RefundsAreDecided
<1>6. QED  BY <1>1, <1>2, <1>5 DEF DisputeInv

LEMMA DisputeInvStep == DisputeInv /\ [DisputeNext]_disputeVars => DisputeInv'
<1> SUFFICES ASSUME DisputeInv, [DisputeNext]_disputeVars PROVE DisputeInv'
  OBVIOUS
<1>1. CASE MoneyStep
  BY <1>1, MoneyType, MoneyConsistent, MoneyGrounded
  DEF DisputeInv, DisputeTypeOK
<1>2. ASSUME NEW r \in Requests,
             ClerkProgress(r) \/ ClerkInterrupted(r) \/ DisputeReceive(r)
      PROVE  DisputeInv'
  BY <1>2, ClerkStep, ReceiveStep
<1>3. CASE UNCHANGED disputeVars
  <2>1. Consistent' /\ DisputeTypeOK'
    BY <1>3, Unmoved DEF disputeVars, DisputeInv, DisputeTypeOK, TypeOK
  <2>2. Grounded'
    BY <1>3
    DEF disputeVars, DisputeInv, Grounded, ClerkIsReliable, Working,
        RefundsAreDecided, Decided, RefundRequest
  <2>3. QED  BY <2>1, <2>2 DEF DisputeInv
<1>4. QED  BY <1>1, <1>2, <1>3 DEF DisputeNext

(***************************************************************************)
(* The inductive invariant holds for any number of disputes, of admins     *)
(* that resolve them and of handlers that move the money meanwhile.        *)
(***************************************************************************)
THEOREM AlwaysGrounded == DisputeSpec => []Grounded
<1>1. DisputeInv => Grounded  BY DEF DisputeInv
<1>2. QED  BY <1>1, DisputeInvInit, DisputeInvStep, PTL DEF DisputeSpec

\* Every reachable state is well-typed: the shares DisputeService.resolve
\* computes from a balance it has read before are amounts, never negative.
THEOREM DisputeTypeCorrect == DisputeSpec => []DisputeTypeOK
<1>1. DisputeInv => DisputeTypeOK  BY DEF DisputeInv
<1>2. QED  BY <1>1, DisputeInvInit, DisputeInvStep, PTL DEF DisputeSpec

(***************************************************************************)
(* Every refund row has the amount that a resolved dispute of its          *)
(* transaction grants (requestRefundForTransaction is called by            *)
(* DisputeService.resolve alone), with any number of disputes per          *)
(* transaction and of refunds in flight.                                   *)
(***************************************************************************)
THEOREM RefundsAlwaysDecided ==
  ASSUME "resolve" \notin Endpoints
  PROVE  DisputeSpec => []RefundsAreDecided
<1>1. DisputeInv => RefundsAreDecided  BY DEF DisputeInv, Grounded
<1>2. QED  BY <1>1, DisputeInvInit, DisputeInvStep, PTL DEF DisputeSpec

LEMMA ResolvedStays ==
  ASSUME DisputeInv, [DisputeNext]_disputeVars, NEW d \in Disputes,
         dispute[d].status = "RESOLVED"
  PROVE  dispute'[d] = dispute[d]
<1>1. DisputeTypeOK /\ Grounded  BY DEF DisputeInv
<1>2. ASSUME NEW r \in Requests, InsertDispute(r)
      PROVE  dispute'[d] = dispute[d]
  <2>1. dispute[clerk[r].dispute] = NoDispute
    BY <1>1, <1>2 DEF InsertDispute, Grounded, ClerkIsReliable, Working
  <2>2. clerk[r].dispute # d  BY <2>1 DEF NoDispute
  <2>3. QED
    BY <1>1, <1>2, <2>2 DEF InsertDispute, DisputeTypeOK
<1>3. ASSUME NEW r \in Requests, RecordResolution(r)
      PROVE  dispute'[d] = dispute[d]
  <2>1. dispute[clerk[r].dispute].resolution = Unresolved
    BY <1>3 DEF RecordResolution, FirstResolution
  <2>2. dispute[d] # NoDispute  BY DEF NoDispute
  <2>3. clerk[r].dispute # d  BY <1>1, <2>1, <2>2 DEF Grounded
  <2>4. QED
    BY <1>1, <1>3, <2>3 DEF RecordResolution, DisputeTypeOK
<1>4. UNCHANGED dispute \/ \E r \in Requests : InsertDispute(r) \/ RecordResolution(r)
  BY ReceiveStep
  DEF DisputeNext, MoneyStep, ClerkProgress, DecideAmounts, FindResolution,
      RecordConflict, Orchestrate, ClerkInterrupted, disputeVars
<1>5. QED  BY <1>2, <1>3, <1>4

\* A resolution is never replaced, however many admins resolve the dispute
\* (DisputeService.resolve, the unique disputeId of DisputeResolution).
THEOREM ResolvedAlwaysOnce == DisputeSpec => ResolvedOnce
<1>1. DisputeInv /\ [DisputeNext]_disputeVars
        => [\A d \in Disputes :
              dispute[d].status = "RESOLVED"
                => dispute'[d] = dispute[d]]_disputeVars
  BY ResolvedStays
<1>2. QED
  BY <1>1, DisputeInvInit, DisputeInvStep, PTL DEF DisputeSpec, ResolvedOnce

-----------------------------------------------------------------------------
(* Dispute implements Settlement with all its endpoints. *)

LEMMA CoreProgress ==
  ASSUME NEW r \in Requests, Progress(r)
  PROVE  Core!Progress(r)
<1>1. CASE KycAnswer(r)
  BY <1>1
  DEF KycAnswer, Core!KycAnswer, At, Core!At, Advance, Core!Advance,
      Return, Core!Return, Goto, Core!Goto, Idle, Core!Idle, Core!Progress
<1>2. CASE UpdatePayment(r)
  BY <1>2
  DEF UpdatePayment, Core!UpdatePayment, At, Core!At, RowFree,
      Core!RowFree, Goto, Core!Goto, AfterPayment, Core!AfterPayment, NewCall, Core!NewCall, Idle,
      Core!Idle, Core!Progress
<1>3. CASE CreditEscrow(r)
  BY <1>3
  DEF CreditEscrow, Core!CreditEscrow, At, Core!At, Return, Core!Return,
      Goto, Core!Goto, Idle, Core!Idle, Recorded, Core!Recorded, Core!Progress
<1>4. CASE ReleaseBalance(r)
  BY <1>4
  DEF ReleaseBalance, Core!ReleaseBalance, At, Core!At, Advance,
      Core!Advance, Return, Core!Return, Goto, Core!Goto, Idle,
      Core!Idle, Balance, Core!Balance, Core!Progress
<1>5. CASE PaymentGate(r)
  BY <1>5
  DEF PaymentGate, Core!PaymentGate, At, Core!At, Advance, Core!Advance,
      Return, Core!Return, Goto, Core!Goto, Idle, Core!Idle, Core!Progress
<1>6. CASE CheckBalance(r)
  BY <1>6
  DEF CheckBalance, Core!CheckBalance, At, Core!At, Return, Core!Return,
      Goto, Core!Goto, Idle, Core!Idle, Balance, Core!Balance,
      Affordable, Core!Affordable, Core!Progress
<1>7. CASE FindExisting(r)
  BY <1>7
  DEF FindExisting, Core!FindExisting, At, Core!At, Advance,
      Core!Advance, Requested, Core!Requested, Goto, Core!Goto, Idle,
      Core!Idle, PayoutCall, Core!PayoutCall, NewCall, Core!NewCall,
      Active, Core!Active, Settled, Core!Settled, Core!Progress
<1>8. CASE RefreshOrder(r)
  BY <1>8
  DEF RefreshOrder, Core!RefreshOrder, At, Core!At, OrderFree,
      Core!OrderFree, InTx, Core!InTx, Core!TxPhase, MakeReady,
      Core!MakeReady, Goto, Core!Goto, Core!Progress
<1>9. CASE CreateOrder(r)
  BY <1>9
  DEF CreateOrder, Core!CreateOrder, At, Core!At, NoOrder, Core!NoOrder,
      MakeReady, Core!MakeReady, Goto, Core!Goto, Core!Progress
<1>10. CASE CreateConflict(r)
  BY <1>10
  DEF CreateConflict, Core!CreateConflict, At, Core!At, NoOrder,
      Core!NoOrder, Return, Core!Return, Goto, Core!Goto, Idle,
      Core!Idle, Core!Progress
<1>11. CASE Dispatch(r)
  BY <1>11
  DEF Dispatch, Core!Dispatch, At, Core!At, OrderFree, Core!OrderFree,
      InTx, Core!InTx, Core!TxPhase, Answer, Core!Answer, Requested,
      Core!Requested, Goto, Core!Goto, Idle, Core!Idle, PayoutCall,
      Core!PayoutCall, NewCall, Core!NewCall, Core!Progress
<1>12. CASE LockOrder(r)
  BY <1>12
  DEF LockOrder, Core!LockOrder, At, Core!At, OrderFree, Core!OrderFree,
      InTx, Core!InTx, Core!TxPhase, Advance, Core!Advance, Core!Progress
<1>13. CASE DebitEscrow(r)
  BY <1>13
  DEF DebitEscrow, Core!DebitEscrow, At, Core!At, Balance, Core!Balance,
      Sufficient, Core!Sufficient, RollBack, Core!RollBack, Return,
      Core!Return, Goto, Core!Goto, Idle, Core!Idle, Core!Progress
<1>14. CASE ReadRemaining(r)
  BY <1>14
  DEF ReadRemaining, Core!ReadRemaining, At, Core!At, Balance,
      Core!Balance, Goto, Core!Goto, Core!Progress
<1>15. CASE CommitSettlement(r)
  BY <1>15
  DEF CommitSettlement, Core!CommitSettlement, At, Core!At, Settled,
      Core!Settled, PaymentAfter, Core!PaymentAfter, WhollyRefunded,
      Core!WhollyRefunded, Return, Core!Return, Goto, Core!Goto, Idle,
      Core!Idle, Core!Progress
<1>16. CASE WriteFailed(r)
  BY <1>16
  DEF WriteFailed, Core!WriteFailed, At, Core!At, OrderFree,
      Core!OrderFree, InTx, Core!InTx, Core!TxPhase, Return,
      Core!Return, Goto, Core!Goto, Idle, Core!Idle, Core!Progress
<1>17. CASE LockTransaction(r)
  BY <1>17
  DEF LockTransaction, Core!LockTransaction, At, Core!At, RowFree,
      Core!RowFree, Advance, Core!Advance, Core!Progress
<1>18. QED
  BY <1>1, <1>2, <1>3, <1>4, <1>5, <1>6, <1>7, <1>8, <1>9, <1>10, <1>11,
     <1>12, <1>13, <1>14, <1>15, <1>16, <1>17 DEF Progress

LEMMA CoreResolves ==
  ASSUME NEW r \in Requests, NEW t \in Transactions,
         NEW refund \in 0 .. Amount[t], NEW release \in 0 .. Amount[t],
         ResolveRequests(r, t, refund, release)
  PROVE  Core!Receive(r, t)
<1>1. Core!ResolveRequests(r, t, refund, release)
  BY DEF ResolveRequests, Core!ResolveRequests, FirstCall, Core!FirstCall,
         RefundCall, Core!RefundCall, PayoutCall, Core!PayoutCall, NewCall,
         Core!NewCall, Goto, Core!Goto, Idle, Core!Idle
<1>2. QED  BY <1>1 DEF Core!Receive, AllEndpoints

LEMMA CoreReceive ==
  ASSUME NEW r \in Requests, NEW t \in Transactions, Receive(r, t)
  PROVE  Core!Receive(r, t)
<1>1. CASE \E ps \in PaymentResults : MarkPayment(r, t, ps)
  BY <1>1 DEF PaymentResults, Core!PaymentResults, MarkPayment,
              Core!MarkPayment, NewCall, Core!NewCall, Goto, Core!Goto, Idle,
              Core!Idle, Core!Receive, AllEndpoints
<1>2. CASE ReleaseFunds(r, t)
  BY <1>2 DEF ReleaseFunds, Core!ReleaseFunds, NewCall, Core!NewCall, Goto,
              Core!Goto, Idle, Core!Idle, Core!Receive, AllEndpoints
<1>3. CASE \E p \in DOMAIN Answer : RequestPayout(r, t, p)
  BY <1>3 DEF Answer, Core!Answer, RequestPayout, Core!RequestPayout, NewCall,
              Core!NewCall, Goto, Core!Goto, Idle, Core!Idle, Core!Receive,
              AllEndpoints
<1>4. CASE \E refund, release \in 0 .. Amount[t] :
             ResolveRequests(r, t, refund, release)
  BY <1>4, CoreResolves
<1>5. CASE MarkPaid(r, t) \/ MarkRefunded(r, t)
  BY <1>5 DEF MarkPaid, Core!MarkPaid, MarkRefunded, Core!MarkRefunded, Settle,
              Core!Settle, Settled, Core!Settled, NewCall, Core!NewCall, Goto,
              Core!Goto, Idle, Core!Idle, Core!Receive, AllEndpoints
<1>6. CASE MarkPayoutFailed(r, t) \/ MarkRefundFailed(r, t)
  BY <1>6 DEF MarkPayoutFailed, Core!MarkPayoutFailed, MarkRefundFailed,
              Core!MarkRefundFailed, Fail, Core!Fail, Unsettled,
              Core!Unsettled, Settled, Core!Settled, NewCall, Core!NewCall,
              Goto, Core!Goto, Idle, Core!Idle, Core!Receive, AllEndpoints
<1>7. QED  BY <1>1, <1>2, <1>3, <1>4, <1>5, <1>6 DEF Receive

\* What the clerks do to the transaction is an updateStatus.
LEMMA CoreStatus ==
  ASSUME NEW t \in Transactions, NEW s \in TransactionStatus, RowFree(t),
         tx' = [tx EXCEPT ![t].status = s], UNCHANGED <<ledger, order, call>>
  PROVE  Core!Next
<1>1. Core!UpdateStatus(t, s)
  BY DEF Core!UpdateStatus, RowFree, Core!RowFree, At, Core!At
<1>2. s \in Core!TransactionStatus
  BY DEF TransactionStatus, Core!TransactionStatus
<1>3. QED  BY <1>1, <1>2 DEF Core!Next, AllEndpoints

LEMMA CoreStep ==
  ASSUME DisputeInv, [DisputeNext]_disputeVars
  PROVE  [Core!Next]_(Core!vars)
<1>1. DisputeTypeOK /\ Grounded  BY DEF DisputeInv
<1>2. ASSUME MoneyStep  PROVE Core!Next
  <2>1. ASSUME NEW r \in Requests, Progress(r)  PROVE Core!Next
    BY <2>1, CoreProgress DEF Core!Next
  <2>2. ASSUME NEW r \in Requests, Interrupted(r)  PROVE Core!Next
    BY <2>2 DEF Interrupted, Core!Interrupted, Return, Core!Return, Goto,
                Core!Goto, Idle, Core!Idle, Core!Next
  <2>3. ASSUME NEW r \in Requests, NEW t \in Transactions, Receive(r, t)
        PROVE  Core!Next
    BY <2>3, CoreReceive DEF Core!Next
  <2>4. ASSUME NEW t \in Transactions, NEW s \in Statuses, UpdateStatus(t, s)
        PROVE  Core!Next
    BY <2>4, StatusesAssumption, CoreStatus DEF UpdateStatus
  <2>5. QED  BY <1>2, <2>1, <2>2, <2>3, <2>4 DEF MoneyStep
<1>3. ASSUME NEW r \in Requests, NEW d \in Disputes, NEW t \in Transactions,
             NEW reason \in Reasons, OpenDispute(r, d, t, reason)
      PROVE  Core!Next
  BY <1>3, CoreStatus DEF OpenDispute, TransactionStatus
<1>4. ASSUME NEW r \in Requests, RecordResolution(r)  PROVE Core!Next
  <2>1. clerk[r].dispute \in Disputes
    BY <1>1, <1>4, ClerkForm DEF RecordResolution, Working, Deciding
  <2>2. dispute[clerk[r].dispute] # NoDispute
    BY <1>1, <1>4 DEF RecordResolution, Grounded, ClerkIsReliable, Working
  <2>3. dispute[clerk[r].dispute].tx \in Transactions
    BY <1>1, <2>1, <2>2, RowForm
  <2>4. QED
    BY <1>4, <2>3, CoreStatus DEF RecordResolution, TransactionStatus
<1>5. ASSUME NEW r \in Requests, Orchestrate(r)  PROVE Core!Next
  BY <1>1, <1>5, OrchestrateResolves, CoreResolves DEF Core!Next
<1>6. ASSUME NEW r \in Requests,
             \/ InsertDispute(r) \/ DecideAmounts(r) \/ FindResolution(r)
             \/ RecordConflict(r) \/ ClerkInterrupted(r)
             \/ \E d, o, e, given, even : Resolve(r, d, o, e, given, even)
      PROVE  UNCHANGED Core!vars
  BY <1>6 DEF InsertDispute, DecideAmounts, FindResolution, RecordConflict,
              ClerkInterrupted, Resolve, Core!vars
<1>7. CASE UNCHANGED disputeVars  BY <1>7 DEF disputeVars, Core!vars
<1>8. ASSUME NEW r \in Requests, DisputeReceive(r)
      PROVE  [Core!Next]_(Core!vars)
  BY <1>3, <1>6, <1>8 DEF DisputeReceive
<1>9. QED
  BY <1>2, <1>4, <1>5, <1>6, <1>7, <1>8 DEF DisputeNext, ClerkProgress

(***************************************************************************)
(* The dispute handlers implement Settlement with all its endpoints:       *)
(* whatever is proved of Settlement for every set of endpoints holds with  *)
(* disputes at work too (DisputeService.resolve goes through               *)
(* requestRefundForTransaction and requestPayoutForTransaction).           *)
(***************************************************************************)
THEOREM DisputesImplementSettlement == DisputeSpec => DisputesOnlyUseSettlement
<1>1. DisputeInit => Core!Init
  BY DEF DisputeInit, Init, Core!Init, Entries, Core!Entries, Kinds,
         Core!Kinds, NoOrder, Core!NoOrder, Idle, Core!Idle
<1>2. DisputeInv /\ [DisputeNext]_disputeVars => [Core!Next]_(Core!vars)
  BY CoreStep
<1>3. QED
  BY <1>1, <1>2, DisputeInvInit, DisputeInvStep, PTL
  DEF DisputeSpec, DisputesOnlyUseSettlement, Core!Spec
=============================================================================
