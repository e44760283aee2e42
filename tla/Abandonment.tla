------------------------------ MODULE Abandonment ------------------------------
(***************************************************************************)
(* AbandonmentService: events that remember a step a user has left         *)
(* unfinished, and the two reminder jobs of each.  None of its operations  *)
(* is a $transaction: every `await` is a step of its own, and what it has  *)
(* read before is used after it.  lastSeenAt, metadata and the check of    *)
(* who may resolve are left out, so marking an event that is ACTIVE        *)
(* already changes nothing here.                                           *)
(***************************************************************************)
EXTENDS Naturals, FiniteSets

CONSTANTS
  Subjects,     \* what an event is about: the user, the kind and the reference
                \* by which findFirst and findMany look for it
  Events,       \* ids that events may get
  Requests,     \* handlers that may be in flight at the same time
  Processors,   \* those of them that may be in process-due
  Batch,        \* how many jobs one process-due takes
  Horizon,      \* the last moment of the clock
  Faults        \* whether an awaited call may reject, or the process die

ASSUME ProcessorsAssumption == Processors \subseteq Requests
ASSUME BatchAssumption == Batch \in Nat \ {0}
ASSUME HorizonAssumption == Horizon \in Nat

VARIABLES
  now,      \* the clock
  event,    \* event[e]: row e of AbandonmentEvent
  job,      \* job[e][j]: row of ReminderJob
  call      \* call[r]: where request r is, and what it has read

abandonmentVars == <<now, event, job, call>>

Jobs == {"30m", "24h"}

\* When a job is due, after the creation of its event; only the order counts.
Delay == [j \in Jobs |-> IF j = "30m" THEN 1 ELSE 2]

JobStatus == {"PENDING", "SENT", "FAILED", "CANCELLED"}

EventStatus == {"ACTIVE", "RESOLVED", "CANCELLED"}

NoEvent == [status |-> "NONE"]

EventRow ==
  [status : EventStatus, subject : Subjects, created : 0 .. Horizon]

JobRow == [status : JobStatus, attempts : Nat]
NewJob == [status |-> "PENDING", attempts |-> 0]

Idle == [at |-> "idle"]

\* Points of a handler between two awaits, named for the await that is next.
Call ==
  [at : {"mark", "create", "seek"}, subject : Subjects]
  \cup [at : {"resolve", "cancel"}, events : SUBSET Events]
  \cup [at : {"send"}, jobs : SUBSET (Events \X Jobs)]

AbandonmentTypeOK ==
  /\ now \in 0 .. Horizon
  /\ event \in [Events -> EventRow \cup {NoEvent}]
  /\ job \in [Events -> [Jobs -> JobRow]]
  /\ call \in [Requests -> Call \cup {Idle}]

AbandonmentInit ==
  /\ now = 0
  /\ event = [e \in Events |-> NoEvent]
  /\ job = [e \in Events |-> [j \in Jobs |-> NewJob]]
  /\ call = [r \in Requests |-> Idle]

At(r, point) == call[r].at = point

Goto(r, c) == call' = [call EXCEPT ![r] = c]

Return(r) == Goto(r, Idle)

ActiveEvents(s) ==
  {e \in Events : event[e].status = "ACTIVE" /\ event[e].subject = s}

\* The bound on events: every handler in flight may need one.
Room ==
  Cardinality({e \in Events : event[e] = NoEvent})
    > Cardinality({r \in Requests : call[r] # Idle})

-----------------------------------------------------------------------------
(* AbandonmentService.markAbandoned *)

Mark(r, s) == Goto(r, [at |-> "mark", subject |-> s])

\* Mutant: an event is created without looking for an ACTIVE one.
MarkAnew(r) ==
  /\ At(r, "mark")
  /\ Goto(r, [at |-> "create", subject |-> call[r].subject])
  /\ UNCHANGED <<now, event, job>>

FindEvent(r) ==
  /\ At(r, "mark")
  /\ IF ActiveEvents(call[r].subject) # {}
     THEN Return(r)
     ELSE Goto(r, [at |-> "create", subject |-> call[r].subject])
  /\ UNCHANGED <<now, event, job>>

CreateEvent(r, e) ==
  /\ At(r, "create")
  /\ event[e] = NoEvent
  /\ event' = [event EXCEPT ![e] = [status |-> "ACTIVE",
                                    subject |-> call[r].subject,
                                    created |-> now]]
  /\ job' = [job EXCEPT ![e] = [j \in Jobs |-> NewJob]]
  /\ Return(r)
  /\ UNCHANGED now

-----------------------------------------------------------------------------
(* AbandonmentService.resolveActiveByReference, resolveAbandoned *)

Seek(r, s) == Goto(r, [at |-> "seek", subject |-> s])

FindActive(r) ==
  LET found == ActiveEvents(call[r].subject)
  IN  /\ At(r, "seek")
      /\ IF found = {} THEN Return(r)
                       ELSE Goto(r, [at |-> "resolve", events |-> found])
      /\ UNCHANGED <<now, event, job>>

ResolveAbandoned(r, e) ==
  /\ call[r] = Idle
  /\ event[e] # NoEvent
  /\ Goto(r, [at |-> "resolve", events |-> {e}])
  /\ UNCHANGED <<now, event, job>>

WriteResolved(r) ==
  LET c == call[r]
  IN  /\ At(r, "resolve")
      /\ event' = [e \in Events |-> IF e \in c.events
                                    THEN [event[e] EXCEPT !.status = "RESOLVED"]
                                    ELSE event[e]]
      /\ Goto(r, [at |-> "cancel", events |-> c.events])
      /\ UNCHANGED <<now, job>>

\* Mutant: the status of the event is written to its jobs.
Closed(row) == [row EXCEPT !.status = "RESOLVED"]

\* Mutant: the jobs are left to process-due, which skips RESOLVED events.
LeftPending(row) == row

Cancelled(row) ==
  IF row.status = "PENDING" THEN [row EXCEPT !.status = "CANCELLED"] ELSE row

CancelJobs(r) ==
  /\ At(r, "cancel")
  /\ job' = [e \in Events |-> IF e \in call[r].events
                              THEN [j \in Jobs |-> Cancelled(job[e][j])]
                              ELSE job[e]]
  /\ Return(r)
  /\ UNCHANGED <<now, event>>

-----------------------------------------------------------------------------
(* AbandonmentService.processDueReminders *)

ScheduledFor(k) == event[k[1]].created + Delay[k[2]]

\* Mutant: the query asks for the event's status alone.
NotCancelled(row) == row.status # "CANCELLED"

Pending(row) == row.status = "PENDING"

\* Mutant: the query does not ask for the status of the event.
DueAnyway ==
  {k \in Events \X Jobs :
     /\ event[k[1]] # NoEvent
     /\ Pending(job[k[1]][k[2]])
     /\ ScheduledFor(k) <= now}

DueJobs ==
  {k \in Events \X Jobs :
     /\ event[k[1]].status = "ACTIVE"
     /\ Pending(job[k[1]][k[2]])
     /\ ScheduledFor(k) <= now}

\* Mutant: orderBy desc.
LatestFirst(k, l) == ScheduledFor(k) >= ScheduledFor(l)

\* orderBy scheduledFor asc; which of two jobs due together comes first is open.
NotAfter(k, l) == ScheduledFor(k) <= ScheduledFor(l)

Batches ==
  {b \in SUBSET DueJobs :
     /\ Cardinality(b) <= Batch
     /\ b = DueJobs \/ Cardinality(b) = Batch
     /\ \A k \in b, l \in DueJobs \ b : NotAfter(k, l)}

ProcessDue(r) ==
  /\ call[r] = Idle
  /\ \E b \in Batches :
       Goto(r, IF b = {} THEN Idle ELSE [at |-> "send", jobs |-> b])
  /\ UNCHANGED <<now, event, job>>

SendNext(r) ==
  LET todo == call[r].jobs
  IN  /\ At(r, "send")
      /\ \E k \in todo :
           /\ \A l \in todo : NotAfter(k, l)
           /\ job' = [job EXCEPT ![k[1]][k[2]] =
                       [status |-> "SENT", attempts |-> @.attempts + 1]]
           /\ Goto(r, IF todo = {k} THEN Idle
                      ELSE [at |-> "send", jobs |-> todo \ {k}])
      /\ UNCHANGED <<now, event>>

-----------------------------------------------------------------------------
Interrupted(r) ==
  /\ Faults
  /\ call[r] # Idle
  /\ Return(r)
  /\ UNCHANGED <<now, event, job>>

Tick ==
  /\ now < Horizon
  /\ now' = now + 1
  /\ UNCHANGED <<event, job, call>>

Progress(r) ==
  \/ FindEvent(r) \/ \E e \in Events : CreateEvent(r, e)
  \/ FindActive(r) \/ WriteResolved(r) \/ CancelJobs(r)
  \/ SendNext(r)

\* POST /abandonment/mark, and the reminders other services ask for.
MarkAbandoned(r, s) ==
  /\ call[r] = Idle
  /\ Room
  /\ Mark(r, s)
  /\ UNCHANGED <<now, event, job>>

ResolveActiveByReference(r, s) ==
  /\ call[r] = Idle
  /\ Seek(r, s)
  /\ UNCHANGED <<now, event, job>>

AbandonmentNext ==
  \/ Tick
  \/ \E r \in Requests : Progress(r) \/ Interrupted(r)
  \/ \E r \in Requests, s \in Subjects :
       MarkAbandoned(r, s) \/ ResolveActiveByReference(r, s)
  \/ \E r \in Requests, e \in Events : ResolveAbandoned(r, e)
  \/ \E r \in Processors : ProcessDue(r)

AbandonmentSpec == AbandonmentInit /\ [][AbandonmentNext]_abandonmentVars

-----------------------------------------------------------------------------
(* Properties. *)

(***************************************************************************)
(* RemindersInOrder: the reminder of the second day is never sent while    *)
(* the one of the first half hour still waits, whatever the batches, the   *)
(* processes and the crashes (processDueReminders takes and sends its jobs *)
(* in the order of scheduledFor).                                          *)
(***************************************************************************)
RemindersInOrder ==
  \A e \in Events :
    job[e]["24h"].status = "SENT" => job[e]["30m"].status # "PENDING"

(***************************************************************************)
(* Orderly: what makes RemindersInOrder inductive.  Handlers work on       *)
(* events there are, and one that holds the second reminder of an event,   *)
(* read some time ago, holds the first as well, or nobody has to send it   *)
(* any more (resolveActiveByReference, processDueReminders).               *)
(***************************************************************************)
Known(c) ==
  /\ c.at = "resolve" => \A e \in c.events : event[e] # NoEvent
  /\ c.at = "send" => \A k \in c.jobs : event[k[1]] # NoEvent

CallsAreKnown == \A r \in Requests : Known(call[r])

InSequence(jobs) ==
  \A e \in Events :
    <<e, "24h">> \in jobs =>
      job[e]["30m"].status # "PENDING" \/ <<e, "30m">> \in jobs

Ordered ==
  /\ RemindersInOrder
  /\ \A e \in Events : event[e] = NoEvent => job[e]["24h"].status # "SENT"
  /\ \A r \in Requests : At(r, "send") => InSequence(call[r].jobs)

Orderly == CallsAreKnown /\ Ordered

(***************************************************************************)
(* SentOnce: as long as process-due runs once at a time, no reminder is    *)
(* sent twice, although a batch is sent from what was read before and may  *)
(* be cut short (processDueReminders).                                     *)
(***************************************************************************)
SentOnce == \A e \in Events, j \in Jobs : job[e][j].attempts <= 1

(***************************************************************************)
(* ResolvedIsSilent: when nobody is at work, a RESOLVED event has no       *)
(* reminder left to send (resolveAbandoned, resolveActiveByReference).     *)
(***************************************************************************)
ResolvedIsSilent ==
  (\A r \in Requests : call[r] = Idle) =>
    \A e \in Events :
      event[e].status = "RESOLVED" =>
        \A j \in Jobs : job[e][j].status # "PENDING"

(***************************************************************************)
(* SilencedForGood: a RESOLVED event that no batch in flight holds never   *)
(* reminds anybody again: wherever resolving it was cut short, the jobs    *)
(* left PENDING are not taken up by a later process-due, and no call makes *)
(* the event ACTIVE again (resolveAbandoned, resolveActiveByReference,     *)
(* processDueReminders).                                                   *)
(***************************************************************************)
Silenced(e) ==
  /\ event[e].status = "RESOLVED"
  /\ \A r \in Requests : At(r, "send") => \A k \in call[r].jobs : k[1] # e

SilencedForGood ==
  [][\A e \in Events :
       Silenced(e) =>
         /\ Silenced(e)'
         /\ \A j \in Jobs : job'[e][j].attempts = job[e][j].attempts
    ]_abandonmentVars
=============================================================================
