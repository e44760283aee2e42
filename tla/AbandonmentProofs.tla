--------------------------- MODULE AbandonmentProofs ---------------------------
(* Proofs about Abandonment, for any subjects, events, requests, batch     *)
(* size, horizon and fault assumption, and any number of processors.       *)
EXTENDS Abandonment, TLAPS

USE DEF Jobs

-----------------------------------------------------------------------------
(* Types.  An UPDATE of an event keeps it a row only if there is one, so   *)
(* the type invariant needs CallsAreKnown.                                 *)

Sound == AbandonmentTypeOK /\ CallsAreKnown

LEMMA NewJobType == NewJob \in JobRow
BY DEF NewJob, JobRow, JobStatus

LEMMA RowIsEvent == \A row \in EventRow : row # NoEvent
BY DEF EventRow, EventStatus, NoEvent

\* The locals a handler has at each of its points.
LEMMA CallForm ==
  ASSUME AbandonmentTypeOK, NEW r \in Requests
  PROVE  /\ call[r].at \in {"mark", "create", "seek"}
              => call[r].subject \in Subjects
         /\ call[r].at \in {"resolve", "cancel"}
              => call[r].events \in SUBSET Events
         /\ call[r].at = "send" => call[r].jobs \in SUBSET (Events \X Jobs)
<1>1. call[r] \in Call \cup {Idle}  BY DEF AbandonmentTypeOK
<1>2. QED  BY <1>1 DEF Call, Idle

\* A handler replaces its own locals only; if no event is undone, everybody
\* still works on events there are.
LEMMA GotoSound ==
  ASSUME Sound, NEW r \in Requests, NEW c \in Call \cup {Idle}, Goto(r, c),
         \A e \in Events : event[e] # NoEvent => event'[e] # NoEvent,
         c.at = "resolve" => \A e \in c.events : event'[e] # NoEvent,
         c.at = "send" => \A k \in c.jobs : event'[k[1]] # NoEvent
  PROVE  /\ call' \in [Requests -> Call \cup {Idle}]
         /\ CallsAreKnown'
<1>1. call' \in [Requests -> Call \cup {Idle}]
  BY DEF Sound, AbandonmentTypeOK, Goto
<1>2. ASSUME NEW q \in Requests  PROVE Known(call[q])'
  <2>1. CASE q = r
    <3>1. call'[q] = c  BY <2>1 DEF Goto, Sound, AbandonmentTypeOK
    <3>2. QED  BY <3>1 DEF Known
  <2>2. CASE q # r
    <3>1. call'[q] = call[q]  BY <2>2 DEF Goto, Sound, AbandonmentTypeOK
    <3>2. Known(call[q])  BY DEF Sound, CallsAreKnown
    <3>3. call[q].at = "resolve" => call[q].events \in SUBSET Events
      BY CallForm DEF Sound
    <3>4. call[q].at = "send"
            => \A k \in call[q].jobs : k[1] \in Events
      BY CallForm DEF Sound
    <3>5. QED  BY <3>1, <3>2, <3>3, <3>4 DEF Known
  <2>3. QED  BY <2>1, <2>2
<1>3. QED  BY <1>1, <1>2 DEF CallsAreKnown

LEMMA ReturnSound ==
  ASSUME Sound, NEW r \in Requests, Return(r),
         \A e \in Events : event[e] # NoEvent => event'[e] # NoEvent
  PROVE  /\ call' \in [Requests -> Call \cup {Idle}]
         /\ CallsAreKnown'
<1>1. Idle.at = "idle"  BY DEF Idle
<1>2. QED  BY <1>1, GotoSound DEF Return

LEMMA TypeInit == AbandonmentInit => Sound
<1>1. SUFFICES ASSUME AbandonmentInit PROVE Sound  OBVIOUS
<1>2. AbandonmentTypeOK
  BY <1>1, NewJobType, HorizonAssumption DEF AbandonmentInit, AbandonmentTypeOK
<1>3. CallsAreKnown
  BY <1>1 DEF AbandonmentInit, CallsAreKnown, Known, Idle
<1>4. QED  BY <1>2, <1>3 DEF Sound

LEMMA TypeProgress ==
  ASSUME Sound, NEW r \in Requests, Progress(r)
  PROVE  Sound'
<1>1. CASE FindEvent(r)
  <2> DEFINE c == [at |-> "create", subject |-> call[r].subject]
  <2>1. c \in Call  BY <1>1, CallForm DEF FindEvent, Call, At, Sound
  <2>2. call' \in [Requests -> Call \cup {Idle}] /\ CallsAreKnown'
    BY <1>1, <2>1, GotoSound, ReturnSound DEF FindEvent
  <2>3. QED  BY <1>1, <2>2 DEF FindEvent, AbandonmentTypeOK, Sound
<1>2. ASSUME NEW e \in Events, CreateEvent(r, e)  PROVE Sound'
  <2>1. call[r].subject \in Subjects  BY <1>2, CallForm DEF CreateEvent, At, Sound
  <2> DEFINE row == [status |-> "ACTIVE", subject |-> call[r].subject,
                     created |-> now]
  <2>2. row \in EventRow
    BY <2>1 DEF Sound, AbandonmentTypeOK, EventRow, EventStatus
  <2>3. event' \in [Events -> EventRow \cup {NoEvent}]
    BY <1>2, <2>2 DEF CreateEvent, AbandonmentTypeOK, Sound
  <2>4. job' \in [Events -> [Jobs -> JobRow]]
    BY <1>2, NewJobType DEF CreateEvent, AbandonmentTypeOK, Sound
  <2>5. \A f \in Events : event[f] # NoEvent => event'[f] # NoEvent
    BY <1>2 DEF CreateEvent, AbandonmentTypeOK, Sound
  <2>6. call' \in [Requests -> Call \cup {Idle}] /\ CallsAreKnown'
    BY <1>2, <2>5, ReturnSound DEF CreateEvent
  <2>7. QED  BY <1>2, <2>3, <2>4, <2>6 DEF CreateEvent, AbandonmentTypeOK, Sound
<1>3. CASE FindActive(r)
  <2> DEFINE c == [at |-> "resolve", events |-> ActiveEvents(call[r].subject)]
  <2>1. c \in Call  BY DEF ActiveEvents, Call
  <2>2. \A e \in c.events : event'[e] # NoEvent
    BY <1>3 DEF FindActive, ActiveEvents, NoEvent
  <2>3. call' \in [Requests -> Call \cup {Idle}] /\ CallsAreKnown'
    BY <1>3, <2>1, <2>2, GotoSound, ReturnSound DEF FindActive
  <2>4. QED  BY <1>3, <2>3 DEF FindActive, AbandonmentTypeOK, Sound
<1>4. CASE WriteResolved(r)
  <2> DEFINE c == [at |-> "cancel", events |-> call[r].events]
  <2>1. c \in Call  BY <1>4, CallForm DEF WriteResolved, Call, At, Sound
  <2>2. \A e \in call[r].events : event[e] # NoEvent
    BY <1>4 DEF WriteResolved, At, Sound, CallsAreKnown, Known
  <2>3. \A row \in EventRow : [row EXCEPT !.status = "RESOLVED"] \in EventRow
    BY DEF EventRow, EventStatus
  <2>4. event' \in [Events -> EventRow \cup {NoEvent}]
    BY <1>4, <2>2, <2>3 DEF WriteResolved, AbandonmentTypeOK, Sound
  <2>5. \A e \in Events : event[e] # NoEvent => event'[e] # NoEvent
    BY <1>4, <2>3, RowIsEvent DEF WriteResolved, AbandonmentTypeOK, Sound
  <2>6. call' \in [Requests -> Call \cup {Idle}] /\ CallsAreKnown'
    BY <1>4, <2>1, <2>5, GotoSound DEF WriteResolved
  <2>7. QED  BY <1>4, <2>4, <2>6 DEF WriteResolved, AbandonmentTypeOK, Sound
<1>5. CASE CancelJobs(r)
  <2>1. \A row \in JobRow : Cancelled(row) \in JobRow
    BY DEF Cancelled, JobRow, JobStatus
  <2>2. job' \in [Events -> [Jobs -> JobRow]]
    BY <1>5, <2>1 DEF CancelJobs, AbandonmentTypeOK, Sound
  <2>3. call' \in [Requests -> Call \cup {Idle}] /\ CallsAreKnown'
    BY <1>5, ReturnSound DEF CancelJobs
  <2>4. QED  BY <1>5, <2>2, <2>3 DEF CancelJobs, AbandonmentTypeOK, Sound
<1>6. CASE SendNext(r)
  <2> DEFINE todo == call[r].jobs
  <2>1. todo \in SUBSET (Events \X Jobs) /\ Known(call[r]) /\ At(r, "send")
    BY <1>6, CallForm DEF SendNext, At, Sound, CallsAreKnown
  <2>2. PICK k \in todo :
          /\ job' = [job EXCEPT ![k[1]][k[2]] =
                      [status |-> "SENT", attempts |-> @.attempts + 1]]
          /\ Goto(r, IF todo = {k} THEN Idle
                     ELSE [at |-> "send", jobs |-> todo \ {k}])
    BY <1>6 DEF SendNext
  <2>3. k[1] \in Events /\ k[2] \in Jobs  BY <2>1, <2>2
  <2>4. job[k[1]][k[2]].attempts \in Nat
    BY <2>3 DEF Sound, AbandonmentTypeOK, JobRow
  <2>5. [status |-> "SENT", attempts |-> job[k[1]][k[2]].attempts + 1] \in JobRow
    BY <2>4 DEF JobRow, JobStatus
  <2>6. job' \in [Events -> [Jobs -> JobRow]]
    BY <2>2, <2>3, <2>5 DEF Sound, AbandonmentTypeOK
  <2>7. [at |-> "send", jobs |-> todo \ {k}] \in Call  BY <2>1 DEF Call
  <2>8. \A l \in todo \ {k} : event'[l[1]] # NoEvent
    BY <1>6, <2>1 DEF SendNext, Known, At
  <2>9. call' \in [Requests -> Call \cup {Idle}] /\ CallsAreKnown'
    <3>1. CASE todo = {k}
      BY <1>6, <2>2, <3>1, ReturnSound DEF SendNext, Return
    <3>2. CASE todo # {k}
      BY <1>6, <2>2, <2>7, <2>8, <3>2, GotoSound DEF SendNext
    <3>3. QED  BY <3>1, <3>2
  <2>10. QED  BY <1>6, <2>6, <2>9 DEF SendNext, AbandonmentTypeOK, Sound
<1>7. QED  BY <1>1, <1>2, <1>3, <1>4, <1>5, <1>6 DEF Progress

LEMMA TypeStep == Sound /\ [AbandonmentNext]_abandonmentVars => Sound'
<1>1. SUFFICES ASSUME Sound, [AbandonmentNext]_abandonmentVars PROVE Sound'
  OBVIOUS
<1>2. CASE Tick
  <2>1. now' \in 0 .. Horizon
    BY <1>1, <1>2, HorizonAssumption DEF Tick, Sound, AbandonmentTypeOK
  <2>2. QED
    BY <1>1, <1>2, <2>1
    DEF Tick, Sound, AbandonmentTypeOK, CallsAreKnown, Known
<1>3. ASSUME NEW r \in Requests, Progress(r)  PROVE Sound'
  BY <1>1, <1>3, TypeProgress
<1>4. ASSUME NEW r \in Requests, Interrupted(r)  PROVE Sound'
  BY <1>1, <1>4, ReturnSound DEF Interrupted, Sound, AbandonmentTypeOK
<1>5. ASSUME NEW r \in Requests, NEW s \in Subjects,
             MarkAbandoned(r, s) \/ ResolveActiveByReference(r, s)
      PROVE  Sound'
  <2>1. [at |-> "mark", subject |-> s] \in Call
        /\ [at |-> "seek", subject |-> s] \in Call
    BY DEF Call
  <2>2. QED
    BY <1>1, <1>5, <2>1, GotoSound
    DEF MarkAbandoned, Mark, ResolveActiveByReference, Seek, Sound,
        AbandonmentTypeOK
<1>6. ASSUME NEW r \in Requests, NEW e \in Events, ResolveAbandoned(r, e)
      PROVE  Sound'
  <2>1. [at |-> "resolve", events |-> {e}] \in Call  BY DEF Call
  <2>2. QED
    BY <1>1, <1>6, <2>1, GotoSound
    DEF ResolveAbandoned, Sound, AbandonmentTypeOK
<1>7. ASSUME NEW r \in Processors, ProcessDue(r)  PROVE Sound'
  <2>1. r \in Requests  BY ProcessorsAssumption
  <2>2. PICK b \in Batches :
          Goto(r, IF b = {} THEN Idle ELSE [at |-> "send", jobs |-> b])
    BY <1>7 DEF ProcessDue
  <2>3. b \in SUBSET (Events \X Jobs) /\ \A k \in b : event'[k[1]] # NoEvent
    BY <1>7, <2>2 DEF Batches, DueJobs, ProcessDue, NoEvent
  <2>4. [at |-> "send", jobs |-> b] \in Call  BY <2>3 DEF Call
  <2>5. call' \in [Requests -> Call \cup {Idle}] /\ CallsAreKnown'
    <3>1. CASE b = {}
      BY <1>1, <1>7, <2>1, <2>2, <3>1, ReturnSound DEF ProcessDue, Return
    <3>2. CASE b # {}
      BY <1>1, <1>7, <2>1, <2>2, <2>3, <2>4, <3>2, GotoSound DEF ProcessDue
    <3>3. QED  BY <3>1, <3>2
  <2>6. QED  BY <1>1, <1>7, <2>5 DEF ProcessDue, Sound, AbandonmentTypeOK
<1>8. CASE UNCHANGED abandonmentVars
  BY <1>1, <1>8
  DEF abandonmentVars, Sound, AbandonmentTypeOK, CallsAreKnown, Known
<1>9. QED
  BY <1>1, <1>2, <1>3, <1>4, <1>5, <1>6, <1>7, <1>8 DEF AbandonmentNext

(***************************************************************************)
(* AbandonmentTypeCorrect: every reachable state is well typed; to keep it *)
(* so, no handler resolves an event that does not exist                    *)
(* (AbandonmentService.resolveActiveByReference, resolveAbandoned).        *)
(***************************************************************************)
THEOREM AbandonmentTypeCorrect == AbandonmentSpec => []AbandonmentTypeOK
<1>1. AbandonmentSpec => []Sound
  BY TypeInit, TypeStep, PTL DEF AbandonmentSpec
<1>2. Sound => AbandonmentTypeOK  BY DEF Sound
<1>3. QED  BY <1>1, <1>2, PTL

-----------------------------------------------------------------------------
(* Reminders in order. *)

First(e)  == job[e]["30m"].status
Second(e) == job[e]["24h"].status

\* A step that undoes no first reminder, sends no second one and gives nobody
\* a new batch keeps the order.
LEMMA KeepsOrder ==
  ASSUME Ordered, Sound, NEW r \in Requests, NEW c, Goto(r, c),
         \A e \in Events :
           /\ First(e)' = "PENDING" => First(e) = "PENDING"
           /\ Second(e)' = "SENT" => Second(e) = "SENT"
           /\ event'[e] = NoEvent => event[e] = NoEvent,
         c.at = "send" => InSequence(c.jobs)'
  PROVE  Ordered'
<1>1. RemindersInOrder'
  BY DEF Ordered, RemindersInOrder, First, Second
<1>2. \A e \in Events : event'[e] = NoEvent => Second(e)' # "SENT"
  BY DEF Ordered, Second
<1>3. ASSUME NEW q \in Requests, At(q, "send")'
      PROVE  InSequence(call[q].jobs)'
  <2>1. CASE q = r
    <3>1. call'[q] = c  BY <2>1 DEF Goto, Sound, AbandonmentTypeOK
    <3>2. QED  BY <1>3, <3>1 DEF At, InSequence
  <2>2. CASE q # r
    <3>1. call'[q] = call[q]  BY <2>2 DEF Goto, Sound, AbandonmentTypeOK
    <3>2. InSequence(call[q].jobs)  BY <1>3, <3>1 DEF At, Ordered
    <3>3. QED  BY <3>1, <3>2 DEF InSequence, First
  <2>3. QED  BY <2>1, <2>2
<1>4. QED  BY <1>1, <1>2, <1>3 DEF Ordered, Second

LEMMA OrderedInit == AbandonmentInit => Ordered
BY DEF AbandonmentInit, Ordered, RemindersInOrder, First, Second, NewJob, Idle, At

\* A new event has both reminders ahead of it, and nobody holds them yet.
LEMMA CreateOrdered ==
  ASSUME Sound, Ordered, NEW r \in Requests, NEW e \in Events,
         CreateEvent(r, e)
  PROVE  Ordered'
<1>1. job'[e] = [j \in Jobs |-> NewJob]
      /\ \A f \in Events \ {e} : job'[f] = job[f]
  BY DEF CreateEvent, Sound, AbandonmentTypeOK
<1>2. event'[e] # NoEvent /\ \A f \in Events \ {e} : event'[f] = event[f]
  BY DEF CreateEvent, Sound, AbandonmentTypeOK, NoEvent
<1>3. Second(e)' = "PENDING"  BY <1>1 DEF Second, NewJob
<1>4. RemindersInOrder'
  BY <1>1, <1>3 DEF Ordered, RemindersInOrder, Second
<1>5. \A f \in Events : event'[f] = NoEvent => Second(f)' # "SENT"
  BY <1>1, <1>2 DEF Ordered, Second
<1>6. ASSUME NEW q \in Requests, At(q, "send")'
      PROVE  InSequence(call[q].jobs)'
  <2>1. q # r /\ call'[q] = call[q]
    BY <1>6 DEF CreateEvent, Return, Goto, Idle, At, Sound, AbandonmentTypeOK
  <2>2. InSequence(call[q].jobs) /\ \A k \in call[q].jobs : event[k[1]] # NoEvent
    BY <1>6, <2>1 DEF At, Ordered, Sound, CallsAreKnown, Known
  <2>3. <<e, "24h">> \notin call[q].jobs  BY <2>2 DEF CreateEvent
  <2>4. QED  BY <1>1, <2>1, <2>2, <2>3 DEF InSequence
<1>7. QED  BY <1>4, <1>5, <1>6 DEF Ordered, Second

\* Of two reminders of one event the first is due first.
LEMMA FirstIsDueFirst ==
  ASSUME Sound, NEW e \in Events, event[e] # NoEvent
  PROVE  /\ ScheduledFor(<<e, "30m">>) \in Nat
         /\ ScheduledFor(<<e, "24h">>) = ScheduledFor(<<e, "30m">>) + 1
<1>1. event[e].created \in 0 .. Horizon
  BY DEF Sound, AbandonmentTypeOK, EventRow
<1>2. event[e].created \in Nat  BY <1>1, HorizonAssumption
<1>3. QED  BY <1>2 DEF ScheduledFor, Delay

LEMMA BatchInSequence ==
  ASSUME Sound, NEW b \in Batches
  PROVE  InSequence(b)
<1>1. SUFFICES ASSUME NEW e \in Events, <<e, "24h">> \in b,
                      First(e) = "PENDING"
               PROVE  <<e, "30m">> \in b
  BY DEF InSequence, First
<1> DEFINE k == <<e, "24h">>
           l == <<e, "30m">>
<1>2. k \in DueJobs /\ \A m \in DueJobs \ b : NotAfter(k, m)
  BY <1>1 DEF Batches
<1>3. event[e].status = "ACTIVE" /\ ScheduledFor(k) <= now
  BY <1>2 DEF DueJobs
<1>4. ScheduledFor(l) \in Nat /\ ScheduledFor(k) = ScheduledFor(l) + 1
  BY <1>3, FirstIsDueFirst DEF NoEvent
<1>5. now \in Nat  BY HorizonAssumption DEF Sound, AbandonmentTypeOK
<1>6. ScheduledFor(l) <= now  BY <1>3, <1>4, <1>5
<1>7. l \in DueJobs  BY <1>1, <1>3, <1>6 DEF DueJobs, Pending, First
<1>8. ~ NotAfter(k, l)  BY <1>4 DEF NotAfter
<1>9. QED  BY <1>2, <1>7, <1>8

\* The reminder that is sent is the first to be due of those in the batch.
LEMMA SendOrdered ==
  ASSUME Sound, Ordered, NEW r \in Requests, SendNext(r)
  PROVE  Ordered'
<1> DEFINE todo == call[r].jobs
           rest(k) == IF todo = {k} THEN Idle
                      ELSE [at |-> "send", jobs |-> todo \ {k}]
<1>1. todo \in SUBSET (Events \X Jobs) /\ InSequence(todo)
      /\ \A k \in todo : event[k[1]] # NoEvent
  BY CallForm DEF SendNext, At, Sound, Ordered, CallsAreKnown, Known
<1>2. PICK k \in todo :
        /\ \A l \in todo : NotAfter(k, l)
        /\ job' = [job EXCEPT ![k[1]][k[2]] =
                    [status |-> "SENT", attempts |-> @.attempts + 1]]
        /\ Goto(r, rest(k))
  BY DEF SendNext
<1>3. k[1] \in Events /\ k[2] \in Jobs /\ k = <<k[1], k[2]>>
  BY <1>1, <1>2
<1>4. job'[k[1]][k[2]].status = "SENT"
  BY <1>2, <1>3 DEF Sound, AbandonmentTypeOK
<1>5. \A e \in Events, j \in Jobs : <<e, j>> # k => job'[e][j] = job[e][j]
  BY <1>2, <1>3 DEF Sound, AbandonmentTypeOK
<1>6. \A e \in Events : First(e)' = "PENDING" => First(e) = "PENDING"
  BY <1>3, <1>4, <1>5 DEF First
<1>7. ASSUME k[2] = "24h"  PROVE First(k[1]) # "PENDING"
  <2> DEFINE l == <<k[1], "30m">>
  <2>1. ScheduledFor(l) \in Nat /\ ScheduledFor(k) = ScheduledFor(l) + 1
    BY <1>1, <1>2, <1>3, <1>7, FirstIsDueFirst
  <2>2. ~ NotAfter(k, l)  BY <2>1 DEF NotAfter
  <2>3. l \notin todo  BY <1>2, <2>2
  <2>4. QED  BY <1>1, <1>2, <1>3, <1>7, <2>3 DEF InSequence, First
<1>8. RemindersInOrder'
  <2>1. SUFFICES ASSUME NEW e \in Events, Second(e)' = "SENT"
                 PROVE  First(e)' # "PENDING"
    BY DEF RemindersInOrder, First, Second
  <2>2. CASE <<e, "24h">> = k  BY <1>6, <1>7, <2>2
  <2>3. CASE <<e, "24h">> # k
    <3>1. Second(e) = "SENT"  BY <1>5, <2>1, <2>3 DEF Second
    <3>2. QED  BY <1>6, <3>1 DEF Ordered, RemindersInOrder, First, Second
  <2>4. QED  BY <2>2, <2>3
<1>9. \A e \in Events : event'[e] = NoEvent => Second(e)' # "SENT"
  BY <1>1, <1>2, <1>5 DEF SendNext, Ordered, Second
<1>10. ASSUME NEW q \in Requests, At(q, "send")'
       PROVE  InSequence(call[q].jobs)'
  <2>1. CASE q # r
    <3>1. call'[q] = call[q]  BY <1>2, <2>1 DEF Goto, Sound, AbandonmentTypeOK
    <3>2. InSequence(call[q].jobs)  BY <1>10, <3>1 DEF At, Ordered
    <3>3. QED  BY <1>6, <3>1, <3>2 DEF InSequence, First
  <2>2. CASE q = r
    <3>1. call'[q] = rest(k)  BY <1>2, <2>2 DEF Goto, Sound, AbandonmentTypeOK
    <3>2. call'[q].jobs = todo \ {k}  BY <1>10, <3>1 DEF At, Idle
    <3>3. ASSUME NEW e \in Events, <<e, "24h">> \in todo \ {k},
                 First(e)' = "PENDING"
          PROVE  <<e, "30m">> \in todo \ {k}
      <4>1. <<e, "30m">> \in todo
        BY <1>1, <1>6, <3>3 DEF InSequence, First
      <4>2. <<e, "30m">> # k  BY <1>4, <3>3 DEF First
      <4>3. QED  BY <4>1, <4>2
    <3>4. QED  BY <3>2, <3>3 DEF InSequence, First
  <2>3. QED  BY <2>1, <2>2
<1>11. QED  BY <1>8, <1>9, <1>10 DEF Ordered, Second

LEMMA CancelledStatus ==
  \A row \in JobRow :
    /\ Cancelled(row).status = "PENDING" => row.status = "PENDING"
    /\ Cancelled(row).status = "SENT" => row.status = "SENT"
BY DEF Cancelled, JobRow

LEMMA ProgressOrdered ==
  ASSUME Sound, Ordered, NEW r \in Requests, Progress(r)
  PROVE  Ordered'
<1>1. CASE FindEvent(r)
  BY <1>1, KeepsOrder DEF FindEvent, Return, Idle, First, Second
<1>2. ASSUME NEW e \in Events, CreateEvent(r, e)  PROVE Ordered'
  BY <1>2, CreateOrdered
<1>3. CASE FindActive(r)
  BY <1>3, KeepsOrder DEF FindActive, Return, Idle, First, Second
<1>4. CASE WriteResolved(r)
  <2>1. \A e \in Events : event'[e] = NoEvent => event[e] = NoEvent
    <3>1. \A row \in EventRow :
            [row EXCEPT !.status = "RESOLVED"] \in EventRow
      BY DEF EventRow, EventStatus
    <3>2. QED
      BY <1>4, <3>1, RowIsEvent DEF WriteResolved, Sound, AbandonmentTypeOK
  <2>2. QED  BY <1>4, <2>1, KeepsOrder DEF WriteResolved, First, Second
<1>5. CASE CancelJobs(r)
  <2>1. \A e \in Events, j \in Jobs :
          job'[e][j] = job[e][j] \/ job'[e][j] = Cancelled(job[e][j])
    BY <1>5 DEF CancelJobs, Sound, AbandonmentTypeOK
  <2>2. \A e \in Events, j \in Jobs : job[e][j] \in JobRow
    BY DEF Sound, AbandonmentTypeOK
  <2>3. \A e \in Events :
          /\ First(e)' = "PENDING" => First(e) = "PENDING"
          /\ Second(e)' = "SENT" => Second(e) = "SENT"
    BY <2>1, <2>2, CancelledStatus DEF First, Second
  <2>4. QED  BY <1>5, <2>3, KeepsOrder DEF CancelJobs, Return, Idle
<1>6. CASE SendNext(r)
  BY <1>6, SendOrdered
<1>7. QED  BY <1>1, <1>2, <1>3, <1>4, <1>5, <1>6 DEF Progress

LEMMA OrderedStep == Sound /\ Ordered /\ [AbandonmentNext]_abandonmentVars => Ordered'
<1>1. SUFFICES ASSUME Sound, Ordered, [AbandonmentNext]_abandonmentVars
               PROVE  Ordered'
  OBVIOUS
<1>2. CASE Tick \/ UNCHANGED abandonmentVars
  BY <1>1, <1>2
  DEF Tick, abandonmentVars, Ordered, RemindersInOrder, InSequence, At
<1>3. ASSUME NEW r \in Requests, Progress(r)  PROVE Ordered'
  BY <1>1, <1>3, ProgressOrdered
<1>4. ASSUME NEW r \in Requests, Interrupted(r)  PROVE Ordered'
  BY <1>1, <1>4, KeepsOrder DEF Interrupted, Return, Idle, First, Second
<1>5. ASSUME NEW r \in Requests, NEW s \in Subjects,
             MarkAbandoned(r, s) \/ ResolveActiveByReference(r, s)
      PROVE  Ordered'
  BY <1>1, <1>5, KeepsOrder
  DEF MarkAbandoned, Mark, ResolveActiveByReference, Seek, First, Second
<1>6. ASSUME NEW r \in Requests, NEW e \in Events, ResolveAbandoned(r, e)
      PROVE  Ordered'
  BY <1>1, <1>6, KeepsOrder DEF ResolveAbandoned, First, Second
<1>7. ASSUME NEW r \in Processors, ProcessDue(r)  PROVE Ordered'
  <2>1. PICK b \in Batches :
          Goto(r, IF b = {} THEN Idle ELSE [at |-> "send", jobs |-> b])
    BY <1>7 DEF ProcessDue
  <2>2. InSequence(b)'
    BY <1>1, <1>7, <2>1, BatchInSequence DEF ProcessDue, InSequence
  <2>3. QED
    BY <1>1, <1>7, <2>1, <2>2, KeepsOrder, ProcessorsAssumption
    DEF ProcessDue, Idle, First, Second
<1>8. QED
  BY <1>1, <1>2, <1>3, <1>4, <1>5, <1>6, <1>7 DEF AbandonmentNext

(***************************************************************************)
(* AlwaysOrderly: the inductive invariant holds, for any number of         *)
(* handlers in process-due at the same time, any batch size and any        *)
(* failures (AbandonmentService.processDueReminders).                      *)
(***************************************************************************)
THEOREM AlwaysOrderly == AbandonmentSpec => []Orderly
<1>1. AbandonmentSpec => [](Sound /\ Ordered)
  BY TypeInit, TypeStep, OrderedInit, OrderedStep, PTL DEF AbandonmentSpec
<1>2. Sound /\ Ordered => Orderly  BY DEF Sound, Orderly
<1>3. QED  BY <1>1, <1>2, PTL

(***************************************************************************)
(* RemindersAlwaysInOrder: the reminder of the second day is never sent    *)
(* before that of the first half hour is sent or cancelled                 *)
(* (processDueReminders).                                                  *)
(***************************************************************************)
THEOREM RemindersAlwaysInOrder == AbandonmentSpec => []RemindersInOrder
<1>1. Orderly => RemindersInOrder  BY DEF Orderly, Ordered
<1>2. QED  BY <1>1, AlwaysOrderly, PTL

-----------------------------------------------------------------------------
(* Reminders sent once, as long as one process-due runs at a time. *)

Unsent(jobs) == \A k \in jobs : job[k[1]][k[2]].status # "SENT"

Counted ==
  /\ \A e \in Events, j \in Jobs :
       job[e][j].attempts = IF job[e][j].status = "SENT" THEN 1 ELSE 0
  /\ \A r \in Requests :
       At(r, "send") => r \in Processors /\ Unsent(call[r].jobs)

\* A step that sends nothing, and gives nobody but a processor a batch.
LEMMA KeepsCount ==
  ASSUME Counted, Sound, NEW r \in Requests, NEW c, Goto(r, c),
         \A e \in Events, j \in Jobs :
           job'[e][j] = job[e][j]
             \/ (job'[e][j].status # "SENT" /\ job'[e][j].attempts = 0),
         c.at = "send" => r \in Processors /\ c.jobs \in SUBSET (Events \X Jobs)
                          /\ Unsent(c.jobs)
  PROVE  Counted'
<1>1. \A e \in Events, j \in Jobs :
        job'[e][j].attempts = IF job'[e][j].status = "SENT" THEN 1 ELSE 0
  BY DEF Counted
<1>2. ASSUME NEW q \in Requests, At(q, "send")'
      PROVE  q \in Processors /\ Unsent(call[q].jobs)'
  <2>1. (call'[q] = c /\ q = r) \/ call'[q] = call[q]
    BY DEF Goto, Sound, AbandonmentTypeOK
  <2>2. q \in Processors /\ Unsent(call'[q].jobs)
        /\ call'[q].jobs \in SUBSET (Events \X Jobs)
    BY <1>2, <2>1, CallForm DEF At, Counted, Sound
  <2>3. ASSUME NEW k \in call'[q].jobs  PROVE job'[k[1]][k[2]].status # "SENT"
    <3>1. k[1] \in Events /\ k[2] \in Jobs  BY <2>2
    <3>2. job[k[1]][k[2]].status # "SENT"  BY <2>2 DEF Unsent
    <3>3. QED  BY <3>1, <3>2
  <2>4. QED  BY <2>2, <2>3 DEF Unsent
<1>3. QED  BY <1>1, <1>2 DEF Counted

LEMMA CountedInit == AbandonmentInit => Counted
BY DEF AbandonmentInit, Counted, NewJob, Idle, At

\* The one processor sends what was unsent, and holds it no more.
LEMMA SendCounted ==
  ASSUME Sound, Counted, \A p, q \in Processors : p = q,
         NEW r \in Requests, SendNext(r)
  PROVE  Counted'
<1> DEFINE todo == call[r].jobs
<1>1. At(r, "send") /\ r \in Processors /\ Unsent(todo)
      /\ todo \in SUBSET (Events \X Jobs)
  BY CallForm DEF SendNext, Counted, At, Sound
<1>2. PICK k \in todo :
        /\ job' = [job EXCEPT ![k[1]][k[2]] =
                    [status |-> "SENT", attempts |-> @.attempts + 1]]
        /\ Goto(r, IF todo = {k} THEN Idle
                   ELSE [at |-> "send", jobs |-> todo \ {k}])
  BY DEF SendNext
<1>3. k[1] \in Events /\ k[2] \in Jobs /\ k = <<k[1], k[2]>>
  BY <1>1, <1>2
<1>4. job[k[1]][k[2]].attempts = 0  BY <1>1, <1>3 DEF Unsent, Counted
<1>5. job'[k[1]][k[2]] = [status |-> "SENT", attempts |-> 1]
  BY <1>2, <1>3, <1>4 DEF Sound, AbandonmentTypeOK
<1>6. \A e \in Events, j \in Jobs : <<e, j>> # k => job'[e][j] = job[e][j]
  BY <1>2, <1>3 DEF Sound, AbandonmentTypeOK
<1>7. ASSUME NEW e \in Events, NEW j \in Jobs
      PROVE  job'[e][j].attempts = IF job'[e][j].status = "SENT" THEN 1 ELSE 0
  <2>1. CASE <<e, j>> = k  BY <1>5, <2>1
  <2>2. CASE <<e, j>> # k  BY <1>6, <2>2 DEF Counted
  <2>3. QED  BY <2>1, <2>2
<1>8. ASSUME NEW q \in Requests, At(q, "send")'
      PROVE  q \in Processors /\ Unsent(call[q].jobs)'
  <2>1. q = r
    <3>1. SUFFICES ASSUME q # r PROVE FALSE  OBVIOUS
    <3>2. call'[q] = call[q]
      BY <1>2, <3>1 DEF Goto, Sound, AbandonmentTypeOK
    <3>3. q \in Processors  BY <1>8, <3>2 DEF At, Counted
    <3>4. QED  BY <1>1, <3>1, <3>3
  <2>2. call'[q].jobs = todo \ {k}
    BY <1>2, <1>8, <2>1 DEF Goto, At, Idle, Sound, AbandonmentTypeOK
  <2>3. ASSUME NEW l \in todo \ {k}  PROVE job'[l[1]][l[2]].status # "SENT"
    <3>1. l[1] \in Events /\ l[2] \in Jobs /\ l = <<l[1], l[2]>>  BY <1>1
    <3>2. job'[l[1]][l[2]] = job[l[1]][l[2]]  BY <1>6, <3>1
    <3>3. QED  BY <1>1, <3>2 DEF Unsent
  <2>4. QED  BY <1>1, <2>1, <2>2, <2>3 DEF Unsent
<1>9. QED  BY <1>7, <1>8 DEF Counted

LEMMA ProgressCounted ==
  ASSUME Sound, Counted, \A p, q \in Processors : p = q,
         NEW r \in Requests, Progress(r)
  PROVE  Counted'
<1>1. CASE FindEvent(r) \/ FindActive(r)
  BY <1>1, KeepsCount DEF FindEvent, FindActive, Return, Idle
<1>2. ASSUME NEW e \in Events, CreateEvent(r, e)  PROVE Counted'
  <2>1. \A f \in Events, j \in Jobs :
          job'[f][j] = job[f][j] \/ job'[f][j] = NewJob
    BY <1>2 DEF CreateEvent, Sound, AbandonmentTypeOK
  <2>2. QED  BY <1>2, <2>1, KeepsCount DEF CreateEvent, Return, Idle, NewJob
<1>3. CASE WriteResolved(r)
  BY <1>3, KeepsCount DEF WriteResolved
<1>4. CASE CancelJobs(r)
  <2>1. \A e \in Events, j \in Jobs :
          job'[e][j] = job[e][j] \/ job'[e][j] = Cancelled(job[e][j])
    BY <1>4 DEF CancelJobs, Sound, AbandonmentTypeOK
  <2>2. ASSUME NEW e \in Events, NEW j \in Jobs
        PROVE  Cancelled(job[e][j]) = job[e][j]
               \/ /\ Cancelled(job[e][j]).status # "SENT"
                  /\ Cancelled(job[e][j]).attempts = 0
    <3>1. job[e][j] \in JobRow  BY DEF Sound, AbandonmentTypeOK
    <3>2. job[e][j].status = "PENDING" => job[e][j].attempts = 0
      BY DEF Counted
    <3>3. QED  BY <3>1, <3>2 DEF Cancelled, JobRow
  <2>3. \A e \in Events, j \in Jobs :
          job'[e][j] = job[e][j]
            \/ (job'[e][j].status # "SENT" /\ job'[e][j].attempts = 0)
    BY <2>1, <2>2
  <2>4. QED  BY <1>4, <2>3, KeepsCount DEF CancelJobs, Return, Idle
<1>5. CASE SendNext(r)
  BY <1>5, SendCounted
<1>6. QED  BY <1>1, <1>2, <1>3, <1>4, <1>5 DEF Progress

LEMMA CountedStep ==
  ASSUME \A p, q \in Processors : p = q
  PROVE  Sound /\ Counted /\ [AbandonmentNext]_abandonmentVars => Counted'
<1>1. SUFFICES ASSUME Sound, Counted, [AbandonmentNext]_abandonmentVars
               PROVE  Counted'
  OBVIOUS
<1>2. CASE Tick \/ UNCHANGED abandonmentVars
  BY <1>1, <1>2 DEF Tick, abandonmentVars, Counted, Unsent, At
<1>3. ASSUME NEW r \in Requests, Progress(r)  PROVE Counted'
  BY <1>1, <1>3, ProgressCounted
<1>4. ASSUME NEW r \in Requests, Interrupted(r)  PROVE Counted'
  BY <1>1, <1>4, KeepsCount DEF Interrupted, Return, Idle
<1>5. ASSUME NEW r \in Requests, NEW s \in Subjects,
             MarkAbandoned(r, s) \/ ResolveActiveByReference(r, s)
      PROVE  Counted'
  BY <1>1, <1>5, KeepsCount
  DEF MarkAbandoned, Mark, ResolveActiveByReference, Seek
<1>6. ASSUME NEW r \in Requests, NEW e \in Events, ResolveAbandoned(r, e)
      PROVE  Counted'
  BY <1>1, <1>6, KeepsCount DEF ResolveAbandoned
<1>7. ASSUME NEW r \in Processors, ProcessDue(r)  PROVE Counted'
  <2>1. PICK b \in Batches :
          Goto(r, IF b = {} THEN Idle ELSE [at |-> "send", jobs |-> b])
    BY <1>7 DEF ProcessDue
  <2>2. b \in SUBSET (Events \X Jobs) /\ Unsent(b)
    BY <2>1 DEF Batches, DueJobs, Pending, Unsent
  <2>3. QED
    BY <1>1, <1>7, <2>1, <2>2, KeepsCount, ProcessorsAssumption
    DEF ProcessDue, Idle
<1>8. QED
  BY <1>1, <1>2, <1>3, <1>4, <1>5, <1>6, <1>7 DEF AbandonmentNext

(***************************************************************************)
(* OneProcessorSendsOnce: no reminder is ever sent twice if process-due    *)
(* never runs twice at the same time, however many other handlers resolve  *)
(* events meanwhile and wherever it is cut short (processDueReminders).    *)
(***************************************************************************)
THEOREM OneProcessorSendsOnce ==
  ASSUME \A p, q \in Processors : p = q
  PROVE  AbandonmentSpec => []SentOnce
<1>1. AbandonmentSpec => [](Sound /\ Counted)
  BY TypeInit, TypeStep, CountedInit, CountedStep, PTL DEF AbandonmentSpec
<1>2. Counted => SentOnce  BY DEF Counted, SentOnce
<1>3. QED  BY <1>1, <1>2, PTL

-----------------------------------------------------------------------------
(* RESOLVED events are silent. *)

Spared(e, jobs) == \A k \in jobs : k[1] # e

Stays(e) ==
  Silenced(e)' /\ \A j \in Jobs : job'[e][j].attempts = job[e][j].attempts

\* A step that leaves the event RESOLVED and counts nothing for it, and gives
\* nobody a batch with a job of it.
LEMMA KeepsSilence ==
  ASSUME Sound, NEW e \in Events, Silenced(e), NEW r \in Requests, NEW c,
         Goto(r, c), event'[e].status = "RESOLVED",
         \A j \in Jobs : job'[e][j].attempts = job[e][j].attempts,
         c.at = "send" => Spared(e, c.jobs)
  PROVE  Stays(e)
<1>1. ASSUME NEW q \in Requests, At(q, "send")'
      PROVE  Spared(e, call'[q].jobs)
  <2>1. (call'[q] = c /\ q = r) \/ call'[q] = call[q]
    BY DEF Goto, Sound, AbandonmentTypeOK
  <2>2. QED  BY <1>1, <2>1 DEF At, Silenced, Spared
<1>2. QED  BY <1>1 DEF Stays, Silenced, Spared

LEMMA SendSilence ==
  ASSUME Sound, NEW e \in Events, Silenced(e), NEW r \in Requests, SendNext(r)
  PROVE  Stays(e)
<1> DEFINE todo == call[r].jobs
<1>1. Spared(e, todo) /\ todo \in SUBSET (Events \X Jobs)
  BY CallForm DEF SendNext, Silenced, Spared, At, Sound
<1>2. PICK k \in todo :
        /\ job' = [job EXCEPT ![k[1]][k[2]] =
                    [status |-> "SENT", attempts |-> @.attempts + 1]]
        /\ Goto(r, IF todo = {k} THEN Idle
                   ELSE [at |-> "send", jobs |-> todo \ {k}])
  BY DEF SendNext
<1>3. k[1] # e /\ k[1] \in Events  BY <1>1, <1>2 DEF Spared
<1>4. job'[e] = job[e]  BY <1>2, <1>3 DEF Sound, AbandonmentTypeOK
<1>5. Spared(e, todo \ {k})  BY <1>1 DEF Spared
<1>6. event'[e].status = "RESOLVED"  BY DEF SendNext, Silenced
<1>7. CASE todo = {k}
  BY <1>2, <1>4, <1>6, <1>7, KeepsSilence DEF Idle
<1>8. CASE todo # {k}
  BY <1>2, <1>4, <1>5, <1>6, <1>8, KeepsSilence
<1>9. QED  BY <1>7, <1>8

LEMMA ProgressSilence ==
  ASSUME Sound, NEW e \in Events, Silenced(e), NEW r \in Requests, Progress(r)
  PROVE  Stays(e)
<1>1. CASE FindEvent(r)
  BY <1>1, KeepsSilence DEF FindEvent, Return, Idle, Silenced
<1>2. ASSUME NEW f \in Events, CreateEvent(r, f)  PROVE Stays(e)
  <2>1. f # e  BY <1>2 DEF CreateEvent, Silenced, NoEvent
  <2>2. event'[e] = event[e] /\ job'[e] = job[e]
    BY <1>2, <2>1 DEF CreateEvent, Sound, AbandonmentTypeOK
  <2>3. QED
    BY <1>2, <2>2, KeepsSilence DEF CreateEvent, Return, Idle, Silenced
<1>3. CASE FindActive(r)
  BY <1>3, KeepsSilence DEF FindActive, Return, Idle, Silenced
<1>4. CASE WriteResolved(r)
  <2>1. event[e] \in EventRow
    BY DEF Silenced, Sound, AbandonmentTypeOK, NoEvent
  <2>2. event'[e].status = "RESOLVED"
    BY <1>4, <2>1 DEF WriteResolved, Silenced, EventRow
  <2>3. QED  BY <1>4, <2>2, KeepsSilence DEF WriteResolved
<1>5. CASE CancelJobs(r)
  <2>1. ASSUME NEW j \in Jobs
        PROVE  job'[e][j].attempts = job[e][j].attempts
    <3>1. job[e][j] \in JobRow  BY DEF Sound, AbandonmentTypeOK
    <3>2. Cancelled(job[e][j]).attempts = job[e][j].attempts
      BY <3>1 DEF Cancelled, JobRow
    <3>3. job'[e][j] = job[e][j] \/ job'[e][j] = Cancelled(job[e][j])
      BY <1>5 DEF CancelJobs
    <3>4. QED  BY <3>2, <3>3
  <2>2. QED
    BY <1>5, <2>1, KeepsSilence DEF CancelJobs, Return, Idle, Silenced
<1>6. CASE SendNext(r)
  BY <1>6, SendSilence
<1>7. QED  BY <1>1, <1>2, <1>3, <1>4, <1>5, <1>6 DEF Progress

LEMMA SilenceStep ==
  ASSUME Sound, NEW e \in Events, Silenced(e), [AbandonmentNext]_abandonmentVars
  PROVE  Stays(e)
<1>1. CASE Tick \/ UNCHANGED abandonmentVars
  BY <1>1 DEF Tick, abandonmentVars, Silenced, Stays, At
<1>2. ASSUME NEW r \in Requests, Progress(r)  PROVE Stays(e)
  BY <1>2, ProgressSilence
<1>3. ASSUME NEW r \in Requests, Interrupted(r)  PROVE Stays(e)
  BY <1>3, KeepsSilence DEF Interrupted, Return, Idle, Silenced
<1>4. ASSUME NEW r \in Requests, NEW s \in Subjects,
             MarkAbandoned(r, s) \/ ResolveActiveByReference(r, s)
      PROVE  Stays(e)
  BY <1>4, KeepsSilence
  DEF MarkAbandoned, Mark, ResolveActiveByReference, Seek, Silenced
<1>5. ASSUME NEW r \in Requests, NEW f \in Events, ResolveAbandoned(r, f)
      PROVE  Stays(e)
  BY <1>5, KeepsSilence DEF ResolveAbandoned, Silenced
<1>6. ASSUME NEW r \in Processors, ProcessDue(r)  PROVE Stays(e)
  <2>1. PICK b \in Batches :
          Goto(r, IF b = {} THEN Idle ELSE [at |-> "send", jobs |-> b])
    BY <1>6 DEF ProcessDue
  <2>2. Spared(e, b)  BY <2>1 DEF Batches, DueJobs, Spared, Silenced
  <2>3. QED
    BY <1>6, <2>1, <2>2, KeepsSilence, ProcessorsAssumption
    DEF ProcessDue, Idle, Silenced
<1>7. QED
  BY <1>1, <1>2, <1>3, <1>4, <1>5, <1>6 DEF AbandonmentNext

(***************************************************************************)
(* SilencedAlwaysForGood: once an event is RESOLVED and no batch in flight *)
(* holds a job of it, none of its reminders is ever sent, whatever is left *)
(* PENDING by a failure between resolveAbandoned's two writes and however  *)
(* many handlers run process-due.                                          *)
(***************************************************************************)
THEOREM SilencedAlwaysForGood == AbandonmentSpec => SilencedForGood
<1>1. AbandonmentSpec => []Sound
  BY TypeInit, TypeStep, PTL DEF AbandonmentSpec
<1>2. Sound /\ [AbandonmentNext]_abandonmentVars =>
        [\A e \in Events :
           Silenced(e) =>
             /\ Silenced(e)'
             /\ \A j \in Jobs : job'[e][j].attempts = job[e][j].attempts
        ]_abandonmentVars
  BY SilenceStep DEF Stays
<1>3. QED  BY <1>1, <1>2, PTL DEF AbandonmentSpec, SilencedForGood
=============================================================================
