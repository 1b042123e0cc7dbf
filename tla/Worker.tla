------------------------------- MODULE Worker --------------------------------
(***************************************************************************)
(* The notification worker of apps/worker/src/index.ts: outboxScan and     *)
(* reminderScan, run by a cron cycle that neither waits for the previous   *)
(* one nor survives an error.  A scan reads its rows once, then works      *)
(* through them with an await between any two of its reads, its call to    *)
(* the mail provider (Resend) and its writes; bookings, withdrawals of     *)
(* consent, account deletions, other scans and crashes come in between.    *)
(* The appointments are those of one client.  nextAttemptAt is kept as     *)
(* whether it has been reached; how long a back-off lasts is not.          *)
(***************************************************************************)
EXTENDS Integers, FiniteSets

CONSTANTS
  Appts,
  OutboxScans,     \* outbox scans that may run at the same time
  ReminderScans,   \* reminder scans that may run at the same time
  MaxTime,         \* bound on the clock
  MaxRows,         \* bound on the rows ever inserted into EmailNotification
  Lead             \* barbershop.reminderLeadHours

ASSUME WorkerAssumption ==
  /\ MaxTime \in Nat
  /\ MaxRows \in Nat
  /\ Lead \in Nat

VARIABLES
  now,        \* the wall clock
  appts,      \* status and startsAt of every appointment
  withdrawn,  \* the client's consentWithdrawnAt is set
  rows,       \* the EmailNotification table; ids in creation order
  delivered,  \* the mails the provider has accepted
  outbox,     \* the locals of every outbox scan
  reminder    \* the locals of every reminder scan

vars == <<now, appts, withdrawn, rows, delivered, outbox, reminder>>
clientVars == <<now, appts, withdrawn>>

Time == 0..MaxTime
RowIds == 1..MaxRows

Unbooked == [status |-> "unbooked"]
NoRow == [status |-> "none"]
Resting == [pc |-> "rest"]

Live == {"pending", "confirmed"}

\* A deleted row keeps what a scan that read it earlier still knows of it.
Row ==
  [appt : Appts, type : {"CONFIRMATION", "RESCHEDULE", "CANCELLATION", "REMINDER"},
   status : {"QUEUED", "FAILED", "SENT", "deleted"}, due : BOOLEAN]

\* Appointments may have been booked, and their confirmations sent, before: a
\* confirmation that is SENT is never read again and needs no row here.
Init ==
  /\ now = 0
  /\ appts \in [Appts -> [status : Live, start : Time] \cup {Unbooked}]
  /\ withdrawn = FALSE
  /\ rows = [r \in RowIds |-> NoRow]
  /\ delivered = {}
  /\ outbox = [s \in OutboxScans |-> Resting]
  /\ reminder = [s \in ReminderScans |-> Resting]

-----------------------------------------------------------------------------
(* What the web application does to the tables. *)

\* Insert one QUEUED row, to be attempted at once.
Queue(a, type) ==
  \E r \in RowIds :
    /\ rows[r] = NoRow
    /\ \A q \in RowIds : q < r => rows[q] # NoRow
    /\ rows' = [rows EXCEPT ![r] =
         [appt |-> a, type |-> type, status |-> "QUEUED", due |-> TRUE]]

\* createBooking, under either confirmation mode.
Book(a, t) ==
  /\ appts[a] = Unbooked
  /\ ~ withdrawn
  /\ t >= now
  /\ \E s \in Live : appts' = [appts EXCEPT ![a] = [status |-> s, start |-> t]]
  /\ Queue(a, "CONFIRMATION")
  /\ UNCHANGED <<now, withdrawn, delivered, outbox, reminder>>

Move(a, t) ==
  /\ appts[a].status \in Live
  /\ t >= now
  /\ appts' = [appts EXCEPT ![a].start = t]
  /\ Queue(a, "RESCHEDULE")
  /\ UNCHANGED <<now, withdrawn, delivered, outbox, reminder>>

Cancel(a) ==
  /\ appts[a].status \in Live
  /\ appts' = [appts EXCEPT ![a].status = "cancelled"]
  /\ Queue(a, "CANCELLATION")
  /\ UNCHANGED <<now, withdrawn, delivered, outbox, reminder>>

WithdrawConsent ==
  /\ ~ withdrawn
  /\ withdrawn' = TRUE
  /\ UNCHANGED <<now, appts, rows, delivered, outbox, reminder>>

Undelivered(r) == rows[r].status \in {"QUEUED", "FAILED"}

Delete(r) == rows' = [rows EXCEPT ![r].status = "deleted"]

\* Drops what was not sent, cancels what lies ahead, withdraws consent.
DeletePersonalData ==
  /\ rows' = [r \in RowIds |->
       IF Undelivered(r) THEN [rows[r] EXCEPT !.status = "deleted"] ELSE rows[r]]
  /\ appts' = [a \in Appts |->
       IF appts[a].status \in Live /\ appts[a].start > now
       THEN [appts[a] EXCEPT !.status = "cancelled"] ELSE appts[a]]
  /\ withdrawn' = TRUE
  /\ UNCHANGED <<now, delivered, outbox, reminder>>

-----------------------------------------------------------------------------
(* outboxScan. *)

\* MUTANT of DeliverableStatuses: a failed mail is given up.
DeliverableStatusesQueued == {"QUEUED"}

DeliverableStatuses == {"QUEUED", "FAILED"}

Due(r) == rows[r].status \in DeliverableStatuses /\ rows[r].due

\* findMany; the scan keeps this list to its end and works through it oldest
\* first, `todo` is what is left of it.
OutboxRead(s) ==
  /\ outbox[s] = Resting
  /\ \E r \in RowIds : Due(r)
  /\ outbox' = [outbox EXCEPT ![s] =
       [pc |-> "next", todo |-> {r \in RowIds : Due(r)}]]
  /\ UNCHANGED <<clientVars, rows, delivered, reminder>>

Oldest(r, todo) == r \in todo /\ \A q \in todo : r <= q

\* After the last row the scan is over.
Advance(s, rest) ==
  outbox' = [outbox EXCEPT ![s] =
    IF rest = {} THEN Resting ELSE [pc |-> "next", todo |-> rest]]

\* An error no scan catches ends the process, and every scan with it; what the
\* supervisor starts again begins a new cycle.
ProcessEnds ==
  /\ outbox' = [s \in OutboxScans |-> Resting]
  /\ reminder' = [s \in ReminderScans |-> Resting]

\* MUTANT of Unwanted: reminders are sent whatever the client has withdrawn.
UnwantedNever(r) == FALSE

Unwanted(r) == rows[r].type = "REMINDER" /\ withdrawn

\* Loads the appointment and the client afresh; an unwanted reminder is deleted,
\* which throws if somebody else has deleted it.
OutboxLoad(s) ==
  /\ outbox[s].pc = "next"
  /\ \E r \in RowIds :
       /\ Oldest(r, outbox[s].todo)
       /\ \/ /\ ~ Unwanted(r)
             /\ outbox' = [outbox EXCEPT ![s] =
                  [pc |-> "loaded", row |-> r, todo |-> outbox[s].todo \ {r}]]
             /\ UNCHANGED <<rows, reminder>>
          \/ /\ Unwanted(r)
             /\ rows[r].status # "deleted"
             /\ Delete(r)
             /\ Advance(s, outbox[s].todo \ {r})
             /\ UNCHANGED reminder
          \/ /\ Unwanted(r)
             /\ rows[r].status = "deleted"
             /\ ProcessEnds
             /\ UNCHANGED rows
  /\ UNCHANGED <<clientVars, delivered>>

\* MUTANT of IdempotencyKey: a retry gets a key of its own.
IdempotencyKeyOfAttempt(s) == <<outbox[s].row, rows[outbox[s].row].status>>

IdempotencyKey(s) == outbox[s].row

\* The provider accepts a mail; it sends one mail per idempotency key.
Deliver(s) ==
  LET key == IdempotencyKey(s)
  IN delivered' = delivered \cup
       (IF \E d \in delivered : d.key = key THEN {}
        ELSE {[key |-> key, row |-> outbox[s].row]})

ProviderAccepts(s) ==
  /\ outbox[s].pc = "loaded"
  /\ Deliver(s)
  /\ outbox' = [outbox EXCEPT ![s].pc = "accepted"]
  /\ UNCHANGED <<clientVars, rows, reminder>>

\* An error, or an answer that is lost after the mail went out.
ProviderFails(s) ==
  /\ outbox[s].pc = "loaded"
  /\ Deliver(s) \/ UNCHANGED delivered
  /\ outbox' = [outbox EXCEPT ![s].pc = "refused"]
  /\ UNCHANGED <<clientVars, rows, reminder>>

\* MUTANT of Outcome: a mail the provider refused counts as sent.
OutcomeIgnored(s, row) == [row EXCEPT !.status = "SENT"]

\* MUTANT of Outcome: writes the status as the API spells it.
OutcomeLowerCase(s, row) ==
  IF outbox[s].pc = "accepted"
  THEN [row EXCEPT !.status = "sent"]
  ELSE [row EXCEPT !.status = "failed", !.due = FALSE]

\* What the update writes after the provider's answer.
Outcome(s, row) ==
  IF outbox[s].pc = "accepted"
  THEN [row EXCEPT !.status = "SENT"]
  ELSE [row EXCEPT !.status = "FAILED", !.due = FALSE]

\* Both updates are unconditional: they overwrite what another scan wrote, and
\* both throw if the row is gone, the second one out of the scan.
OutboxMark(s) ==
  /\ outbox[s].pc \in {"accepted", "refused"}
  /\ LET r == outbox[s].row
     IN IF rows[r].status = "deleted"
        THEN ProcessEnds /\ UNCHANGED rows
        ELSE /\ rows' = [rows EXCEPT ![r] = Outcome(s, @)]
             /\ Advance(s, outbox[s].todo)
             /\ UNCHANGED reminder
  /\ UNCHANGED <<clientVars, delivered>>

-----------------------------------------------------------------------------
(* reminderScan. *)

Reminders(a) ==
  {r \in RowIds : rows[r] # NoRow /\ rows[r].type = "REMINDER" /\ rows[r].appt = a}

\* MUTANT of NeedsReminder: does not ask whether a reminder was queued before.
NeedsReminderAgain(a) ==
  /\ appts[a].status = "confirmed"
  /\ appts[a].start > now
  /\ appts[a].start - Lead <= now
  /\ ~ withdrawn

NeedsReminder(a) ==
  /\ appts[a].status = "confirmed"
  /\ appts[a].start > now
  /\ appts[a].start - Lead <= now
  /\ \A r \in Reminders(a) : rows[r].status = "deleted"
  /\ ~ withdrawn

ReminderRead(s) ==
  /\ reminder[s] = Resting
  /\ \E a \in Appts : NeedsReminder(a)
  /\ reminder' = [reminder EXCEPT ![s] =
       [pc |-> "scan", todo |-> {a \in Appts : NeedsReminder(a)}]]
  /\ UNCHANGED <<clientVars, rows, delivered, outbox>>

\* Nothing of what was read is read again before the insert.
ReminderQueue(s, a) ==
  /\ reminder[s].pc = "scan"
  /\ a \in reminder[s].todo
  /\ Queue(a, "REMINDER")
  /\ LET rest == reminder[s].todo \ {a}
     IN reminder' = [reminder EXCEPT ![s] =
          IF rest = {} THEN Resting ELSE [@ EXCEPT !.todo = rest]]
  /\ UNCHANGED <<clientVars, delivered, outbox>>

-----------------------------------------------------------------------------
Tick ==
  /\ now < MaxTime
  /\ now' = now + 1
  /\ UNCHANGED <<appts, withdrawn, rows, delivered, outbox, reminder>>

\* nextAttemptAt = now + computeRetryBackoff(retryCount) has been reached.
BackoffEnds(r) ==
  /\ rows[r].status = "FAILED"
  /\ ~ rows[r].due
  /\ rows' = [rows EXCEPT ![r].due = TRUE]
  /\ UNCHANGED <<clientVars, delivered, outbox, reminder>>

\* A deployment, a kill, or an error of another part of the cycle.
WorkerCrashes ==
  /\ ProcessEnds
  /\ UNCHANGED <<clientVars, rows, delivered>>

OutboxStep(s) ==
  \/ OutboxRead(s)
  \/ OutboxLoad(s)
  \/ ProviderAccepts(s)
  \/ ProviderFails(s)
  \/ OutboxMark(s)

Next ==
  \/ \E a \in Appts, t \in Time : Book(a, t) \/ Move(a, t)
  \/ \E a \in Appts : Cancel(a)
  \/ WithdrawConsent
  \/ DeletePersonalData
  \/ \E s \in OutboxScans : OutboxStep(s)
  \/ \E s \in ReminderScans : ReminderRead(s) \/ \E a \in Appts : ReminderQueue(s, a)
  \/ \E r \in RowIds : BackoffEnds(r)
  \/ Tick
  \/ WorkerCrashes

Spec == Init /\ [][Next]_vars

Trouble == WorkerCrashes \/ \E s \in OutboxScans : ProviderFails(s)

\* setInterval starts cycles for ever, Node.js runs what an await resolved, and
\* time passes; outages of the provider and crashes of the worker end at last.
Fairness ==
  /\ \A s \in OutboxScans : WF_vars(OutboxStep(s))
  /\ \A r \in RowIds : WF_vars(BackoffEnds(r))
  /\ <>[][~ Trouble]_vars

FairSpec == Spec /\ Fairness

-----------------------------------------------------------------------------
(* What makes the worker correct. *)

OutboxScan ==
  {Resting}
  \cup [pc : {"next"}, todo : {l \in SUBSET RowIds : l # {}}]
  \cup [pc : {"loaded", "accepted", "refused"}, row : RowIds, todo : SUBSET RowIds]

WorkerTypeOK ==
  /\ now \in Time
  /\ appts \in [Appts -> [status : Live \cup {"cancelled"}, start : Time] \cup {Unbooked}]
  /\ withdrawn \in BOOLEAN
  /\ rows \in [RowIds -> Row \cup {NoRow}]
  /\ delivered \subseteq [key : RowIds, row : RowIds]
  /\ outbox \in [OutboxScans -> OutboxScan]
  /\ reminder \in [ReminderScans -> [pc : {"scan"}, todo : SUBSET Appts] \cup {Resting}]

\* One outbox row is one mail to the client, although a crash between sending
\* and marking, a lost answer or an overlapping scan makes the worker send it
\* again (index.ts 65-87).
OneMailPerRow == \A d, e \in delivered : d.row = e.row => d = e

\* SENT is never wrong: whichever scan wrote it, the provider has the mail
\* (index.ts 65-75).
SentWasDelivered ==
  \A r \in RowIds : rows[r].status = "SENT" => \E d \in delivered : d.row = r

\* While reminder scans do not overlap one another, an appointment is reminded
\* of at most once in its life, through moves and withdrawals
\* (index.ts 92-118).
RemindedOnce == \A a \in Appts : Cardinality(Reminders(a)) <= 1

\* Once the client has withdrawn consent no scan takes up another reminder; one
\* it had loaded before may still go out (index.ts 51-54).
QuietAfterWithdrawal ==
  [][\A s \in OutboxScans :
       (withdrawn /\ outbox[s].pc = "next" /\ outbox'[s].pc = "loaded")
         => rows[outbox'[s].row].type # "REMINDER"]_vars

\* No mail is dropped: a queued or failed row is sent at last, unless consent or
\* account deletion removes it (index.ts 41-87, notifications.ts 81-99).
EveryMailLeaves ==
  \A r \in RowIds : Undelivered(r) ~> rows[r].status \in {"SENT", "deleted"}

\* No scan takes up a reminder of an appointment that has started; the scan has
\* the appointment's startsAt in hand and sends (notifications/spec.md 141-145).
NoLateReminder ==
  [][\A s \in OutboxScans :
       (outbox[s].pc = "next" /\ outbox'[s].pc = "loaded") =>
         LET row == rows[outbox'[s].row]
         IN row.type = "REMINDER" => appts[row.appt].start >= now]_vars

=============================================================================
