------------------------------- MODULE Booking -------------------------------
(***************************************************************************)
(* The booking service of apps/web/lib/booking.ts: createBooking,          *)
(* rescheduleAppointment and cancelAppointment, run by concurrent HTTP     *)
(* requests against one MySQL database.                                    *)
(*                                                                         *)
(* A request is a process.  It reads the database outside any transaction  *)
(* (one step per await that later decisions use), then runs one            *)
(* transaction.  In a transaction the SELECT ... FOR UPDATE on the barber  *)
(* row and the overlap query are steps of their own; the writes and the    *)
(* commit are one step, because nobody else sees them before the commit.   *)
(* Cancelling takes no barber lock, so it may commit between any two       *)
(* steps of the others.  Time is counted in hours.                         *)
(***************************************************************************)
EXTENDS Integers, Sequences, FiniteSets

CONSTANTS
  Requests,          \* HTTP requests; each runs one handler once
  Appts,             \* appointment ids
  Clients, Barbers, Services,
  Times,             \* instants a client may ask for, and the clock's range
  Instants,          \* every instant a slot may start or end at
  Catalogs,          \* the states an admin may put the catalog in
  NoOne,             \* "no request holds the lock"
  AutoConfirm,       \* barbershop.confirmationMode = AUTO
  RescheduleWindow,  \* barbershop.rescheduleWindowHours
  FreeCancelWindow,  \* barbershop.freeCancelWindowHours
  RejectLateCancel   \* barbershop.lateCancelPolicy = REJECT

(* A catalog: how long each service takes, which services are active, which
   barber may be booked for which service (shop onboarded, barber active,
   service assigned), and the windows a barber works on the modelled date,
   one-off exceptions already taken out. *)
CatalogType ==
  [duration : [Services -> Nat \ {0}],
   active   : SUBSET Services,
   offers   : SUBSET (Barbers \X Services),
   windows  : [Barbers -> SUBSET [from : Nat, to : Nat]]]

ASSUME BookingAssumption ==
  /\ Times \subseteq Instants
  /\ Instants \subseteq Nat
  /\ 0 \in Times
  /\ Catalogs \subseteq CatalogType
  /\ \A t \in Times, c \in Catalogs, s \in Services :
       t + c.duration[s] \in Instants
  /\ NoOne \notin Requests
  /\ AutoConfirm \in BOOLEAN
  /\ RejectLateCancel \in BOOLEAN
  /\ RescheduleWindow \in Nat
  /\ FreeCancelWindow \in Nat

VARIABLES
  now,       \* the wall clock
  catalog,   \* what the admin has configured
  appts,     \* the Appointment table
  mails,     \* mails[a]: the EmailNotification rows of a, in commit order
  lock,      \* lock[b]: the transaction holding the row lock of barber b
  reqs       \* the program counter and local variables of every request

bookingVars == <<now, catalog, appts, mails, lock, reqs>>

Live == {"pending", "confirmed"}
Status == Live \cup {"completed", "cancelled"}

Absent == [status |-> "absent"]

Appointment ==
  [status : Status, client : Clients, barber : Barbers, service : Services,
   start : Times, finish : Instants]

Mail == [type : {"CONFIRMATION", "RESCHEDULE", "CANCELLATION"}, start : Times]

Idle == [pc |-> "idle"]
Served == [pc |-> "ok"]
Rejected == [pc |-> "rejected"]

\* Locals of a running handler; appt and seen mean nothing in a "create".
SlotRequest ==
  [pc : {"loaded", "ready", "locked", "checked"}, kind : {"create"},
   client : Clients, barber : Barbers, service : Services,
   start : Times, finish : Instants]
  \cup
  [pc : {"loaded", "ready", "locked", "checked"}, kind : {"reschedule"},
   appt : Appts, barber : Barbers, start : Times, finish : Instants]

CancelRequest == [pc : {"ready"}, kind : {"cancel"}, appt : Appts, start : Times]

Request == {Idle, Served, Rejected} \cup SlotRequest \cup CancelRequest

-----------------------------------------------------------------------------
(* The rules of the domain. *)

\* TRANSITIONS of booking.ts, by the status they leave.
Transitions(from) ==
  CASE from = "pending"   -> {"confirmed", "cancelled"}
    [] from = "confirmed" -> {"completed", "cancelled"}
    [] OTHER              -> {}

IsFuture(t) == t >= now

IsLateCancel(t) == t - now < FreeCancelWindow

IsRescheduleAllowed(t) == t - now >= RescheduleWindow

\* MUTANT of InitialStatus: the database enum, not the contract's status.
InitialStatusUnmapped == IF AutoConfirm THEN "CONFIRMED" ELSE "PENDING"

InitialStatus == IF AutoConfirm THEN "confirmed" ELSE "pending"

\* The barber works from start to finish without a break.
FitsSchedule(b, start, finish) ==
  \E w \in catalog.windows[b] : w.from <= start /\ finish <= w.to

Exists(a) == appts[a].status # "absent"

\* The statuses conflictingAppointments counts: all but CANCELLED.
Occupies(a) == appts[a].status \notin {"absent", "cancelled"}

\* MUTANT of Overlaps: only asks whether the new start falls into the old slot.
OverlapsAtStart(a, b, start, finish) ==
  /\ appts[a].barber = b
  /\ appts[a].start <= start
  /\ appts[a].finish > start

Overlaps(a, b, start, finish) ==
  /\ appts[a].barber = b
  /\ appts[a].start < finish
  /\ appts[a].finish > start

\* The rows other than exclude that overlap [start, finish) of barber b.
ConflictingAppointments(b, start, finish, exclude) ==
  {a \in Appts \ exclude : Occupies(a) /\ Overlaps(a, b, start, finish)}

\* A reschedule does not conflict with the appointment it moves.
Excluded(r) == IF reqs[r].kind = "reschedule" THEN {reqs[r].appt} ELSE {}

HasSlot(r) == reqs[r].pc \in {"locked", "checked"}

-----------------------------------------------------------------------------
Init ==
  /\ now = 0
  /\ catalog \in Catalogs
  /\ appts = [a \in Appts |-> Absent]
  /\ mails = [a \in Appts |-> <<>>]
  /\ lock = [b \in Barbers |-> NoOne]
  /\ reqs = [r \in Requests |-> Idle]

(* The handlers' reads before their transaction.  A request whose first read
   turns it away has changed nothing and holds nothing: it stays idle. *)

BeginCreate(r, c, b, s, t) ==
  /\ reqs[r] = Idle
  /\ IsFuture(t)
  /\ s \in catalog.active
  /\ reqs' = [reqs EXCEPT ![r] =
       [pc |-> "loaded", kind |-> "create", client |-> c, barber |-> b,
        service |-> s, start |-> t, finish |-> t + catalog.duration[s]]]
  /\ UNCHANGED <<now, catalog, appts, mails, lock>>

\* The new end comes from the service's duration today, not at booking time.
BeginReschedule(r, c, a, t) ==
  /\ reqs[r] = Idle
  /\ IsFuture(t)
  /\ appts[a].status \in Live
  /\ appts[a].client = c
  /\ IsRescheduleAllowed(appts[a].start)
  /\ reqs' = [reqs EXCEPT ![r] =
       [pc |-> "loaded", kind |-> "reschedule", appt |-> a,
        barber |-> appts[a].barber, start |-> t,
        finish |-> t + catalog.duration[appts[a].service]]]
  /\ UNCHANGED <<now, catalog, appts, mails, lock>>

BeginCancel(r, c, a) ==
  /\ reqs[r] = Idle
  /\ Exists(a)
  /\ appts[a].client = c
  /\ "cancelled" \in Transitions(appts[a].status)
  /\ RejectLateCancel => ~ IsLateCancel(appts[a].start)
  /\ reqs' = [reqs EXCEPT ![r] =
       [pc |-> "ready", kind |-> "cancel", appt |-> a,
        start |-> appts[a].start]]
  /\ UNCHANGED <<now, catalog, appts, mails, lock>>

\* The last read before the transaction: assignment and weekly schedule.
CheckOffer(r) ==
  /\ reqs[r].pc = "loaded"
  /\ LET q == reqs[r]
         fits == /\ q.kind = "create" => <<q.barber, q.service>> \in catalog.offers
                 /\ FitsSchedule(q.barber, q.start, q.finish)
     IN reqs' = [reqs EXCEPT ![r] = IF fits THEN [q EXCEPT !.pc = "ready"] ELSE Rejected]
  /\ UNCHANGED <<now, catalog, appts, mails, lock>>

-----------------------------------------------------------------------------
(* The transaction of a request that takes a slot. *)

\* MUTANT of LockBarber: a plain SELECT, which does not wait.
LockBarberWithoutWaiting(r) ==
  /\ reqs[r].pc = "ready"
  /\ reqs[r].kind # "cancel"
  /\ lock' = [lock EXCEPT ![reqs[r].barber] = r]
  /\ reqs' = [reqs EXCEPT ![r].pc = "locked"]
  /\ UNCHANGED <<now, catalog, appts, mails>>

\* SELECT id FROM Barber WHERE id = ? FOR UPDATE: waits for the row lock.
LockBarber(r) ==
  /\ reqs[r].pc = "ready"
  /\ reqs[r].kind # "cancel"
  /\ lock[reqs[r].barber] = NoOne
  /\ lock' = [lock EXCEPT ![reqs[r].barber] = r]
  /\ reqs' = [reqs EXCEPT ![r].pc = "locked"]
  /\ UNCHANGED <<now, catalog, appts, mails>>

Unlock(r) == lock' = [b \in Barbers |-> IF lock[b] = r THEN NoOne ELSE lock[b]]

\* MUTANT of CheckConflicts: the check runs in a transaction of its own.
CheckConflictsAlone(r) ==
  /\ reqs[r].pc = "locked"
  /\ LET q == reqs[r]
     IN reqs' = [reqs EXCEPT ![r] =
          IF ConflictingAppointments(q.barber, q.start, q.finish, Excluded(r)) = {}
          THEN [q EXCEPT !.pc = "checked"] ELSE Rejected]
  /\ Unlock(r)
  /\ UNCHANGED <<now, catalog, appts, mails>>

\* MUTANT of CheckConflicts: a conflict leaves the transaction open.
CheckConflictsNoRollback(r) ==
  /\ reqs[r].pc = "locked"
  /\ LET q == reqs[r]
     IN reqs' = [reqs EXCEPT ![r] =
          IF ConflictingAppointments(q.barber, q.start, q.finish, Excluded(r)) = {}
          THEN [q EXCEPT !.pc = "checked"] ELSE Rejected]
  /\ UNCHANGED <<now, catalog, appts, mails, lock>>

\* The first consistent read of the transaction; a conflict rolls it back.
CheckConflicts(r) ==
  /\ reqs[r].pc = "locked"
  /\ LET q == reqs[r]
     IN IF ConflictingAppointments(q.barber, q.start, q.finish, Excluded(r)) = {}
        THEN /\ reqs' = [reqs EXCEPT ![r].pc = "checked"]
             /\ UNCHANGED lock
        ELSE /\ reqs' = [reqs EXCEPT ![r] = Rejected]
             /\ Unlock(r)
  /\ UNCHANGED <<now, catalog, appts, mails>>

\* queueNotification: the outbox row commits with the write it announces.
QueueNotification(a, type, start) ==
  mails' = [mails EXCEPT ![a] = Append(@, [type |-> type, start |-> start])]

CommitCreate(r, a) ==
  /\ reqs[r].pc = "checked"
  /\ reqs[r].kind = "create"
  /\ ~ Exists(a)
  /\ appts' = [appts EXCEPT ![a] =
       [status |-> InitialStatus, client |-> reqs[r].client,
        barber |-> reqs[r].barber, service |-> reqs[r].service,
        start |-> reqs[r].start, finish |-> reqs[r].finish]]
  /\ QueueNotification(a, "CONFIRMATION", reqs[r].start)
  /\ Unlock(r)
  /\ reqs' = [reqs EXCEPT ![r] = Served]
  /\ UNCHANGED <<now, catalog>>

\* MUTANT of CommitReschedule: announces the slot the appointment is leaving.
CommitRescheduleOldMail(r) ==
  /\ reqs[r].pc = "checked"
  /\ reqs[r].kind = "reschedule"
  /\ appts' = [appts EXCEPT ![reqs[r].appt].start = reqs[r].start,
                            ![reqs[r].appt].finish = reqs[r].finish]
  /\ QueueNotification(reqs[r].appt, "RESCHEDULE", appts[reqs[r].appt].start)
  /\ Unlock(r)
  /\ reqs' = [reqs EXCEPT ![r] = Served]
  /\ UNCHANGED <<now, catalog>>

\* MUTANT of CommitReschedule: writes the whole row back, status included.
CommitRescheduleWholeRow(r) ==
  /\ reqs[r].pc = "checked"
  /\ reqs[r].kind = "reschedule"
  /\ appts' = [appts EXCEPT ![reqs[r].appt] =
       [@ EXCEPT !.status = InitialStatus, !.start = reqs[r].start,
                 !.finish = reqs[r].finish]]
  /\ QueueNotification(reqs[r].appt, "RESCHEDULE", reqs[r].start)
  /\ Unlock(r)
  /\ reqs' = [reqs EXCEPT ![r] = Served]
  /\ UNCHANGED <<now, catalog>>

\* Writes the times alone; the status read before the transaction is not re-read.
CommitReschedule(r) ==
  /\ reqs[r].pc = "checked"
  /\ reqs[r].kind = "reschedule"
  /\ appts' = [appts EXCEPT ![reqs[r].appt].start = reqs[r].start,
                            ![reqs[r].appt].finish = reqs[r].finish]
  /\ QueueNotification(reqs[r].appt, "RESCHEDULE", reqs[r].start)
  /\ Unlock(r)
  /\ reqs' = [reqs EXCEPT ![r] = Served]
  /\ UNCHANGED <<now, catalog>>

\* An unconditional update, without the barber lock and without a re-read.
CommitCancel(r) ==
  /\ reqs[r].pc = "ready"
  /\ reqs[r].kind = "cancel"
  /\ appts' = [appts EXCEPT ![reqs[r].appt].status = "cancelled"]
  /\ QueueNotification(reqs[r].appt, "CANCELLATION", reqs[r].start)
  /\ reqs' = [reqs EXCEPT ![r] = Served]
  /\ UNCHANGED <<now, catalog, lock>>

\* The web process dies, or Prisma or MySQL gives the transaction up (lock
\* wait or transaction timeout): it rolls back and frees its lock.
TransactionFails(r) ==
  /\ reqs[r].pc \in {"ready", "locked", "checked"}
  /\ reqs' = [reqs EXCEPT ![r] = Rejected]
  /\ Unlock(r)
  /\ UNCHANGED <<now, catalog, appts, mails>>

-----------------------------------------------------------------------------
(* The environment. *)

Tick ==
  /\ now + 1 \in Times
  /\ now' = now + 1
  /\ UNCHANGED <<catalog, appts, mails, lock, reqs>>

\* An admin edits services, assignments, schedules or exceptions.
EditCatalog ==
  /\ catalog' \in Catalogs \ {catalog}
  /\ UNCHANGED <<now, appts, mails, lock, reqs>>

\* Nothing in the repository writes COMPLETED; the shop's staff does it on
\* the database once the visit is over, as the integration tests do.
CompleteVisit(a) ==
  /\ appts[a].status = "confirmed"
  /\ appts[a].finish <= now
  /\ appts' = [appts EXCEPT ![a].status = "completed"]
  /\ UNCHANGED <<now, catalog, mails, lock, reqs>>

Begin(r) ==
  \E c \in Clients :
    \/ \E b \in Barbers, s \in Services, t \in Times : BeginCreate(r, c, b, s, t)
    \/ \E a \in Appts, t \in Times : BeginReschedule(r, c, a, t)
    \/ \E a \in Appts : BeginCancel(r, c, a)

Commit(r) ==
  \/ \E a \in Appts : CommitCreate(r, a)
  \/ CommitReschedule(r)
  \/ CommitCancel(r)

\* One step of a handler that has begun.
Continue(r) == CheckOffer(r) \/ LockBarber(r) \/ CheckConflicts(r) \/ Commit(r)

Next ==
  \/ Tick
  \/ EditCatalog
  \/ \E a \in Appts : CompleteVisit(a)
  \/ \E r \in Requests : Begin(r) \/ Continue(r) \/ TransactionFails(r)

Spec == Init /\ [][Next]_bookingVars

\* Node.js runs every handler whose await has resolved, and InnoDB grants a
\* free row lock to a waiter; that clients send requests is not assumed.
Fairness == \A r \in Requests : WF_bookingVars(Continue(r))

FairSpec == Spec /\ Fairness

-----------------------------------------------------------------------------
(* What makes the service correct. *)

TypeOK ==
  /\ now \in Times
  /\ catalog \in Catalogs
  /\ appts \in [Appts -> Appointment \cup {Absent}]
  /\ mails \in [Appts -> Seq(Mail)]
  /\ lock \in [Barbers -> Requests \cup {NoOne}]
  /\ reqs \in [Requests -> Request]

\* No barber is booked twice for the same time, whatever the interleaving of
\* creations, moves and cancellations (booking.ts 7-12 and 166-172).
NoOverlap ==
  \A x, y \in Appts :
    x # y /\ Occupies(x) /\ Occupies(y) =>
      ~ Overlaps(x, appts[y].barber, appts[y].start, appts[y].finish)

\* The row lock of a barber is held by exactly the transaction working on that
\* barber: none runs without it, and none leaves it behind when it rolls back
\* (lockBarber, called first at booking.ts 318 and 398).
LockMatchesTransactions ==
  \A b \in Barbers, r \in Requests :
    lock[b] = r <=> HasSlot(r) /\ reqs[r].barber = b

\* The overlap check stays good until the commit it was made for, although
\* others cancel, complete and queue mail in between (booking.ts 317-351).
CheckedSlotIsFree ==
  \A r \in Requests : reqs[r].pc = "checked" =>
    ConflictingAppointments(reqs[r].barber, reqs[r].start, reqs[r].finish, Excluded(r)) = {}

\* The rows a running handler read before its transaction still exist, with the
\* barber it is about to lock: the service never deletes or reassigns one.
RequestsNameRows ==
  \A r \in Requests : reqs[r].pc \in {"loaded", "ready", "locked", "checked"} =>
    /\ reqs[r].kind # "create" => Exists(reqs[r].appt)
    /\ reqs[r].kind = "reschedule" => appts[reqs[r].appt].barber = reqs[r].barber

\* The inductive invariant NoOverlap follows from.
BookingInv ==
  /\ TypeOK
  /\ RequestsNameRows
  /\ LockMatchesTransactions
  /\ CheckedSlotIsFree
  /\ NoOverlap

\* Row i of a's outbox names a slot, and no later row does.
LastSlotMail(a, i) ==
  /\ mails[a][i].type # "CANCELLATION"
  /\ \A j \in DOMAIN mails[a] : j > i => mails[a][j].type = "CANCELLATION"

\* The outbox agrees with the table after every commit (booking.ts 255-267): the
\* first row confirms, the last row that names a slot names the slot held now,
\* and a client is told of a cancellation exactly when there was one.
OutboxAgrees ==
  \A a \in Appts :
    IF Exists(a)
    THEN /\ mails[a][1].type = "CONFIRMATION"
         /\ \E i \in DOMAIN mails[a] :
              LastSlotMail(a, i) /\ mails[a][i].start = appts[a].start
         /\ appts[a].status = "cancelled" <=>
              \E i \in DOMAIN mails[a] : mails[a][i].type = "CANCELLATION"
    ELSE mails[a] = <<>>

\* A cancelled appointment never comes back, whatever a handler that read it
\* earlier still writes (lifecycle of booking.ts 15-17).
CancelledForGood ==
  [][\A a \in Appts : appts[a].status = "cancelled" => appts'[a].status = "cancelled"]_bookingVars

\* An appointment is cancelled once: the client is told of it once
\* (booking.ts 423-428).
CancelledOnce ==
  \A a \in Appts : Len(SelectSeq(mails[a], LAMBDA m : m.type = "CANCELLATION")) <= 1

\* Every handler that begins ends, with or without success: no request waits
\* for ever for a barber lock somebody forgot or two requests hold crosswise.
EveryRequestEnds ==
  \A r \in Requests : reqs[r] # Idle ~> reqs[r] \in {Served, Rejected}

-----------------------------------------------------------------------------
(* The booking service implements the calendar: an appointment that is not
   cancelled holds its slot. *)

SlotsHeld ==
  [a \in Appts |->
     IF Occupies(a)
     THEN {[barber |-> appts[a].barber, start |-> appts[a].start,
            finish |-> appts[a].finish]}
     ELSE {}]

C == INSTANCE Calendar WITH held <- SlotsHeld

\* Every step of the service is one step of the calendar or none: slots are
\* taken, moved and freed at the commits and nowhere else.
ImplementsCalendar == C!Spec

=============================================================================
