---------------------------- MODULE BookingProofs ----------------------------
(***************************************************************************)
(* Theorems about Booking for every set of requests, appointments,         *)
(* barbers, instants and catalogs.                                         *)
(***************************************************************************)
EXTENDS Booking, TLAPS

-----------------------------------------------------------------------------
(* What a request's program counter says about its other fields. *)

LEMMA InstantsAreIntegers == (\A t \in Times : t \in Int) /\ (\A t \in Instants : t \in Int)
<1>1. Times \subseteq Instants /\ Instants \subseteq Nat
  BY BookingAssumption
<1>2. \A n \in Nat : n \in Int
  OBVIOUS
<1>3. QED
  BY <1>1, <1>2

LEMMA SlotRequestShape ==
  ASSUME NEW q \in Request,
         q.pc \in {"loaded", "locked", "checked"} \/ (q.pc = "ready" /\ q.kind # "cancel")
  PROVE  q \in SlotRequest
BY DEF Request, Idle, Served, Rejected, SlotRequest, CancelRequest

LEMMA CancelRequestShape ==
  ASSUME NEW q \in Request, q.pc = "ready", q.kind = "cancel"
  PROVE  q \in CancelRequest
BY DEF Request, Idle, Served, Rejected, SlotRequest, CancelRequest

LEMMA SlotRequestFields ==
  ASSUME NEW q \in SlotRequest
  PROVE  /\ q.barber \in Barbers
         /\ q.start \in Times
         /\ q.finish \in Instants
         /\ q.kind \in {"create", "reschedule"}
         /\ q.kind = "create" => q.client \in Clients /\ q.service \in Services
         /\ q.kind = "reschedule" => q.appt \in Appts
         /\ \A p \in {"loaded", "ready", "locked", "checked"} :
              [q EXCEPT !.pc = p] \in SlotRequest
BY DEF SlotRequest

LEMMA CheckedKeepsFields ==
  ASSUME NEW q \in SlotRequest, NEW p, p = [q EXCEPT !.pc = "checked"]
  PROVE  /\ p.barber = q.barber /\ p.start = q.start /\ p.finish = q.finish
         /\ p.kind = q.kind
         /\ q.kind = "reschedule" => p.appt = q.appt
BY DEF SlotRequest

LEMMA AppointmentShape ==
  ASSUME TypeOK, NEW a \in Appts, Exists(a)
  PROVE  appts[a] \in Appointment
BY DEF TypeOK, Exists, Absent

-----------------------------------------------------------------------------
(* Type correctness.  That a commit writes a well-typed row needs to know that
   the row the request names exists, so the two are proved together. *)

TypeInv == TypeOK /\ RequestsNameRows

LEMMA TypeInvInit == Init => TypeInv
BY BookingAssumption
DEF Init, TypeInv, TypeOK, RequestsNameRows, Request, Idle

LEMMA TypeInvBegin ==
  ASSUME TypeInv, NEW r \in Requests, Begin(r)
  PROVE  TypeInv'
<1>1. PICK c \in Clients :
        \/ \E b \in Barbers, s \in Services, t \in Times : BeginCreate(r, c, b, s, t)
        \/ \E a \in Appts, t \in Times : BeginReschedule(r, c, a, t)
        \/ \E a \in Appts : BeginCancel(r, c, a)
  BY DEF Begin
<1>2. CASE \E b \in Barbers, s \in Services, t \in Times : BeginCreate(r, c, b, s, t)
  <2>1. PICK b \in Barbers, s \in Services, t \in Times : BeginCreate(r, c, b, s, t)
    BY <1>2
  <2>2. t + catalog.duration[s] \in Instants
    BY BookingAssumption DEF TypeInv, TypeOK
  <2>3. [pc |-> "loaded", kind |-> "create", client |-> c, barber |-> b,
         service |-> s, start |-> t, finish |-> t + catalog.duration[s]] \in Request
    BY <2>2 DEF Request, SlotRequest
  <2>4. TypeOK'
    BY <2>1, <2>3 DEF BeginCreate, TypeInv, TypeOK
  <2>5. RequestsNameRows'
    BY <2>1 DEF BeginCreate, TypeInv, TypeOK, RequestsNameRows, Exists
  <2>6. QED
    BY <2>4, <2>5 DEF TypeInv
<1>3. CASE \E a \in Appts, t \in Times : BeginReschedule(r, c, a, t)
  <2>1. PICK a \in Appts, t \in Times : BeginReschedule(r, c, a, t)
    BY <1>3
  <2>2. Exists(a)
    BY <2>1 DEF BeginReschedule, Live, Exists
  <2>3. appts[a] \in Appointment
    BY <2>2, AppointmentShape DEF TypeInv
  <2>4. appts[a].barber \in Barbers /\ appts[a].service \in Services
    BY <2>3 DEF Appointment
  <2>5. t + catalog.duration[appts[a].service] \in Instants
    BY <2>4, BookingAssumption DEF TypeInv, TypeOK
  <2>6. [pc |-> "loaded", kind |-> "reschedule", appt |-> a,
         barber |-> appts[a].barber, start |-> t,
         finish |-> t + catalog.duration[appts[a].service]] \in Request
    BY <2>4, <2>5 DEF Request, SlotRequest
  <2>7. TypeOK'
    BY <2>1, <2>6 DEF BeginReschedule, TypeInv, TypeOK
  <2>8. RequestsNameRows'
    BY <2>1, <2>2 DEF BeginReschedule, TypeInv, TypeOK, RequestsNameRows, Exists
  <2>9. QED
    BY <2>7, <2>8 DEF TypeInv
<1>4. CASE \E a \in Appts : BeginCancel(r, c, a)
  <2>1. PICK a \in Appts : BeginCancel(r, c, a)
    BY <1>4
  <2>2. Exists(a) /\ appts[a].start \in Times
    BY <2>1, AppointmentShape DEF BeginCancel, TypeInv, Appointment
  <2>3. [pc |-> "ready", kind |-> "cancel", appt |-> a, start |-> appts[a].start]
          \in Request
    BY <2>2 DEF Request, CancelRequest
  <2>4. TypeOK'
    BY <2>1, <2>3 DEF BeginCancel, TypeInv, TypeOK
  <2>5. RequestsNameRows'
    BY <2>1, <2>2 DEF BeginCancel, TypeInv, TypeOK, RequestsNameRows, Exists
  <2>6. QED
    BY <2>4, <2>5 DEF TypeInv
<1>5. QED
  BY <1>1, <1>2, <1>3, <1>4
LEMMA TypeInvCheckOffer ==
  ASSUME TypeInv, NEW r \in Requests, CheckOffer(r)
  PROVE  TypeInv'
<1>1. reqs[r] \in SlotRequest /\ reqs[r].pc = "loaded"
  BY SlotRequestShape DEF CheckOffer, TypeInv, TypeOK
<1>2. reqs' = [reqs EXCEPT ![r] = Rejected] \/ reqs' = [reqs EXCEPT ![r] = [reqs[r] EXCEPT !.pc = "ready"]]
  BY DEF CheckOffer
<1>3. [reqs[r] EXCEPT !.pc = "ready"] \in SlotRequest
  BY <1>1, SlotRequestFields
<1>4. reqs' \in [Requests -> Request]
  BY <1>2, <1>3 DEF TypeInv, TypeOK, Request
<1>5. TypeOK'
  BY <1>4 DEF CheckOffer, TypeInv, TypeOK
<1>6. RequestsNameRows'
  BY <1>1, <1>2 DEF CheckOffer, TypeInv, TypeOK, RequestsNameRows, Exists, Rejected, SlotRequest
<1>7. QED
  BY <1>5, <1>6 DEF TypeInv

LEMMA TypeInvLockBarber ==
  ASSUME TypeInv, NEW r \in Requests, LockBarber(r)
  PROVE  TypeInv'
<1>1. reqs[r] \in SlotRequest
  BY SlotRequestShape DEF LockBarber, TypeInv, TypeOK
<1>2. [reqs[r] EXCEPT !.pc = "locked"] \in SlotRequest
  BY <1>1, SlotRequestFields
<1>3. TypeOK'
  BY <1>1, <1>2 DEF LockBarber, TypeInv, TypeOK, Request
<1>4. RequestsNameRows'
  BY <1>1 DEF LockBarber, TypeInv, TypeOK, RequestsNameRows, Exists, SlotRequest
<1>5. QED
  BY <1>3, <1>4 DEF TypeInv

LEMMA UnlockType ==
  ASSUME TypeOK, NEW r \in Requests, Unlock(r)
  PROVE  lock' \in [Barbers -> Requests \cup {NoOne}]
BY DEF Unlock, TypeOK

LEMMA TypeInvCheckConflicts ==
  ASSUME TypeInv, NEW r \in Requests, CheckConflicts(r)
  PROVE  TypeInv'
<1>1. reqs[r] \in SlotRequest
  BY SlotRequestShape DEF CheckConflicts, TypeInv, TypeOK
<1>2. [reqs[r] EXCEPT !.pc = "checked"] \in SlotRequest
  BY <1>1, SlotRequestFields
<1>3. \/ reqs' = [reqs EXCEPT ![r].pc = "checked"] /\ UNCHANGED lock
      \/ reqs' = [reqs EXCEPT ![r] = Rejected] /\ Unlock(r)
  BY DEF CheckConflicts
<1>4. lock' \in [Barbers -> Requests \cup {NoOne}]
  BY <1>3, UnlockType DEF TypeInv, TypeOK
<1>5. TypeOK'
  BY <1>2, <1>3, <1>4 DEF CheckConflicts, TypeInv, TypeOK, Request
<1>6. reqs[r].pc = "locked" /\ appts' = appts
  BY DEF CheckConflicts
<1>7. ASSUME reqs' = [reqs EXCEPT ![r].pc = "checked"] PROVE RequestsNameRows'
  BY <1>1, <1>6, <1>7 DEF TypeInv, TypeOK, RequestsNameRows, Exists, SlotRequest
<1>8. ASSUME reqs' = [reqs EXCEPT ![r] = Rejected] PROVE RequestsNameRows'
  BY <1>6, <1>8 DEF TypeInv, TypeOK, RequestsNameRows, Exists, Rejected
<1>9. RequestsNameRows'
  BY <1>3, <1>7, <1>8
<1>10. QED
  BY <1>5, <1>9 DEF TypeInv

LEMMA QueueNotificationType ==
  ASSUME TypeOK, NEW a \in Appts, NEW t \in Times,
         NEW type \in {"CONFIRMATION", "RESCHEDULE", "CANCELLATION"},
         QueueNotification(a, type, t)
  PROVE  mails' \in [Appts -> Seq(Mail)]
<1>1. [type |-> type, start |-> t] \in Mail
  BY DEF Mail
<1>2. Append(mails[a], [type |-> type, start |-> t]) \in Seq(Mail)
  BY <1>1 DEF TypeOK
<1>3. QED
  BY <1>2 DEF QueueNotification, TypeOK

LEMMA TypeInvCommitCreate ==
  ASSUME TypeInv, NEW r \in Requests, NEW a \in Appts, CommitCreate(r, a)
  PROVE  TypeInv'
<1> DEFINE row == [status |-> InitialStatus, client |-> reqs[r].client,
                   barber |-> reqs[r].barber, service |-> reqs[r].service,
                   start |-> reqs[r].start, finish |-> reqs[r].finish]
<1>1. reqs[r] \in SlotRequest /\ reqs[r].kind = "create"
  BY SlotRequestShape DEF CommitCreate, TypeInv, TypeOK
<1>2. row \in Appointment
  BY <1>1, SlotRequestFields DEF InitialStatus, Appointment, Status, Live
<1>3. appts' = [appts EXCEPT ![a] = row] /\ reqs' = [reqs EXCEPT ![r] = Served]
  BY DEF CommitCreate
<1>4. mails' \in [Appts -> Seq(Mail)]
  BY <1>1, SlotRequestFields, QueueNotificationType DEF CommitCreate, TypeInv
<1>5. lock' \in [Barbers -> Requests \cup {NoOne}]
  BY UnlockType DEF CommitCreate, TypeInv
<1>6. TypeOK'
  BY <1>2, <1>3, <1>4, <1>5 DEF CommitCreate, TypeInv, TypeOK, Request
<1>7. RequestsNameRows'
  <2>1. ~ Exists(a) /\ row.status # "absent"
    BY DEF CommitCreate, InitialStatus
  <2>2. QED
    BY <1>3, <2>1 DEF TypeInv, TypeOK, RequestsNameRows, Exists, Served
<1>8. QED
  BY <1>6, <1>7 DEF TypeInv

LEMMA TypeInvCommitReschedule ==
  ASSUME TypeInv, NEW r \in Requests, CommitReschedule(r)
  PROVE  TypeInv'
<1> DEFINE a == reqs[r].appt
<1> DEFINE row == [appts[a] EXCEPT !.start = reqs[r].start, !.finish = reqs[r].finish]
<1>1. reqs[r] \in SlotRequest /\ reqs[r].kind = "reschedule"
  BY SlotRequestShape DEF CommitReschedule, TypeInv, TypeOK
<1>2. a \in Appts /\ reqs[r].start \in Times /\ reqs[r].finish \in Instants
  BY <1>1, SlotRequestFields
<1>3. Exists(a)
  BY <1>1 DEF CommitReschedule, TypeInv, RequestsNameRows
<1>4. appts[a] \in Appointment
  BY <1>2, <1>3, AppointmentShape DEF TypeInv
<1>5. row \in Appointment /\ row.status = appts[a].status /\ row.barber = appts[a].barber
  BY <1>2, <1>4 DEF Appointment
<1>6. appts' = [appts EXCEPT ![a] = row] /\ reqs' = [reqs EXCEPT ![r] = Served]
  BY <1>2 DEF CommitReschedule, TypeInv, TypeOK
<1>7. mails' \in [Appts -> Seq(Mail)]
  BY <1>2, QueueNotificationType DEF CommitReschedule, TypeInv
<1>8. lock' \in [Barbers -> Requests \cup {NoOne}]
  BY UnlockType DEF CommitReschedule, TypeInv
<1>9. TypeOK'
  BY <1>5, <1>6, <1>7, <1>8, ZenonT(60) DEF CommitReschedule, TypeInv, TypeOK, Request
<1>10. RequestsNameRows'
  BY <1>5, <1>6 DEF TypeInv, TypeOK, RequestsNameRows, Exists, Served
<1>11. QED
  BY <1>9, <1>10 DEF TypeInv

LEMMA TypeInvCommitCancel ==
  ASSUME TypeInv, NEW r \in Requests, CommitCancel(r)
  PROVE  TypeInv'
<1> DEFINE a == reqs[r].appt
<1> DEFINE row == [appts[a] EXCEPT !.status = "cancelled"]
<1>1. reqs[r] \in CancelRequest
  BY CancelRequestShape DEF CommitCancel, TypeInv, TypeOK
<1>2. a \in Appts /\ reqs[r].start \in Times
  BY <1>1 DEF CancelRequest
<1>3. Exists(a)
  BY DEF CommitCancel, TypeInv, RequestsNameRows
<1>4. appts[a] \in Appointment
  BY <1>2, <1>3, AppointmentShape DEF TypeInv
<1>5. row \in Appointment /\ row.status = "cancelled" /\ row.barber = appts[a].barber
  BY <1>4 DEF Appointment, Status
<1>6. appts' = [appts EXCEPT ![a] = row] /\ reqs' = [reqs EXCEPT ![r] = Served]
  BY <1>2 DEF CommitCancel, TypeInv, TypeOK
<1>7. mails' \in [Appts -> Seq(Mail)]
  BY <1>2, QueueNotificationType DEF CommitCancel, TypeInv
<1>8. TypeOK'
  BY <1>5, <1>6, <1>7 DEF CommitCancel, TypeInv, TypeOK, Request
<1>9. RequestsNameRows'
  BY <1>5, <1>6 DEF TypeInv, TypeOK, RequestsNameRows, Exists, Served
<1>10. QED
  BY <1>8, <1>9 DEF TypeInv

LEMMA TypeInvTransactionFails ==
  ASSUME TypeInv, NEW r \in Requests, TransactionFails(r)
  PROVE  TypeInv'
<1>1. lock' \in [Barbers -> Requests \cup {NoOne}]
  BY UnlockType DEF TransactionFails, TypeInv
<1>2. TypeOK'
  BY <1>1 DEF TransactionFails, TypeInv, TypeOK, Request
<1>3. RequestsNameRows'
  BY DEF TransactionFails, TypeInv, TypeOK, RequestsNameRows, Exists, Rejected
<1>4. QED
  BY <1>2, <1>3 DEF TypeInv

LEMMA TypeInvCompleteVisit ==
  ASSUME TypeInv, NEW a \in Appts, CompleteVisit(a)
  PROVE  TypeInv'
<1> DEFINE row == [appts[a] EXCEPT !.status = "completed"]
<1>1. Exists(a)
  BY DEF CompleteVisit, Exists
<1>2. appts[a] \in Appointment
  BY <1>1, AppointmentShape DEF TypeInv
<1>3. row \in Appointment /\ row.status = "completed" /\ row.barber = appts[a].barber
  BY <1>2 DEF Appointment, Status
<1>4. appts' = [appts EXCEPT ![a] = row]
  BY DEF CompleteVisit, TypeInv, TypeOK
<1>5. TypeOK'
  BY <1>3, <1>4 DEF CompleteVisit, TypeInv, TypeOK
<1>6. RequestsNameRows'
  BY <1>3, <1>4 DEF CompleteVisit, TypeInv, TypeOK, RequestsNameRows, Exists
<1>7. QED
  BY <1>5, <1>6 DEF TypeInv

LEMMA TypeInvNext == TypeInv /\ [Next]_bookingVars => TypeInv'
<1> SUFFICES ASSUME TypeInv, [Next]_bookingVars
             PROVE  TypeInv'
  OBVIOUS
<1>1. CASE Tick
  BY <1>1 DEF Tick, TypeInv, TypeOK, RequestsNameRows, Exists
<1>2. CASE EditCatalog
  BY <1>2 DEF EditCatalog, TypeInv, TypeOK, RequestsNameRows, Exists
<1>3. CASE \E a \in Appts : CompleteVisit(a)
  BY <1>3, TypeInvCompleteVisit
<1>4. ASSUME NEW r \in Requests, Begin(r)
      PROVE  TypeInv'
  BY <1>4, TypeInvBegin
<1>5. ASSUME NEW r \in Requests, Continue(r)
      PROVE  TypeInv'
  BY <1>5, TypeInvCheckOffer, TypeInvLockBarber, TypeInvCheckConflicts,
     TypeInvCommitCreate, TypeInvCommitReschedule, TypeInvCommitCancel
  DEF Continue, Commit
<1>6. ASSUME NEW r \in Requests, TransactionFails(r)
      PROVE  TypeInv'
  BY <1>6, TypeInvTransactionFails
<1>7. CASE UNCHANGED bookingVars
  BY <1>7 DEF bookingVars, TypeInv, TypeOK, RequestsNameRows, Exists
<1>8. QED
  BY <1>1, <1>2, <1>3, <1>4, <1>5, <1>6, <1>7 DEF Next

\* Every reachable state is well typed, and the rows a running handler read
\* before its transaction exist (booking.ts, the three handlers).
THEOREM BookingTyped == Spec => [](TypeOK /\ RequestsNameRows)
BY TypeInvInit, TypeInvNext, PTL DEF Spec, TypeInv

-----------------------------------------------------------------------------
(* The row locks. *)

LEMMA LockKept ==
  ASSUME TypeInv, LockMatchesTransactions, UNCHANGED lock,
         \A r \in Requests : HasSlot(r)' <=> HasSlot(r),
         \A r \in Requests : HasSlot(r) => reqs'[r].barber = reqs[r].barber
  PROVE  LockMatchesTransactions'
BY DEF LockMatchesTransactions

LEMMA LockFreed ==
  ASSUME TypeInv, LockMatchesTransactions, NEW r \in Requests, Unlock(r),
         NEW q \in {Served, Rejected}, reqs' = [reqs EXCEPT ![r] = q]
  PROVE  LockMatchesTransactions'
<1> SUFFICES ASSUME NEW b \in Barbers, NEW x \in Requests
             PROVE  (lock[b] = x <=> HasSlot(x) /\ reqs[x].barber = b)'
  BY DEF LockMatchesTransactions
<1>1. lock'[b] = IF lock[b] = r THEN NoOne ELSE lock[b]
  BY DEF Unlock
<1>2. CASE x = r
  BY <1>1, <1>2, BookingAssumption DEF HasSlot, Served, Rejected, TypeInv, TypeOK
<1>3. CASE x # r
  <2>1. reqs'[x] = reqs[x]
    BY <1>3 DEF TypeInv, TypeOK
  <2>2. lock'[b] = x <=> lock[b] = x
    BY <1>1, <1>3, BookingAssumption
  <2>3. QED
    BY <2>1, <2>2 DEF LockMatchesTransactions, HasSlot
<1>4. QED
  BY <1>2, <1>3

LEMMA LockTaken ==
  ASSUME TypeInv, LockMatchesTransactions, NEW r \in Requests, LockBarber(r)
  PROVE  LockMatchesTransactions'
<1> SUFFICES ASSUME NEW b \in Barbers, NEW x \in Requests
             PROVE  (lock[b] = x <=> HasSlot(x) /\ reqs[x].barber = b)'
  BY DEF LockMatchesTransactions
<1>1. reqs[r] \in SlotRequest
  BY SlotRequestShape DEF LockBarber, TypeInv, TypeOK
<1>2. reqs[r].barber \in Barbers /\ lock[reqs[r].barber] = NoOne
  BY <1>1, SlotRequestFields DEF LockBarber
<1>3. lock'[b] = IF b = reqs[r].barber THEN r ELSE lock[b]
  BY <1>2 DEF LockBarber, TypeInv, TypeOK
<1>4. CASE x = r
  <2>1. reqs'[r].pc = "locked" /\ reqs'[r].barber = reqs[r].barber
    BY <1>1 DEF LockBarber, TypeInv, TypeOK, SlotRequest
  <2>2. lock[b] # r
    BY DEF LockBarber, LockMatchesTransactions, HasSlot
  <2>3. QED
    BY <1>3, <1>4, <2>1, <2>2 DEF HasSlot
<1>5. CASE x # r
  <2>1. reqs'[x] = reqs[x]
    BY <1>5 DEF LockBarber, TypeInv, TypeOK
  <2>2. b = reqs[r].barber => ~ (HasSlot(x) /\ reqs[x].barber = b)
    BY <1>2, BookingAssumption DEF LockMatchesTransactions
  <2>3. QED
    BY <1>3, <1>5, <2>1, <2>2 DEF LockMatchesTransactions, HasSlot
<1>6. QED
  BY <1>4, <1>5

LEMMA LockNext ==
  ASSUME TypeInv, LockMatchesTransactions, [Next]_bookingVars
  PROVE  LockMatchesTransactions'
<1>1. CASE Tick \/ EditCatalog \/ (\E a \in Appts : CompleteVisit(a)) \/ UNCHANGED bookingVars
  BY <1>1, LockKept DEF Tick, EditCatalog, CompleteVisit, bookingVars, HasSlot
<1>2. ASSUME NEW r \in Requests, Begin(r)
      PROVE  LockMatchesTransactions'
  <2>1. reqs[r] = Idle /\ UNCHANGED lock
    BY <1>2 DEF Begin, BeginCreate, BeginReschedule, BeginCancel
  <2>2. \A x \in Requests : x # r => reqs'[x] = reqs[x]
    BY <1>2 DEF Begin, BeginCreate, BeginReschedule, BeginCancel, TypeInv, TypeOK
  <2>3. reqs'[r].pc \in {"loaded", "ready"}
    BY <1>2 DEF Begin, BeginCreate, BeginReschedule, BeginCancel, TypeInv, TypeOK
  <2>4. QED
    BY <2>1, <2>2, <2>3, LockKept DEF HasSlot, Idle
<1>3. ASSUME NEW r \in Requests, CheckOffer(r)
      PROVE  LockMatchesTransactions'
  <2>1. reqs[r] \in SlotRequest /\ reqs[r].pc = "loaded"
    BY <1>3, SlotRequestShape DEF CheckOffer, TypeInv, TypeOK
  <2>2. reqs'[r].pc \in {"ready", "rejected"}
    BY <1>3, <2>1 DEF CheckOffer, TypeInv, TypeOK, SlotRequest, Rejected
  <2>3. \A x \in Requests : x # r => reqs'[x] = reqs[x]
    BY <1>3 DEF CheckOffer, TypeInv, TypeOK
  <2>4. QED
    BY <1>3, <2>1, <2>2, <2>3, LockKept DEF HasSlot, CheckOffer
<1>4. ASSUME NEW r \in Requests, CheckConflicts(r)
      PROVE  LockMatchesTransactions'
  <2>1. CASE reqs' = [reqs EXCEPT ![r].pc = "checked"] /\ UNCHANGED lock
    <3>1. reqs[r] \in SlotRequest /\ reqs[r].pc = "locked"
      BY <1>4, SlotRequestShape DEF CheckConflicts, TypeInv, TypeOK
    <3>2. reqs'[r].pc = "checked" /\ reqs'[r].barber = reqs[r].barber
      BY <2>1, <3>1 DEF TypeInv, TypeOK, SlotRequest
    <3>3. \A x \in Requests : x # r => reqs'[x] = reqs[x]
      BY <2>1 DEF TypeInv, TypeOK
    <3>4. QED
      BY <2>1, <3>1, <3>2, <3>3, LockKept DEF HasSlot
  <2>2. CASE reqs' = [reqs EXCEPT ![r] = Rejected] /\ Unlock(r)
    BY <2>2, LockFreed
  <2>3. QED
    BY <1>4, <2>1, <2>2 DEF CheckConflicts
<1>5. ASSUME NEW r \in Requests, CommitCancel(r)
      PROVE  LockMatchesTransactions'
  <2>1. reqs[r].pc = "ready" /\ reqs'[r].pc = "ok" /\ UNCHANGED lock
    BY <1>5 DEF CommitCancel, TypeInv, TypeOK, Served
  <2>2. \A x \in Requests : x # r => reqs'[x] = reqs[x]
    BY <1>5 DEF CommitCancel, TypeInv, TypeOK
  <2>3. QED
    BY <2>1, <2>2, LockKept DEF HasSlot
<1>6. ASSUME NEW r \in Requests,
             \/ \E a \in Appts : CommitCreate(r, a)
             \/ CommitReschedule(r)
             \/ TransactionFails(r)
      PROVE  LockMatchesTransactions'
  BY <1>6, LockFreed DEF CommitCreate, CommitReschedule, TransactionFails
<1>7. QED
  BY <1>1, <1>2, <1>3, <1>4, <1>5, <1>6, LockTaken DEF Next, Continue, Commit

-----------------------------------------------------------------------------
(* The slots. *)

\* Nobody else occupies the slot that request q asks for.
FreeSlot(q) ==
  \A a \in Appts : Occupies(a) /\ (q.kind = "reschedule" => a # q.appt) =>
    ~ Overlaps(a, q.barber, q.start, q.finish)

SlotInv ==
  /\ \A r \in Requests : reqs[r].pc = "checked" => FreeSlot(reqs[r])
  /\ NoOverlap

LEMMA FreeSlotMeansNoConflict ==
  ASSUME NEW r \in Requests
  PROVE  FreeSlot(reqs[r]) <=>
           ConflictingAppointments(reqs[r].barber, reqs[r].start, reqs[r].finish, Excluded(r)) = {}
BY DEF FreeSlot, ConflictingAppointments, Excluded

LEMMA SlotInvIsFree == CheckedSlotIsFree <=> \A r \in Requests : reqs[r].pc = "checked" => FreeSlot(reqs[r])
BY FreeSlotMeansNoConflict DEF CheckedSlotIsFree

\* Steps that take no slot: whoever occupies one afterwards occupied it before.
LEMMA NoSlotTaken ==
  ASSUME SlotInv,
         \A a \in Appts : Occupies(a)' =>
           /\ Occupies(a)
           /\ appts'[a].barber = appts[a].barber
           /\ appts'[a].start = appts[a].start
           /\ appts'[a].finish = appts[a].finish,
         \A r \in Requests : reqs'[r].pc = "checked" =>
           reqs'[r] = reqs[r] \/ (reqs[r].pc = "locked" /\ FreeSlot(reqs[r])
                                  /\ reqs'[r] = [reqs[r] EXCEPT !.pc = "checked"]
                                  /\ reqs[r] \in SlotRequest)
  PROVE  SlotInv'
<1>1. NoOverlap'
  <2> SUFFICES ASSUME NEW x \in Appts, NEW y \in Appts, x # y, Occupies(x)', Occupies(y)'
               PROVE  ~ Overlaps(x, appts[y].barber, appts[y].start, appts[y].finish)'
    BY DEF NoOverlap
  <2>1. ~ Overlaps(x, appts[y].barber, appts[y].start, appts[y].finish)
    BY DEF SlotInv, NoOverlap
  <2>2. QED
    BY <2>1 DEF Overlaps
<1>2. ASSUME NEW r \in Requests, reqs'[r].pc = "checked"
      PROVE  FreeSlot(reqs[r])'
  <2>1. FreeSlot(reqs[r])
    BY <1>2 DEF SlotInv
  <2>2. /\ reqs'[r].barber = reqs[r].barber
        /\ reqs'[r].start = reqs[r].start
        /\ reqs'[r].finish = reqs[r].finish
        /\ reqs'[r].kind = reqs[r].kind
        /\ reqs[r].kind = "reschedule" => reqs'[r].appt = reqs[r].appt
    <3>1. CASE reqs'[r] = reqs[r]
      BY <3>1
    <3>2. CASE reqs[r] \in SlotRequest /\ reqs'[r] = [reqs[r] EXCEPT !.pc = "checked"]
      BY <3>2, CheckedKeepsFields
    <3>3. QED
      BY <1>2, <3>1, <3>2
  <2>3. QED
    BY <2>1, <2>2 DEF FreeSlot, Overlaps
<1>3. QED
  BY <1>1, <1>2 DEF SlotInv

\* Two requests past the overlap check hold the locks of different barbers.
LEMMA CheckedBarbersDiffer ==
  ASSUME TypeInv, LockMatchesTransactions,
         NEW r \in Requests, NEW x \in Requests, r # x,
         reqs[r].pc = "checked", reqs[x].pc = "checked"
  PROVE  reqs[r].barber # reqs[x].barber
<1>1. reqs[r].barber \in Barbers /\ reqs[x].barber \in Barbers
  BY SlotRequestShape, SlotRequestFields DEF TypeInv, TypeOK
<1>2. lock[reqs[r].barber] = r /\ lock[reqs[x].barber] = x
  BY <1>1 DEF LockMatchesTransactions, HasSlot
<1>3. QED
  BY <1>2

\* A commit writes the slot it has checked into the row a.
LEMMA SlotTaken ==
  ASSUME TypeInv, LockMatchesTransactions, SlotInv,
         NEW r \in Requests, reqs[r].pc = "checked",
         NEW a \in Appts, reqs[r].kind = "reschedule" => reqs[r].appt = a,
         NEW row, appts' = [appts EXCEPT ![a] = row],
         row.barber = reqs[r].barber,
         row.start = reqs[r].start,
         row.finish = reqs[r].finish,
         reqs' = [reqs EXCEPT ![r] = Served],
         reqs[r].kind = "create" => ~ Occupies(a)
  PROVE  SlotInv'
<1>1. appts'[a] = row /\ \A x \in Appts \ {a} : appts'[x] = appts[x]
  BY DEF TypeInv, TypeOK
<1>2. FreeSlot(reqs[r])
  BY DEF SlotInv
<1>3. reqs[r].kind \in {"create", "reschedule"}
  BY SlotRequestShape, SlotRequestFields DEF TypeInv, TypeOK
<1>4. ASSUME NEW x \in Appts \ {a}, Occupies(x)
      PROVE  ~ Overlaps(x, row.barber, row.start, row.finish)
  BY <1>2, <1>4 DEF FreeSlot
<1>5. NoOverlap'
  <2> SUFFICES ASSUME NEW x \in Appts, NEW y \in Appts, x # y, Occupies(x)', Occupies(y)'
               PROVE  ~ Overlaps(x, appts[y].barber, appts[y].start, appts[y].finish)'
    BY DEF NoOverlap
  <2>1. CASE x = a
    <3>1. Occupies(y) /\ appts'[y] = appts[y]
      BY <1>1, <2>1 DEF Occupies
    <3>2. ~ Overlaps(y, row.barber, row.start, row.finish)
      BY <1>4, <2>1, <3>1
    <3>3. appts[y] \in Appointment
      BY <3>1, AppointmentShape DEF TypeInv, Occupies, Exists
    <3>4. row.start \in Nat /\ row.finish \in Nat /\ appts[y].start \in Nat /\ appts[y].finish \in Nat
      BY <3>3, SlotRequestShape, SlotRequestFields, BookingAssumption
      DEF Appointment, TypeInv, TypeOK
    <3>5. QED
      BY <1>1, <2>1, <3>1, <3>2, <3>4 DEF Overlaps
  <2>2. CASE y = a
    <3>1. Occupies(x) /\ appts'[x] = appts[x]
      BY <1>1, <2>2 DEF Occupies
    <3>2. ~ Overlaps(x, row.barber, row.start, row.finish)
      BY <1>4, <2>2, <3>1
    <3>3. QED
      BY <1>1, <2>2, <3>1, <3>2 DEF Overlaps
  <2>3. CASE x # a /\ y # a
    BY <1>1, <2>3 DEF Occupies, Overlaps, SlotInv, NoOverlap
  <2>4. QED
    BY <2>1, <2>2, <2>3
<1>6. ASSUME NEW x \in Requests, reqs'[x].pc = "checked"
      PROVE  FreeSlot(reqs[x])'
  <2>1. x # r /\ reqs'[x] = reqs[x]
    BY <1>6 DEF Served, TypeInv, TypeOK
  <2>2. FreeSlot(reqs[x]) /\ reqs[x].barber # row.barber
    BY <1>6, <2>1, CheckedBarbersDiffer DEF SlotInv
  <2>3. QED
    BY <1>1, <2>1, <2>2 DEF FreeSlot, Occupies, Overlaps
<1>7. QED
  BY <1>5, <1>6 DEF SlotInv

LEMMA SlotCommitCreate ==
  ASSUME TypeInv, LockMatchesTransactions, SlotInv,
         NEW r \in Requests, NEW a \in Appts, CommitCreate(r, a)
  PROVE  SlotInv'
<1> DEFINE row == [status |-> InitialStatus, client |-> reqs[r].client,
                   barber |-> reqs[r].barber, service |-> reqs[r].service,
                   start |-> reqs[r].start, finish |-> reqs[r].finish]
<1>1. appts' = [appts EXCEPT ![a] = row] /\ ~ Occupies(a)
  BY DEF CommitCreate, Occupies, Exists
<1>2. row.barber = reqs[r].barber /\ row.start = reqs[r].start /\ row.finish = reqs[r].finish
  OBVIOUS
<1>3. QED
  BY <1>1, <1>2, SlotTaken DEF CommitCreate

LEMMA SlotCommitReschedule ==
  ASSUME TypeInv, LockMatchesTransactions, SlotInv,
         NEW r \in Requests, CommitReschedule(r)
  PROVE  SlotInv'
<1> DEFINE a == reqs[r].appt
<1> DEFINE row == [appts[a] EXCEPT !.start = reqs[r].start, !.finish = reqs[r].finish]
<1>1. reqs[r] \in SlotRequest /\ reqs[r].kind = "reschedule" /\ reqs[r].pc = "checked"
  BY SlotRequestShape DEF CommitReschedule, TypeInv, TypeOK
<1>2. a \in Appts /\ Exists(a) /\ appts[a].barber = reqs[r].barber
  BY <1>1, SlotRequestFields DEF TypeInv, RequestsNameRows
<1>3. appts[a] \in Appointment
  BY <1>2, AppointmentShape DEF TypeInv
<1>4. row.barber = reqs[r].barber /\ row.start = reqs[r].start /\ row.finish = reqs[r].finish
  BY <1>2, <1>3 DEF Appointment
<1>5. appts' = [appts EXCEPT ![a] = row]
  BY <1>2 DEF CommitReschedule, TypeInv, TypeOK
<1>6. reqs' = [reqs EXCEPT ![r] = Served]
  BY DEF CommitReschedule
<1>7. QED
  BY <1>1, <1>2, <1>4, <1>5, <1>6, SlotTaken

LEMMA SlotNext ==
  ASSUME TypeInv, LockMatchesTransactions, SlotInv, [Next]_bookingVars
  PROVE  SlotInv'
<1>1. CASE Tick \/ EditCatalog \/ UNCHANGED bookingVars
  BY <1>1, NoSlotTaken DEF Tick, EditCatalog, bookingVars, Occupies
<1>2. ASSUME NEW a \in Appts, CompleteVisit(a)
      PROVE  SlotInv'
  <2>1. appts[a] \in Appointment /\ appts[a].status = "confirmed"
    BY <1>2, AppointmentShape DEF CompleteVisit, TypeInv, Exists
  <2>2. appts' = [appts EXCEPT ![a] = [appts[a] EXCEPT !.status = "completed"]] /\ reqs' = reqs
    BY <1>2 DEF CompleteVisit
  <2>3. QED
    BY <2>1, <2>2, NoSlotTaken DEF TypeInv, TypeOK, Occupies, Appointment
<1>3. ASSUME NEW r \in Requests, Begin(r) \/ TransactionFails(r) \/ CheckOffer(r) \/ LockBarber(r)
      PROVE  SlotInv'
  <2>1. appts' = appts
    BY <1>3 DEF Begin, BeginCreate, BeginReschedule, BeginCancel, TransactionFails,
                CheckOffer, LockBarber
  <2>2. \A x \in Requests : x # r => reqs'[x] = reqs[x]
    BY <1>3 DEF Begin, BeginCreate, BeginReschedule, BeginCancel, TransactionFails,
                CheckOffer, LockBarber, TypeInv, TypeOK
  <2>3. reqs'[r].pc # "checked"
    <3>1. CASE Begin(r)
      BY <3>1 DEF Begin, BeginCreate, BeginReschedule, BeginCancel, TypeInv, TypeOK
    <3>2. CASE TransactionFails(r)
      BY <3>2 DEF TransactionFails, Rejected, TypeInv, TypeOK
    <3>3. CASE CheckOffer(r)
      BY <3>3, SlotRequestShape DEF CheckOffer, Rejected, TypeInv, TypeOK, SlotRequest
    <3>4. CASE LockBarber(r)
      BY <3>4, SlotRequestShape DEF LockBarber, TypeInv, TypeOK, SlotRequest
    <3>5. QED
      BY <1>3, <3>1, <3>2, <3>3, <3>4
  <2>4. QED
    BY <2>1, <2>2, <2>3, NoSlotTaken DEF Occupies
<1>4. ASSUME NEW r \in Requests, CheckConflicts(r)
      PROVE  SlotInv'
  <2>1. reqs[r] \in SlotRequest /\ reqs[r].pc = "locked" /\ appts' = appts
    BY <1>4, SlotRequestShape DEF CheckConflicts, TypeInv, TypeOK
  <2>2. \A x \in Requests : x # r => reqs'[x] = reqs[x]
    BY <1>4 DEF CheckConflicts, TypeInv, TypeOK
  <2>3. CASE FreeSlot(reqs[r])
    <3>1. reqs' = [reqs EXCEPT ![r].pc = "checked"]
      BY <1>4, <2>3, FreeSlotMeansNoConflict DEF CheckConflicts
    <3>2. reqs'[r] = [reqs[r] EXCEPT !.pc = "checked"]
      BY <3>1 DEF TypeInv, TypeOK
    <3>3. QED
      BY <2>1, <2>2, <2>3, <3>2, NoSlotTaken DEF Occupies
  <2>4. CASE ~ FreeSlot(reqs[r])
    <3>1. reqs' = [reqs EXCEPT ![r] = Rejected]
      BY <1>4, <2>4, FreeSlotMeansNoConflict DEF CheckConflicts
    <3>2. reqs'[r].pc = "rejected"
      BY <3>1 DEF Rejected, TypeInv, TypeOK
    <3>3. QED
      BY <2>1, <2>2, <3>2, NoSlotTaken DEF Occupies
  <2>5. QED
    BY <2>3, <2>4
<1>5. ASSUME NEW r \in Requests, CommitCancel(r)
      PROVE  SlotInv'
  <2>1. reqs[r] \in CancelRequest /\ Exists(reqs[r].appt)
    BY <1>5, CancelRequestShape DEF CommitCancel, TypeInv, TypeOK, RequestsNameRows
  <2>2. reqs[r].appt \in Appts /\ appts[reqs[r].appt] \in Appointment
    BY <2>1, AppointmentShape DEF CancelRequest, TypeInv
  <2>3. \A a \in Appts : a # reqs[r].appt => appts'[a] = appts[a]
    BY <1>5 DEF CommitCancel, TypeInv, TypeOK
  <2>4. appts'[reqs[r].appt].status = "cancelled"
    BY <1>5, <2>2 DEF CommitCancel, TypeInv, TypeOK, Appointment
  <2>5. \A x \in Requests : reqs'[x].pc = "checked" => reqs'[x] = reqs[x]
    BY <1>5 DEF CommitCancel, Served, TypeInv, TypeOK
  <2>6. QED
    BY <2>3, <2>4, <2>5, NoSlotTaken DEF Occupies
<1>6. QED
  BY <1>1, <1>2, <1>3, <1>4, <1>5, SlotCommitCreate, SlotCommitReschedule
  DEF Next, Continue, Commit

-----------------------------------------------------------------------------
(* The theorems. *)

LEMMA BookingInvParts == BookingInv <=> TypeInv /\ LockMatchesTransactions /\ SlotInv
BY SlotInvIsFree DEF BookingInv, TypeInv, SlotInv

LEMMA BookingInvInit == Init => BookingInv
<1> SUFFICES ASSUME Init
             PROVE  BookingInv
  OBVIOUS
<1>1. TypeInv
  BY TypeInvInit
<1>2. LockMatchesTransactions
  BY BookingAssumption DEF Init, LockMatchesTransactions, HasSlot, Idle
<1>3. SlotInv
  BY DEF Init, SlotInv, NoOverlap, Occupies, Absent, Idle
<1>4. QED
  BY <1>1, <1>2, <1>3, BookingInvParts

LEMMA BookingInvNext == BookingInv /\ [Next]_bookingVars => BookingInv'
<1> SUFFICES ASSUME BookingInv, [Next]_bookingVars
             PROVE  BookingInv'
  OBVIOUS
<1>1. TypeInv /\ LockMatchesTransactions /\ SlotInv
  BY BookingInvParts
<1>2. TypeInv' /\ LockMatchesTransactions' /\ SlotInv'
  BY <1>1, TypeInvNext, LockNext, SlotNext
<1>3. BookingInv' <=> TypeInv' /\ LockMatchesTransactions' /\ SlotInv'
  BY BookingInvParts, PTL
<1>4. QED
  BY <1>2, <1>3

\* The inductive invariant holds in every reachable state: rows named by
\* handlers exist, barber locks match transactions, a checked slot stays free.
THEOREM BookingInvariant == Spec => []BookingInv
BY BookingInvInit, BookingInvNext, PTL DEF Spec

\* However many requests interleave, no barber is ever booked twice for
\* overlapping times by the booking service (booking.ts 7-12).
THEOREM BookingNoOverlap == Spec => []NoOverlap
<1>1. BookingInv => NoOverlap
  BY DEF BookingInv
<1>2. QED
  BY <1>1, BookingInvariant, PTL

\* A conflict check made under the barber's row lock is still true when the
\* transaction commits, whatever others commit in between (booking.ts 317-335).
THEOREM BookingCheckedSlotIsFree == Spec => []CheckedSlotIsFree
<1>1. BookingInv => CheckedSlotIsFree
  BY DEF BookingInv
<1>2. QED
  BY <1>1, BookingInvariant, PTL

\* A cancelled appointment stays cancelled through every step of the booking
\* service, although no commit re-reads the status (booking.ts 397-418, 453-469).
THEOREM BookingCancelledForGood == Spec => CancelledForGood
<1>1. BookingInv /\ [Next]_bookingVars =>
        [\A a \in Appts : appts[a].status = "cancelled" => appts'[a].status = "cancelled"]_bookingVars
  <2> SUFFICES ASSUME BookingInv, Next, NEW a \in Appts, appts[a].status = "cancelled"
               PROVE  appts'[a].status = "cancelled"
    OBVIOUS
  <2>0. TypeInv /\ appts[a] \in Appointment
    BY BookingInvParts, AppointmentShape DEF TypeInv, Exists
  <2>1. CASE appts' = appts
    BY <2>1
  <2>2. ASSUME NEW x \in Appts, CompleteVisit(x)
        PROVE  appts'[a].status = "cancelled"
    BY <2>0, <2>2 DEF CompleteVisit, TypeInv, TypeOK
  <2>3. ASSUME NEW r \in Requests, NEW x \in Appts, CommitCreate(r, x)
        PROVE  appts'[a].status = "cancelled"
    BY <2>0, <2>3 DEF CommitCreate, Exists, TypeInv, TypeOK
  <2>4. ASSUME NEW r \in Requests, CommitReschedule(r)
        PROVE  appts'[a].status = "cancelled"
    BY <2>0, <2>4 DEF CommitReschedule, TypeInv, TypeOK, Appointment
  <2>5. ASSUME NEW r \in Requests, CommitCancel(r)
        PROVE  appts'[a].status = "cancelled"
    BY <2>0, <2>5 DEF CommitCancel, TypeInv, TypeOK, Appointment
  <2>6. QED
    BY <2>1, <2>2, <2>3, <2>4, <2>5, ZenonT(60)
    DEF Next, Tick, EditCatalog, Begin, BeginCreate, BeginReschedule, BeginCancel,
        Continue, Commit, CheckOffer, LockBarber, CheckConflicts, TransactionFails
<1>2. QED
  BY <1>1, BookingInvariant, PTL DEF Spec, CancelledForGood

-----------------------------------------------------------------------------
(* The outbox. *)

\* What OutboxAgrees says of one appointment and its outbox.
Agrees(row, ms) ==
  /\ ms[1].type = "CONFIRMATION"
  /\ \E i \in DOMAIN ms :
       /\ ms[i].type # "CANCELLATION"
       /\ \A j \in DOMAIN ms : j > i => ms[j].type = "CANCELLATION"
       /\ ms[i].start = row.start
  /\ row.status = "cancelled" <=> \E i \in DOMAIN ms : ms[i].type = "CANCELLATION"

LEMMA OutboxIs ==
  OutboxAgrees <=>
    \A a \in Appts : IF Exists(a) THEN Agrees(appts[a], mails[a]) ELSE mails[a] = <<>>
BY DEF OutboxAgrees, Agrees, LastSlotMail

\* What queueNotification leaves in an outbox.
LEMMA Queued ==
  ASSUME NEW ms \in Seq(Mail), NEW m \in Mail
  PROVE  /\ DOMAIN ms = 1 .. Len(ms) /\ Len(ms) \in Nat
         /\ DOMAIN Append(ms, m) = 1 .. (Len(ms) + 1)
         /\ \A i \in 1 .. Len(ms) : Append(ms, m)[i] = ms[i]
         /\ Append(ms, m)[Len(ms) + 1] = m
OBVIOUS

LEMMA FirstMailAgrees ==
  ASSUME NEW row, NEW m \in Mail, m.type = "CONFIRMATION", m.start = row.start,
         row.status # "cancelled"
  PROVE  Agrees(row, Append(<<>>, m))
<1> DEFINE ms == Append(<<>>, m)
<1>1. ms[1] = m /\ DOMAIN ms = {1}
  OBVIOUS
<1> HIDE DEF ms
<1>2. QED
  BY <1>1 DEF Agrees

\* A reschedule names the new slot in the newest row.
LEMMA RescheduleMailAgrees ==
  ASSUME NEW row, NEW new, NEW ms \in Seq(Mail), NEW m \in Mail, Agrees(row, ms),
         m.type = "RESCHEDULE", m.start = new.start, new.status = row.status
  PROVE  Agrees(new, Append(ms, m))
<1> DEFINE n == Len(ms)
           longer == Append(ms, m)
<1>1. /\ DOMAIN ms = 1 .. n /\ n \in Nat
      /\ DOMAIN longer = 1 .. (n + 1)
      /\ \A i \in 1 .. n : longer[i] = ms[i]
      /\ longer[n + 1] = m
  BY Queued
<1> HIDE DEF n, longer
<1>2. n >= 1
  BY <1>1 DEF Agrees
<1>3. longer[1].type = "CONFIRMATION"
  BY <1>1, <1>2 DEF Agrees
<1>4. \E i \in DOMAIN longer :
        /\ longer[i].type # "CANCELLATION"
        /\ \A j \in DOMAIN longer : j > i => longer[j].type = "CANCELLATION"
        /\ longer[i].start = new.start
  <2>1. n + 1 \in DOMAIN longer /\ \A j \in DOMAIN longer : ~ (j > n + 1)
    BY <1>1
  <2>2. QED
    BY <1>1, <2>1
<1>5. (\E i \in DOMAIN longer : longer[i].type = "CANCELLATION")
        <=> (\E i \in DOMAIN ms : ms[i].type = "CANCELLATION")
  BY <1>1
<1>6. QED
  BY <1>3, <1>4, <1>5 DEF Agrees, longer

\* A cancellation leaves the row that names the slot the last that does.
LEMMA CancellationMailAgrees ==
  ASSUME NEW row, NEW new, NEW ms \in Seq(Mail), NEW m \in Mail, Agrees(row, ms),
         m.type = "CANCELLATION", new.start = row.start, new.status = "cancelled"
  PROVE  Agrees(new, Append(ms, m))
<1> DEFINE n == Len(ms)
           longer == Append(ms, m)
<1>1. /\ DOMAIN ms = 1 .. n /\ n \in Nat
      /\ DOMAIN longer = 1 .. (n + 1)
      /\ \A i \in 1 .. n : longer[i] = ms[i]
      /\ longer[n + 1] = m
  BY Queued
<1> HIDE DEF n, longer
<1>2. n >= 1
  BY <1>1 DEF Agrees
<1>3. longer[1].type = "CONFIRMATION"
  BY <1>1, <1>2 DEF Agrees
<1>4. PICK i \in 1 .. n :
        /\ ms[i].type # "CANCELLATION"
        /\ \A j \in 1 .. n : j > i => ms[j].type = "CANCELLATION"
        /\ ms[i].start = row.start
  BY <1>1 DEF Agrees
<1>5. /\ i \in DOMAIN longer /\ longer[i] = ms[i]
      /\ \A j \in DOMAIN longer : j > i => longer[j].type = "CANCELLATION"
  BY <1>1, <1>4
<1>6. longer[n + 1].type = "CANCELLATION" /\ n + 1 \in DOMAIN longer
  BY <1>1
<1>7. QED
  BY <1>3, <1>4, <1>5, <1>6 DEF Agrees, longer

\* A step that writes one appointment and its outbox.
LEMMA OutboxWritten ==
  ASSUME TypeInv, OutboxAgrees, NEW a \in Appts, NEW row, NEW ms, row.status # "absent",
         Agrees(row, ms), appts' = [appts EXCEPT ![a] = row], mails' = [mails EXCEPT ![a] = ms]
  PROVE  OutboxAgrees'
<1>1. appts'[a] = row /\ mails'[a] = ms
  BY DEF TypeInv, TypeOK
<1>2. \A x \in Appts \ {a} : appts'[x] = appts[x] /\ mails'[x] = mails[x]
  BY DEF TypeInv, TypeOK
<1>3. \A x \in Appts :
        IF Exists(x)' THEN Agrees(appts'[x], mails'[x]) ELSE mails'[x] = <<>>
  <2> TAKE x \in Appts
  <2>1. CASE x = a
    BY <1>1, <2>1 DEF Exists
  <2>2. CASE x # a
    BY <1>2, <2>2, OutboxIs DEF Exists
  <2>3. QED
    BY <2>1, <2>2
<1>4. OutboxAgrees' <=>
        \A x \in Appts : IF Exists(x)' THEN Agrees(appts'[x], mails'[x]) ELSE mails'[x] = <<>>
  BY DEF OutboxAgrees, Agrees, LastSlotMail
<1>5. QED
  BY <1>3, <1>4

LEMMA OutboxCreate ==
  ASSUME TypeInv, OutboxAgrees, NEW r \in Requests, NEW a \in Appts, CommitCreate(r, a)
  PROVE  OutboxAgrees'
<1> DEFINE row == [status |-> InitialStatus, client |-> reqs[r].client,
                   barber |-> reqs[r].barber, service |-> reqs[r].service,
                   start |-> reqs[r].start, finish |-> reqs[r].finish]
           m == [type |-> "CONFIRMATION", start |-> reqs[r].start]
<1>1. reqs[r].start \in Times
  BY SlotRequestShape, SlotRequestFields DEF CommitCreate, TypeInv, TypeOK
<1>2. m \in Mail /\ m.type = "CONFIRMATION" /\ m.start = row.start
  BY <1>1 DEF Mail
<1>3. row.status \notin {"cancelled", "absent"}
  BY DEF InitialStatus
<1>4. mails[a] = <<>>
  BY OutboxIs DEF CommitCreate
<1>5. /\ appts' = [appts EXCEPT ![a] = row]
      /\ mails' = [mails EXCEPT ![a] = Append(mails[a], m)]
  BY DEF CommitCreate, QueueNotification
<1> HIDE DEF row, m
<1>6. Agrees(row, Append(mails[a], m))
  BY <1>2, <1>3, <1>4, FirstMailAgrees
<1>7. QED
  BY <1>3, <1>5, <1>6, OutboxWritten

LEMMA OutboxReschedule ==
  ASSUME TypeInv, OutboxAgrees, NEW r \in Requests, CommitReschedule(r)
  PROVE  OutboxAgrees'
<1> DEFINE a == reqs[r].appt
           row == [appts[a] EXCEPT !.start = reqs[r].start, !.finish = reqs[r].finish]
           m == [type |-> "RESCHEDULE", start |-> reqs[r].start]
<1>1. reqs[r] \in SlotRequest /\ reqs[r].kind = "reschedule"
  BY SlotRequestShape DEF CommitReschedule, TypeInv, TypeOK
<1>2. a \in Appts /\ reqs[r].start \in Times
  BY <1>1, SlotRequestFields
<1>3. Exists(a)
  BY <1>1 DEF CommitReschedule, TypeInv, RequestsNameRows
<1>4. appts[a] \in Appointment
  BY <1>2, <1>3, AppointmentShape DEF TypeInv
<1>5. row.status = appts[a].status /\ row.start = reqs[r].start /\ row.status # "absent"
  BY <1>3, <1>4 DEF Appointment, Exists
<1>6. m \in Mail /\ m.type = "RESCHEDULE" /\ m.start = reqs[r].start
  BY <1>2 DEF Mail
<1>7. /\ appts' = [appts EXCEPT ![a] = row]
      /\ mails' = [mails EXCEPT ![a] = Append(mails[a], m)]
  BY <1>2 DEF CommitReschedule, QueueNotification, TypeInv, TypeOK
<1>8. mails[a] \in Seq(Mail) /\ Agrees(appts[a], mails[a])
  BY <1>2, <1>3, OutboxIs DEF TypeInv, TypeOK
<1> HIDE DEF a, row, m
<1>9. Agrees(row, Append(mails[a], m))
  BY <1>5, <1>6, <1>8, RescheduleMailAgrees
<1>10. QED
  BY <1>2, <1>5, <1>7, <1>9, OutboxWritten

LEMMA OutboxCancel ==
  ASSUME TypeInv, OutboxAgrees, NEW r \in Requests, CommitCancel(r)
  PROVE  OutboxAgrees'
<1> DEFINE a == reqs[r].appt
           row == [appts[a] EXCEPT !.status = "cancelled"]
           m == [type |-> "CANCELLATION", start |-> reqs[r].start]
<1>1. reqs[r] \in CancelRequest
  BY CancelRequestShape DEF CommitCancel, TypeInv, TypeOK
<1>2. a \in Appts /\ reqs[r].start \in Times
  BY <1>1 DEF CancelRequest
<1>3. Exists(a)
  BY DEF CommitCancel, TypeInv, RequestsNameRows
<1>4. appts[a] \in Appointment
  BY <1>2, <1>3, AppointmentShape DEF TypeInv
<1>5. row.status = "cancelled" /\ row.start = appts[a].start
  BY <1>4 DEF Appointment
<1>6. m \in Mail /\ m.type = "CANCELLATION"
  BY <1>2 DEF Mail
<1>7. /\ appts' = [appts EXCEPT ![a] = row]
      /\ mails' = [mails EXCEPT ![a] = Append(mails[a], m)]
  BY <1>2 DEF CommitCancel, QueueNotification, TypeInv, TypeOK
<1>8. mails[a] \in Seq(Mail) /\ Agrees(appts[a], mails[a])
  BY <1>2, <1>3, OutboxIs DEF TypeInv, TypeOK
<1> HIDE DEF a, row, m
<1>9. Agrees(row, Append(mails[a], m))
  BY <1>5, <1>6, <1>8, CancellationMailAgrees
<1>10. row.status # "absent"
  BY <1>5
<1>11. QED
  BY <1>2, <1>7, <1>9, <1>10, OutboxWritten

LEMMA OutboxVisit ==
  ASSUME TypeInv, OutboxAgrees, NEW a \in Appts, CompleteVisit(a)
  PROVE  OutboxAgrees'
<1> DEFINE row == [appts[a] EXCEPT !.status = "completed"]
<1>1. Exists(a) /\ appts[a].status = "confirmed"
  BY DEF CompleteVisit, Exists
<1>2. appts[a] \in Appointment
  BY <1>1, AppointmentShape DEF TypeInv
<1>3. row.status = "completed" /\ row.start = appts[a].start
  BY <1>2 DEF Appointment
<1>4. appts' = [appts EXCEPT ![a] = row] /\ mails' = [mails EXCEPT ![a] = mails[a]]
  BY DEF CompleteVisit, TypeInv, TypeOK
<1>5. Agrees(appts[a], mails[a])
  BY <1>1, OutboxIs
<1> HIDE DEF row
<1>6. Agrees(row, mails[a])
  BY <1>1, <1>3, <1>5 DEF Agrees
<1>7. row.status # "absent"
  BY <1>3
<1>8. QED
  BY <1>4, <1>6, <1>7, OutboxWritten

LEMMA OutboxNext == BookingInv /\ OutboxAgrees /\ [Next]_bookingVars => OutboxAgrees'
<1> SUFFICES ASSUME BookingInv, OutboxAgrees, [Next]_bookingVars
             PROVE  OutboxAgrees'
  OBVIOUS
<1>1. TypeInv
  BY BookingInvParts
<1>2. CASE UNCHANGED <<appts, mails>>
  BY <1>2 DEF OutboxAgrees, LastSlotMail, Exists
<1>3. ASSUME NEW r \in Requests, Commit(r)
      PROVE  OutboxAgrees'
  BY <1>1, <1>3, OutboxCreate, OutboxReschedule, OutboxCancel DEF Commit
<1>4. QED
  BY <1>1, <1>2, <1>3, OutboxVisit, ZenonT(60)
  DEF Next, Tick, EditCatalog, Begin, BeginCreate, BeginReschedule, BeginCancel,
      Continue, CheckOffer, LockBarber, CheckConflicts, TransactionFails, bookingVars

\* The outbox never tells a client something else than the table holds: the last
\* slot announced is the slot held, and a cancellation is announced exactly when
\* there was one (booking.ts 255-267), although commits trust earlier reads.
THEOREM BookingOutboxAgrees == Spec => []OutboxAgrees
<1>1. Init => OutboxAgrees
  BY DEF Init, OutboxAgrees, Exists, Absent
<1>2. QED
  BY <1>1, OutboxNext, BookingInvariant, PTL DEF Spec

-----------------------------------------------------------------------------
(* The booking service implements the calendar. *)

SlotOf(row) == [barber |-> row.barber, start |-> row.start, finish |-> row.finish]

LEMMA SlotsHeldIs ==
  ASSUME NEW a \in Appts
  PROVE  /\ Occupies(a) => SlotsHeld[a] = {SlotOf(appts[a])}
         /\ ~ Occupies(a) => SlotsHeld[a] = {}
BY DEF SlotsHeld, SlotOf

LEMMA FreeSlotIsFreeFor ==
  ASSUME TypeInv, NEW q \in SlotRequest, FreeSlot(q),
         NEW a \in Appts, q.kind = "reschedule" => q.appt = a
  PROVE  C!FreeFor(a, SlotOf(q))
<1> SUFFICES ASSUME NEW x \in Appts \ {a}, NEW t \in SlotsHeld[x]
             PROVE  ~ C!SlotsOverlap(t, SlotOf(q))
  BY DEF C!FreeFor
<1>1. Occupies(x) /\ t = SlotOf(appts[x])
  BY SlotsHeldIs
<1>2. ~ Overlaps(x, q.barber, q.start, q.finish)
  BY <1>1 DEF FreeSlot
<1>3. q.start \in Int /\ q.finish \in Int
  <2>1. q.start \in Times /\ q.finish \in Instants
    BY SlotRequestFields
  <2>2. QED
    BY <2>1, InstantsAreIntegers
<1>4. appts[x].start \in Int /\ appts[x].finish \in Int
  <2>1. appts[x] \in Appointment
    BY <1>1, AppointmentShape DEF TypeInv, Occupies, Exists
  <2>2. appts[x].start \in Times /\ appts[x].finish \in Instants
    BY <2>1 DEF Appointment
  <2>3. QED
    BY <2>2, InstantsAreIntegers
<1>5. QED
  BY <1>1, <1>2, <1>3, <1>4 DEF Overlaps, C!SlotsOverlap, SlotOf

LEMMA CalendarInit == Init => C!Init
BY DEF Init, C!Init, SlotsHeld, Occupies, Absent

\* A commit that writes the slot it has checked into a live row, or into a new one.
LEMMA CalendarReserve ==
  ASSUME TypeInv, SlotInv, NEW r \in Requests, reqs[r].pc = "checked",
         NEW a \in Appts, reqs[r].kind = "reschedule" => reqs[r].appt = a,
         Occupies(a) => appts[a].barber = reqs[r].barber,
         NEW row, row.status \in Status \ {"cancelled"},
         appts' = [appts EXCEPT ![a] = row],
         row.barber = reqs[r].barber,
         row.start = reqs[r].start,
         row.finish = reqs[r].finish
  PROVE  C!Next
<1> DEFINE q == reqs[r]
<1> DEFINE slot == SlotOf(q)
<1>1. q \in SlotRequest /\ FreeSlot(q)
  BY SlotRequestShape DEF SlotInv, TypeInv, TypeOK
<1>2. slot \in C!Slots
  BY <1>1, SlotRequestFields, BookingAssumption DEF C!Slots, SlotOf
<1>3. C!FreeFor(a, slot)
  BY <1>1, FreeSlotIsFreeFor
<1>4. \A t \in SlotsHeld[a] : t.barber = slot.barber
  BY SlotsHeldIs DEF SlotOf
<1>5. SlotsHeld' = [SlotsHeld EXCEPT ![a] = {slot}]
  <2>1. appts'[a] = row /\ \A x \in Appts \ {a} : appts'[x] = appts[x]
    BY DEF TypeInv, TypeOK
  <2>2. SlotsHeld'[a] = {slot}
    BY <2>1 DEF SlotsHeld, SlotOf, Occupies, Status, Live
  <2>3. \A x \in Appts \ {a} : SlotsHeld'[x] = SlotsHeld[x]
    BY <2>1 DEF SlotsHeld, Occupies
  <2>4. QED
    BY <2>2, <2>3, ZenonT(60) DEF SlotsHeld
<1>6. C!Reserve(a, slot)
  BY <1>3, <1>4, <1>5 DEF C!Reserve
<1>7. QED
  BY <1>2, <1>6 DEF C!Next

LEMMA CalendarStep ==
  ASSUME BookingInv, [Next]_bookingVars
  PROVE  [C!Next]_SlotsHeld
<1>1. TypeInv /\ SlotInv
  BY BookingInvParts
<1>2. CASE appts' = appts
  BY <1>2 DEF SlotsHeld, Occupies
<1>3. ASSUME NEW a \in Appts, CompleteVisit(a)
      PROVE  SlotsHeld' = SlotsHeld
  <2>1. appts[a] \in Appointment /\ appts[a].status = "confirmed"
    BY <1>1, <1>3, AppointmentShape DEF CompleteVisit, TypeInv, Exists
  <2>2. \A x \in Appts : x # a => appts'[x] = appts[x]
    BY <1>1, <1>3 DEF CompleteVisit, TypeInv, TypeOK
  <2>3. appts'[a] = [appts[a] EXCEPT !.status = "completed"]
    BY <1>1, <1>3 DEF CompleteVisit, TypeInv, TypeOK
  <2>4. QED
    BY <2>1, <2>2, <2>3 DEF SlotsHeld, Occupies, Appointment
<1>4. ASSUME NEW r \in Requests, NEW a \in Appts, CommitCreate(r, a)
      PROVE  C!Next
  <2> DEFINE row == [status |-> InitialStatus, client |-> reqs[r].client,
                     barber |-> reqs[r].barber, service |-> reqs[r].service,
                     start |-> reqs[r].start, finish |-> reqs[r].finish]
  <2>1. appts' = [appts EXCEPT ![a] = row] /\ ~ Occupies(a)
    BY <1>4 DEF CommitCreate, Occupies, Exists
  <2>2. /\ row.status \in Status \ {"cancelled"}
        /\ row.barber = reqs[r].barber
        /\ row.start = reqs[r].start
        /\ row.finish = reqs[r].finish
    BY DEF InitialStatus, Status, Live
  <2>3. QED
    BY <1>1, <1>4, <2>1, <2>2, CalendarReserve, ZenonT(60) DEF CommitCreate
<1>5. ASSUME NEW r \in Requests, CommitReschedule(r)
      PROVE  [C!Next]_SlotsHeld
  <2> DEFINE a == reqs[r].appt
  <2> DEFINE row == [appts[a] EXCEPT !.start = reqs[r].start, !.finish = reqs[r].finish]
  <2>1. reqs[r] \in SlotRequest /\ reqs[r].kind = "reschedule" /\ reqs[r].pc = "checked"
    BY <1>1, <1>5, SlotRequestShape DEF CommitReschedule, TypeInv, TypeOK
  <2>2. a \in Appts /\ Exists(a) /\ appts[a].barber = reqs[r].barber
    BY <1>1, <2>1, SlotRequestFields DEF TypeInv, RequestsNameRows
  <2>3. appts[a] \in Appointment
    BY <1>1, <2>2, AppointmentShape DEF TypeInv
  <2>4. /\ row.status = appts[a].status
        /\ row.barber = reqs[r].barber
        /\ row.start = reqs[r].start
        /\ row.finish = reqs[r].finish
    BY <2>2, <2>3 DEF Appointment
  <2>5. appts' = [appts EXCEPT ![a] = row]
    BY <1>1, <1>5, <2>2 DEF CommitReschedule, TypeInv, TypeOK
  <2>6. CASE appts[a].status = "cancelled"
    <3>1. \A x \in Appts : Occupies(x)' = Occupies(x) /\ (Occupies(x) => appts'[x] = appts[x])
      BY <1>1, <2>2, <2>4, <2>5, <2>6 DEF TypeInv, TypeOK, Occupies
    <3>2. QED
      BY <3>1 DEF SlotsHeld
  <2>7. CASE appts[a].status # "cancelled"
    <3>1. row.status \in Status \ {"cancelled"}
      BY <2>3, <2>4, <2>7 DEF Appointment
    <3>2. QED
      BY <1>1, <2>1, <2>2, <2>4, <2>5, <3>1, CalendarReserve
  <2>8. QED
    BY <2>6, <2>7
<1>6. ASSUME NEW r \in Requests, CommitCancel(r)
      PROVE  [C!Next]_SlotsHeld
  <2> DEFINE a == reqs[r].appt
  <2>1. reqs[r] \in CancelRequest /\ Exists(a)
    BY <1>1, <1>6, CancelRequestShape DEF CommitCancel, TypeInv, TypeOK, RequestsNameRows
  <2>2. a \in Appts /\ appts[a] \in Appointment
    BY <1>1, <2>1, AppointmentShape DEF CancelRequest, TypeInv
  <2>3. \A x \in Appts \ {a} : appts'[x] = appts[x]
    BY <1>1, <1>6 DEF CommitCancel, TypeInv, TypeOK
  <2>4. appts'[a].status = "cancelled"
    BY <1>1, <1>6, <2>2 DEF CommitCancel, TypeInv, TypeOK, Appointment
  <2>5. SlotsHeld' = [SlotsHeld EXCEPT ![a] = {}]
    BY <2>3, <2>4 DEF SlotsHeld, Occupies
  <2>6. CASE Occupies(a)
    BY <2>2, <2>5, <2>6, SlotsHeldIs DEF C!Next, C!Release
  <2>7. CASE ~ Occupies(a)
    <3>1. SlotsHeld[a] = {}
      BY <2>2, <2>7, SlotsHeldIs
    <3>2. [SlotsHeld EXCEPT ![a] = SlotsHeld[a]] = SlotsHeld
      BY DEF SlotsHeld
    <3>3. QED
      BY <2>5, <3>1, <3>2
  <2>8. QED
    BY <2>6, <2>7
<1>7. QED
  BY <1>2, <1>3, <1>4, <1>5, <1>6, ZenonT(60)
  DEF Next, Tick, EditCatalog, Begin, BeginCreate, BeginReschedule, BeginCancel,
      Continue, Commit, CheckOffer, LockBarber, CheckConflicts, TransactionFails, bookingVars

\* The service of concurrent, lock-taking handlers implements the calendar in
\* which slots are taken, moved and freed atomically (booking.ts 274-472).
THEOREM BookingImplementsCalendar == Spec => ImplementsCalendar
<1>1. BookingInv /\ [Next]_bookingVars => [C!Next]_SlotsHeld
  BY CalendarStep
<1>2. QED
  BY CalendarInit, <1>1, BookingInvariant, PTL DEF Spec, C!Spec, ImplementsCalendar

=============================================================================
