---------------------------- MODULE PaymentsProofs ----------------------------
(***************************************************************************)
(* Theorems about Payments for every set of requests, appointments,        *)
(* charges, calls of the web application and reconcile loops.  What        *)
(* BookingProofs shows of a booking step is used here for the steps that   *)
(* bookings take between two steps of a payment.                           *)
(***************************************************************************)
EXTENDS Payments, BookingProofs

-----------------------------------------------------------------------------
(* What a job, a charge and an event key are made of.                        *)

Charge == [status : PspStatus, appt : Appts, shown : BOOLEAN]

Payment == [status : {"PENDING", "PAID", "EXPIRED"}, pix : PixIds \cup {NoPix}]

LEMMA ChargeFields ==
  ASSUME NEW x \in Charge
  PROVE  /\ x # NotCreated
         /\ x.status \in PspStatus /\ x.appt \in Appts /\ x.shown \in BOOLEAN
         /\ \A s \in PspStatus :
              /\ [x EXCEPT !.status = s] \in Charge
              /\ [x EXCEPT !.status = s].status = s
              /\ [x EXCEPT !.status = s].appt = x.appt
         /\ [x EXCEPT !.shown = TRUE] \in Charge
         /\ [x EXCEPT !.shown = TRUE].status = x.status
         /\ [x EXCEPT !.shown = TRUE].appt = x.appt
<1>1. x # NotCreated
  BY DEF Charge, NotCreated
<1>2. x.status \in PspStatus /\ x.appt \in Appts /\ x.shown \in BOOLEAN
  BY DEF Charge
<1>3. ASSUME NEW s \in PspStatus
      PROVE  /\ [x EXCEPT !.status = s] \in Charge
             /\ [x EXCEPT !.status = s].status = s
             /\ [x EXCEPT !.status = s].appt = x.appt
  BY DEF Charge
<1>4. /\ [x EXCEPT !.shown = TRUE] \in Charge
      /\ [x EXCEPT !.shown = TRUE].status = x.status
      /\ [x EXCEPT !.shown = TRUE].appt = x.appt
  BY DEF Charge
<1>5. QED
  BY <1>1, <1>2, <1>3, <1>4

LEMMA KeyFields ==
  ASSUME NEW k \in EventKey
  PROVE  k # ByHand /\ k.pix \in PixIds
BY DEF EventKey, ByHand

LEMMA JobShape ==
  ASSUME NEW q \in Job
  PROVE  /\ q.pc \in {"rest", "created", "fetched", "read", "manual"}
         /\ q.pc = "created" => q.appt \in Appts /\ q.pix \in PixIds
         /\ q.pc \in {"fetched", "read"} =>
              q.pix \in PixIds /\ q.status \in PspStatus /\ q.key \in EventKey
         /\ q.pc \in {"read", "manual"} => q.appt \in Appts /\ q.seen \in Status
BY DEF Job, Resting

LEMMA JobsMade ==
  /\ Resting \in Job
  /\ \A a \in Appts, p \in PixIds : [pc |-> "created", appt |-> a, pix |-> p] \in Job
  /\ \A p \in PixIds, s \in PspStatus, k \in EventKey :
       [pc |-> "fetched", pix |-> p, status |-> s, key |-> k] \in Job
  /\ \A p \in PixIds, s \in PspStatus, k \in EventKey, a \in Appts, t \in Status :
       [pc |-> "read", pix |-> p, status |-> s, key |-> k, appt |-> a, seen |-> t] \in Job
  /\ \A a \in Appts, t \in Status : [pc |-> "manual", appt |-> a, seen |-> t] \in Job
BY DEF Job

-----------------------------------------------------------------------------
(* Types.  That a commit writes a well-typed row rests on what the call has  *)
(* read: an appointment and a charge that are there stay there, an approved  *)
(* charge stays approved, and a charge stays that of its appointment.        *)

SoundJob(q) ==
  /\ q.pc \in {"created", "read", "manual"} => appts[q.appt].status # "absent"
  /\ q.pc = "created" => psp[q.pix] # NotCreated
  /\ q.pc \in {"fetched", "read"} =>
       /\ psp[q.pix] # NotCreated
       /\ q.key.pix = q.pix
       /\ q.status = "approved" => psp[q.pix].status = "approved"
  /\ q.pc = "read" => q.appt = psp[q.pix].appt

ChargesSound ==
  /\ \A p \in PixIds : psp[p] # NotCreated =>
       \A a \in Appts : a = psp[p].appt => appts[a].status # "absent"
  /\ \A n \in notices : psp[n.pix] # NotCreated

PayInv ==
  /\ TypeInv
  /\ PaymentsTypeOK
  /\ ChargesSound
  /\ \A j \in Jobs, q \in Job : q = jobs[j] => SoundJob(q)

\* What no step takes back.
Kept ==
  /\ \A a \in Appts : appts[a].status # "absent" => appts'[a].status # "absent"
  /\ \A p \in PixIds : psp[p] # NotCreated =>
       /\ psp'[p] # NotCreated
       /\ psp'[p].appt = psp[p].appt
       /\ psp[p].status = "approved" => psp'[p].status = "approved"

LEMMA SoundStays ==
  ASSUME Kept, NEW q \in Job, SoundJob(q)
  PROVE  SoundJob(q)'
BY JobShape DEF Kept, SoundJob

LEMMA PaymentsInvInit == PaymentsInit => PayInv
<1> SUFFICES ASSUME PaymentsInit
             PROVE  PayInv
  OBVIOUS
<1>1. TypeInv
  BY TypeInvInit DEF PaymentsInit
<1>2. PaymentsTypeOK
  BY <1>1, JobsMade DEF PaymentsInit, PaymentsTypeOK, TypeInv
<1>3. ChargesSound
  BY DEF PaymentsInit, ChargesSound
<1>4. ASSUME NEW j \in Jobs, NEW q \in Job, q = jobs[j]
      PROVE  SoundJob(q)
  BY <1>4 DEF PaymentsInit, Resting, SoundJob
<1>5. QED
  BY <1>1, <1>2, <1>3, <1>4 DEF PayInv

\* A job moves on, or ends.
LEMMA JobMoves ==
  ASSUME PayInv, Kept, NEW j \in Jobs, NEW x \in Job, Becomes(j, x), SoundJob(x)'
  PROVE  /\ jobs' \in [Jobs -> Job]
         /\ \A k \in Jobs, q \in Job : q = jobs'[k] => SoundJob(q)'
<1>1. jobs \in [Jobs -> Job]
  BY DEF PayInv, PaymentsTypeOK
<1>2. /\ jobs' \in [Jobs -> Job] /\ jobs'[j] = x
      /\ \A k \in Jobs \ {j} : jobs'[k] = jobs[k]
  BY <1>1 DEF Becomes
<1>3. ASSUME NEW k \in Jobs, NEW q \in Job, q = jobs'[k]
      PROVE  SoundJob(q)'
  <2>1. CASE k = j
    BY <1>2, <1>3, <2>1
  <2>2. CASE k # j
    <3>1. SoundJob(q)
      BY <1>2, <1>3, <2>2 DEF PayInv
    <3>2. QED
      BY <3>1, SoundStays
  <2>3. QED
    BY <2>1, <2>2
<1>4. QED
  BY <1>2, <1>3

LEMMA RestIsSound == Resting \in Job /\ SoundJob(Resting)'
<1>1. Resting.pc = "rest"
  BY DEF Resting
<1>2. QED
  BY <1>1, JobsMade DEF SoundJob

\* No booking step deletes a row.
LEMMA ExistsStays ==
  ASSUME TypeInv, [Next]_bookingVars, NEW a \in Appts, appts[a].status # "absent"
  PROVE  appts'[a].status # "absent"
<1>1. appts[a] \in Appointment
  BY AppointmentShape DEF TypeInv, Exists
<1>2. CASE appts' = appts
  BY <1>2
<1>3. ASSUME NEW x \in Appts, CompleteVisit(x)
      PROVE  appts'[a].status # "absent"
  BY <1>1, <1>3 DEF CompleteVisit, TypeInv, TypeOK, Appointment
<1>4. ASSUME NEW r \in Requests, NEW x \in Appts, CommitCreate(r, x)
      PROVE  appts'[a].status # "absent"
  BY <1>4 DEF CommitCreate, Exists, TypeInv, TypeOK
<1>5. ASSUME NEW r \in Requests, CommitReschedule(r)
      PROVE  appts'[a].status # "absent"
  BY <1>1, <1>5 DEF CommitReschedule, TypeInv, TypeOK, Appointment
<1>6. ASSUME NEW r \in Requests, CommitCancel(r)
      PROVE  appts'[a].status # "absent"
  BY <1>1, <1>6 DEF CommitCancel, TypeInv, TypeOK, Appointment
<1>7. QED
  BY <1>2, <1>3, <1>4, <1>5, <1>6, ZenonT(60)
  DEF Next, Tick, EditCatalog, Begin, BeginCreate, BeginReschedule, BeginCancel, bookingVars,
      Continue, Commit, CheckOffer, LockBarber, CheckConflicts, TransactionFails

\* A booking step: no payment moves.
LEMMA PayInvBooking ==
  ASSUME PayInv, [Next]_bookingVars, UNCHANGED payVars
  PROVE  PayInv'
<1>1. TypeInv'
  BY TypeInvNext DEF PayInv
<1>2. UNCHANGED <<pay, psp, notices, events, receipts, jobs>>
  BY DEF payVars
<1>3. PaymentsTypeOK'
  BY <1>1, <1>2 DEF PayInv, PaymentsTypeOK, TypeInv
<1>4. Kept
  <2>1. \A a \in Appts : appts[a].status # "absent" => appts'[a].status # "absent"
    BY ExistsStays DEF PayInv, Exists
  <2>2. QED
    BY <1>2, <2>1 DEF Kept
<1>5. ChargesSound'
  BY <1>2, <1>4 DEF PayInv, ChargesSound, Kept
<1>6. ASSUME NEW j \in Jobs, NEW q \in Job, q = jobs'[j]
      PROVE  SoundJob(q)'
  BY <1>2, <1>4, <1>6, SoundStays DEF PayInv
<1>7. QED
  BY <1>1, <1>3, <1>5, <1>6 DEF PayInv

-----------------------------------------------------------------------------
(* The steps of the payments. *)

PayTyped ==
  /\ pay \in [Appts -> Payment]
  /\ psp \in [PixIds -> Charge \cup {NotCreated}]
  /\ notices \subseteq Notice
  /\ events \subseteq EventKey
  /\ receipts \in [Appts -> Seq(EventKey \cup {ByHand})]

LEMMA PayInvParts ==
  PayInv <=> /\ TypeInv /\ PayTyped /\ jobs \in [Jobs -> Job] /\ ChargesSound
             /\ \A j \in Jobs, q \in Job : q = jobs[j] => SoundJob(q)
BY DEF PayInv, TypeInv, PaymentsTypeOK, PayTyped, Payment, Charge

LEMMA PayInvMade ==
  ASSUME TypeInv', PayTyped', (jobs \in [Jobs -> Job])', ChargesSound',
         \A j \in Jobs, q \in Job : q = jobs'[j] => SoundJob(q)'
  PROVE  PayInv'
<1>1. PaymentsTypeOK'
  BY DEF TypeInv, PaymentsTypeOK, PayTyped, Payment, Charge
<1>2. QED
  BY <1>1 DEF PayInv

LEMMA TypeInvStutter == TypeInv /\ UNCHANGED bookingVars => TypeInv'
BY TypeInvNext

\* What is left to show of a step of job j that leaves it with the locals x.
LEMMA PayInvStep ==
  ASSUME PayInv, TypeInv', PayTyped', ChargesSound', Kept,
         NEW j \in Jobs, NEW x \in Job, Becomes(j, x), SoundJob(x)'
  PROVE  PayInv'
<1>1. /\ jobs' \in [Jobs -> Job]
      /\ \A k \in Jobs, q \in Job : q = jobs'[k] => SoundJob(q)'
  BY JobMoves
<1>2. QED
  BY <1>1, PayInvMade

\* A step that only moves a job.
LEMMA PayInvMove ==
  ASSUME PayInv, UNCHANGED <<bookingVars, pay, psp, notices, events, receipts>>,
         NEW j \in Jobs, NEW x \in Job, Becomes(j, x), SoundJob(x)
  PROVE  PayInv'
<1>1. TypeInv' /\ PayTyped' /\ ChargesSound'
  <2>1. TypeInv'
    BY TypeInvStutter DEF PayInv
  <2>2. PayTyped'
    BY PayInvParts DEF PayTyped
  <2>3. ChargesSound'
    BY DEF PayInv, ChargesSound, bookingVars
  <2>4. QED
    BY <2>1, <2>2, <2>3
<1>2. Kept
  BY DEF Kept, bookingVars
<1>3. SoundJob(x)'
  BY <1>2, SoundStays
<1>4. QED
  BY <1>1, <1>2, <1>3, PayInvStep

\* A commit writes a status into a row that is there.
LEMMA StatusWritten ==
  ASSUME TypeInv, NEW a \in Appts, Exists(a), NEW s \in Status,
         appts' = [appts EXCEPT ![a].status = s],
         UNCHANGED <<now, catalog, mails, lock, reqs>>
  PROVE  /\ TypeInv'
         /\ \A x \in Appts : appts[x].status # "absent" => appts'[x].status # "absent"
<1> DEFINE row == [appts[a] EXCEPT !.status = s]
<1>1. appts[a] \in Appointment
  BY AppointmentShape DEF TypeInv
<1>2. /\ row \in Appointment /\ row.status = s /\ row.barber = appts[a].barber
      /\ s # "absent"
  BY <1>1 DEF Appointment, Status, Live
<1>3. appts' = [appts EXCEPT ![a] = row]
  BY DEF TypeInv, TypeOK
<1> HIDE DEF row
<1>4. TypeOK'
  BY <1>2, <1>3 DEF TypeInv, TypeOK
<1>5. \A x \in Appts : appts[x].status # "absent" => appts'[x].status # "absent"
  BY <1>2, <1>3 DEF TypeInv, TypeOK
<1>6. RequestsNameRows'
  BY <1>2, <1>3 DEF TypeInv, TypeOK, RequestsNameRows, Exists
<1>7. QED
  BY <1>4, <1>5, <1>6 DEF TypeInv

LEMMA NextStatusTyped == \A s \in Status : NextStatus(s) \in Status
BY DEF NextStatus, Status, Live

LEMMA PayInvDecides ==
  ASSUME PayInv, NEW p \in PixIds, PspDecides(p)
  PROVE  PayInv' /\ Kept
<1>1. PICK s \in PspStatus \ {"pending"} : psp' = [psp EXCEPT ![p].status = s]
  BY DEF PspDecides
<1>2. psp[p] \in Charge /\ psp[p].status = "pending"
  BY PayInvParts DEF PayTyped, PspDecides, NotCreated
<1> DEFINE x == [psp[p] EXCEPT !.status = s]
<1>3. /\ x \in Charge /\ x # NotCreated /\ x.appt = psp[p].appt
  BY <1>2, ChargeFields
<1>4. psp' = [psp EXCEPT ![p] = x]
  BY <1>1, PayInvParts DEF PayTyped
<1> HIDE DEF x
<1>5. psp \in [PixIds -> Charge \cup {NotCreated}]
  BY PayInvParts DEF PayTyped
<1>6. Kept
  BY <1>2, <1>3, <1>4, <1>5 DEF Kept, PspDecides, bookingVars
<1>7. TypeInv'
  BY TypeInvStutter DEF PayInv, PspDecides
<1>8. PayTyped'
  <2>1. [pix |-> p, about |-> "updated"] \in Notice
    BY DEF Notice
  <2>2. QED
    BY <1>3, <1>4, <2>1, PayInvParts DEF PayTyped, PspDecides
<1>9. ChargesSound'
  <2>1. \A n \in notices' : n \in notices \/ n.pix = p
    BY DEF PspDecides
  <2>2. \A n \in notices : n.pix \in PixIds
    BY PayInvParts DEF PayTyped, Notice
  <2>3. psp[p] # NotCreated
    BY <1>2, ChargeFields
  <2>4. \A n \in notices' : psp'[n.pix] # NotCreated
    BY <1>6, <2>1, <2>2, <2>3 DEF PayInv, ChargesSound, Kept
  <2>5. \A q \in PixIds : psp'[q] # NotCreated =>
          psp[q] # NotCreated /\ psp'[q].appt = psp[q].appt
    BY <1>3, <1>4, <1>5, <2>3
  <2>6. appts' = appts
    BY DEF PspDecides, bookingVars
  <2>7. QED
    BY <2>4, <2>5, <2>6 DEF PayInv, ChargesSound
<1>10. /\ jobs' = jobs
       /\ \A j \in Jobs, q \in Job : q = jobs[j] => SoundJob(q)'
  BY <1>6, SoundStays DEF PayInv, PspDecides
<1>11. \A j \in Jobs, q \in Job : q = jobs'[j] => SoundJob(q)'
  BY <1>10
<1>12. (jobs \in [Jobs -> Job])'
  BY <1>10, PayInvParts
<1>13. QED
  BY <1>6, <1>7, <1>8, <1>9, <1>11, <1>12, PayInvMade

LEMMA PayInvCreatePix ==
  ASSUME PayInv, NEW j \in Jobs, NEW c \in Clients, NEW a \in Appts, NEW p \in PixIds,
         CreatePix(j, c, a, p)
  PROVE  PayInv' /\ Kept
<1> DEFINE x == [status |-> "pending", appt |-> a, shown |-> FALSE]
           y == [pc |-> "created", appt |-> a, pix |-> p]
<1>1. x \in Charge /\ x # NotCreated /\ x.appt = a
  BY DEF Charge, PspStatus, NotCreated
<1>2. y \in Job /\ y.pc = "created" /\ y.appt = a /\ y.pix = p
  BY JobsMade
<1>3. psp' = [psp EXCEPT ![p] = x] /\ Becomes(j, y) /\ psp[p] = NotCreated
  BY DEF CreatePix
<1> HIDE DEF x, y
<1>4. psp \in [PixIds -> Charge \cup {NotCreated}]
  BY PayInvParts DEF PayTyped
<1>5. Kept
  BY <1>1, <1>3, <1>4 DEF Kept, CreatePix, bookingVars
<1>6. TypeInv'
  BY TypeInvStutter DEF PayInv, CreatePix
<1>7. PayTyped'
  <2>1. [pix |-> p, about |-> "created"] \in Notice
    BY DEF Notice
  <2>2. QED
    BY <1>1, <1>3, <2>1, PayInvParts DEF PayTyped, CreatePix
<1>8. appts' = appts /\ appts[a].status # "absent" /\ psp'[p] = x
  BY <1>3, <1>4 DEF CreatePix, bookingVars, Exists
<1>9. ChargesSound'
  <2>1. \A n \in notices' : n \in notices \/ n.pix = p
    BY DEF CreatePix
  <2>2. \A n \in notices : n.pix \in PixIds
    BY PayInvParts DEF PayTyped, Notice
  <2>3. \A n \in notices' : psp'[n.pix] # NotCreated
    BY <1>1, <1>5, <1>8, <2>1, <2>2 DEF PayInv, ChargesSound, Kept
  <2>4. \A q \in PixIds \ {p} : psp'[q] = psp[q]
    BY <1>3, <1>4
  <2>5. QED
    BY <1>1, <1>8, <2>3, <2>4 DEF PayInv, ChargesSound
<1>10. SoundJob(y)'
  BY <1>1, <1>2, <1>8 DEF SoundJob
<1>11. QED
  BY <1>2, <1>3, <1>5, <1>6, <1>7, <1>9, <1>10, PayInvStep

LEMMA PayInvStorePix ==
  ASSUME PayInv, NEW j \in Jobs, StorePix(j)
  PROVE  PayInv' /\ Kept
<1>1. PICK q \in Job : q = jobs[j]
  BY PayInvParts
<1>2. /\ SoundJob(q) /\ q.pc = "created" /\ q.appt \in Appts /\ q.pix \in PixIds
      /\ psp[q.pix] # NotCreated
  BY <1>1, JobShape DEF PayInv, SoundJob, StorePix
<1>3. psp[q.pix] \in Charge
  BY <1>2, PayInvParts DEF PayTyped
<1> DEFINE x == [psp[q.pix] EXCEPT !.shown = TRUE]
<1>4. x \in Charge /\ x # NotCreated /\ x.appt = psp[q.pix].appt /\ x.status = psp[q.pix].status
  BY <1>3, ChargeFields
<1>5. psp' = [psp EXCEPT ![q.pix] = x]
  BY <1>1, <1>2, PayInvParts DEF PayTyped, StorePix
<1> HIDE DEF x
<1>6. psp \in [PixIds -> Charge \cup {NotCreated}]
  BY PayInvParts DEF PayTyped
<1>7. Kept
  BY <1>2, <1>4, <1>5, <1>6 DEF Kept, StorePix, bookingVars
<1>8. TypeInv'
  BY TypeInvStutter DEF PayInv, StorePix
<1>9. PayTyped'
  <2>1. [status |-> "PENDING", pix |-> q.pix] \in Payment
    BY <1>2 DEF Payment
  <2>2. pay' = [pay EXCEPT ![q.appt] = [status |-> "PENDING", pix |-> q.pix]]
    BY <1>1 DEF StorePix
  <2>3. (pay \in [Appts -> Payment])'
    BY <1>2, <2>1, <2>2, PayInvParts DEF PayTyped
  <2>4. (psp \in [PixIds -> Charge \cup {NotCreated}])'
    BY <1>4, <1>5, <1>6
  <2>5. QED
    BY <2>3, <2>4, PayInvParts DEF PayTyped, StorePix
<1>10. ChargesSound'
  <2>1. \A n \in notices : n.pix \in PixIds
    BY PayInvParts DEF PayTyped, Notice
  <2>2. \A r \in PixIds : psp'[r] # NotCreated =>
          psp[r] # NotCreated /\ psp'[r].appt = psp[r].appt
    BY <1>2, <1>4, <1>5, <1>6
  <2>3. appts' = appts /\ notices' = notices
    BY DEF StorePix, bookingVars
  <2>4. QED
    BY <1>7, <2>1, <2>2, <2>3 DEF PayInv, ChargesSound, Kept
<1>11. Becomes(j, Resting)
  BY DEF StorePix
<1>12. QED
  BY <1>7, <1>8, <1>9, <1>10, <1>11, RestIsSound, PayInvStep

LEMMA PayInvFetchForWebhook ==
  ASSUME PayInv, NEW j \in Jobs, NEW n \in notices, FetchForWebhook(j, n)
  PROVE  PayInv'
<1>1. n \in Notice /\ n.pix \in PixIds /\ n.about \in {"created", "updated"}
  BY PayInvParts DEF PayTyped, Notice
<1>2. psp[n.pix] # NotCreated
  BY DEF PayInv, ChargesSound
<1>3. psp[n.pix] \in Charge
  BY <1>1, <1>2, PayInvParts DEF PayTyped
<1>4. PICK s \in PspStatus : s = psp[n.pix].status
  BY <1>3, ChargeFields
<1>5. PICK k \in EventKey : k = ProviderEventId(n) /\ k.pix = n.pix
  <2>1. PICK b \in {"created", "updated", "payment"} :
          ProviderEventId(n) = [by |-> "webhook", pix |-> n.pix, about |-> b]
    BY <1>1 DEF ProviderEventId
  <2>2. [by |-> "webhook", pix |-> n.pix, about |-> b] \in EventKey
    BY <1>1, <2>1 DEF EventKey
  <2>3. QED
    BY <2>1, <2>2
<1> DEFINE x == [pc |-> "fetched", pix |-> n.pix, status |-> s, key |-> k]
<1>6. x \in Job /\ x.pc = "fetched" /\ x.pix = n.pix /\ x.status = s /\ x.key = k
  BY <1>1, JobsMade
<1>7. Becomes(j, x)
  BY <1>4, <1>5 DEF FetchForWebhook
<1> HIDE DEF x
<1>8. SoundJob(x)
  BY <1>2, <1>4, <1>5, <1>6 DEF SoundJob
<1>9. QED
  BY <1>6, <1>7, <1>8, PayInvMove DEF FetchForWebhook

LEMMA PayInvFetchForReconcile ==
  ASSUME PayInv, NEW j \in Jobs, NEW a \in Appts, FetchForReconcile(j, a)
  PROVE  PayInv'
<1>1. PICK p : p = pay[a].pix
  OBVIOUS
<1>2. p \in PixIds /\ psp[p].status = "approved"
  <2>1. pay[a] \in Payment
    BY PayInvParts DEF PayTyped
  <2>2. QED
    BY <1>1, <2>1 DEF Payment, FetchForReconcile
<1>3. psp[p] # NotCreated
  BY <1>2 DEF NotCreated
<1>4. PICK k \in EventKey : k = ReconcileKey(p) /\ k.pix = p
  <2>1. [by |-> "reconcile", pix |-> p] \in EventKey
    BY <1>2 DEF EventKey
  <2>2. QED
    BY <2>1 DEF ReconcileKey
<1> DEFINE x == [pc |-> "fetched", pix |-> p, status |-> "approved", key |-> k]
<1>5. x \in Job /\ x.pc = "fetched" /\ x.pix = p /\ x.key = k
  BY <1>2, JobsMade DEF PspStatus
<1>6. Becomes(j, x)
  BY <1>1, <1>4 DEF FetchForReconcile
<1> HIDE DEF x
<1>7. SoundJob(x)
  BY <1>2, <1>3, <1>4, <1>5 DEF SoundJob
<1>8. QED
  BY <1>5, <1>6, <1>7, PayInvMove DEF FetchForReconcile

LEMMA PayInvReadForApply ==
  ASSUME PayInv, NEW j \in Jobs, ReadForApply(j)
  PROVE  PayInv'
<1>1. PICK q \in Job : q = jobs[j]
  BY PayInvParts
<1>2. q.pc = "fetched" /\ SoundJob(q)
  BY <1>1 DEF ReadForApply, PayInv
<1>3. /\ q.pix \in PixIds /\ q.status \in PspStatus /\ q.key \in EventKey
      /\ psp[q.pix] # NotCreated /\ q.key.pix = q.pix
      /\ q.status = "approved" => psp[q.pix].status = "approved"
  BY <1>2, JobShape DEF SoundJob
<1>4. PICK a \in Appts : a = psp[q.pix].appt
  <2>1. psp[q.pix] \in Charge
    BY <1>3, PayInvParts DEF PayTyped
  <2>2. QED
    BY <2>1, ChargeFields
<1>5. appts[a].status # "absent"
  BY <1>3, <1>4 DEF PayInv, ChargesSound
<1>6. PICK t \in Status : t = appts[a].status
  BY <1>5, AppointmentShape DEF PayInv, TypeInv, Exists, Appointment
<1> DEFINE x == [pc |-> "read", pix |-> q.pix, status |-> q.status, key |-> q.key,
                 appt |-> a, seen |-> t]
<1>7. /\ x \in Job /\ x.pc = "read" /\ x.pix = q.pix /\ x.key = q.key
      /\ x.status = q.status /\ x.appt = a
  BY <1>3, JobsMade
<1>8. Becomes(j, x)
  BY <1>1, <1>4, <1>6 DEF ReadForApply
<1> HIDE DEF x
<1>9. SoundJob(x)
  BY <1>3, <1>4, <1>5, <1>7 DEF SoundJob
<1>10. QED
  BY <1>7, <1>8, <1>9, PayInvMove DEF ReadForApply

LEMMA PayInvReadForManual ==
  ASSUME PayInv, NEW j \in Jobs, NEW a \in Appts, ReadForManual(j, a)
  PROVE  PayInv'
<1>1. appts[a].status # "absent"
  BY DEF ReadForManual, Exists
<1>2. PICK t \in Status : t = appts[a].status
  BY <1>1, AppointmentShape DEF PayInv, TypeInv, Exists, Appointment
<1> DEFINE x == [pc |-> "manual", appt |-> a, seen |-> t]
<1>3. x \in Job /\ x.pc = "manual" /\ x.appt = a
  BY JobsMade
<1>4. Becomes(j, x)
  BY <1>2 DEF ReadForManual
<1> HIDE DEF x
<1>5. SoundJob(x)
  BY <1>1, <1>3 DEF SoundJob
<1>6. QED
  BY <1>3, <1>4, <1>5, PayInvMove DEF ReadForManual

LEMMA PayInvJobDies ==
  ASSUME PayInv, NEW j \in Jobs, JobDies(j)
  PROVE  PayInv'
<1>1. Resting \in Job /\ SoundJob(Resting)
  BY JobsMade DEF Resting, SoundJob
<1>2. QED
  BY <1>1, PayInvMove DEF JobDies

LEMMA Appended ==
  ASSUME NEW S, NEW s \in Seq(S), NEW e \in S, NEW t, t = Append(s, e)
  PROVE  /\ t \in Seq(S) /\ t # <<>>
         /\ \A i \in DOMAIN t :
              \/ i \in DOMAIN s /\ t[i] = s[i]
              \/ i = Len(s) + 1 /\ t[i] = e
OBVIOUS

\* The new row of receipts, and what a commit leaves of the rest.
LEMMA ReceiptAdded ==
  ASSUME PayTyped, NEW a \in Appts, NEW e \in EventKey \cup {ByHand},
         receipts' = [receipts EXCEPT ![a] = Append(@, e)]
  PROVE  /\ receipts' \in [Appts -> Seq(EventKey \cup {ByHand})]
         /\ receipts'[a] # <<>>
         /\ \A x \in Appts \ {a} : receipts'[x] = receipts[x]
         /\ \A i \in DOMAIN receipts'[a] :
              \/ i \in DOMAIN receipts[a] /\ receipts'[a][i] = receipts[a][i]
              \/ i = Len(receipts[a]) + 1 /\ receipts'[a][i] = e
<1>1. PICK S : S = EventKey \cup {ByHand}
  OBVIOUS
<1>2. receipts \in [Appts -> Seq(S)] /\ e \in S
  BY <1>1 DEF PayTyped
<1>3. PICK s \in Seq(S) : s = receipts[a]
  BY <1>2
<1>4. PICK t : t = Append(s, e)
  OBVIOUS
<1>5. /\ t \in Seq(S) /\ t # <<>>
      /\ \A i \in DOMAIN t :
           \/ i \in DOMAIN s /\ t[i] = s[i]
           \/ i = Len(s) + 1 /\ t[i] = e
  <2>1. s \in Seq(S) /\ e \in S /\ t = Append(s, e)
    BY <1>2, <1>4
  <2>2. QED
    BY ONLY <2>1, Appended
<1>6. receipts' = [receipts EXCEPT ![a] = t]
  BY <1>3, <1>4
<1>7. receipts' \in [Appts -> Seq(S)] /\ receipts'[a] = t
  BY <1>2, <1>5, <1>6
<1>8. \A x \in Appts \ {a} : receipts'[x] = receipts[x]
  BY <1>2, <1>6
<1>9. QED
  BY <1>1, <1>3, <1>5, <1>7, <1>8

LEMMA PayInvCommitApply ==
  ASSUME PayInv, NEW j \in Jobs, CommitApply(j)
  PROVE  PayInv' /\ Kept
<1>1. PICK q \in Job : q = jobs[j]
  BY PayInvParts
<1>2. q.pc = "read" /\ SoundJob(q)
  BY <1>1 DEF CommitApply, PayInv
<1>3. /\ q.pix \in PixIds /\ q.key \in EventKey /\ q.appt \in Appts /\ q.seen \in Status
      /\ Exists(q.appt)
  BY <1>2, JobShape DEF SoundJob, Exists
<1>4. PayTyped
  BY PayInvParts
<1>5. /\ UNCHANGED <<now, catalog, mails, lock, reqs, psp, notices>>
      /\ Becomes(j, Resting)
  BY DEF CommitApply
<1>6. /\ TypeInv'
      /\ \A x \in Appts : appts[x].status # "absent" => appts'[x].status # "absent"
  <2>1. CASE appts' = appts
    BY <1>5, <2>1, TypeInvStutter DEF PayInv, bookingVars
  <2>2. CASE appts' # appts
    <3>1. PICK s \in Status : s = NextStatus(q.seen)
      BY <1>3, NextStatusTyped
    <3>2. appts' = [appts EXCEPT ![q.appt].status = s]
      BY <1>1, <2>2, <3>1 DEF CommitApply
    <3>3. QED
      BY <1>3, <1>5, <3>2, StatusWritten DEF PayInv
  <2>3. QED
    BY <2>1, <2>2
<1>7. (pay \in [Appts -> Payment])'
  <2>1. \A s \in {"PAID", "EXPIRED"} : [status |-> s, pix |-> q.pix] \in Payment
    BY <1>3 DEF Payment
  <2>2. \/ pay' = pay
        \/ \E s \in {"PAID", "EXPIRED"} :
             pay' = [pay EXCEPT ![q.appt] = [status |-> s, pix |-> q.pix]]
    BY <1>1 DEF CommitApply
  <2>3. pay \in [Appts -> Payment]
    BY <1>4 DEF PayTyped
  <2>4. QED
    BY <1>3, <2>1, <2>2, <2>3
<1>8. (receipts \in [Appts -> Seq(EventKey \cup {ByHand})])'
  <2>1. CASE receipts' = receipts
    BY <1>4, <2>1 DEF PayTyped
  <2>2. CASE receipts' # receipts
    BY <1>1, <1>3, <1>4, <2>2, ReceiptAdded DEF CommitApply
  <2>3. QED
    BY <2>1, <2>2
<1>9. (events \subseteq EventKey)'
  BY <1>1, <1>3, <1>4 DEF CommitApply, PayTyped
<1>10. PayTyped'
  BY <1>4, <1>5, <1>7, <1>8, <1>9 DEF PayTyped
<1>11. Kept
  BY <1>5, <1>6 DEF Kept
<1>12. ChargesSound'
  BY <1>5, <1>6 DEF PayInv, ChargesSound
<1>13. QED
  BY <1>5, <1>6, <1>10, <1>11, <1>12, RestIsSound, PayInvStep

LEMMA PayInvCommitManual ==
  ASSUME PayInv, NEW j \in Jobs, CommitManual(j)
  PROVE  PayInv' /\ Kept
<1>1. PICK q \in Job : q = jobs[j]
  BY PayInvParts
<1>2. q.pc = "manual" /\ SoundJob(q)
  BY <1>1 DEF CommitManual, PayInv
<1>3. q.appt \in Appts /\ q.seen \in Status /\ Exists(q.appt)
  BY <1>2, JobShape DEF SoundJob, Exists
<1>4. PayTyped
  BY PayInvParts
<1>5. /\ UNCHANGED <<now, catalog, mails, lock, reqs, psp, notices, events>>
      /\ Becomes(j, Resting)
  BY DEF CommitManual
<1>6. /\ TypeInv'
      /\ \A x \in Appts : appts[x].status # "absent" => appts'[x].status # "absent"
  <2>1. PICK s \in Status : s = NextStatus(q.seen)
    BY <1>3, NextStatusTyped
  <2>2. appts' = [appts EXCEPT ![q.appt].status = s]
    BY <1>1, <2>1 DEF CommitManual
  <2>3. QED
    BY <1>3, <1>5, <2>2, StatusWritten DEF PayInv
<1>7. (pay \in [Appts -> Payment])'
  <2>1. pay' = [pay EXCEPT ![q.appt].status = "PAID"]
    BY <1>1 DEF CommitManual
  <2>2. QED
    BY <1>3, <1>4, <2>1 DEF PayTyped, Payment
<1>8. (receipts \in [Appts -> Seq(EventKey \cup {ByHand})])'
  BY <1>1, <1>3, <1>4, ReceiptAdded DEF CommitManual
<1>9. PayTyped'
  BY <1>4, <1>5, <1>7, <1>8 DEF PayTyped
<1>10. Kept
  BY <1>5, <1>6 DEF Kept
<1>11. ChargesSound'
  BY <1>5, <1>6 DEF PayInv, ChargesSound
<1>12. QED
  BY <1>5, <1>6, <1>9, <1>10, <1>11, RestIsSound, PayInvStep

LEMMA PayInvNext == PayInv /\ [PaymentsNext]_paymentVars => PayInv'
<1> SUFFICES ASSUME PayInv, [PaymentsNext]_paymentVars
             PROVE  PayInv'
  OBVIOUS
<1>1. CASE BookingStep \/ UNCHANGED paymentVars
  BY <1>1, PayInvBooking DEF BookingStep, paymentVars
<1>2. ASSUME NEW p \in PixIds, PspDecides(p)
      PROVE  PayInv'
  BY <1>2, PayInvDecides
<1>3. ASSUME NEW j \in Jobs, WebJobStep(j)
      PROVE  PayInv'
  BY <1>3, PayInvCreatePix, PayInvStorePix, PayInvFetchForWebhook, PayInvReadForManual,
     PayInvCommitManual DEF WebJobStep
<1>4. ASSUME NEW j \in Jobs, NEW a \in Appts, FetchForReconcile(j, a)
      PROVE  PayInv'
  BY <1>4, PayInvFetchForReconcile
<1>5. ASSUME NEW j \in Jobs, ReadForApply(j) \/ CommitApply(j) \/ JobDies(j)
      PROVE  PayInv'
  BY <1>5, PayInvReadForApply, PayInvCommitApply, PayInvJobDies
<1>6. QED
  BY <1>1, <1>2, <1>3, <1>4, <1>5 DEF PaymentsNext, PaymentStep, Jobs

\* The ledger, the charges and the notifications refer to one another and to
\* rows that are there, at every step of every job (service.ts 62-192).
THEOREM PaymentsInvariant == PaymentsSpec => []PayInv
BY PaymentsInvInit, PayInvNext, PTL DEF PaymentsSpec

\* Every reachable state is well typed (service.ts, the five operations).
THEOREM PaymentsTyped == PaymentsSpec => []PaymentsTypeOK
<1>1. PayInv => PaymentsTypeOK
  BY DEF PayInv
<1>2. QED
  BY <1>1, PaymentsInvariant, PTL

-----------------------------------------------------------------------------
(* The receipts.  Which steps write one, and what they write. *)

\* A step that adds the receipt e to appointment a, and what then backs it.
AddsReceipt(a, e) ==
  /\ receipts' = [receipts EXCEPT ![a] = Append(@, e)]
  /\ \A x \in Appts \ {a} : pay'[x] = pay[x]
  /\ e # ByHand => /\ e \notin events /\ e \in events'
                   /\ psp'[e.pix].status = "approved" /\ psp'[e.pix].appt = a

NoNewReceipt ==
  /\ receipts' = receipts
  /\ \A a \in Appts : pay'[a].status = "PAID" => pay[a].status = "PAID"

LEMMA BookingKeeps ==
  ASSUME PayInv, BookingStep \/ UNCHANGED paymentVars
  PROVE  Kept /\ events \subseteq events' /\ NoNewReceipt
<1>1. UNCHANGED <<pay, psp, notices, events, receipts, jobs>>
  BY DEF BookingStep, payVars, paymentVars
<1>2. [Next]_bookingVars
  BY DEF BookingStep, paymentVars
<1>3. \A a \in Appts : appts[a].status # "absent" => appts'[a].status # "absent"
  BY <1>2, ExistsStays DEF PayInv
<1>4. QED
  BY <1>1, <1>3 DEF Kept, NoNewReceipt

LEMMA CommitApplyReceipts ==
  ASSUME PayInv, NEW j \in Jobs, CommitApply(j)
  PROVE  /\ events \subseteq events'
         /\ \/ NoNewReceipt
            \/ \E a \in Appts, e \in EventKey \cup {ByHand} : AddsReceipt(a, e)
<1>1. PICK q \in Job : q = jobs[j]
  BY PayInvParts
<1>2. q.pc = "read" /\ SoundJob(q)
  BY <1>1 DEF CommitApply, PayInv
<1>3. /\ q.pix \in PixIds /\ q.key \in EventKey /\ q.appt \in Appts
      /\ q.key.pix = q.pix /\ q.appt = psp[q.pix].appt
      /\ q.status = "approved" => psp[q.pix].status = "approved"
      /\ psp' = psp
  BY <1>2, JobShape DEF SoundJob, CommitApply
<1>4. pay \in [Appts -> Payment]
  BY PayInvParts DEF PayTyped
<1>5. CASE Processed(q.key) /\ UNCHANGED <<appts, pay, events, receipts>>
  BY <1>5 DEF NoNewReceipt
<1>6. CASE ~ Processed(q.key) /\ q.status = "approved"
  <2>1. /\ events' = events \cup {q.key} /\ q.key \notin events
        /\ pay' = [pay EXCEPT ![q.appt] = [status |-> "PAID", pix |-> q.pix]]
        /\ receipts' = [receipts EXCEPT ![q.appt] = Append(@, q.key)]
    BY <1>1, <1>6 DEF CommitApply, Processed, MarkPaid
  <2>2. AddsReceipt(q.appt, q.key)
    BY <1>3, <1>4, <1>6, <2>1 DEF AddsReceipt
  <2>3. QED
    BY <1>3, <2>1, <2>2
<1>7. CASE ~ Processed(q.key) /\ q.status # "approved"
  <2>1. /\ events' = events \cup {q.key} /\ receipts' = receipts
        /\ \/ pay' = pay
           \/ pay' = [pay EXCEPT ![q.appt] = [status |-> "EXPIRED", pix |-> q.pix]]
    BY <1>1, <1>7 DEF CommitApply, Processed, MarkPaid
  <2>2. \A a \in Appts : pay'[a].status = "PAID" => pay[a].status = "PAID"
    BY <1>3, <1>4, <2>1
  <2>3. QED
    BY <2>1, <2>2 DEF NoNewReceipt
<1>8. QED
  BY <1>1, <1>5, <1>6, <1>7 DEF CommitApply

LEMMA CommitManualReceipts ==
  ASSUME PayInv, NEW j \in Jobs, CommitManual(j)
  PROVE  /\ events \subseteq events'
         /\ \E a \in Appts, e \in EventKey \cup {ByHand} : AddsReceipt(a, e)
<1>1. PICK q \in Job : q = jobs[j]
  BY PayInvParts
<1>2. q.appt \in Appts
  BY <1>1, JobShape DEF CommitManual
<1>3. /\ pay' = [pay EXCEPT ![q.appt].status = "PAID"]
      /\ receipts' = [receipts EXCEPT ![q.appt] = Append(@, ByHand)]
      /\ events' = events
  BY <1>1 DEF CommitManual
<1>4. pay \in [Appts -> Payment]
  BY PayInvParts DEF PayTyped
<1>5. AddsReceipt(q.appt, ByHand)
  BY <1>2, <1>3, <1>4 DEF AddsReceipt
<1>6. QED
  BY <1>2, <1>3, <1>5

\* Every step keeps the charges and the ledger, and adds one receipt or none.
LEMMA ReceiptSteps ==
  ASSUME PayInv, [PaymentsNext]_paymentVars
  PROVE  /\ Kept
         /\ events \subseteq events'
         /\ \/ NoNewReceipt
            \/ \E a \in Appts, e \in EventKey \cup {ByHand} : AddsReceipt(a, e)
<1> DEFINE Goal ==
      /\ Kept
      /\ events \subseteq events'
      /\ \/ NoNewReceipt
         \/ \E a \in Appts, e \in EventKey \cup {ByHand} : AddsReceipt(a, e)
<1>1. CASE BookingStep \/ UNCHANGED paymentVars
  BY <1>1, BookingKeeps
<1>2. ASSUME NEW j \in Jobs, StorePix(j)
      PROVE  Goal
  <2>1. PICK q \in Job : q = jobs[j]
    BY PayInvParts
  <2>2. /\ q.appt \in Appts /\ receipts' = receipts /\ events' = events
        /\ pay' = [pay EXCEPT ![q.appt] = [status |-> "PENDING", pix |-> q.pix]]
    BY <1>2, <2>1, JobShape DEF StorePix
  <2>3. NoNewReceipt
    BY <2>2, PayInvParts DEF NoNewReceipt, PayTyped
  <2>4. QED
    BY <1>2, <2>2, <2>3, PayInvStorePix
<1>3. ASSUME NEW p \in PixIds, PspDecides(p)
      PROVE  Goal
  BY <1>3, PayInvDecides DEF PspDecides, NoNewReceipt
<1>4. ASSUME NEW j \in Jobs, NEW c \in Clients, NEW a \in Appts, NEW p \in PixIds,
             CreatePix(j, c, a, p)
      PROVE  Goal
  BY <1>4, PayInvCreatePix DEF CreatePix, NoNewReceipt
<1>5. ASSUME UNCHANGED <<bookingVars, pay, psp, notices, events, receipts>>
      PROVE  Goal
  BY <1>5 DEF Kept, NoNewReceipt, bookingVars
<1>6. ASSUME NEW j \in Jobs, CommitApply(j)
      PROVE  Goal
  BY <1>6, CommitApplyReceipts, PayInvCommitApply
<1>7. ASSUME NEW j \in Jobs, CommitManual(j)
      PROVE  Goal
  BY <1>7, CommitManualReceipts, PayInvCommitManual
<1>8. QED
  BY <1>1, <1>2, <1>3, <1>4, <1>5, <1>6, <1>7
  DEF PaymentsNext, PaymentStep, WebJobStep, Jobs, FetchForWebhook, FetchForReconcile,
      ReadForApply, ReadForManual, JobDies

ReceiptInv == PayInv /\ PaidIsBacked /\ EventsCountOnce

LEMMA ReceiptKeys ==
  ASSUME PayInv, NEW a \in Appts, NEW i \in DOMAIN receipts[a], receipts[a][i] # ByHand
  PROVE  receipts[a][i] \in EventKey /\ receipts[a][i].pix \in PixIds
<1>1. receipts[a] \in Seq(EventKey \cup {ByHand})
  BY PayInvParts DEF PayTyped
<1>2. receipts[a][i] \in EventKey \cup {ByHand}
  BY <1>1
<1>3. QED
  BY <1>2, KeyFields

LEMMA CountedApart ==
  ASSUME EventsCountOnce, NEW a \in Appts, NEW b \in Appts,
         NEW i, i \in DOMAIN receipts[a], NEW j, j \in DOMAIN receipts[b],
         receipts[a][i] # ByHand, receipts[b][j] = receipts[a][i]
  PROVE  a = b /\ i = j
BY DEF EventsCountOnce

\* An approved charge stays the approved charge of its appointment.
LEMMA BackedStays ==
  ASSUME Kept, NEW p \in PixIds, psp[p].status = "approved"
  PROVE  psp'[p].status = "approved" /\ psp'[p].appt = psp[p].appt
<1>1. psp[p] # NotCreated
  BY DEF NotCreated
<1>2. QED
  BY <1>1 DEF Kept

LEMMA ReceiptInvNext == ReceiptInv /\ [PaymentsNext]_paymentVars => ReceiptInv'
<1> SUFFICES ASSUME ReceiptInv, [PaymentsNext]_paymentVars
             PROVE  ReceiptInv'
  OBVIOUS
<1>1. /\ PayInv' /\ PayInv /\ PayTyped /\ Kept
      /\ events \subseteq events'
      /\ \/ NoNewReceipt
         \/ \E a \in Appts, e \in EventKey \cup {ByHand} : AddsReceipt(a, e)
  BY PayInvNext, PayInvParts, ReceiptSteps DEF ReceiptInv
\* The receipts there were are backed by what backed them.
<1>2. ASSUME NEW a \in Appts, NEW i \in DOMAIN receipts[a], NEW key,
             key = receipts[a][i], key # ByHand
      PROVE  /\ key \in events' /\ key \in events
             /\ psp'[key.pix].status = "approved" /\ psp'[key.pix].appt = a
  <2>1. key \in events /\ psp[key.pix].status = "approved" /\ psp[key.pix].appt = a
    BY <1>2 DEF ReceiptInv, PaidIsBacked, EventsCountOnce
  <2>2. key.pix \in PixIds
    BY <1>1, <1>2, ReceiptKeys
  <2>3. QED
    BY <1>1, <2>1, <2>2, BackedStays
<1>3. CASE NoNewReceipt
  <2>1. receipts' = receipts /\ \A a \in Appts : pay'[a].status = "PAID" => pay[a].status = "PAID"
    BY <1>3 DEF NoNewReceipt
  <2>2. PaidIsBacked'
    BY <1>2, <2>1 DEF ReceiptInv, PaidIsBacked
  <2>3. EventsCountOnce'
    BY <1>1, <2>1 DEF ReceiptInv, EventsCountOnce
  <2>4. QED
    BY <1>1, <2>2, <2>3 DEF ReceiptInv
<1>4. ASSUME NEW a \in Appts, NEW e \in EventKey \cup {ByHand}, AddsReceipt(a, e)
      PROVE  ReceiptInv'
  <2>1. /\ receipts'[a] # <<>>
        /\ \A x \in Appts \ {a} : receipts'[x] = receipts[x]
        /\ \A i \in DOMAIN receipts'[a] :
             \/ i \in DOMAIN receipts[a] /\ receipts'[a][i] = receipts[a][i]
             \/ i = Len(receipts[a]) + 1 /\ receipts'[a][i] = e
    <3>1. receipts' = [receipts EXCEPT ![a] = Append(@, e)]
      BY <1>4 DEF AddsReceipt
    <3>2. PayTyped /\ a \in Appts /\ e \in EventKey \cup {ByHand}
      BY <1>1
    <3>3. receipts'[a] # <<>>
      BY ONLY <3>1, <3>2, ReceiptAdded
    <3>4. \A x \in Appts \ {a} : receipts'[x] = receipts[x]
      BY ONLY <3>1, <3>2, ReceiptAdded
    <3>5. ASSUME NEW i \in DOMAIN receipts'[a]
          PROVE  \/ i \in DOMAIN receipts[a] /\ receipts'[a][i] = receipts[a][i]
                 \/ i = Len(receipts[a]) + 1 /\ receipts'[a][i] = e
      BY ONLY <3>1, <3>2, ReceiptAdded
    <3>6. QED
      BY ONLY <3>3, <3>4, <3>5
  <2>2. /\ \A x \in Appts \ {a} : pay'[x] = pay[x]
        /\ e # ByHand => /\ e \notin events /\ e \in events'
                         /\ psp'[e.pix].status = "approved" /\ psp'[e.pix].appt = a
    BY <1>4 DEF AddsReceipt
  \* Each receipt is one there was, or the new one.
  <2>3. ASSUME NEW x \in Appts, NEW i \in DOMAIN receipts'[x], NEW key,
               key = receipts'[x][i], key # ByHand
        PROVE  \/ i \in DOMAIN receipts[x] /\ key = receipts[x][i] /\ key \in events
               \/ x = a /\ i = Len(receipts[a]) + 1 /\ key = e /\ key \notin events
    BY <1>2, <2>1, <2>2, <2>3
  <2>4. PaidIsBacked'
    <3>1. ASSUME NEW x \in Appts, pay'[x].status = "PAID"
          PROVE  receipts'[x] # <<>>
      BY <2>1, <2>2, <3>1 DEF ReceiptInv, PaidIsBacked
    <3>2. ASSUME NEW x \in Appts, NEW i \in DOMAIN receipts'[x], receipts'[x][i] # ByHand
          PROVE  /\ psp'[receipts'[x][i].pix].status = "approved"
                 /\ psp'[receipts'[x][i].pix].appt = x
      BY <1>2, <2>2, <2>3, <3>2
    <3>3. QED
      BY <3>1, <3>2 DEF PaidIsBacked
  <2>5. EventsCountOnce'
    <3>1. ASSUME NEW x \in Appts, NEW y \in Appts,
                 NEW i \in DOMAIN receipts'[x], NEW k \in DOMAIN receipts'[y],
                 receipts'[x][i] # ByHand
          PROVE  /\ receipts'[x][i] \in events'
                 /\ receipts'[y][k] = receipts'[x][i] => x = y /\ i = k
      <4>1. PICK key : key = receipts'[x][i]
        OBVIOUS
      <4>2. key \in events'
        BY <1>1, <2>2, <2>3, <3>1, <4>1
      <4>3. ASSUME receipts'[y][k] = key
            PROVE  x = y /\ i = k
        <5>1. CASE key \in events
          <6>1. /\ i \in DOMAIN receipts[x] /\ key = receipts[x][i]
                /\ k \in DOMAIN receipts[y] /\ key = receipts[y][k]
            BY <2>3, <3>1, <4>1, <4>3, <5>1
          <6>2. /\ i \in DOMAIN receipts[x] /\ k \in DOMAIN receipts[y]
                /\ receipts[x][i] # ByHand /\ receipts[y][k] = receipts[x][i]
            BY <3>1, <4>1, <6>1
          <6>3. x \in Appts /\ y \in Appts /\ EventsCountOnce
            BY DEF ReceiptInv
          <6>4. x = y
            BY ONLY <6>2, <6>3, CountedApart
          <6>5. i = k
            BY ONLY <6>2, <6>3, CountedApart, Z3
          <6>6. QED
            BY <6>4, <6>5
        <5>2. CASE key \notin events
          BY <2>3, <3>1, <4>1, <4>3, <5>2
        <5>3. QED
          BY <5>1, <5>2
      <4>4. QED
        BY <4>1, <4>2, <4>3
    <3>2. QED
      BY <3>1 DEF EventsCountOnce
  <2>6. QED
    BY <1>1, <2>4, <2>5 DEF ReceiptInv
<1>5. QED
  BY <1>1, <1>3, <1>4

LEMMA ReceiptInvInit == PaymentsInit => ReceiptInv
<1> SUFFICES ASSUME PaymentsInit
             PROVE  ReceiptInv
  OBVIOUS
<1>1. /\ \A a \in Appts : receipts[a] = <<>> /\ pay[a].status = "PENDING"
      /\ \A a \in Appts : DOMAIN receipts[a] = {}
  BY DEF PaymentsInit
<1>2. QED
  BY <1>1, PaymentsInvInit DEF ReceiptInv, PaidIsBacked, EventsCountOnce

\* Nobody is told "confirmed" for money nobody received (service.ts 106-134 and
\* 182-192): a receipt not given by hand names an approved charge of that very
\* appointment, and no booking, cancellation, new charge or other job that runs
\* between the fetch and the commit of this one changes that.
THEOREM PaymentsPaidIsBacked == PaymentsSpec => []PaidIsBacked
<1>1. ReceiptInv => PaidIsBacked
  BY DEF ReceiptInv
<1>2. QED
  BY <1>1, ReceiptInvInit, ReceiptInvNext, PTL DEF PaymentsSpec

\* A provider event is applied once, however often it is delivered, fetched or
\* scanned and by however many jobs at a time (service.ts 109-117 and 145-151).
THEOREM PaymentsCountOnce == PaymentsSpec => []EventsCountOnce
<1>1. ReceiptInv => EventsCountOnce
  BY DEF ReceiptInv
<1>2. QED
  BY <1>1, ReceiptInvInit, ReceiptInvNext, PTL DEF PaymentsSpec

-----------------------------------------------------------------------------
(* Overlaps.  Payments can make the shop book a barber twice; the booking    *)
(* service alone cannot.  The only way is a payment that brings a cancelled  *)
(* appointment back.                                                         *)

NoneComesBack ==
  \A a \in Appts : appts[a].status = "cancelled" => appts'[a].status = "cancelled"

\* What a step of the payments does to the bookings: it writes a status or nothing.
StatusStep ==
  /\ UNCHANGED <<lock, reqs>>
  /\ \/ UNCHANGED appts
     \/ \E a \in Appts, s \in Status :
          Exists(a) /\ appts' = [appts EXCEPT ![a] = [appts[a] EXCEPT !.status = s]]

LEMMA PaymentStepIsStatusStep ==
  ASSUME PayInv, PaymentStep
  PROVE  StatusStep
<1>1. ASSUME NEW p \in PixIds, PspDecides(p)
      PROVE  StatusStep
  BY <1>1 DEF PspDecides, StatusStep, bookingVars
<1>2. ASSUME NEW j \in Jobs,
             \/ \E c \in Clients, a \in Appts, p \in PixIds : CreatePix(j, c, a, p)
             \/ StorePix(j)
             \/ \E n \in notices : FetchForWebhook(j, n)
             \/ \E a \in Appts : ReadForManual(j, a) \/ FetchForReconcile(j, a)
             \/ ReadForApply(j) \/ JobDies(j)
      PROVE  StatusStep
  BY <1>2 DEF CreatePix, StorePix, FetchForWebhook, ReadForManual, FetchForReconcile,
              ReadForApply, JobDies, StatusStep, bookingVars
<1>3. ASSUME NEW j \in Jobs, CommitApply(j) \/ CommitManual(j)
      PROVE  StatusStep
  <2>1. PICK q \in Job : q = jobs[j]
    BY PayInvParts
  <2>2. q.pc \in {"read", "manual"} /\ SoundJob(q)
    BY <1>3, <2>1 DEF CommitApply, CommitManual, PayInv
  <2>3. q.appt \in Appts /\ q.seen \in Status /\ Exists(q.appt)
    BY <2>2, JobShape DEF SoundJob, Exists
  <2>4. PICK s \in Status : s = NextStatus(q.seen)
    BY <2>3, NextStatusTyped
  <2>5. UNCHANGED appts \/ appts' = [appts EXCEPT ![q.appt].status = s]
    BY <1>3, <2>1, <2>4 DEF CommitApply, CommitManual
  <2>6. UNCHANGED <<lock, reqs>>
    BY <1>3 DEF CommitApply, CommitManual
  <2>7. QED
    BY <2>3, <2>5, <2>6 DEF StatusStep, PayInv, TypeInv, TypeOK
<1>4. QED
  BY <1>1, <1>2, <1>3 DEF PaymentStep, WebJobStep, Jobs

\* Such a step moves no slot, and holds none that was not held before.
LEMMA StatusStepHolds ==
  ASSUME TypeInv, StatusStep, NoneComesBack, NEW x \in Appts, Occupies(x)'
  PROVE  /\ Occupies(x)
         /\ appts'[x].barber = appts[x].barber
         /\ appts'[x].start = appts[x].start
         /\ appts'[x].finish = appts[x].finish
<1>1. CASE appts'[x] = appts[x]
  BY <1>1 DEF Occupies
<1>2. CASE appts'[x] # appts[x]
  <2>1. PICK s \in Status : Exists(x) /\ appts'[x] = [appts[x] EXCEPT !.status = s]
    BY <1>2 DEF StatusStep, TypeInv, TypeOK
  <2>2. appts[x] \in Appointment
    BY <2>1, AppointmentShape DEF TypeInv
  <2>3. appts[x].status # "cancelled"
    BY DEF NoneComesBack, Occupies
  <2>4. QED
    BY <2>1, <2>2, <2>3 DEF Occupies, Exists, Appointment
<1>3. QED
  BY <1>1, <1>2

LEMMA StatusStepKeeps ==
  ASSUME BookingInv, PayInv', StatusStep, NoneComesBack
  PROVE  BookingInv'
<1>1. TypeInv /\ LockMatchesTransactions /\ SlotInv
  BY BookingInvParts
<1>2. TypeInv'
  BY DEF PayInv
<1>3. LockMatchesTransactions'
  BY <1>1 DEF StatusStep, LockMatchesTransactions, HasSlot
<1>4. SlotInv'
  BY <1>1, StatusStepHolds, NoSlotTaken DEF StatusStep
<1>5. BookingInv' <=> TypeInv' /\ LockMatchesTransactions' /\ SlotInv'
  BY BookingInvParts, PTL
<1>6. QED
  BY <1>2, <1>3, <1>4, <1>5

\* For the calendar it is nothing, or an appointment that lets its slot go.
LEMMA StatusStepReleases ==
  ASSUME TypeInv, StatusStep, NoneComesBack
  PROVE  [C!Next]_SlotsHeld
<1>1. CASE UNCHANGED appts
  BY <1>1 DEF SlotsHeld, Occupies
<1>2. CASE ~ UNCHANGED appts
  <2>1. PICK a \in Appts : \A x \in Appts \ {a} : appts'[x] = appts[x]
    BY <1>2 DEF StatusStep, TypeInv, TypeOK
  <2>2. \A x \in Appts \ {a} : SlotsHeld'[x] = SlotsHeld[x]
    BY <2>1 DEF SlotsHeld, Occupies
  <2>3. CASE Occupies(a)'
    <3>1. SlotsHeld'[a] = SlotsHeld[a]
      BY <2>3, StatusStepHolds DEF SlotsHeld
    <3>2. QED
      BY <2>2, <3>1, ZenonT(60) DEF SlotsHeld
  <2>4. CASE ~ Occupies(a)' /\ ~ Occupies(a)
    <3>1. SlotsHeld'[a] = SlotsHeld[a]
      BY <2>4 DEF SlotsHeld
    <3>2. QED
      BY <2>2, <3>1, ZenonT(60) DEF SlotsHeld
  <2>5. CASE ~ Occupies(a)' /\ Occupies(a)
    <3>1. SlotsHeld'[a] = {}
      BY <2>5 DEF SlotsHeld
    <3>2. SlotsHeld' = [SlotsHeld EXCEPT ![a] = {}]
      BY <2>2, <3>1, ZenonT(60) DEF SlotsHeld
    <3>3. QED
      BY <2>5, <3>2, SlotsHeldIs DEF C!Next, C!Release
  <2>6. QED
    BY <2>3, <2>4, <2>5
<1>3. QED
  BY <1>1, <1>2

LEMMA StepWithoutRevival ==
  ASSUME PayInv, PayInv', BookingInv, [PaymentsNext]_paymentVars,
         [NoneComesBack]_bookingVars
  PROVE  BookingInv' /\ [C!Next]_SlotsHeld
<1>1. CASE [Next]_bookingVars
  BY <1>1, BookingInvNext, CalendarStep
<1>2. CASE ~ [Next]_bookingVars
  <2>1. PaymentStep /\ NoneComesBack
    BY <1>2 DEF PaymentsNext, BookingStep, paymentVars
  <2>2. StatusStep
    BY <2>1, PaymentStepIsStatusStep
  <2>3. QED
    BY <2>1, <2>2, StatusStepKeeps, StatusStepReleases DEF PayInv
<1>3. QED
  BY <1>1, <1>2

\* Bookings and payments together double book a barber only in one way, the one
\* the code has (service.ts 122-124 and 183-185): a payment brings a cancelled
\* appointment back.  Wherever that does not happen no two live appointments of
\* a barber overlap, whatever statuses payments write over one another.
THEOREM PaymentsOverlapNeedsRevival == PaymentsSpec /\ CancelledForGood => []NoOverlap
<1>1. BookingInv => NoOverlap
  BY DEF BookingInv
<1>2. PaymentsInit => BookingInv
  BY BookingInvInit DEF PaymentsInit
<1>3. PayInv /\ PayInv' /\ BookingInv /\ [PaymentsNext]_paymentVars
        /\ [NoneComesBack]_bookingVars => BookingInv'
  BY StepWithoutRevival
<1>4. CancelledForGood => [][NoneComesBack]_bookingVars
  BY PTL DEF CancelledForGood, NoneComesBack
<1>5. QED
  BY <1>1, <1>2, <1>3, <1>4, PaymentsInvariant, PTL DEF PaymentsSpec

\* And there the two together still implement the calendar, in which slots are
\* taken, moved and freed and never taken back (booking.ts 274-472, service.ts
\* 62-192).
THEOREM PaymentsImplementCalendar == PaymentsSpec /\ CancelledForGood => ImplementsCalendar
<1>1. PaymentsInit => BookingInv /\ C!Init
  BY BookingInvInit, CalendarInit DEF PaymentsInit
<1>2. PayInv /\ PayInv' /\ BookingInv /\ [PaymentsNext]_paymentVars
        /\ [NoneComesBack]_bookingVars => BookingInv' /\ [C!Next]_SlotsHeld
  BY StepWithoutRevival
<1>3. CancelledForGood => [][NoneComesBack]_bookingVars
  BY PTL DEF CancelledForGood, NoneComesBack
<1>4. QED
  BY <1>1, <1>2, <1>3, PaymentsInvariant, PTL DEF PaymentsSpec, C!Spec, ImplementsCalendar

=============================================================================
