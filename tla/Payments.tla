------------------------------ MODULE Payments -------------------------------
(***************************************************************************)
(* Pix payments (packages/payments/src/service.ts, the webhook route and   *)
(* the worker's paymentReconcileScan) on the appointments of Booking.      *)
(*                                                                         *)
(* A job is one call that is under way: in the web application a Pix being *)
(* generated, a webhook being served or a payment recorded by hand, in the *)
(* worker one turn of the reconcile loop.  Its reads, the provider's       *)
(* answers and its commit are separate steps, so bookings, cancellations   *)
(* and other jobs come in between.  The provider (Mercado Pago) is         *)
(* modelled by what the code asks of it; it repeats notifications, loses   *)
(* them, and delivers them in any order.                                   *)
(***************************************************************************)
EXTENDS Booking

CONSTANTS
  WebJobs,           \* calls of the web application that may run together
  Scans,             \* reconcile loops that may run together
  PixIds,            \* payment ids the provider hands out
  NoPix,             \* providerPaymentId is null
  DistinctEventIds   \* payload.id is a string; otherwise the payment id is the event id

ASSUME PaymentsAssumption ==
  /\ NoPix \notin PixIds
  /\ WebJobs \cap Scans = {}
  /\ DistinctEventIds \in BOOLEAN

VARIABLES
  pay,       \* pay[a]: paymentStatus and providerPaymentId of appointment a
  psp,       \* psp[p]: what the provider knows of payment p
  notices,   \* notifications the provider has sent, and may send again
  events,    \* PaymentWebhookEvent: the provider event ids already processed
  receipts,  \* receipts[a]: the events that queued a CONFIRMATION row for a
  jobs       \* the locals of every job

payVars == <<pay, psp, notices, events, receipts, jobs>>
paymentVars == <<bookingVars, payVars>>

Jobs == WebJobs \cup Scans

PspStatus == {"pending", "approved", "rejected", "expired"}

NotCreated == [status |-> "none"]
Resting == [pc |-> "rest"]

\* What a notification says: payment p was created, or changed.
Notice == [pix : PixIds, about : {"created", "updated"}]

EventKey ==
  [by : {"webhook"}, pix : PixIds, about : {"created", "updated", "payment"}]
  \cup [by : {"reconcile"}, pix : PixIds]

ByHand == [by |-> "manual"]

-----------------------------------------------------------------------------
PaymentsInit ==
  /\ Init
  /\ pay = [a \in Appts |-> [status |-> "PENDING", pix |-> NoPix]]
  /\ psp = [p \in PixIds |-> NotCreated]
  /\ notices = {}
  /\ events = {}
  /\ receipts = [a \in Appts |-> <<>>]
  /\ jobs = [j \in Jobs |-> Resting]

Becomes(j, local) == jobs' = [jobs EXCEPT ![j] = local]

(* The provider. *)

\* The client pays a charge that was shown to them, the provider turns the
\* charge down, or it expires.
PspDecides(p) ==
  /\ psp[p].status = "pending"
  /\ \E s \in PspStatus \ {"pending"} :
       /\ s = "approved" => psp[p].shown
       /\ psp' = [psp EXCEPT ![p].status = s]
  /\ notices' = notices \cup {[pix |-> p, about |-> "updated"]}
  /\ UNCHANGED <<bookingVars, pay, events, receipts, jobs>>

(* createPixPayment: it asks neither for the appointment's status nor for its
   payment status. *)

\* The provider answers with a charge of its own id for the appointment.
CreatePix(j, c, a, p) ==
  /\ jobs[j] = Resting
  /\ Exists(a) /\ appts[a].client = c
  /\ psp[p] = NotCreated
  /\ psp' = [psp EXCEPT ![p] = [status |-> "pending", appt |-> a, shown |-> FALSE]]
  /\ notices' = notices \cup {[pix |-> p, about |-> "created"]}
  /\ Becomes(j, [pc |-> "created", appt |-> a, pix |-> p])
  /\ UNCHANGED <<bookingVars, pay, events, receipts>>

\* MUTANT of StorePix: stores the status as the API spells it.
StorePixLowerCase(j) ==
  /\ jobs[j].pc = "created"
  /\ pay' = [pay EXCEPT ![jobs[j].appt] = [status |-> "pending", pix |-> jobs[j].pix]]
  /\ psp' = [psp EXCEPT ![jobs[j].pix].shown = TRUE]
  /\ Becomes(j, Resting)
  /\ UNCHANGED <<bookingVars, notices, events, receipts>>

\* Whatever the payment status was, it is PENDING again; then the QR code is shown.
StorePix(j) ==
  /\ jobs[j].pc = "created"
  /\ pay' = [pay EXCEPT ![jobs[j].appt] = [status |-> "PENDING", pix |-> jobs[j].pix]]
  /\ psp' = [psp EXCEPT ![jobs[j].pix].shown = TRUE]
  /\ Becomes(j, Resting)
  /\ UNCHANGED <<bookingVars, notices, events, receipts>>

(* applyWebhookPayment and reconcilePayment. *)

\* The id of a webhook's event: payload.id if it is a string, else the payment's.
ProviderEventId(n) ==
  [by |-> "webhook", pix |-> n.pix,
   about |-> IF DistinctEventIds THEN n.about ELSE "payment"]

\* A verified notification makes the handler fetch the payment as it is now.
FetchForWebhook(j, n) ==
  /\ jobs[j] = Resting
  /\ Becomes(j, [pc |-> "fetched", pix |-> n.pix, status |-> psp[n.pix].status,
                 key |-> ProviderEventId(n)])
  /\ UNCHANGED <<bookingVars, pay, psp, notices, events, receipts>>

\* MUTANT of ReconcileKey: the reconciler reports under the payment's own id.
ReconcileKeyOfPayment(p) == [by |-> "webhook", pix |-> p, about |-> "payment"]

ReconcileKey(p) == [by |-> "reconcile", pix |-> p]

\* One appointment of the reconcile scan: still PENDING, with a charge to ask for.
FetchForReconcile(j, a) ==
  /\ jobs[j] = Resting
  /\ Exists(a) /\ pay[a].status = "PENDING" /\ pay[a].pix # NoPix
  /\ psp[pay[a].pix].status = "approved"
  /\ Becomes(j, [pc |-> "fetched", pix |-> pay[a].pix, status |-> "approved",
                 key |-> ReconcileKey(pay[a].pix)])
  /\ UNCHANGED <<bookingVars, pay, psp, notices, events, receipts>>

\* The transaction of applyFetchedPayment begins: it finds the appointment by
\* its providerPaymentId or by the charge's external reference.
ReadForApply(j) ==
  /\ jobs[j].pc = "fetched"
  /\ LET q == jobs[j]
         a == psp[q.pix].appt
     IN Becomes(j, [pc |-> "read", pix |-> q.pix, status |-> q.status, key |-> q.key,
                    appt |-> a, seen |-> appts[a].status])
  /\ UNCHANGED <<bookingVars, pay, psp, notices, events, receipts>>

\* The status an approved payment writes: the shop's policy, or the status the
\* transaction read, even if a cancellation has committed since.
NextStatus(seen) == IF AutoConfirm THEN "confirmed" ELSE seen

\* MUTANT of MarkPaid: counts a charge nobody has paid yet.
MarkPaidUnlessRejected(status) == status \in {"approved", "pending"}

MarkPaid(status) == status = "approved"

\* MUTANT of Processed: trusts the ledger it read before the transaction.
NeverProcessed(key) == FALSE

\* The UNIQUE provider_event_id is already there: the insert fails with P2002.
Processed(key) == key \in events

\* The ledger row, the payment and the CONFIRMATION row commit together; a
\* duplicate event rolls everything back and is acknowledged.
CommitApply(j) ==
  /\ jobs[j].pc = "read"
  /\ LET q == jobs[j]
     IN \/ /\ Processed(q.key)
           /\ UNCHANGED <<appts, pay, events, receipts>>
        \/ /\ ~ Processed(q.key)
           /\ events' = events \cup {q.key}
           /\ IF MarkPaid(q.status)
              THEN /\ appts' = [appts EXCEPT ![q.appt].status = NextStatus(q.seen)]
                   /\ pay' = [pay EXCEPT ![q.appt] = [status |-> "PAID", pix |-> q.pix]]
                   /\ receipts' = [receipts EXCEPT ![q.appt] = Append(@, q.key)]
              ELSE /\ pay' = IF q.status = "expired"
                             THEN [pay EXCEPT ![q.appt] = [status |-> "EXPIRED", pix |-> q.pix]]
                             ELSE pay
                   /\ UNCHANGED <<appts, receipts>>
  /\ Becomes(j, Resting)
  /\ UNCHANGED <<now, catalog, mails, lock, reqs, psp, notices>>

(* markAppointmentPaidManually: read and check, then an unconditional update. *)

ReadForManual(j, a) ==
  /\ jobs[j] = Resting
  /\ Exists(a) /\ pay[a].status # "PAID"
  /\ Becomes(j, [pc |-> "manual", appt |-> a, seen |-> appts[a].status])
  /\ UNCHANGED <<bookingVars, pay, psp, notices, events, receipts>>

CommitManual(j) ==
  /\ jobs[j].pc = "manual"
  /\ LET q == jobs[j]
     IN /\ appts' = [appts EXCEPT ![q.appt].status = NextStatus(q.seen)]
        /\ pay' = [pay EXCEPT ![q.appt].status = "PAID"]
        /\ receipts' = [receipts EXCEPT ![q.appt] = Append(@, ByHand)]
  /\ Becomes(j, Resting)
  /\ UNCHANGED <<now, catalog, mails, lock, reqs, psp, notices, events>>

\* A crash, a provider or database error, a deadlock victim: the call ends and
\* its transaction, if any, is rolled back.
JobDies(j) ==
  /\ jobs[j] # Resting
  /\ Becomes(j, Resting)
  /\ UNCHANGED <<bookingVars, pay, psp, notices, events, receipts>>

-----------------------------------------------------------------------------
WebJobStep(j) ==
  \/ \E c \in Clients, a \in Appts, p \in PixIds : CreatePix(j, c, a, p)
  \/ StorePix(j)
  \/ \E n \in notices : FetchForWebhook(j, n)
  \/ \E a \in Appts : ReadForManual(j, a)
  \/ CommitManual(j)

PaymentStep ==
  \/ \E p \in PixIds : PspDecides(p)
  \/ \E j \in WebJobs : WebJobStep(j)
  \/ \E j \in Scans, a \in Appts : FetchForReconcile(j, a)
  \/ \E j \in Jobs : ReadForApply(j) \/ CommitApply(j) \/ JobDies(j)

BookingStep == Next /\ UNCHANGED payVars

PaymentsNext == BookingStep \/ PaymentStep

PaymentsSpec == PaymentsInit /\ [][PaymentsNext]_paymentVars

\* The worker scans every 15 minutes for ever, so a turn of the loop that an
\* error ends is tried again; errors are assumed not to hit every attempt.  No
\* fairness for the web: a webhook may never come.
PaymentsFairness ==
  \A j \in Scans :
    /\ \A a \in Appts : SF_paymentVars(FetchForReconcile(j, a))
    /\ SF_paymentVars(ReadForApply(j))
    /\ SF_paymentVars(CommitApply(j))

FairPaymentsSpec == PaymentsSpec /\ PaymentsFairness

-----------------------------------------------------------------------------
(* What makes payments correct. *)

Job ==
  {Resting}
  \cup [pc : {"created"}, appt : Appts, pix : PixIds]
  \cup [pc : {"fetched"}, pix : PixIds, status : PspStatus, key : EventKey]
  \cup [pc : {"read"}, pix : PixIds, status : PspStatus, key : EventKey,
        appt : Appts, seen : Status]
  \cup [pc : {"manual"}, appt : Appts, seen : Status]

PaymentsTypeOK ==
  /\ TypeOK
  /\ pay \in [Appts -> [status : {"PENDING", "PAID", "EXPIRED"}, pix : PixIds \cup {NoPix}]]
  /\ psp \in [PixIds -> [status : PspStatus, appt : Appts, shown : BOOLEAN] \cup {NotCreated}]
  /\ notices \subseteq Notice
  /\ events \subseteq EventKey
  /\ receipts \in [Appts -> Seq(EventKey \cup {ByHand})]
  /\ jobs \in [Jobs -> Job]

\* No client is told "confirmed" for money nobody received: a receipt comes from
\* the shop's hand or from an approved charge made for that very appointment,
\* and PAID never stands without a receipt (service.ts 106-134 and 182-192).
PaidIsBacked ==
  \A a \in Appts :
    /\ pay[a].status = "PAID" => receipts[a] # <<>>
    /\ \A i \in DOMAIN receipts[a] :
         LET key == receipts[a][i]
         IN key # ByHand => psp[key.pix].status = "approved" /\ psp[key.pix].appt = a

\* However often and however interleaved a provider event is delivered or
\* scanned, it is applied once (service.ts 109-117 and 145-151).
EventsCountOnce ==
  \A a, b \in Appts : \A i \in DOMAIN receipts[a], j \in DOMAIN receipts[b] :
    receipts[a][i] # ByHand =>
      /\ receipts[a][i] \in events
      /\ receipts[b][j] = receipts[a][i] => a = b /\ i = j

\* A client who paid the charge the appointment refers to is PAID at last, even
\* if every notification is lost or swallowed as a duplicate of an earlier one
\* (index.ts 120-145 of the worker), or else the charge is replaced.
ApprovedIsRecorded ==
  \A p \in PixIds, a \in Appts :
    (psp[p].status = "approved" /\ pay[a].pix = p) ~>
      (pay[a].status = "PAID" \/ pay[a].pix # p)

\* A payment that was recorded stays recorded: polling stops on it as on a
\* terminal state (apps/web/lib/payment-poll.ts 4-9).
PaidStaysPaid ==
  [][\A a \in Appts : pay[a].status = "PAID" => pay'[a].status = "PAID"]_paymentVars

=============================================================================
