----------------------------- MODULE BookingPage -----------------------------
(***************************************************************************)
(* The public booking page: the client step machine of                     *)
(* apps/web/app/(public)/booking/booking-flow.tsx over lib/booking-state,  *)
(* lib/booking-api and lib/payment-poll, in one browser tab, with the      *)
(* answers of the server it talks to.                                      *)
(*                                                                         *)
(* The selection lives in the URL.  router.replace is asynchronous: the    *)
(* new URL is a pending navigation (nav) until it lands, the old page      *)
(* stays clickable meanwhile, and a later navigation replaces a pending    *)
(* one.  Every render may change the dependencies of an effect, which      *)
(* cancels the request the effect has in flight and may send another.      *)
(* Requests are answered in any order.  A reload forgets the page and      *)
(* keeps the URL.                                                          *)
(***************************************************************************)
EXTENDS Integers, Sequences, FiniteSets

CONSTANTS
  Shops, Services, Barbers,
  Dates,        \* calendar dates, as numbers
  Hours,        \* the slots of a day
  Today,        \* todayInTz(); the clock does not pass midnight
  None,         \* an absent search parameter, a null state
  Entries,      \* the selections a visit may start with
  MaxAttempts,  \* maxAttempts of the status poller (10 in the code)
  MaxCharges,   \* bound: Pix charges per appointment
  MaxStale      \* bound: cancelled requests unanswered when the guest clicks on

Slots == Dates \X Hours

Selection ==
  [slug : Shops \cup {None}, service : Services \cup {None},
   barber : Barbers \cup {None}, date : Dates \cup {None},
   slot : Slots \cup {None}, appt : Nat \cup {None}]

\* What a request for data names, and the charge of a payment: an appointment
\* and the number of its charge.
Named ==
  (Shops \cup {None}) \X (Services \cup {None}) \X (Barbers \cup {None})
    \X (Dates \cup {None}) \X (Nat \cup {None})
Charge == Nat \X Nat

\* The lists the page has loaded, with what they were loaded for.
ServiceList == [slug : Shops \cup {None}]
BarberList == [slug : Shops \cup {None}, service : Services \cup {None}]
SlotGrid ==
  [about : (Shops \cup {None}) \X (Services \cup {None}) \X (Barbers \cup {None}),
   date : Dates \cup {None}]

ASSUME BookingPageAssumption ==
  /\ Dates \subseteq Nat /\ Today \in Nat
  /\ Entries \subseteq Selection
  /\ \A e \in Entries : e.appt = None
  /\ MaxAttempts \in Nat \ {0}
  /\ MaxCharges \in Nat \ {0}
  /\ MaxStale \in Nat
  /\ None \notin Shops \cup Services \cup Barbers \cup Dates \cup Nat \cup Slots
  /\ None \notin Charge \cup ServiceList \cup BarberList \cup SlotGrid
  /\ None # Shops /\ None \notin {"paid", "expired", "timeout"}

VARIABLES
  at,        \* the page the tab shows: "booking" or "login" (with next = url)
  url,       \* the selection of the URL the page is rendered for
  nav,       \* the navigation under way, or None
  page,      \* the React state of BookingFlow
  flight,    \* effects' requests in flight; cancelled ones are not live
  posts,     \* POST /api/bookings in flight; live if this mount sent it
  poll,      \* the running status poll, or None
  signedIn,  \* the tab has a session
  appts,     \* the appointments this guest's requests created
  charges,   \* charges[a]: Pix charges created for appts[a]
  pay,       \* pay[a]: the payment status the server stores
  wasPaid,   \* ghost: charges the server has recorded as paid
  made,      \* ghost: bookings made by requests of this mount
  lost       \* ghost: an answer to a booking request of this mount was lost

browserVars == <<at, url, nav, page, flight, posts, poll>>
serverVars == <<signedIn, appts, charges, pay>>
ghostVars == <<wasPaid, made, lost>>
pageVars == <<at, url, nav, page, flight, posts, poll, signedIn, appts,
              charges, pay, wasPaid, made, lost>>

Kinds == {"shops", "services", "barbers", "slots", "pix", "qr"}

PageState ==
  [shops : {None, Shops}, shopsError : BOOLEAN, shopsRetry : BOOLEAN,
   services : ServiceList \cup {None}, servicesError : BOOLEAN,
   barbers : BarberList \cup {None}, barbersError : Services \cup {None},
   slots : SlotGrid \cup {None}, slotsError : Dates \cup {None},
   submitting : BOOLEAN, confirmError : BOOLEAN,
   pix : Charge \cup {None}, pixError : BOOLEAN,
   result : {None, "paid", "expired", "timeout"}, qr : Charge \cup {None}]

FreshPage ==
  [shops |-> None, shopsError |-> FALSE, shopsRetry |-> FALSE,
   services |-> None, servicesError |-> FALSE,
   barbers |-> None, barbersError |-> None,
   slots |-> None, slotsError |-> None,
   submitting |-> FALSE, confirmError |-> FALSE,
   pix |-> None, pixError |-> FALSE, result |-> None, qr |-> None]

-----------------------------------------------------------------------------
(* lib/booking-state.ts. *)

BookingStepOf(s) ==
  CASE s.appt # None -> "waiting"
    [] s.appt = None /\ s.slug = None -> "tenant"
    [] s.appt = None /\ s.slug # None /\ s.service = None -> "services"
    [] s.appt = None /\ s.slug # None /\ s.service # None /\ s.barber = None
         -> "barbers"
    [] OTHER -> IF s.date = None \/ s.slot = None THEN "date-slot" ELSE "confirm"

Step == IF at = "booking" THEN BookingStepOf(url) ELSE "login"

SelectBarbershop(s, x) ==
  [slug |-> x, service |-> None, barber |-> None, date |-> None,
   slot |-> None, appt |-> None]
SelectService(s, x) ==
  [s EXCEPT !.service = x, !.barber = None, !.date = None, !.slot = None]
SelectBarber(s, x) == [s EXCEPT !.barber = x, !.date = None, !.slot = None]
SelectDate(s, x) == [s EXCEPT !.date = x, !.slot = None]
SelectSlot(s, x) == [s EXCEPT !.slot = x]
ClearSlot(s) == [s EXCEPT !.slot = None]

-----------------------------------------------------------------------------
(* The effects of BookingFlow: what each depends on, when it sends a        *)
(* request, and for what.                                                   *)

Deps(k, s, p) ==
  LET step == BookingStepOf(s) IN
  CASE k = "shops"    -> <<step, p.shopsRetry>>
    [] k = "services" -> <<step, s.slug>>
    [] k = "barbers"  -> <<step, s.slug, s.service>>
    [] k = "slots"    -> <<step, s.slug, s.service, s.barber, s.date>>
    [] k = "pix"      -> <<step, s.appt, p.pix, p.pixError>>
    [] k = "qr"       -> <<p.pix>>

SlotsFetchParams(s) ==
  BookingStepOf(s) = "date-slot" /\ s.date # None /\ s.date >= Today

Sends(k, s, p) ==
  LET step == BookingStepOf(s) IN
  CASE k = "shops"       -> step = "tenant"
    [] k = "services"    -> step = "services"
    [] k = "barbers"     -> step = "barbers"
    [] k = "slots"       -> SlotsFetchParams(s)
    [] k = "pix"         -> step = "waiting" /\ p.pix = None /\ ~p.pixError
    [] k = "qr"          -> p.pix # None

Request(k, s, p) ==
  [kind |-> k, live |-> TRUE,
   about |-> IF k = "qr" THEN p.pix
             ELSE <<s.slug, s.service, s.barber, s.date, s.appt>>]

\* The requests in flight once the page shows selection s with state p: of
\* the cancelled ones, those whose late answer has something to spoil.
AfterEffects(s, p, inFlight) ==
  {f \in {[f EXCEPT !.live = f.live /\ Deps(f.kind, url, page) = Deps(f.kind, s, p)] :
            f \in inFlight} : f.live \/ f.kind \in {"slots", "pix"}}
  \cup {Request(k, s, p) : k \in {k \in Kinds :
          Deps(k, url, page) # Deps(k, s, p) /\ Sends(k, s, p)}}

PollOf(p) ==
  IF p.pix # None /\ p.result = None
  THEN [charge |-> p.pix, attempt |-> 1, phase |-> "fetch"]
  ELSE None

\* The poll effect depends on the charge shown, the result and the retry key,
\* and the retry key only changes together with the other two.
AfterPollEffect(p) ==
  IF <<page.pix, page.result>> # <<p.pix, p.result>> THEN PollOf(p) ELSE poll

\* The page renders selection s with state p; inFlight are the requests that
\* have not been answered in this step.
Render(s, p, inFlight) ==
  /\ url' = s
  /\ page' = p
  /\ flight' = AfterEffects(s, p, inFlight)
  /\ poll' = AfterPollEffect(p)
  /\ UNCHANGED at

\* What a page that is gone has sent may still reach the server; it matters only
\* if it changes something there.
Outlived(inFlight) ==
  {[f EXCEPT !.live = FALSE] : f \in {f \in inFlight : f.kind = "pix"}}

\* A page just loaded at selection s.
Mount(s) ==
  /\ at' = "booking"
  /\ url' = s
  /\ nav' = None
  /\ page' = FreshPage
  /\ flight' = Outlived(flight)
               \cup {Request(k, s, FreshPage) : k \in {k \in Kinds : Sends(k, s, FreshPage)}}
  /\ posts' = {[q EXCEPT !.live = FALSE] : q \in posts}
  /\ poll' = None
  /\ made' = 0
  /\ lost' = FALSE

\* The tab shows the login page with next = s.
Leave(s) ==
  /\ at' = "login"
  /\ url' = s
  /\ nav' = None
  /\ page' = FreshPage
  /\ flight' = Outlived(flight)
  /\ posts' = {[q EXCEPT !.live = FALSE] : q \in posts}
  /\ poll' = None
  /\ made' = 0
  /\ lost' = FALSE

Go(s) == nav' = [to |-> "booking", sel |-> s]

Init ==
  \E e \in Entries :
    /\ at = "booking" /\ url = e /\ nav = None
    /\ page = FreshPage
    /\ flight = {Request(k, e, FreshPage) : k \in {k \in Kinds : Sends(k, e, FreshPage)}}
    /\ posts = {} /\ poll = None
    /\ signedIn \in BOOLEAN
    /\ appts = <<>> /\ charges = <<>> /\ pay = <<>>
    /\ wasPaid = {} /\ made = 0 /\ lost = FALSE

-----------------------------------------------------------------------------
(* What the steps render, which is what the guest can click. *)

BarbersForRender ==
  IF page.barbers # None /\ page.barbers.service = url.service
  THEN page.barbers ELSE None
BarbersErrorForRender == url.service # None /\ page.barbersError = url.service

\* MUTANT of SlotsForRender: the grid last fetched, whatever date it is for.
SlotsOfLastFetch ==
  IF url.date # None /\ page.slots # None THEN page.slots ELSE None

SlotsForRender ==
  IF url.date # None /\ page.slots # None /\ page.slots.date = url.date
  THEN page.slots ELSE None
SlotsErrorForRender == url.date # None /\ page.slotsError = url.date

Calm == Cardinality({f \in flight : ~f.live}) < MaxStale

Unsent == UNCHANGED <<at, url, page, flight, posts, poll, serverVars, ghostVars>>

PickShop(x) ==
  /\ Step = "tenant" /\ ~page.shopsError /\ page.shops # None
  /\ Go(SelectBarbershop(url, x))
  /\ Unsent

PickService(x) ==
  /\ Step = "services" /\ ~page.servicesError /\ page.services # None
  /\ Go(SelectService(url, x))
  /\ Unsent

PickBarber(x) ==
  /\ Step = "barbers" /\ ~BarbersErrorForRender /\ BarbersForRender # None
  /\ Go(SelectBarber(url, x))
  /\ Unsent

\* An error replaces the whole date-slot step, the date field included.
PickDate(d) ==
  /\ Step = "date-slot" /\ ~SlotsErrorForRender
  /\ d # url.date /\ Calm
  /\ Go(SelectDate(url, d))
  /\ Unsent

\* Which slots of its date a grid offers is up to the server.
PickSlot(x) ==
  /\ Step = "date-slot" /\ ~SlotsErrorForRender
  /\ SlotsForRender # None /\ url.date >= Today /\ Calm
  /\ x[1] = url.date
  /\ Go(SelectSlot(url, x))
  /\ Unsent

\* The Back button is not disabled while a booking is being sent.
Back ==
  /\ Step = "confirm"
  /\ Go(ClearSlot(url))
  /\ Unsent

RetryBarbershops ==
  /\ Step = "tenant" /\ page.shopsError
  /\ Render(url, [page EXCEPT !.shops = None, !.shopsError = FALSE,
                              !.shopsRetry = ~@], flight)
  /\ UNCHANGED <<nav, posts, serverVars, ghostVars>>

RetryPayment ==
  /\ Step = "waiting"
  /\ page.pixError \/ page.result = "timeout"
  /\ Render(url, [page EXCEPT !.result = None, !.pixError = FALSE], flight)
  /\ UNCHANGED <<nav, posts, serverVars, ghostVars>>

\* MUTANT of CanConfirm: the button is not disabled while a booking is sent.
CanAlwaysConfirm == Step = "confirm"

CanConfirm == Step = "confirm" /\ ~page.submitting

HandleConfirm ==
  /\ CanConfirm
  /\ Render(url, [page EXCEPT !.submitting = TRUE, !.confirmError = FALSE], flight)
  /\ posts' = posts \cup {[sel |-> url, live |-> TRUE]}
  /\ UNCHANGED <<nav, serverVars, ghostVars>>

-----------------------------------------------------------------------------
(* The browser. *)

\* State that no later step reads: the payment step is left by a reload only.
Kept(s, p) ==
  IF BookingStepOf(s) = "waiting" /\ Step # "waiting" THEN FreshPage ELSE p

NavigationLands ==
  /\ nav # None /\ nav.to = "booking"
  /\ Render(nav.sel, Kept(nav.sel, page), flight)
  /\ nav' = None
  /\ UNCHANGED <<posts, serverVars, ghostVars>>

\* /login?next=... sends a signed-in visitor straight on to next.
LoginLands ==
  /\ nav # None /\ nav.to = "login"
  /\ IF signedIn THEN Mount(nav.sel) ELSE Leave(nav.sel)
  /\ UNCHANGED <<serverVars, wasPaid>>

SubmitCredentials ==
  /\ at = "login"
  /\ signedIn' = TRUE
  /\ Mount(url)
  /\ UNCHANGED <<appts, charges, pay, wasPaid>>

\* Bound: at most two booking requests in flight.
Reload ==
  /\ at = "booking" /\ Cardinality(posts) < 2
  /\ Mount(url)
  /\ UNCHANGED <<serverVars, wasPaid>>

-----------------------------------------------------------------------------
(* Answers to what the effects asked. *)

\* The page once the answer to f is in.  A grid that loads does not clear the
\* error an earlier request for slots left behind.
Answered(f, ok) ==
  LET slug == f.about[1]  service == f.about[2]  barber == f.about[3]
      date == f.about[4] IN
  CASE f.kind = "shops" /\ ok   -> [page EXCEPT !.shops = Shops, !.shopsError = FALSE]
    [] f.kind = "shops" /\ ~ok  -> [page EXCEPT !.shops = None, !.shopsError = TRUE]
    [] f.kind = "services" /\ ok ->
         [page EXCEPT !.services = [slug |-> slug], !.servicesError = FALSE]
    [] f.kind = "services" /\ ~ok ->
         [page EXCEPT !.services = None, !.servicesError = TRUE]
    [] f.kind = "barbers" /\ ok ->
         [page EXCEPT !.barbers = [slug |-> slug, service |-> service],
                      !.barbersError = None]
    [] f.kind = "barbers" /\ ~ok ->
         [page EXCEPT !.barbers = None, !.barbersError = service]
    [] f.kind = "slots" /\ ok ->
         [page EXCEPT !.slots = [about |-> <<slug, service, barber>>, date |-> date]]
    [] f.kind = "slots" /\ ~ok  -> [page EXCEPT !.slotsError = date]
    [] f.kind = "qr" /\ ok      -> [page EXCEPT !.qr = f.about]
    [] OTHER                    -> page

\* MUTANT of Heard: the cancelled flag is not looked at.
HeardAnyway(f) == TRUE

Heard(f) == f.live

Receive(f, ok) ==
  /\ f \in flight /\ f.kind # "pix"
  /\ IF Heard(f) THEN Render(url, Answered(f, ok), flight \ {f})
     ELSE flight' = flight \ {f} /\ UNCHANGED <<at, url, page, poll>>
  /\ UNCHANGED <<nav, posts, serverVars, ghostVars>>

\* A charge replaces the previous one and sets the payment back to pending.
NewCharge(a) ==
  /\ charges[a] < MaxCharges
  /\ charges' = [charges EXCEPT ![a] = @ + 1]
  /\ pay' = [pay EXCEPT ![a] = "pending"]

\* The server creates the charge, or refuses or fails to; either way the page
\* may be told of a failure.
ReceivePix(f, ok) ==
  /\ f \in flight /\ f.kind = "pix"
  /\ LET a == f.about[5] IN
     \/ /\ signedIn /\ NewCharge(a)
        /\ LET shown == IF ok THEN [page EXCEPT !.pix = <<a, charges[a] + 1>>]
                              ELSE [page EXCEPT !.pixError = TRUE] IN
           Render(url, IF f.live THEN shown ELSE page, flight \ {f})
     \/ /\ ~ok
        /\ Render(url, IF f.live THEN [page EXCEPT !.pixError = TRUE] ELSE page,
                  flight \ {f})
        /\ UNCHANGED <<charges, pay>>
  /\ UNCHANGED <<nav, posts, signedIn, appts, ghostVars>>

\* The status the poll reads: by the charge it knows, which another tab may
\* have replaced; any failure counts as pending.
StatusRead ==
  LET a == poll.charge[1] IN
  {"pending"} \cup IF signedIn /\ charges[a] = poll.charge[2] THEN {pay[a]} ELSE {}

\* MUTANT of ResultOf: whatever is terminal is taken for paid.
ResultAlwaysPaid(view) == "paid"

ResultOf(view) == view

\* MUTANT of Retries: one attempt too many.
RetriesOnce(n) == n <= MaxAttempts

Retries(n) == n < MaxAttempts

PollFetch ==
  /\ poll # None /\ poll.phase = "fetch"
  /\ \E view \in StatusRead :
       IF view \in {"paid", "expired"} \/ ~Retries(poll.attempt)
       THEN Render(url, [page EXCEPT !.result =
                           IF view = "pending" THEN "timeout" ELSE ResultOf(view)], flight)
       ELSE poll' = [poll EXCEPT !.phase = "sleep"] /\ UNCHANGED <<at, url, page, flight>>
  /\ UNCHANGED <<nav, posts, serverVars, ghostVars>>

\* MUTANT of NextAttempt: the loop does not count its attempts.
SameAttempt(n) == n

NextAttempt(n) == n + 1

PollSleep ==
  /\ poll # None /\ poll.phase = "sleep"
  /\ poll' = [poll EXCEPT !.phase = "fetch", !.attempt = NextAttempt(@)]
  /\ UNCHANGED <<at, url, nav, page, flight, posts, serverVars, ghostVars>>

-----------------------------------------------------------------------------
(* POST /api/bookings: the server decides, and the page is told or not. *)

Booking(s) == [service |-> s.service, barber |-> s.barber, slot |-> s.slot]

\* A slot may have been booked by anyone since the grid was read, and cannot be
\* booked again by this guest.
Replies(q) ==
  IF ~signedIn THEN {"SESSION_REQUIRED"}
  ELSE {"SLOT_CONFLICT", "PAST_DATE", "SERVICE_INACTIVE"}
       \cup IF Booking(q.sel) \in {appts[a] : a \in DOMAIN appts} THEN {} ELSE {"CREATED"}

LoginTarget(q) == q.sel

\* MUTANT of PaidFor: adds the booking to what the page shows by then.
PaidForShown(q, a) == [url EXCEPT !.appt = a]

PaidFor(q, a) == [q.sel EXCEPT !.appt = a]

\* The rest of handleConfirm, with the selection it was called with.
Confirmed(q, reply) ==
  LET idle == [page EXCEPT !.submitting = FALSE] IN
  CASE reply = "CREATED" ->
         Go(PaidFor(q, Len(appts) + 1)) /\ UNCHANGED <<at, url, page, flight, poll>>
    [] reply = "SESSION_REQUIRED" ->
         Render(url, idle, flight) /\ nav' = [to |-> "login", sel |-> LoginTarget(q)]
    [] reply \in {"SLOT_CONFLICT", "PAST_DATE"} ->
         Render(url, idle, flight) /\ Go(ClearSlot(q.sel))
    [] OTHER ->
         Render(url, [idle EXCEPT !.confirmError = TRUE], flight) /\ UNCHANGED nav

AnswerBooking(q, reply, arrives) ==
  /\ q \in posts /\ reply \in Replies(q)
  /\ posts' = posts \ {q}
  /\ IF reply = "CREATED"
     THEN /\ appts' = Append(appts, Booking(q.sel))
          /\ charges' = Append(charges, 0)
          /\ pay' = Append(pay, "pending")
     ELSE UNCHANGED <<appts, charges, pay>>
  /\ IF q.live
     THEN /\ Confirmed(q, IF arrives THEN reply ELSE "NETWORK")
          /\ made' = made + (IF reply = "CREATED" THEN 1 ELSE 0)
          /\ lost' = (lost \/ ~arrives)
     ELSE UNCHANGED <<at, url, nav, page, flight, poll, made, lost>>
  /\ UNCHANGED <<signedIn, wasPaid>>

-----------------------------------------------------------------------------
(* The rest of the world. *)

BrowserIdle == UNCHANGED <<browserVars, made, lost>>

SessionEnds ==
  /\ signedIn /\ signedIn' = FALSE
  /\ UNCHANGED <<appts, charges, pay, wasPaid>> /\ BrowserIdle

\* A webhook or the reconciler records the outcome of the current charge.
ChargeSettles(a, status) ==
  /\ charges[a] > 0 /\ pay[a] = "pending"
  /\ pay' = [pay EXCEPT ![a] = status]
  /\ wasPaid' = IF status = "paid" THEN wasPaid \cup {<<a, charges[a]>>} ELSE wasPaid
  /\ UNCHANGED <<signedIn, appts, charges>> /\ BrowserIdle

\* The guest has the payment step of appointment a open in another tab.
OtherTabCreatesPix(a) ==
  /\ signedIn /\ charges[a] > 0 /\ NewCharge(a)
  /\ UNCHANGED <<signedIn, appts, wasPaid>> /\ BrowserIdle

Guest ==
  \/ \E x \in Shops : PickShop(x)
  \/ \E x \in Services : PickService(x)
  \/ \E x \in Barbers : PickBarber(x)
  \/ \E d \in Dates : PickDate(d)
  \/ \E x \in Slots : PickSlot(x)
  \/ Back \/ RetryBarbershops \/ RetryPayment \/ HandleConfirm
  \/ SubmitCredentials \/ Reload

Answers ==
  \E ok \in BOOLEAN, f \in flight : Receive(f, ok) \/ ReceivePix(f, ok)

Next ==
  \/ Guest
  \/ NavigationLands \/ LoginLands
  \/ Answers
  \/ PollFetch \/ PollSleep
  \/ \E q \in posts : \E reply \in Replies(q), arrives \in BOOLEAN :
       AnswerBooking(q, reply, arrives)
  \/ SessionEnds
  \/ \E a \in DOMAIN appts :
       OtherTabCreatesPix(a) \/ \E s \in {"paid", "expired"} : ChargeSettles(a, s)

\* Requests are answered or fail, timers fire, navigations land; guests and
\* the rest of the world do what they like.
Fairness ==
  /\ WF_pageVars(\E ok \in BOOLEAN, f \in {f \in flight : f.live} :
                   Receive(f, ok) \/ ReceivePix(f, ok))
  /\ WF_pageVars(NavigationLands)
  /\ WF_pageVars(PollFetch)
  /\ WF_pageVars(PollSleep)

Spec == Init /\ [][Next]_pageVars /\ Fairness

-----------------------------------------------------------------------------
(* Properties. *)

\* The shape of the state; the poll never makes more attempts than maxAttempts
\* (payment-poll.ts:45).
PageTypeOK ==
  /\ at \in {"booking", "login"} /\ url \in Selection
  /\ nav \in [to : {"booking", "login"}, sel : Selection] \cup {None}
  /\ page \in PageState
  /\ flight \subseteq [kind : Kinds, live : BOOLEAN, about : Named \cup Charge]
  /\ posts \subseteq [sel : Selection, live : BOOLEAN]
  /\ poll \in [charge : Charge, attempt : 1 .. MaxAttempts,
               phase : {"fetch", "sleep"}] \cup {None}
  /\ signedIn \in BOOLEAN
  /\ appts \in Seq([service : Services \cup {None}, barber : Barbers \cup {None},
                    slot : Slots \cup {None}])
  /\ charges \in Seq(Nat) /\ pay \in Seq({"pending", "paid", "expired"})
  /\ Len(charges) = Len(appts) /\ Len(pay) = Len(appts)
  /\ wasPaid \subseteq Charge /\ made \in Nat /\ lost \in BOOLEAN

\* What the guest can click belongs to what the URL says: the services of its
\* shop, the barbers of its service, the grid of its service, barber and date
\* (the C-1 and B-1 guards, booking-flow.tsx:318-365).
ShownBelongsToSelection ==
  /\ Step = "services" /\ page.services # None => page.services.slug = url.slug
  /\ Step = "barbers" /\ BarbersForRender # None => page.barbers.slug = url.slug
  /\ Step = "date-slot" /\ SlotsForRender # None =>
       /\ page.slots.date = url.date
       /\ page.slots.about = <<url.slug, url.service, url.barber>>

\* The appointment in the URL is the one made for the selection beside it,
\* however the guest went back and chose again while it was being booked
\* (handleConfirm, booking-flow.tsx:622-650).
UrlNamesItsBooking ==
  at = "booking" /\ url.appt # None =>
    /\ url.appt \in DOMAIN appts
    /\ appts[url.appt] = Booking(url)

\* One visit books at most once unless an answer was lost: neither the Back
\* button nor a new choice lets a second request out while the first runs
\* (the submitting flag, booking-flow.tsx:271, :624).
OneBookingPerVisit == made > 1 => lost

\* "Pagamento recebido" is shown only for a charge the server recorded as paid
\* (payment-poll.ts:47-50, getPaymentStatusView).
PaidShownWasPaid == page.result = "paid" => page.pix \in wasPaid

\* The payment poll never blocks forever (payment-poll.ts:6-7).
PollEnds == poll # None ~> poll = None

\* The step has nothing to show yet.
Loading ==
  CASE Step = "tenant"    -> page.shops = None /\ ~page.shopsError
    [] Step = "services"  -> page.services = None /\ ~page.servicesError
    [] Step = "barbers"   -> BarbersForRender = None /\ ~BarbersErrorForRender
    [] Step = "date-slot" -> /\ url.date # None /\ url.date >= Today
                             /\ SlotsForRender = None /\ ~SlotsErrorForRender
    [] Step = "waiting"   -> page.pix = None /\ ~page.pixError
    [] OTHER              -> FALSE

\* No step waits for an answer nobody will give: whatever was cancelled, lost
\* or answered late, a step that shows "loading" has a request of its own in
\* flight (the dependencies and cancelled flags of the effects,
\* booking-flow.tsx:429-575).
LoadingIsAnswered ==
  Loading => \E f \in flight :
    /\ f.live
    /\ f.kind = CASE Step = "tenant"    -> "shops"
                  [] Step = "date-slot" -> "slots"
                  [] Step = "waiting"   -> "pix"
                  [] OTHER              -> Step
    /\ f.about = <<url.slug, url.service, url.barber, url.date, url.appt>>

=============================================================================
