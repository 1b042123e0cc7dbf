--------------------------- MODULE BookingPageProofs ---------------------------
(***************************************************************************)
(* Theorems about BookingPage for every set of shops, services, barbers,   *)
(* dates and hours, and without its bounds: any number of polls, charges,  *)
(* cancelled requests and booking requests of earlier visits.              *)
(***************************************************************************)
EXTENDS BookingPage, SequenceTheorems, TLAPS

-----------------------------------------------------------------------------
(* Selections. *)

\* The steps in which shop, service and barber are chosen for good.
Choosing(s) == BookingStepOf(s) \in {"date-slot", "confirm"}

SameChair(s, t) ==
  s.slug = t.slug /\ s.service = t.service /\ s.barber = t.barber

\* What a click may select where the page shows u.
Follows(u, s) ==
  \/ BookingStepOf(u) = "tenant" /\ \E x \in Shops : s = SelectBarbershop(u, x)
  \/ BookingStepOf(u) = "services" /\ \E x \in Services : s = SelectService(u, x)
  \/ BookingStepOf(u) = "barbers" /\ \E x \in Barbers : s = SelectBarber(u, x)
  \/ Choosing(u) /\ SameChair(s, u)

LEMMA Steps ==
  ASSUME NEW s \in Selection
  PROVE  /\ BookingStepOf(s) = "waiting" <=> s.appt # None
         /\ BookingStepOf(s) = "tenant" <=> s.appt = None /\ s.slug = None
         /\ BookingStepOf(s) = "services" <=>
              s.appt = None /\ s.slug # None /\ s.service = None
         /\ BookingStepOf(s) = "barbers" <=>
              s.appt = None /\ s.slug # None /\ s.service # None /\ s.barber = None
         /\ Choosing(s) <=>
              s.appt = None /\ s.slug # None /\ s.service # None /\ s.barber # None
         /\ BookingStepOf(s) = "date-slot" => s.date = None \/ s.slot = None
         /\ BookingStepOf(s) = "confirm" => Choosing(s)
         /\ BookingStepOf(s) = "date-slot" => Choosing(s)
BY DEF BookingStepOf, Choosing

LEMMA SelectionFields ==
  ASSUME NEW s \in Selection
  PROVE  /\ s.slug \in Shops \cup {None} /\ s.service \in Services \cup {None}
         /\ s.barber \in Barbers \cup {None} /\ s.date \in Dates \cup {None}
         /\ s.slot \in Slots \cup {None} /\ s.appt \in Nat \cup {None}
         /\ <<s.slug, s.service, s.barber, s.date, s.appt>> \in Named
BY DEF Selection, Named

\* Where clicks and answers lead.
LEMMA Selections ==
  ASSUME NEW s \in Selection
  PROVE  /\ \A x \in Shops : SelectBarbershop(s, x) \in Selection
         /\ \A x \in Services : SelectService(s, x) \in Selection
         /\ \A x \in Barbers : SelectBarber(s, x) \in Selection
         /\ \A x \in Dates : SelectDate(s, x) \in Selection
         /\ \A x \in Slots : SelectSlot(s, x) \in Selection
         /\ ClearSlot(s) \in Selection
         /\ \A a \in Nat : [s EXCEPT !.appt = a] \in Selection
BY DEF Selection, SelectBarbershop, SelectService, SelectBarber, SelectDate, SelectSlot, ClearSlot

LEMMA ChairsKept ==
  ASSUME NEW s \in Selection
  PROVE  /\ \A x \in Dates : SameChair(SelectDate(s, x), s) /\ SelectDate(s, x).appt = s.appt
         /\ \A x \in Slots : SameChair(SelectSlot(s, x), s) /\ SelectSlot(s, x).appt = s.appt
         /\ SameChair(ClearSlot(s), s) /\ ClearSlot(s).appt = s.appt
         /\ \A a \in Nat : LET t == [s EXCEPT !.appt = a] IN
              SameChair(t, s) /\ t.appt = a /\ Booking(t) = Booking(s)
BY DEF Selection, SelectDate, SelectSlot, ClearSlot, SameChair, Booking

LEMMA ChairsChosen ==
  ASSUME NEW s \in Selection
  PROVE  /\ \A x \in Shops : SelectBarbershop(s, x).appt = None
         /\ \A x \in Services : SelectService(s, x).appt = s.appt
         /\ \A x \in Barbers : SelectBarber(s, x).appt = s.appt
BY DEF Selection, SelectBarbershop, SelectService, SelectBarber

\* A click leads on: to another step, or to another date or slot of the same chair.
LEMMA FollowsLeads ==
  ASSUME NEW u \in Selection, NEW s \in Selection, Follows(u, s)
  PROVE  /\ u.appt = None
         /\ BookingStepOf(s) # "tenant"
         /\ BookingStepOf(s) = BookingStepOf(u) => Choosing(u) /\ SameChair(s, u)
         /\ u.slug # None => s.slug = u.slug
         /\ u.slug # None /\ u.service # None => s.service = u.service
         /\ Choosing(u) => SameChair(s, u)
<1> USE BookingPageAssumption
<1>1. CASE BookingStepOf(u) = "tenant" /\ \E x \in Shops : s = SelectBarbershop(u, x)
  <2>1. PICK x \in Shops : s = SelectBarbershop(u, x)
    BY <1>1
  <2>2. s.slug = x /\ s.service = None /\ s.appt = None /\ x # None
    BY <2>1 DEF SelectBarbershop
  <2>3. BookingStepOf(s) = "services" /\ u.appt = None /\ u.slug = None
    BY <1>1, <2>2, Steps
  <2>4. QED
    BY <1>1, <2>3, Steps
<1>2. CASE BookingStepOf(u) = "services" /\ \E x \in Services : s = SelectService(u, x)
  <2>1. PICK x \in Services : s = SelectService(u, x)
    BY <1>2
  <2>2. u.appt = None /\ u.slug # None /\ u.service = None
    BY <1>2, Steps
  <2>3. /\ s.slug = u.slug /\ s.service = x /\ s.barber = None
        /\ s.appt = u.appt /\ x # None
    BY <2>1 DEF SelectService, Selection
  <2>4. BookingStepOf(s) = "barbers"
    BY <2>2, <2>3, Steps
  <2>5. QED
    BY <1>2, <2>2, <2>3, <2>4, Steps
<1>3. CASE BookingStepOf(u) = "barbers" /\ \E x \in Barbers : s = SelectBarber(u, x)
  <2>1. PICK x \in Barbers : s = SelectBarber(u, x)
    BY <1>3
  <2>2. u.appt = None /\ u.slug # None /\ u.service # None /\ u.barber = None
    BY <1>3, Steps
  <2>3. /\ s.slug = u.slug /\ s.service = u.service /\ s.barber = x
        /\ s.appt = u.appt /\ x # None
    BY <2>1 DEF SelectBarber, Selection
  <2>4. Choosing(s)
    BY <2>2, <2>3, Steps
  <2>5. QED
    BY <1>3, <2>2, <2>3, <2>4, Steps DEF Choosing
<1>4. CASE Choosing(u) /\ SameChair(s, u)
  BY <1>4, Steps DEF SameChair
<1>5. QED
  BY <1>1, <1>2, <1>3, <1>4 DEF Follows

-----------------------------------------------------------------------------
(* Effects and their requests. *)

LEMMA FreshTyped == FreshPage \in PageState
BY DEF FreshPage, PageState

\* Whether an effect sends depends on what the effect depends on.
LEMMA SendsByDeps ==
  ASSUME NEW k \in Kinds, NEW s, NEW p \in PageState, NEW t, NEW q \in PageState,
         Deps(k, s, p) = Deps(k, t, q)
  PROVE  Sends(k, s, p) = Sends(k, t, q)
<1>1. CASE k = "shops"
  BY <1>1 DEF Deps, Sends
<1>2. CASE k = "services"
  BY <1>2 DEF Deps, Sends
<1>3. CASE k = "barbers"
  BY <1>3 DEF Deps, Sends
<1>4. CASE k = "slots"
  BY <1>4 DEF Deps, Sends, SlotsFetchParams
<1>5. CASE k = "pix"
  BY <1>5 DEF Deps, Sends, PageState
<1>6. CASE k = "qr"
  BY <1>6 DEF Deps, Sends
<1>7. QED
  BY <1>1, <1>2, <1>3, <1>4, <1>5, <1>6 DEF Kinds

\* What a request is about.
About(k, s, p) == Request(k, s, p).about

\* The same selection, or one a click leads to, and the same dependencies: the
\* same request.
LEMMA AboutByDeps ==
  ASSUME NEW k \in Kinds, NEW u \in Selection, NEW s \in Selection, s = u \/ Follows(u, s),
         NEW p \in PageState, NEW q \in PageState,
         Deps(k, u, p) = Deps(k, s, q), Sends(k, u, p)
  PROVE  About(k, u, p) = About(k, s, q)
<1>1. CASE k = "qr"
  BY <1>1 DEF Deps, About, Request
<1>2. CASE k # "qr" /\ s = u
  BY <1>2 DEF About, Request
<1>3. CASE k # "qr" /\ Follows(u, s)
  <2>1. BookingStepOf(u) = BookingStepOf(s)
    BY <1>3 DEF Deps, Kinds
  <2>2. Choosing(u) /\ SameChair(s, u)
    BY <1>3, <2>1, FollowsLeads
  <2>3. BookingStepOf(u) \notin {"tenant", "services", "barbers", "waiting"}
    BY <2>2 DEF Choosing
  <2>4. k = "slots"
    BY <1>3, <2>3 DEF Sends, Kinds
  <2>5. u.date = s.date
    BY <2>4 DEF Deps
  <2>6. u.appt = None /\ s.appt = None
    BY <2>1, <2>2, Steps DEF Choosing
  <2>7. QED
    BY <1>3, <2>2, <2>5, <2>6 DEF SameChair, About, Request
<1>4. QED
  BY <1>1, <1>2, <1>3

FlightTyped(fl) ==
  /\ fl \subseteq [kind : Kinds, live : BOOLEAN, about : Named \cup Charge]
  /\ \A f \in fl : f.kind # "qr" => f.about \in Named

LEMMA EffectsTyped ==
  ASSUME NEW s \in Selection, NEW p \in PageState, NEW inFlight, FlightTyped(inFlight)
  PROVE  /\ FlightTyped(AfterEffects(s, p, inFlight))
         /\ \A f \in AfterEffects(s, p, inFlight) :
              \/ \E g \in inFlight : g.kind = f.kind /\ g.about = f.about
              \/ f.kind \in Kinds /\ Sends(f.kind, s, p) /\ f.about = About(f.kind, s, p)
<1> SUFFICES ASSUME NEW f \in AfterEffects(s, p, inFlight)
             PROVE  /\ f \in [kind : Kinds, live : BOOLEAN, about : Named \cup Charge]
                    /\ f.kind # "qr" => f.about \in Named
                    /\ \/ \E g \in inFlight : g.kind = f.kind /\ g.about = f.about
                       \/ /\ f.kind \in Kinds /\ Sends(f.kind, s, p)
                          /\ f.about = About(f.kind, s, p)
  BY DEF FlightTyped
<1>1. CASE \E g \in inFlight :
             f = [g EXCEPT !.live = g.live /\ Deps(g.kind, url, page) = Deps(g.kind, s, p)]
  <2>1. PICK g \in inFlight :
          f = [g EXCEPT !.live = g.live /\ Deps(g.kind, url, page) = Deps(g.kind, s, p)]
    BY <1>1
  <2>2. g \in [kind : Kinds, live : BOOLEAN, about : Named \cup Charge]
        /\ (g.kind # "qr" => g.about \in Named)
    BY DEF FlightTyped
  <2>3. (g.live /\ Deps(g.kind, url, page) = Deps(g.kind, s, p)) \in BOOLEAN
    OBVIOUS
  <2>4. QED
    BY <2>1, <2>2, <2>3
<1>2. CASE \E k \in Kinds : Sends(k, s, p) /\ f = Request(k, s, p)
  <2>1. PICK k \in Kinds : Sends(k, s, p) /\ f = Request(k, s, p)
    BY <1>2
  <2>2. f = [kind |-> k, live |-> TRUE, about |-> About(k, s, p)]
    BY <2>1 DEF About, Request
  <2>3. k = "qr" => About(k, s, p) \in Charge
    BY <2>1 DEF Sends, PageState, About, Request
  <2>4. k # "qr" => About(k, s, p) \in Named
    BY SelectionFields DEF About, Request
  <2>5. QED
    BY <2>1, <2>2, <2>3, <2>4
<1>3. QED
  BY <1>1, <1>2 DEF AfterEffects

\* A request the page still waits for was waited for before, or has just gone out.
LEMMA EffectsLive ==
  ASSUME NEW s \in Selection, NEW p \in PageState, NEW inFlight, FlightTyped(inFlight),
         NEW f \in AfterEffects(s, p, inFlight), f.live
  PROVE  \/ f \in inFlight /\ Deps(f.kind, url, page) = Deps(f.kind, s, p)
         \/ \E k \in Kinds : /\ f = Request(k, s, p) /\ Sends(k, s, p)
                             /\ Deps(k, url, page) # Deps(k, s, p)
<1>1. CASE \E g \in inFlight :
             f = [g EXCEPT !.live = g.live /\ Deps(g.kind, url, page) = Deps(g.kind, s, p)]
  <2>1. PICK g \in inFlight :
          f = [g EXCEPT !.live = g.live /\ Deps(g.kind, url, page) = Deps(g.kind, s, p)]
    BY <1>1
  <2>2. g \in [kind : Kinds, live : BOOLEAN, about : Named \cup Charge]
    BY DEF FlightTyped
  <2>3. f.live = (g.live /\ Deps(g.kind, url, page) = Deps(g.kind, s, p))
        /\ f.kind = g.kind /\ f.about = g.about
        /\ f = [kind |-> f.kind, live |-> f.live, about |-> f.about]
        /\ g = [kind |-> g.kind, live |-> g.live, about |-> g.about]
    BY <2>1, <2>2
  <2>4. Deps(g.kind, url, page) = Deps(g.kind, s, p) /\ g.live
    BY <2>3
  <2>5. f.live = g.live
    BY <2>2, <2>3, <2>4
  <2>6. QED
    BY <2>3, <2>4, <2>5
<1>2. CASE \E k \in Kinds : /\ f = Request(k, s, p) /\ Sends(k, s, p)
                            /\ Deps(k, url, page) # Deps(k, s, p)
  BY <1>2
<1>3. QED
  BY <1>1, <1>2 DEF AfterEffects

\* And what it waits for with the same dependencies it goes on waiting for.
LEMMA EffectsKeep ==
  ASSUME NEW s \in Selection, NEW p \in PageState, NEW inFlight, FlightTyped(inFlight),
         NEW f \in inFlight, f.live, Deps(f.kind, url, page) = Deps(f.kind, s, p)
  PROVE  f \in AfterEffects(s, p, inFlight)
<1> DEFINE g == [f EXCEPT !.live = f.live /\ Deps(f.kind, url, page) = Deps(f.kind, s, p)]
<1>1. f \in [kind : Kinds, live : BOOLEAN, about : Named \cup Charge]
  BY DEF FlightTyped
<1>2. (f.live /\ Deps(f.kind, url, page) = Deps(f.kind, s, p)) = f.live
  BY <1>1
<1>3. g = f
  BY <1>1, <1>2
<1>4. QED
  BY <1>3 DEF AfterEffects

LEMMA EffectsSend ==
  ASSUME NEW s, NEW p, NEW inFlight, NEW k \in Kinds,
         Deps(k, url, page) # Deps(k, s, p), Sends(k, s, p)
  PROVE  Request(k, s, p) \in AfterEffects(s, p, inFlight)
BY DEF AfterEffects

-----------------------------------------------------------------------------
(* The inductive invariant. *)

\* The types, of the browser and of the server.
BrowserTyped ==
  /\ at \in {"booking", "login"} /\ url \in Selection
  /\ nav \in [to : {"booking", "login"}, sel : Selection] \cup {None}
  /\ page \in PageState
  /\ FlightTyped(flight)
  /\ posts \subseteq [sel : Selection, live : BOOLEAN]
  /\ poll \in [charge : Charge, attempt : 1 .. MaxAttempts,
               phase : {"fetch", "sleep"}] \cup {None}

Bookings ==
  [service : Services \cup {None}, barber : Barbers \cup {None}, slot : Slots \cup {None}]

ServerTyped ==
  /\ signedIn \in BOOLEAN
  /\ appts \in Seq(Bookings)
  /\ charges \in Seq(Nat) /\ pay \in Seq({"pending", "paid", "expired"})
  /\ Len(charges) = Len(appts) /\ Len(pay) = Len(appts)
  /\ wasPaid \subseteq Charge /\ made \in Nat /\ lost \in BOOLEAN

\* A navigation under way leads on from what is shown; the login page and the
\* payment step are left by a load only.
NavigationFollows ==
  /\ nav # None =>
       /\ at = "booking"
       /\ nav.to = "booking" => Follows(url, nav.sel)
       /\ nav.to = "login" => Choosing(url) /\ nav.sel.appt = None
  /\ at = "login" => nav = None /\ page = FreshPage /\ poll = None /\ url.appt = None

\* Selections name bookings that were made for them.
NamesItsBooking(s, as) ==
  s.appt # None => s.appt \in 1 .. Len(as) /\ as[s.appt] = Booking(s)

SelectionsNameBookings ==
  /\ NamesItsBooking(url, appts)
  /\ nav # None => NamesItsBooking(nav.sel, appts)
  /\ \A q \in posts : q.sel.appt = None

\* At most one booking request of this visit is under way; the page knows.
OneRequest ==
  /\ \A q \in posts : q.live =>
       /\ at = "booking" /\ Choosing(url) /\ SameChair(q.sel, url) /\ page.submitting
       /\ nav # None => nav.sel.appt = None
  /\ \A q, r \in posts : q.live /\ r.live => q = r

\* A booking was made: no further one can be sent.
Done(u, p, ps) ==
  /\ p.submitting \/ BookingStepOf(u) = "waiting"
  /\ \A q \in ps : ~ q.live

VisitCounts ==
  /\ made > 0 => at = "booking"
  /\ ~ lost /\ made > 0 => made = 1 /\ Done(url, page, posts)
  /\ nav # None /\ nav.sel.appt # None => Done(url, page, posts)

\* What was loaded was loaded for what is selected.
ListsMatch(u, p) ==
  /\ p.services # None => u.slug # None /\ p.services.slug = u.slug
  /\ p.barbers # None =>
       u.slug # None /\ u.service # None /\ p.barbers.slug = u.slug
  /\ p.slots # None =>
       /\ u.slug # None /\ u.service # None /\ u.barber # None
       /\ p.slots.about = <<u.slug, u.service, u.barber>>

\* The page has neither data nor an error for what the effect k loads.
Unanswered(k, u, p) ==
  \/ k = "shops" /\ p.shops = None /\ ~ p.shopsError
  \/ k = "services" /\ p.services = None /\ ~ p.servicesError
  \/ /\ k = "barbers"
     /\ ~ (p.barbers # None /\ p.barbers.service = u.service)
     /\ ~ (u.service # None /\ p.barbersError = u.service)
  \/ /\ k = "slots"
     /\ ~ (u.date # None /\ p.slots # None /\ p.slots.date = u.date)
     /\ ~ (u.date # None /\ p.slotsError = u.date)
  \/ k = "pix"

\* The requests a page at selection u waits for are those it would send now, and
\* what it has no answer to is on its way.
Waits(a, u, p, fl) ==
  /\ \A f \in fl : f.live =>
       a = "booking" /\ Sends(f.kind, u, p) /\ f.about = About(f.kind, u, p)
  /\ a = "booking" =>
       \A k \in Kinds : Sends(k, u, p) /\ Unanswered(k, u, p) => Request(k, u, p) \in fl

FlightMatches ==
  /\ Waits(at, url, page, flight)
  /\ \A f \in flight : f.kind = "pix" => f.about[5] \in 1 .. Len(appts)

\* What is shown as paid was paid; the poll is about the charge shown.
PaymentShown(p, po, wp) ==
  /\ p.result # None => p.pix # None
  /\ p.result = "paid" => p.pix \in wp
  /\ po # None =>
       /\ p.pix # None /\ p.result = None /\ po.charge = p.pix
       /\ po.phase = "sleep" => po.attempt < MaxAttempts

PaymentsSound ==
  /\ \A a \in 1 .. Len(appts) : pay[a] = "paid" => <<a, charges[a]>> \in wasPaid
  /\ page.pix # None => page.pix[1] \in 1 .. Len(appts)
  /\ PaymentShown(page, poll, wasPaid)

PageInv ==
  /\ BrowserTyped /\ ServerTyped
  /\ NavigationFollows /\ SelectionsNameBookings
  /\ OneRequest /\ VisitCounts
  /\ ListsMatch(url, page) /\ FlightMatches /\ PaymentsSound

-----------------------------------------------------------------------------
(* The page draws itself again: what a render keeps of the invariant. *)

LEMMA RenderTyped ==
  ASSUME BrowserTyped, NEW s \in Selection, NEW p \in PageState, NEW inFlight,
         inFlight \subseteq flight, Render(s, p, inFlight)
  PROVE  /\ at' = at /\ url' \in Selection /\ page' \in PageState
         /\ FlightTyped(flight')
         /\ poll' \in [charge : Charge, attempt : 1 .. MaxAttempts,
                       phase : {"fetch", "sleep"}] \cup {None}
<1>1. at' = at /\ url' \in Selection /\ page' \in PageState
  BY DEF Render
<1>2. FlightTyped(inFlight)
  BY DEF BrowserTyped, FlightTyped
<1>3. FlightTyped(flight')
  BY <1>2, EffectsTyped DEF Render
<1>4. PollOf(p) \in [charge : Charge, attempt : 1 .. MaxAttempts,
                     phase : {"fetch", "sleep"}] \cup {None}
  BY BookingPageAssumption DEF PollOf, PageState
<1>5. poll' \in [charge : Charge, attempt : 1 .. MaxAttempts,
                 phase : {"fetch", "sleep"}] \cup {None}
  BY <1>4 DEF Render, AfterPollEffect, BrowserTyped
<1>6. QED
  BY <1>1, <1>3, <1>5

\* What has no answer yet and is asked for with the same dependencies is among
\* the requests the render has not just answered.
Unheard(s, p, inFlight) ==
  \A k \in Kinds :
    Sends(k, s, p) /\ Unanswered(k, s, p) /\ Deps(k, url, page) = Deps(k, s, p) =>
      Request(k, url, page) \in inFlight

LEMMA RenderWaits ==
  ASSUME PageInv, NEW s \in Selection, s = url \/ Follows(url, s),
         NEW p \in PageState, NEW inFlight, inFlight \subseteq flight,
         Render(s, p, inFlight),
         at = "booking" \/ (s = url /\ p = page),
         at = "booking" => Unheard(s, p, inFlight)
  PROVE  Waits(at', url', page', flight')
<1>1. /\ url \in Selection /\ page \in PageState /\ FlightTyped(inFlight)
      /\ Waits(at, url, page, flight)
  BY DEF PageInv, BrowserTyped, FlightTyped, FlightMatches
<1>2. /\ at' = at /\ url' = s /\ page' = p
      /\ flight' = AfterEffects(s, p, inFlight)
  BY DEF Render
<1>3. ASSUME NEW f \in AfterEffects(s, p, inFlight), f.live
      PROVE  at = "booking" /\ Sends(f.kind, s, p) /\ f.about = About(f.kind, s, p)
  <2>1. CASE f \in inFlight /\ Deps(f.kind, url, page) = Deps(f.kind, s, p)
    <3>1. at = "booking" /\ Sends(f.kind, url, page) /\ f.about = About(f.kind, url, page)
      BY <1>1, <1>3, <2>1 DEF Waits
    <3>2. f.kind \in Kinds
      BY <1>1, <2>1 DEF FlightTyped
    <3>3. Sends(f.kind, s, p)
      BY <1>1, <2>1, <3>1, <3>2, SendsByDeps
    <3>4. About(f.kind, url, page) = About(f.kind, s, p)
      BY <1>1, <2>1, <3>1, <3>2, AboutByDeps
    <3>5. QED
      BY <3>1, <3>3, <3>4
  <2>2. CASE \E k \in Kinds : /\ f = Request(k, s, p) /\ Sends(k, s, p)
                              /\ Deps(k, url, page) # Deps(k, s, p)
    <3>1. PICK k \in Kinds : /\ f = Request(k, s, p) /\ Sends(k, s, p)
                             /\ Deps(k, url, page) # Deps(k, s, p)
      BY <2>2
    <3>2. f.kind = k /\ f.about = About(k, s, p)
      BY <3>1 DEF Request, About
    <3>3. ~ (s = url /\ p = page)
      BY <3>1
    <3>4. QED
      BY <3>1, <3>2, <3>3
  <2>3. QED
    BY <1>1, <1>3, <2>1, <2>2, EffectsLive
<1>4. ASSUME at = "booking", NEW k \in Kinds, Sends(k, s, p), Unanswered(k, s, p)
      PROVE  Request(k, s, p) \in AfterEffects(s, p, inFlight)
  <2>1. CASE Deps(k, url, page) # Deps(k, s, p)
    BY <1>4, <2>1, EffectsSend
  <2>2. CASE Deps(k, url, page) = Deps(k, s, p)
    <3>1. Request(k, url, page) \in inFlight
      BY <1>4, <2>2 DEF Unheard
    <3>2. Sends(k, url, page)
      BY <1>1, <1>4, <2>2, SendsByDeps
    <3>3. About(k, url, page) = About(k, s, p)
      BY <1>1, <2>2, <3>2, AboutByDeps
    <3>4. Request(k, url, page) = Request(k, s, p)
      BY <3>3 DEF About, Request
    <3>5. Request(k, s, p).live /\ Request(k, s, p).kind = k
      BY DEF Request
    <3>6. QED
      BY <1>1, <2>2, <3>1, <3>4, <3>5, EffectsKeep
  <2>3. QED
    BY <2>1, <2>2
<1>5. Waits(at, s, p, AfterEffects(s, p, inFlight))
  BY <1>3, <1>4 DEF Waits
<1>6. QED
  BY <1>2, <1>5

\* Charges asked for belong to bookings, of this visit or an earlier one.
LEMMA RenderAsks ==
  ASSUME PageInv, NEW s \in Selection, NamesItsBooking(s, appts),
         NEW p \in PageState, NEW inFlight, inFlight \subseteq flight,
         Render(s, p, inFlight), appts' \in Seq(Bookings), Len(appts) <= Len(appts')
  PROVE  \A f \in flight' : f.kind = "pix" => f.about[5] \in 1 .. Len(appts')
<1>1. FlightTyped(inFlight) /\ flight' = AfterEffects(s, p, inFlight)
  BY DEF PageInv, BrowserTyped, FlightTyped, Render
<1>2. /\ \A f \in inFlight : f.kind = "pix" => f.about[5] \in 1 .. Len(appts)
      /\ appts \in Seq(Bookings)
  BY DEF PageInv, FlightMatches, ServerTyped
<1>3. Len(appts) \in Nat /\ Len(appts') \in Nat
  BY <1>2
<1>4. SUFFICES ASSUME NEW f \in AfterEffects(s, p, inFlight), f.kind = "pix"
               PROVE  f.about[5] \in 1 .. Len(appts)
  BY <1>1, <1>3
<1>5. CASE \E g \in inFlight : g.kind = f.kind /\ g.about = f.about
  BY <1>2, <1>4, <1>5
<1>6. CASE Sends(f.kind, s, p) /\ f.about = About(f.kind, s, p)
  <2>1. BookingStepOf(s) = "waiting"
    BY <1>4, <1>6 DEF Sends
  <2>2. s.appt \in 1 .. Len(appts)
    BY <2>1, Steps DEF NamesItsBooking
  <2>3. f.about[5] = s.appt
    BY <1>4, <1>6 DEF About, Request
  <2>4. QED
    BY <2>2, <2>3
<1>7. QED
  BY <1>1, <1>5, <1>6, EffectsTyped

LEMMA RenderPays ==
  ASSUME PageInv, NEW s, NEW p \in PageState, NEW inFlight, Render(s, p, inFlight),
         p.result # None => p.pix # None,
         p.result = "paid" => p.pix \in wasPaid'
  PROVE  PaymentShown(page', poll', wasPaid')
<1>1. page' = p /\ poll' = AfterPollEffect(p)
  BY DEF Render
<1>2. PaymentShown(page, poll, wasPaid)
  BY DEF PageInv, PaymentsSound
<1>3. CASE page.pix = p.pix /\ page.result = p.result
  BY <1>1, <1>2, <1>3 DEF AfterPollEffect, PaymentShown
<1>4. CASE ~ (page.pix = p.pix /\ page.result = p.result)
  <2>1. poll' = PollOf(p)
    BY <1>1, <1>4 DEF AfterPollEffect
  <2>2. PollOf(p) # None =>
          /\ p.pix # None /\ p.result = None /\ PollOf(p).charge = p.pix
          /\ PollOf(p).phase = "fetch"
    BY DEF PollOf
  <2>3. QED
    BY <1>1, <2>1, <2>2 DEF PaymentShown
<1>5. QED
  BY <1>3, <1>4

-----------------------------------------------------------------------------
(* Which views leave nothing unheard. *)

\* p holds what the page holds of lists and errors, or asks for the shops again.
SameLists(p) ==
  /\ p.shopsRetry = page.shopsRetry =>
       p.shops = page.shops /\ p.shopsError = page.shopsError
  /\ p.services = page.services /\ p.servicesError = page.servicesError
  /\ p.barbers = page.barbers /\ p.barbersError = page.barbersError
  /\ p.slots = page.slots /\ p.slotsError = page.slotsError

LEMMA SameListsMatch ==
  ASSUME NEW p, SameLists(p), ListsMatch(url, page)
  PROVE  ListsMatch(url, p)
BY DEF SameLists, ListsMatch

LEMMA KeptUnheard ==
  ASSUME PageInv, at = "booking", NEW s \in Selection, NEW p \in PageState, SameLists(p)
  PROVE  Unheard(s, p, flight)
<1>1. /\ url \in Selection /\ page \in PageState
      /\ \A k \in Kinds : Sends(k, url, page) /\ Unanswered(k, url, page) =>
           Request(k, url, page) \in flight
  BY DEF PageInv, BrowserTyped, FlightMatches, Waits
<1>2. SUFFICES ASSUME NEW k \in Kinds, Sends(k, s, p), Unanswered(k, s, p),
                      Deps(k, url, page) = Deps(k, s, p)
               PROVE  Unanswered(k, url, page)
  BY <1>1, SendsByDeps DEF Unheard
<1>3. CASE k = "shops"
  BY <1>2, <1>3 DEF Unanswered, SameLists, Deps
<1>4. CASE k = "services"
  BY <1>2, <1>4 DEF Unanswered, SameLists
<1>5. CASE k = "barbers"
  BY <1>2, <1>5 DEF Unanswered, SameLists, Deps
<1>6. CASE k = "slots"
  BY <1>2, <1>6 DEF Unanswered, SameLists, Deps
<1>7. CASE k \in {"pix", "qr"}
  BY <1>2, <1>7 DEF Unanswered
<1>8. QED
  BY <1>3, <1>4, <1>5, <1>6, <1>7 DEF Kinds

\* A request leaves the flight answered: nothing else goes unheard with it.
LEMMA OthersUnheard ==
  ASSUME PageInv, at = "booking", NEW f \in flight, NEW p \in PageState,
         \A k \in Kinds \ {f.kind} : Unanswered(k, url, p) => Unanswered(k, url, page),
         Sends(f.kind, url, p) => ~ Unanswered(f.kind, url, p)
  PROVE  Unheard(url, p, flight \ {f})
<1>1. /\ url \in Selection /\ page \in PageState
      /\ \A k \in Kinds : Sends(k, url, page) /\ Unanswered(k, url, page) =>
           Request(k, url, page) \in flight
  BY DEF PageInv, BrowserTyped, FlightMatches, Waits
<1>2. SUFFICES ASSUME NEW k \in Kinds, Sends(k, url, p), Unanswered(k, url, p),
                      Deps(k, url, page) = Deps(k, url, p)
               PROVE  Request(k, url, page) \in flight \ {f}
  BY DEF Unheard
<1>3. k # f.kind
  BY <1>2
<1>4. Request(k, url, page) \in flight
  BY <1>1, <1>2, <1>3, SendsByDeps
<1>5. Request(k, url, page).kind = k
  BY DEF Request
<1>6. QED
  BY <1>3, <1>4, <1>5

\* Nothing is unheard when an answer nobody waits for comes in.
LEMMA StaleUnheard ==
  ASSUME PageInv, at = "booking", NEW f \in flight, ~ f.live
  PROVE  Unheard(url, page, flight \ {f})
<1>1. \A k \in Kinds : Sends(k, url, page) /\ Unanswered(k, url, page) =>
        Request(k, url, page) \in flight
  BY DEF PageInv, FlightMatches, Waits
<1>2. \A k \in Kinds : Request(k, url, page).live
  BY DEF Request
<1>3. QED
  BY <1>1, <1>2 DEF Unheard

\* The answer to a request the page waits for.
LEMMA AnsweredView ==
  ASSUME PageInv, NEW f \in flight, f.live, f.kind # "pix", NEW ok \in BOOLEAN
  PROVE  LET p == Answered(f, ok) IN
         /\ p \in PageState
         /\ p.pix = page.pix /\ p.result = page.result /\ p.submitting = page.submitting
         /\ ListsMatch(url, p)
         /\ \A k \in Kinds \ {f.kind} : Unanswered(k, url, p) => Unanswered(k, url, page)
         /\ ~ Unanswered(f.kind, url, p)
<1> USE BookingPageAssumption
<1>1. /\ f.kind \in Kinds /\ url \in Selection /\ page \in PageState
      /\ Sends(f.kind, url, page) /\ f.about = About(f.kind, url, page)
      /\ ListsMatch(url, page)
  BY DEF PageInv, BrowserTyped, FlightTyped, FlightMatches, Waits
<1>2. /\ url.slug \in Shops \cup {None} /\ url.service \in Services \cup {None}
      /\ url.barber \in Barbers \cup {None} /\ url.date \in Dates \cup {None}
  BY <1>1, SelectionFields
<1>3. f.kind # "qr" => f.about = <<url.slug, url.service, url.barber, url.date, url.appt>>
  BY <1>1 DEF About, Request
<1> DEFINE p == Answered(f, ok)
<1>4. CASE f.kind = "shops"
  <2>1. p = IF ok THEN [page EXCEPT !.shops = Shops, !.shopsError = FALSE]
                  ELSE [page EXCEPT !.shops = None, !.shopsError = TRUE]
    BY <1>4 DEF Answered
  <2> HIDE DEF p
  <2>2. p \in PageState
    <3>1. CASE ok
      <4>1. p = [page EXCEPT !.shops = Shops, !.shopsError = FALSE]
        BY <2>1, <3>1
      <4>2. Shops \in {None, Shops}
        OBVIOUS
      <4>3. QED
        BY <1>1, <4>1, <4>2 DEF PageState
    <3>2. CASE ~ ok
      <4> DEFINE t == TRUE
      <4>1. t \in BOOLEAN /\ p = [page EXCEPT !.shops = None, !.shopsError = t]
        BY <2>1, <3>2
      <4> HIDE DEF t
      <4>2. QED
        BY <1>1, <4>1 DEF PageState
    <3>3. QED
      BY <3>1, <3>2
  <2>3. /\ p.pix = page.pix /\ p.result = page.result /\ p.submitting = page.submitting
        /\ p.services = page.services /\ p.servicesError = page.servicesError
        /\ p.barbers = page.barbers /\ p.barbersError = page.barbersError
        /\ p.slots = page.slots /\ p.slotsError = page.slotsError
    BY <1>1, <2>1 DEF PageState
  <2>4. ~ (p.shops = None /\ ~ p.shopsError)
    <3>1. CASE ok
      BY <1>1, <2>1, <3>1 DEF PageState
    <3>2. CASE ~ ok
      BY <1>1, <2>1, <3>2 DEF PageState
    <3>3. QED
      BY <3>1, <3>2
  <2>5. QED
    BY <1>1, <1>4, <2>2, <2>3, <2>4 DEF ListsMatch, Unanswered, p
<1>5. CASE f.kind = "services"
  <2>1. p = IF ok THEN [page EXCEPT !.services = [slug |-> url.slug], !.servicesError = FALSE]
                  ELSE [page EXCEPT !.services = None, !.servicesError = TRUE]
    <3>1. f.about = <<url.slug, url.service, url.barber, url.date, url.appt>>
      BY <1>3, <1>5
    <3>2. CASE ok
      BY <1>5, <3>1, <3>2 DEF Answered
    <3>3. CASE ~ ok
      BY <1>5, <3>1, <3>3 DEF Answered
    <3>4. QED
      BY <3>2, <3>3
  <2>2. url.slug # None /\ [slug |-> url.slug] \in ServiceList
    BY <1>1, <1>2, <1>5, Steps DEF Sends, ServiceList
  <2> HIDE DEF p
  <2>3. p \in PageState
    <3>1. CASE ok
      <4>1. p = [page EXCEPT !.services = [slug |-> url.slug], !.servicesError = FALSE]
        BY <2>1, <3>1
      <4>2. [slug |-> url.slug] \in ServiceList \cup {None}
        BY <2>2
      <4>3. QED
        BY <1>1, <4>1, <4>2 DEF PageState
    <3>2. CASE ~ ok
      BY <1>1, <2>1, <2>2, <3>2 DEF PageState
    <3>3. QED
      BY <3>1, <3>2
  <2>4. /\ p.pix = page.pix /\ p.result = page.result /\ p.submitting = page.submitting
        /\ p.shops = page.shops /\ p.shopsError = page.shopsError
        /\ p.barbers = page.barbers /\ p.barbersError = page.barbersError
        /\ p.slots = page.slots /\ p.slotsError = page.slotsError
    BY <1>1, <2>1, <2>2 DEF PageState
  <2>5. /\ p.services # None => p.services.slug = url.slug
        /\ ~ (p.services = None /\ ~ p.servicesError)
    <3>1. CASE ok
      BY <1>1, <2>1, <2>2, <3>1 DEF PageState
    <3>2. CASE ~ ok
      BY <1>1, <2>1, <2>2, <3>2 DEF PageState
    <3>3. QED
      BY <3>1, <3>2
  <2>6. QED
    BY <1>1, <1>5, <2>2, <2>3, <2>4, <2>5 DEF ListsMatch, Unanswered, p
<1>6. CASE f.kind = "barbers"
  <2>1. p = IF ok THEN [page EXCEPT !.barbers = [slug |-> url.slug, service |-> url.service],
                                    !.barbersError = None]
                  ELSE [page EXCEPT !.barbers = None, !.barbersError = url.service]
    <3>1. f.about = <<url.slug, url.service, url.barber, url.date, url.appt>>
      BY <1>3, <1>6
    <3>2. CASE ok
      BY <1>6, <3>1, <3>2 DEF Answered
    <3>3. CASE ~ ok
      BY <1>6, <3>1, <3>3 DEF Answered
    <3>4. QED
      BY <3>2, <3>3
  <2>2. /\ url.slug # None /\ url.service # None
        /\ [slug |-> url.slug, service |-> url.service] \in BarberList
    BY <1>1, <1>2, <1>6, Steps DEF Sends, BarberList
  <2> HIDE DEF p
  <2>3. p \in PageState
    <3> DEFINE list == [slug |-> url.slug, service |-> url.service]
               loaded == IF ok THEN list ELSE None
               failed == IF ok THEN None ELSE url.service
    <3>1. /\ loaded \in BarberList \cup {None} /\ failed \in Services \cup {None}
          /\ p = [page EXCEPT !.barbers = loaded, !.barbersError = failed]
      <4>1. CASE ok
        BY <1>2, <2>1, <2>2, <4>1
      <4>2. CASE ~ ok
        BY <1>2, <2>1, <2>2, <4>2
      <4>3. QED
        BY <4>1, <4>2
    <3> HIDE DEF loaded, failed
    <3>2. QED
      BY <1>1, <3>1 DEF PageState
  <2>4. /\ p.pix = page.pix /\ p.result = page.result /\ p.submitting = page.submitting
        /\ p.shops = page.shops /\ p.shopsError = page.shopsError
        /\ p.services = page.services /\ p.servicesError = page.servicesError
        /\ p.slots = page.slots /\ p.slotsError = page.slotsError
    BY <1>1, <2>1 DEF PageState
  <2>5. /\ p.barbers # None => p.barbers.slug = url.slug /\ p.barbers.service = url.service
        /\ p.barbers = None => p.barbersError = url.service
    BY <1>1, <2>1, <2>2 DEF PageState
  <2>6. QED
    BY <1>1, <1>6, <2>2, <2>3, <2>4, <2>5 DEF ListsMatch, Unanswered, p
<1>7. CASE f.kind = "slots"
  <2>1. p = IF ok THEN [page EXCEPT !.slots =
                          [about |-> <<url.slug, url.service, url.barber>>, date |-> url.date]]
                  ELSE [page EXCEPT !.slotsError = url.date]
    BY <1>3, <1>7 DEF Answered
  <2>2. /\ url.slug # None /\ url.service # None /\ url.barber # None /\ url.date # None
        /\ [about |-> <<url.slug, url.service, url.barber>>, date |-> url.date] \in SlotGrid
    BY <1>1, <1>2, <1>7, Steps DEF Sends, SlotsFetchParams, SlotGrid
  <2> HIDE DEF p
  <2>3. p \in PageState
    BY <1>1, <1>2, <2>1, <2>2 DEF PageState
  <2>4. /\ p.pix = page.pix /\ p.result = page.result /\ p.submitting = page.submitting
        /\ p.shops = page.shops /\ p.shopsError = page.shopsError
        /\ p.services = page.services /\ p.servicesError = page.servicesError
        /\ p.barbers = page.barbers /\ p.barbersError = page.barbersError
    BY <1>1, <2>1 DEF PageState
  <2>5. /\ p.slots = page.slots \/
             p.slots = [about |-> <<url.slug, url.service, url.barber>>, date |-> url.date]
        /\ p.slotsError = url.date \/ (p.slots # None /\ p.slots.date = url.date)
    BY <1>1, <2>1, <2>2 DEF PageState
  <2>6. QED
    BY <1>1, <1>7, <2>2, <2>3, <2>4, <2>5 DEF ListsMatch, Unanswered, p
<1>8. CASE f.kind = "qr"
  <2>1. p = IF ok THEN [page EXCEPT !.qr = page.pix] ELSE page
    BY <1>1, <1>8 DEF Answered, About, Request
  <2> HIDE DEF p
  <2>2. p \in PageState
    BY <1>1, <2>1 DEF PageState
  <2>3. /\ p.pix = page.pix /\ p.result = page.result /\ p.submitting = page.submitting
        /\ p.shops = page.shops /\ p.shopsError = page.shopsError
        /\ p.services = page.services /\ p.servicesError = page.servicesError
        /\ p.barbers = page.barbers /\ p.barbersError = page.barbersError
        /\ p.slots = page.slots /\ p.slotsError = page.slotsError
    BY <1>1, <2>1 DEF PageState
  <2>4. QED
    BY <1>1, <1>8, <2>2, <2>3 DEF ListsMatch, Unanswered, p
<1>9. QED
  BY <1>1, <1>4, <1>5, <1>6, <1>7, <1>8 DEF Kinds

-----------------------------------------------------------------------------
(* Steps that stay at the selection. *)

\* The view p may follow the page where it is, once inFlight is left in flight.
Shows(p, inFlight) ==
  /\ p \in PageState /\ inFlight \subseteq flight
  /\ at = "booking" \/ p = page
  /\ ListsMatch(url, p)
  /\ at = "booking" => Unheard(url, p, inFlight)
  /\ p.result # None => p.pix # None

\* What a step leaves of the invariant when it draws the page and nothing else.
DrawnInv ==
  /\ at \in {"booking", "login"} /\ url \in Selection /\ page \in PageState
  /\ FlightTyped(flight)
  /\ poll \in [charge : Charge, attempt : 1 .. MaxAttempts,
               phase : {"fetch", "sleep"}] \cup {None}
  /\ ListsMatch(url, page) /\ FlightMatches
  /\ PaymentShown(page, poll, wasPaid)

LEMMA InPlace ==
  ASSUME PageInv, NEW p, NEW inFlight, Shows(p, inFlight), Render(url, p, inFlight),
         p.result = "paid" => p.pix \in wasPaid',
         appts' \in Seq(Bookings), Len(appts) <= Len(appts')
  PROVE  DrawnInv'
<1>1. /\ url \in Selection /\ at \in {"booking", "login"} /\ NamesItsBooking(url, appts)
      /\ BrowserTyped
  BY DEF PageInv, BrowserTyped, SelectionsNameBookings
<1>2. url' = url /\ at' = at /\ page' = p
  BY DEF Render
<1>3. ListsMatch(url', page')
  BY <1>2 DEF Shows
<1>4. Waits(at', url', page', flight')
  BY <1>1, RenderWaits DEF Shows
<1>5. \A f \in flight' : f.kind = "pix" => f.about[5] \in 1 .. Len(appts')
  BY <1>1, RenderAsks DEF Shows
<1>6. PaymentShown(page', poll', wasPaid')
  BY RenderPays DEF Shows
<1>7. /\ FlightTyped(flight')
      /\ poll' \in [charge : Charge, attempt : 1 .. MaxAttempts,
                    phase : {"fetch", "sleep"}] \cup {None}
  BY <1>1, RenderTyped DEF Shows
<1>8. QED
  BY <1>1, <1>2, <1>3, <1>4, <1>5, <1>6, <1>7 DEF DrawnInv, FlightMatches, Shows

\* Nothing but the page changes, and neither the charge shown nor the button.
LEMMA QuietInPlace ==
  ASSUME PageInv, NEW p, NEW inFlight, Shows(p, inFlight), Render(url, p, inFlight),
         p.result = "paid" => p.pix \in wasPaid,
         p.submitting = page.submitting, p.pix = page.pix,
         UNCHANGED <<nav, posts, serverVars, ghostVars>>
  PROVE  PageInv'
<1>1. UNCHANGED <<nav, posts, signedIn, appts, charges, pay, wasPaid, made, lost>>
  BY DEF serverVars, ghostVars
<1>2. /\ url' = url /\ at' = at /\ page' = p
  BY DEF Render
<1>3. DrawnInv'
  <2>1. appts \in Seq(Bookings) /\ Len(appts) <= Len(appts)
    BY DEF PageInv, ServerTyped
  <2>2. QED
    BY <1>1, <2>1, InPlace
<1>4. BrowserTyped' /\ ServerTyped'
  BY <1>1, <1>3 DEF PageInv, BrowserTyped, ServerTyped, DrawnInv
<1>5. NavigationFollows'
  <2>1. at = "login" => p = page /\ page = FreshPage
    BY DEF Shows, PageInv, NavigationFollows
  <2>2. at = "login" => poll' = None
    BY <2>1 DEF Render, AfterPollEffect, PageInv, NavigationFollows
  <2>3. QED
    BY <1>1, <1>2, <2>1, <2>2 DEF PageInv, NavigationFollows
<1>6. SelectionsNameBookings' /\ OneRequest' /\ VisitCounts'
  BY <1>1, <1>2 DEF PageInv, SelectionsNameBookings, OneRequest, VisitCounts, Done
<1>7. PaymentsSound'
  BY <1>1, <1>2, <1>3 DEF PageInv, PaymentsSound, DrawnInv
<1>8. QED
  BY <1>3, <1>4, <1>5, <1>6, <1>7 DEF PageInv, DrawnInv

LEMMA RetryBarbershopsStays == PageInv /\ RetryBarbershops => PageInv'
<1> SUFFICES ASSUME PageInv, RetryBarbershops
             PROVE  PageInv'
  OBVIOUS
<1> DEFINE p == [page EXCEPT !.shops = None, !.shopsError = FALSE, !.shopsRetry = ~ @]
<1>1. /\ page \in PageState /\ url \in Selection /\ ListsMatch(url, page)
      /\ PaymentShown(page, poll, wasPaid)
  BY DEF PageInv, BrowserTyped, PaymentsSound
<1>2. at = "booking" /\ Render(url, p, flight) /\ UNCHANGED <<nav, posts, serverVars, ghostVars>>
  BY DEF RetryBarbershops, Step
<1>3. /\ p \in PageState /\ SameLists(p)
      /\ p.pix = page.pix /\ p.result = page.result /\ p.submitting = page.submitting
  <2>1. p \in PageState
    <3> DEFINE r == ~ page.shopsRetry
    <3>1. r \in BOOLEAN /\ p = [page EXCEPT !.shops = None, !.shopsError = FALSE, !.shopsRetry = r]
      BY <1>1 DEF PageState
    <3> HIDE DEF r, p
    <3>2. QED
      BY <1>1, <3>1 DEF PageState
  <2>2. p.shopsRetry = ~ page.shopsRetry /\ page.shopsRetry \in BOOLEAN
    BY <1>1 DEF PageState
  <2>3. /\ p.services = page.services /\ p.servicesError = page.servicesError
        /\ p.barbers = page.barbers /\ p.barbersError = page.barbersError
        /\ p.slots = page.slots /\ p.slotsError = page.slotsError
    BY <1>1 DEF PageState
  <2>4. p.pix = page.pix /\ p.result = page.result /\ p.submitting = page.submitting
    BY <1>1 DEF PageState
  <2> HIDE DEF p
  <2>5. SameLists(p)
    BY <2>2, <2>3 DEF SameLists
  <2>6. QED
    BY <2>1, <2>4, <2>5
<1> HIDE DEF p
<1>4. Shows(p, flight)
  BY <1>1, <1>2, <1>3, SameListsMatch, KeptUnheard DEF Shows, PaymentShown
<1>5. p.result = "paid" => p.pix \in wasPaid
  BY <1>1, <1>3 DEF PaymentShown
<1>6. QED
  BY <1>2, <1>3, <1>4, <1>5, QuietInPlace

LEMMA RetryPaymentStays == PageInv /\ RetryPayment => PageInv'
<1> SUFFICES ASSUME PageInv, RetryPayment
             PROVE  PageInv'
  OBVIOUS
<1> USE BookingPageAssumption
<1> DEFINE p == [page EXCEPT !.result = None, !.pixError = FALSE]
<1>1. page \in PageState /\ url \in Selection /\ ListsMatch(url, page)
  BY DEF PageInv, BrowserTyped
<1>2. at = "booking" /\ Render(url, p, flight) /\ UNCHANGED <<nav, posts, serverVars, ghostVars>>
  BY DEF RetryPayment, Step
<1>3. /\ p \in PageState /\ SameLists(p) /\ p.pix = page.pix
      /\ p.result = None /\ p.submitting = page.submitting
  <2>1. p \in PageState
    BY <1>1 DEF PageState
  <2>2. /\ p.shops = page.shops /\ p.shopsError = page.shopsError
        /\ p.services = page.services /\ p.servicesError = page.servicesError
        /\ p.barbers = page.barbers /\ p.barbersError = page.barbersError
        /\ p.slots = page.slots /\ p.slotsError = page.slotsError
    BY <1>1 DEF PageState
  <2>3. p.pix = page.pix /\ p.result = None /\ p.submitting = page.submitting
    BY <1>1 DEF PageState
  <2> HIDE DEF p
  <2>4. SameLists(p)
    BY <2>2 DEF SameLists
  <2>5. QED
    BY <2>1, <2>3, <2>4
<1> HIDE DEF p
<1>4. Shows(p, flight)
  BY <1>1, <1>2, <1>3, SameListsMatch, KeptUnheard DEF Shows
<1>5. QED
  BY <1>2, <1>3, <1>4, QuietInPlace

\* An answer nobody waits for changes nothing but the flight.
LEMMA StaleAnswer ==
  ASSUME PageInv, NEW f \in flight, ~ f.live, flight' = flight \ {f},
         UNCHANGED <<at, url, nav, page, posts, poll, serverVars, ghostVars>>
  PROVE  PageInv'
<1>1. UNCHANGED <<signedIn, appts, charges, pay, wasPaid, made, lost>>
  BY DEF serverVars, ghostVars
<1>2. BrowserTyped' /\ ServerTyped'
  BY <1>1 DEF PageInv, BrowserTyped, FlightTyped, ServerTyped
<1>3. FlightMatches'
  <2>1. \A k \in Kinds : Request(k, url, page).live
    BY DEF Request
  <2>2. QED
    BY <1>1, <2>1 DEF PageInv, FlightMatches, Waits
<1>4. QED
  BY <1>1, <1>2, <1>3 DEF PageInv, NavigationFollows, SelectionsNameBookings, OneRequest,
     VisitCounts, Done, PaymentsSound

LEMMA ReceiveStays ==
  ASSUME PageInv, NEW f \in flight, NEW ok \in BOOLEAN, Receive(f, ok)
  PROVE  PageInv'
<1>1. CASE ~ f.live
  BY <1>1, StaleAnswer DEF Receive, Heard
<1>2. CASE f.live
  <2> DEFINE p == Answered(f, ok)
  <2>1. /\ at = "booking" /\ f.kind \in Kinds /\ f.kind # "pix"
        /\ PaymentShown(page, poll, wasPaid)
    BY <1>2 DEF PageInv, BrowserTyped, FlightTyped, FlightMatches, Waits, Receive, PaymentsSound
  <2>2. /\ Render(url, p, flight \ {f})
        /\ UNCHANGED <<nav, posts, serverVars, ghostVars>>
    BY <1>2 DEF Receive, Heard
  <2>3. /\ p \in PageState
        /\ p.pix = page.pix /\ p.result = page.result /\ p.submitting = page.submitting
        /\ ListsMatch(url, p)
    BY <1>2, <2>1, AnsweredView
  <2>4. /\ \A k \in Kinds \ {f.kind} : Unanswered(k, url, p) => Unanswered(k, url, page)
        /\ ~ Unanswered(f.kind, url, p)
    BY <1>2, <2>1, AnsweredView
  <2> HIDE DEF p
  <2>5. Unheard(url, p, flight \ {f})
    BY <2>1, <2>3, <2>4, OthersUnheard
  <2>6. Shows(p, flight \ {f})
    BY <2>1, <2>3, <2>5 DEF Shows, PaymentShown
  <2>7. p.result = "paid" => p.pix \in wasPaid
    BY <2>1, <2>3 DEF PaymentShown
  <2>8. QED
    BY <2>2, <2>3, <2>6, <2>7, QuietInPlace
<1>3. QED
  BY <1>1, <1>2

-----------------------------------------------------------------------------
(* Charges and the poll. *)

\* A recorded payment is one that was made, whatever appointment it is for.
PaidWasMade ==
  \A a \in 1 .. Len(appts) : pay[a] = "paid" => <<a, charges[a]>> \in wasPaid

LEMMA ServerLengths ==
  ASSUME ServerTyped
  PROVE  /\ Len(appts) \in Nat /\ DOMAIN appts = 1 .. Len(appts)
         /\ DOMAIN charges = 1 .. Len(appts) /\ DOMAIN pay = 1 .. Len(appts)
         /\ \A a \in 1 .. Len(appts) :
              charges[a] \in Nat /\ pay[a] \in {"pending", "paid", "expired"}
BY DEF ServerTyped

LEMMA ChargeMade ==
  ASSUME ServerTyped, PaidWasMade, NEW a \in 1 .. Len(appts), NewCharge(a),
         UNCHANGED <<signedIn, appts, wasPaid, made, lost>>
  PROVE  /\ ServerTyped' /\ PaidWasMade'
         /\ appts' \in Seq(Bookings) /\ Len(appts) <= Len(appts')
<1>1. /\ Len(appts) \in Nat /\ DOMAIN charges = 1 .. Len(appts) /\ DOMAIN pay = 1 .. Len(appts)
      /\ charges \in Seq(Nat) /\ pay \in Seq({"pending", "paid", "expired"})
      /\ charges[a] + 1 \in Nat
      /\ Len(charges) = Len(appts) /\ Len(pay) = Len(appts)
  BY ServerLengths DEF ServerTyped
<1>2. charges' \in Seq(Nat) /\ Len(charges') = Len(charges)
  BY <1>1, ExceptSeq DEF NewCharge
<1>3. pay' \in Seq({"pending", "paid", "expired"}) /\ Len(pay') = Len(pay)
  BY <1>1, ExceptSeq DEF NewCharge
<1>4. ServerTyped' /\ appts' \in Seq(Bookings) /\ Len(appts) <= Len(appts')
  BY <1>1, <1>2, <1>3 DEF ServerTyped
<1>5. PaidWasMade'
  BY <1>1 DEF NewCharge, PaidWasMade
<1>6. QED
  BY <1>4, <1>5

LEMMA ReceivePixStays ==
  ASSUME PageInv, NEW f \in flight, NEW ok \in BOOLEAN, ReceivePix(f, ok)
  PROVE  PageInv'
<1> USE BookingPageAssumption
<1> DEFINE a == f.about[5]
           paid == [page EXCEPT !.pix = <<a, charges[a] + 1>>]
           failed == [page EXCEPT !.pixError = TRUE]
<1>1. /\ page \in PageState /\ url \in Selection /\ ListsMatch(url, page)
      /\ PaymentShown(page, poll, wasPaid) /\ ServerTyped /\ PaidWasMade
      /\ f.kind = "pix" /\ f.live \in BOOLEAN /\ a \in 1 .. Len(appts)
  BY DEF PageInv, BrowserTyped, PaymentsSound, PaidWasMade, ReceivePix, FlightMatches,
     FlightTyped
<1>2. f.live => at = "booking" /\ page.pix = None /\ page.result = None
  BY <1>1 DEF PageInv, FlightMatches, Waits, Sends, PaymentShown
<1>3. /\ <<a, charges[a] + 1>> \in Charge /\ <<a, charges[a] + 1>> # None
      /\ <<a, charges[a] + 1>>[1] = a
  BY <1>1, ServerLengths DEF Charge
<1>4. PICK p \in {page, paid, failed} :
        /\ Render(url, p, flight \ {f})
        /\ ~ f.live => p = page
        /\ f.live => p \in {paid, failed}
        /\ (NewCharge(a) \/ UNCHANGED <<charges, pay>>)
  BY <1>1 DEF ReceivePix
<1>5. UNCHANGED <<nav, posts, signedIn, appts, wasPaid, made, lost>>
  BY DEF ReceivePix, ghostVars
<1>6. /\ paid \in PageState /\ SameLists(paid) /\ paid.submitting = page.submitting
      /\ paid.pix = <<a, charges[a] + 1>> /\ paid.result = page.result
  <2> DEFINE c == <<a, charges[a] + 1>>
  <2>1. c \in Charge
    BY <1>3
  <2> HIDE DEF c
  <2>2. [page EXCEPT !.pix = c] \in PageState
    BY <1>1, <2>1 DEF PageState
  <2>3. LET q == [page EXCEPT !.pix = c] IN
        /\ SameLists(q) /\ q.submitting = page.submitting
        /\ q.pix = c /\ q.result = page.result
    BY <1>1 DEF PageState, SameLists
  <2>4. QED
    BY <2>2, <2>3 DEF c
<1>7. /\ failed \in PageState /\ SameLists(failed) /\ failed.submitting = page.submitting
      /\ failed.pix = page.pix /\ failed.result = page.result /\ failed.pixError
  BY <1>1 DEF PageState, SameLists
<1> HIDE DEF a, paid, failed
<1>8. /\ p \in PageState /\ SameLists(p) /\ p.submitting = page.submitting
      /\ p.result = page.result /\ (p.pix = page.pix \/ p.pix = <<a, charges[a] + 1>>)
      /\ f.live => p.pix # None \/ p.pixError
  <2>1. SameLists(page)
    BY DEF SameLists
  <2>2. QED
    BY <1>1, <1>3, <1>4, <1>6, <1>7, <2>1
<1>9. at = "booking" => Unheard(url, p, flight \ {f})
  <2>1. CASE f.live
    <3>1. Sends(f.kind, url, p) => ~ Unanswered(f.kind, url, p)
      BY <1>1, <1>8, <2>1 DEF Sends
    <3>2. ASSUME NEW k \in Kinds \ {f.kind}, Unanswered(k, url, p)
          PROVE  Unanswered(k, url, page)
      <4>1. p.shops = page.shops /\ p.shopsError = page.shopsError
        BY <1>1, <1>4, <2>1 DEF paid, failed, PageState
      <4>2. QED
        BY <1>8, <3>2, <4>1 DEF Unanswered, SameLists
    <3>3. QED
      BY <1>8, <3>1, <3>2, OthersUnheard
  <2>2. CASE ~ f.live
    BY <1>4, <2>2, StaleUnheard
  <2>3. QED
    BY <2>1, <2>2
<1>10. Shows(p, flight \ {f})
  <2>1. ListsMatch(url, p)
    BY <1>1, <1>8, SameListsMatch
  <2>2. p.result # None => p.pix # None
    BY <1>1, <1>3, <1>8 DEF PaymentShown
  <2>3. at = "booking" \/ p = page
    BY <1>1, <1>2, <1>4
  <2>4. QED
    BY <1>8, <1>9, <2>1, <2>2, <2>3 DEF Shows
<1>11. p.result = "paid" => p.pix \in wasPaid'
  <2>1. CASE f.live
    BY <1>2, <1>8, <2>1
  <2>2. CASE ~ f.live
    BY <1>1, <1>4, <1>5, <2>2 DEF PaymentShown
  <2>3. QED
    BY <1>1, <2>1, <2>2
<1>12. /\ ServerTyped' /\ PaidWasMade'
       /\ appts' \in Seq(Bookings) /\ Len(appts) <= Len(appts')
  <2>1. CASE NewCharge(a)
    BY <1>1, <1>5, <2>1, ChargeMade
  <2>2. CASE UNCHANGED <<charges, pay>>
    BY <1>1, <1>5, <2>2 DEF ServerTyped, PaidWasMade
  <2>3. QED
    BY <1>4, <2>1, <2>2
<1>13. DrawnInv'
  BY <1>4, <1>10, <1>11, <1>12, InPlace
<1>14. url' = url /\ at' = at /\ page' = p /\ poll' = AfterPollEffect(p)
  BY <1>4 DEF Render
<1>15. BrowserTyped'
  BY <1>5, <1>13 DEF PageInv, BrowserTyped, DrawnInv
<1>16. NavigationFollows'
  <2>1. at = "login" => p = page /\ page = FreshPage /\ poll = None
    BY <1>1, <1>2, <1>4 DEF PageInv, NavigationFollows
  <2>2. at = "login" => poll' = None
    BY <1>14, <2>1 DEF AfterPollEffect
  <2>3. QED
    BY <1>5, <1>14, <2>1, <2>2 DEF PageInv, NavigationFollows
<1>17. SelectionsNameBookings' /\ OneRequest' /\ VisitCounts'
  BY <1>5, <1>8, <1>14
  DEF PageInv, SelectionsNameBookings, OneRequest, VisitCounts, Done
<1>18. PaymentsSound'
  <2>1. page'.pix # None => page'.pix[1] \in 1 .. Len(appts')
    BY <1>1, <1>3, <1>5, <1>8, <1>14 DEF PageInv, PaymentsSound
  <2>2. QED
    BY <1>12, <1>13, <2>1 DEF PaymentsSound, PaidWasMade, DrawnInv
<1>19. QED
  BY <1>12, <1>13, <1>15, <1>16, <1>17, <1>18 DEF PageInv, DrawnInv

LEMMA PollTicks ==
  ASSUME PageInv, poll # None, NEW phase \in {"fetch", "sleep"}, NEW n \in 1 .. MaxAttempts,
         poll' = [poll EXCEPT !.phase = phase, !.attempt = n],
         phase = "sleep" => n < MaxAttempts,
         UNCHANGED <<at, url, nav, page, flight, posts, serverVars, ghostVars>>
  PROVE  PageInv'
<1>1. UNCHANGED <<signedIn, appts, charges, pay, wasPaid, made, lost>>
  BY DEF serverVars, ghostVars
<1>2. poll \in [charge : Charge, attempt : 1 .. MaxAttempts, phase : {"fetch", "sleep"}]
  BY DEF PageInv, BrowserTyped
<1>3. /\ poll' \in [charge : Charge, attempt : 1 .. MaxAttempts, phase : {"fetch", "sleep"}]
      /\ poll'.charge = poll.charge /\ poll'.phase = phase /\ poll'.attempt = n
  BY <1>2
<1>4. BrowserTyped' /\ ServerTyped'
  BY <1>1, <1>3 DEF PageInv, BrowserTyped, ServerTyped
<1>5. PaymentsSound'
  BY <1>1, <1>3 DEF PageInv, PaymentsSound, PaymentShown
<1>6. QED
  BY <1>1, <1>4, <1>5 DEF PageInv, NavigationFollows, SelectionsNameBookings, OneRequest,
     VisitCounts, Done, FlightMatches

LEMMA PollFetchStays == PageInv /\ PollFetch => PageInv'
<1> SUFFICES ASSUME PageInv, PollFetch
             PROVE  PageInv'
  OBVIOUS
<1> USE BookingPageAssumption
<1>1. /\ page \in PageState /\ url \in Selection /\ ListsMatch(url, page)
      /\ poll # None /\ PaymentShown(page, poll, wasPaid) /\ ServerTyped /\ PaidWasMade
      /\ poll \in [charge : Charge, attempt : 1 .. MaxAttempts, phase : {"fetch", "sleep"}]
      /\ page.pix # None => page.pix[1] \in 1 .. Len(appts)
  BY DEF PageInv, BrowserTyped, PaymentsSound, PaidWasMade, PollFetch
<1>2. at = "booking" /\ UNCHANGED <<nav, posts, serverVars, ghostVars>>
  BY DEF PageInv, BrowserTyped, NavigationFollows, PollFetch
<1>3. poll.charge = page.pix /\ page.pix \in Charge /\ page.pix[1] \in 1 .. Len(appts)
  BY <1>1 DEF PaymentShown
<1>4. PICK view \in StatusRead :
        IF view \in {"paid", "expired"} \/ ~ Retries(poll.attempt)
        THEN Render(url, [page EXCEPT !.result =
                            IF view = "pending" THEN "timeout" ELSE ResultOf(view)], flight)
        ELSE poll' = [poll EXCEPT !.phase = "sleep"] /\ UNCHANGED <<at, url, page, flight>>
  BY DEF PollFetch
<1>5. /\ view \in {"pending", "paid", "expired"}
      /\ view = "paid" => page.pix \in wasPaid
  <2> DEFINE a == page.pix[1]
  <2>1. a \in 1 .. Len(appts) /\ pay[a] \in {"pending", "paid", "expired"}
    BY <1>1, <1>3, ServerLengths
  <2>2. view = "pending" \/ (view = pay[a] /\ charges[a] = page.pix[2])
    BY <1>3, <1>4 DEF StatusRead
  <2>3. page.pix = <<a, page.pix[2]>>
    BY <1>3 DEF Charge
  <2>4. QED
    BY <1>1, <2>1, <2>2, <2>3 DEF PaidWasMade
<1>6. CASE view \in {"paid", "expired"} \/ ~ Retries(poll.attempt)
  <2> DEFINE r == IF view = "pending" THEN "timeout" ELSE ResultOf(view)
             p == [page EXCEPT !.result = r]
  <2>1. r \in {"paid", "expired", "timeout"} /\ (r = "paid" => page.pix \in wasPaid)
    BY <1>5 DEF ResultOf
  <2>2. Render(url, p, flight)
    BY <1>4, <1>6
  <2> HIDE DEF r
  <2>3. p \in PageState
    BY <1>1, <2>1 DEF PageState
  <2>4. p.submitting = page.submitting /\ p.pix = page.pix /\ p.result = r
    BY <1>1 DEF PageState
  <2>5. SameLists(p)
    BY <1>1 DEF PageState, SameLists
  <2> HIDE DEF p
  <2>6. Shows(p, flight)
    BY <1>1, <1>2, <2>3, <2>4, <2>5, SameListsMatch, KeptUnheard DEF Shows, PaymentShown
  <2>7. QED
    BY <1>2, <2>1, <2>2, <2>4, <2>6, QuietInPlace
<1>7. CASE ~ (view \in {"paid", "expired"} \/ ~ Retries(poll.attempt))
  <2> DEFINE n == poll.attempt
  <2>1. /\ n \in 1 .. MaxAttempts /\ n < MaxAttempts
        /\ poll' = [poll EXCEPT !.phase = "sleep", !.attempt = n]
    BY <1>1, <1>4, <1>7 DEF Retries
  <2>2. UNCHANGED <<at, url, page, flight>>
    BY <1>4, <1>7
  <2> HIDE DEF n
  <2>3. QED
    BY <1>1, <1>2, <2>1, <2>2, PollTicks
<1>8. QED
  BY <1>6, <1>7

LEMMA PollSleepStays == PageInv /\ PollSleep => PageInv'
<1> SUFFICES ASSUME PageInv, PollSleep
             PROVE  PageInv'
  OBVIOUS
<1> USE BookingPageAssumption
<1> DEFINE n == poll.attempt + 1
<1>1. /\ poll \in [charge : Charge, attempt : 1 .. MaxAttempts, phase : {"fetch", "sleep"}]
      /\ poll # None /\ poll.phase = "sleep" /\ poll.attempt < MaxAttempts
  BY DEF PageInv, BrowserTyped, PaymentsSound, PaymentShown, PollSleep
<1>2. n \in 1 .. MaxAttempts
  BY <1>1
<1>3. poll' = [poll EXCEPT !.phase = "fetch", !.attempt = n]
  BY <1>1 DEF PollSleep, NextAttempt
<1>4. UNCHANGED <<at, url, nav, page, flight, posts, serverVars, ghostVars>>
  BY DEF PollSleep
<1> HIDE DEF n
<1>5. QED
  BY <1>1, <1>2, <1>3, <1>4, PollTicks

-----------------------------------------------------------------------------
(* Booking. *)

LEMMA HandleConfirmStays == PageInv /\ HandleConfirm => PageInv'
<1> SUFFICES ASSUME PageInv, HandleConfirm
             PROVE  PageInv'
  OBVIOUS
<1> DEFINE p == [page EXCEPT !.submitting = TRUE, !.confirmError = FALSE]
           new == [sel |-> url, live |-> TRUE]
<1>1. /\ page \in PageState /\ url \in Selection /\ ListsMatch(url, page)
      /\ PaymentShown(page, poll, wasPaid) /\ appts \in Seq(Bookings)
      /\ Len(appts) <= Len(appts)
  BY DEF PageInv, BrowserTyped, ServerTyped, PaymentsSound
<1>2. /\ at = "booking" /\ BookingStepOf(url) = "confirm" /\ ~ page.submitting
      /\ Render(url, p, flight) /\ posts' = posts \cup {new} /\ nav' = nav
      /\ UNCHANGED <<signedIn, appts, charges, pay, wasPaid, made, lost>>
  BY DEF HandleConfirm, CanConfirm, Step, serverVars, ghostVars
<1>3. Choosing(url) /\ url.appt = None
  BY <1>1, <1>2, Steps
<1>4. p \in PageState /\ p.submitting = TRUE /\ p.pix = page.pix /\ p.result = page.result
  <2>1. p \in PageState
    BY <1>1 DEF PageState
  <2>2. p.submitting = TRUE
    BY <1>1 DEF PageState
  <2>3. p.pix = page.pix /\ p.result = page.result
    BY <1>1 DEF PageState
  <2>4. QED
    BY <2>1, <2>2, <2>3
<1>5. SameLists(p)
  BY <1>1 DEF PageState, SameLists
<1> HIDE DEF p
<1>6. Shows(p, flight)
  BY <1>1, <1>2, <1>4, <1>5, SameListsMatch, KeptUnheard DEF Shows, PaymentShown
<1>7. DrawnInv'
  BY <1>1, <1>2, <1>4, <1>6, InPlace DEF PaymentShown
<1>8. url' = url /\ at' = at /\ page' = p
  BY <1>2 DEF Render
<1>9. new \in [sel : Selection, live : BOOLEAN] /\ new.sel = url /\ new.live = TRUE
  BY <1>1
<1> HIDE DEF new
<1>10. \A q \in posts : ~ q.live
  BY <1>2 DEF PageInv, OneRequest
<1>11. nav # None => nav.sel.appt = None
  <2>1. BookingStepOf(url) # "waiting"
    BY <1>2
  <2>2. QED
    BY <1>2, <2>1 DEF PageInv, VisitCounts, Done
<1>12. BrowserTyped' /\ ServerTyped'
  BY <1>2, <1>7, <1>9 DEF PageInv, BrowserTyped, ServerTyped, DrawnInv
<1>13. NavigationFollows' /\ SelectionsNameBookings'
  BY <1>2, <1>3, <1>8, <1>9 DEF PageInv, NavigationFollows, SelectionsNameBookings
<1>14. OneRequest'
  <2>1. SameChair(url, url)
    BY DEF SameChair
  <2>2. QED
    BY <1>2, <1>3, <1>4, <1>8, <1>9, <1>10, <1>11, <2>1 DEF OneRequest
<1>15. VisitCounts'
  BY <1>2, <1>8, <1>11 DEF PageInv, VisitCounts, Done
<1>16. PaymentsSound'
  BY <1>2, <1>4, <1>7, <1>8 DEF PageInv, PaymentsSound, DrawnInv
<1>17. QED
  BY <1>7, <1>12, <1>13, <1>14, <1>15, <1>16 DEF PageInv, DrawnInv

\* The server keeps a booking, or does not.
LEMMA BookingRecorded ==
  ASSUME PageInv, NEW q \in posts, NEW reply, made' \in Nat, lost' \in BOOLEAN,
         IF reply = "CREATED"
         THEN /\ appts' = Append(appts, Booking(q.sel))
              /\ charges' = Append(charges, 0)
              /\ pay' = Append(pay, "pending")
         ELSE UNCHANGED <<appts, charges, pay>>,
         UNCHANGED <<signedIn, wasPaid>>
  PROVE  /\ ServerTyped' /\ PaidWasMade'
         /\ appts' \in Seq(Bookings) /\ Len(appts) <= Len(appts')
         /\ \A s \in Selection : NamesItsBooking(s, appts) => NamesItsBooking(s, appts')
         /\ reply = "CREATED" =>
              /\ Len(appts) + 1 \in 1 .. Len(appts')
              /\ appts'[Len(appts) + 1] = Booking(q.sel)
<1>1. ServerTyped /\ PaidWasMade /\ q.sel \in Selection
  BY DEF PageInv, PaymentsSound, PaidWasMade, BrowserTyped
<1>2. CASE reply = "CREATED"
  <2> DEFINE n == Len(appts)  b == Booking(q.sel)
  <2>1. b \in Bookings
    BY <1>1 DEF Booking, Bookings, Selection
  <2>2. /\ appts' = Append(appts, b) /\ charges' = Append(charges, 0)
        /\ pay' = Append(pay, "pending")
    BY <1>2
  <2> HIDE DEF b
  <2>3. /\ n \in Nat /\ appts \in Seq(Bookings)
        /\ charges \in Seq(Nat) /\ pay \in Seq({"pending", "paid", "expired"})
        /\ Len(charges) = n /\ Len(pay) = n
    BY <1>1, ServerLengths DEF ServerTyped
  <2>4. /\ appts' \in Seq(Bookings) /\ Len(appts') = n + 1 /\ appts'[n + 1] = b
        /\ \A a \in 1 .. n : appts'[a] = appts[a]
    BY <2>1, <2>2, <2>3, AppendProperties
  <2>5. /\ charges' \in Seq(Nat) /\ Len(charges') = n + 1
        /\ \A a \in 1 .. n : charges'[a] = charges[a]
    BY <2>2, <2>3, AppendProperties
  <2>6. /\ pay' \in Seq({"pending", "paid", "expired"}) /\ Len(pay') = n + 1
        /\ pay'[n + 1] = "pending"
        /\ \A a \in 1 .. n : pay'[a] = pay[a]
    BY <2>2, <2>3, AppendProperties
  <2> HIDE DEF n
  <2>7. ServerTyped'
    BY <1>1, <2>4, <2>5, <2>6 DEF ServerTyped
  <2>8. PaidWasMade'
    <3>1. SUFFICES ASSUME NEW a \in 1 .. n + 1, pay'[a] = "paid"
                   PROVE  <<a, charges'[a]>> \in wasPaid
      BY <2>4 DEF PaidWasMade
    <3>2. a \in 1 .. n
      BY <2>3, <2>6, <3>1
    <3>3. QED
      BY <1>1, <2>5, <2>6, <3>1, <3>2 DEF PaidWasMade, n
  <2>9. \A s \in Selection : NamesItsBooking(s, appts) => NamesItsBooking(s, appts')
    BY <2>3, <2>4 DEF NamesItsBooking, n
  <2>10. n + 1 \in 1 .. Len(appts') /\ n <= Len(appts')
    BY <2>3, <2>4
  <2>11. QED
    BY <2>4, <2>7, <2>8, <2>9, <2>10 DEF n, b
<1>3. CASE reply # "CREATED"
  <2>1. UNCHANGED <<appts, charges, pay>>
    BY <1>3
  <2>2. Len(appts) <= Len(appts)
    BY <1>1, ServerLengths
  <2>3. QED
    BY <1>1, <1>3, <2>1, <2>2 DEF ServerTyped, PaidWasMade
<1>4. QED
  BY <1>2, <1>3

\* Nothing is drawn, and nothing is missed.
LEMMA NothingDrawn ==
  ASSUME PageInv, UNCHANGED <<at, url, page, flight, poll, wasPaid>>,
         appts' \in Seq(Bookings), Len(appts) <= Len(appts')
  PROVE  DrawnInv'
<1>1. Len(appts) \in Nat /\ Len(appts') \in Nat
  BY DEF PageInv, ServerTyped
<1>2. 1 .. Len(appts) \subseteq 1 .. Len(appts')
  BY <1>1
<1>3. FlightMatches'
  BY <1>2 DEF PageInv, FlightMatches
<1>4. QED
  BY <1>3 DEF PageInv, BrowserTyped, PaymentsSound, DrawnInv

\* A view the page keeps apart from the button and its message.
LEMMA IdleInPlace ==
  ASSUME PageInv, at = "booking", NEW p \in PageState, Render(url, p, flight),
         SameLists(p), p.pix = page.pix, p.result = page.result, UNCHANGED wasPaid,
         appts' \in Seq(Bookings), Len(appts) <= Len(appts')
  PROVE  DrawnInv' /\ url' = url /\ at' = at /\ page' = p
<1>1. ListsMatch(url, page) /\ PaymentShown(page, poll, wasPaid) /\ url \in Selection
  BY DEF PageInv, PaymentsSound, BrowserTyped
<1>2. Shows(p, flight)
  BY <1>1, SameListsMatch, KeptUnheard DEF Shows, PaymentShown
<1>3. DrawnInv'
  BY <1>1, <1>2, InPlace DEF PaymentShown
<1>4. QED
  BY <1>3 DEF Render

\* An answer to a request of an earlier visit.
LEMMA AnsweredUnseen ==
  ASSUME PageInv, NEW q \in posts, ~ q.live, NEW reply, NEW arrives,
         AnswerBooking(q, reply, arrives)
  PROVE  PageInv'
<1>1. /\ posts' = posts \ {q}
      /\ UNCHANGED <<at, url, nav, page, flight, poll, made, lost, signedIn, wasPaid>>
  BY DEF AnswerBooking
<1>2. made' \in Nat /\ lost' \in BOOLEAN
  BY <1>1 DEF PageInv, ServerTyped
<1>3. /\ ServerTyped' /\ PaidWasMade'
      /\ appts' \in Seq(Bookings) /\ Len(appts) <= Len(appts')
      /\ \A s \in Selection : NamesItsBooking(s, appts) => NamesItsBooking(s, appts')
  BY <1>1, <1>2, BookingRecorded DEF AnswerBooking
<1>4. DrawnInv'
  BY <1>1, <1>3, NothingDrawn
<1>5. BrowserTyped'
  BY <1>1 DEF PageInv, BrowserTyped
<1>6. SelectionsNameBookings'
  <2>1. url \in Selection /\ (nav # None => nav.sel \in Selection)
    BY DEF PageInv, BrowserTyped
  <2>2. QED
    BY <1>1, <1>3, <2>1 DEF PageInv, SelectionsNameBookings
<1>7. NavigationFollows' /\ OneRequest' /\ VisitCounts'
  BY <1>1 DEF PageInv, NavigationFollows, OneRequest, VisitCounts, Done
<1>8. PaymentsSound'
  <2>1. page.pix # None => page.pix[1] \in 1 .. Len(appts')
    <3>1. Len(appts) \in Nat /\ Len(appts') \in Nat
      BY <1>3 DEF PageInv, ServerTyped
    <3>2. QED
      BY <1>3, <3>1 DEF PageInv, PaymentsSound
  <2>2. QED
    BY <1>1, <1>3, <1>4, <2>1 DEF PaymentsSound, PaidWasMade, DrawnInv
<1>9. QED
  BY <1>3, <1>4, <1>5, <1>6, <1>7, <1>8 DEF PageInv, DrawnInv

\* Where the answer to a request of this visit leads: nowhere, to another choice
\* of date and slot, to the login page, or to the payment of the booking made.
Leads(q, made1) ==
  \/ nav' = nav
  \/ \E to \in {"booking", "login"}, s \in Selection :
       /\ nav' = [to |-> to, sel |-> s] /\ SameChair(s, url)
       /\ to = "login" => s.appt = None
       /\ \/ s.appt = None
          \/ made1 /\ s.appt = Len(appts) + 1 /\ Booking(s) = Booking(q.sel)

LEMMA ConfirmedLeads ==
  ASSUME PageInv, NEW q \in posts, q.live, NEW reply, Confirmed(q, reply),
         UNCHANGED wasPaid, appts' \in Seq(Bookings), Len(appts) <= Len(appts')
  PROVE  /\ DrawnInv' /\ url' = url /\ at' = at /\ page'.pix = page.pix
         /\ reply = "CREATED" => page' = page
         /\ Leads(q, reply = "CREATED")
<1> DEFINE idle == [page EXCEPT !.submitting = FALSE]
           failed == [idle EXCEPT !.confirmError = TRUE]
<1>1. /\ page \in PageState /\ url \in Selection /\ q.sel \in Selection
      /\ q.sel.appt = None /\ SameChair(q.sel, url) /\ at = "booking" /\ Len(appts) \in Nat
  BY DEF PageInv, BrowserTyped, SelectionsNameBookings, OneRequest, ServerTyped
<1>2. /\ idle \in PageState /\ SameLists(idle)
      /\ idle.pix = page.pix /\ idle.result = page.result
  <2>1. idle \in PageState
    <3> DEFINE r == FALSE
    <3>1. r \in BOOLEAN /\ idle = [page EXCEPT !.submitting = r]
      OBVIOUS
    <3> HIDE DEF r, idle
    <3>2. QED
      BY <1>1, <3>1 DEF PageState
  <2>2. idle.pix = page.pix /\ idle.result = page.result
    BY <1>1 DEF PageState
  <2>3. SameLists(idle)
    BY <1>1 DEF PageState, SameLists
  <2>4. QED
    BY <2>1, <2>2, <2>3
<1>3. /\ failed \in PageState /\ SameLists(failed)
      /\ failed.pix = page.pix /\ failed.result = page.result
  <2> HIDE DEF idle
  <2>1. failed \in PageState
    BY <1>2 DEF PageState
  <2>2. failed.pix = idle.pix /\ failed.result = idle.result
    BY <1>2 DEF PageState
  <2>3. SameLists(failed)
    BY <1>2 DEF PageState, SameLists
  <2>4. QED
    BY <1>2, <2>1, <2>2, <2>3
<1>4. CASE reply = "CREATED"
  <2> DEFINE t == PaidFor(q, Len(appts) + 1)
  <2>1. /\ nav' = [to |-> "booking", sel |-> t]
        /\ UNCHANGED <<at, url, page, flight, poll>>
    BY <1>4 DEF Confirmed, Go
  <2> DEFINE n == Len(appts) + 1
  <2>2. n \in Nat /\ t = [q.sel EXCEPT !.appt = n]
    BY <1>1 DEF PaidFor
  <2> HIDE DEF t, n
  <2>7. /\ t \in Selection /\ SameChair(t, q.sel) /\ t.appt = n
        /\ Booking(t) = Booking(q.sel)
    BY <1>1, <2>2, Selections, ChairsKept
  <2>3. SameChair(t, url)
    BY <1>1, <2>7 DEF SameChair
  <2>4. DrawnInv'
    BY <2>1, NothingDrawn
  <2>5. Leads(q, TRUE)
    BY <2>1, <2>3, <2>7 DEF Leads, n
  <2>6. QED
    BY <1>4, <2>1, <2>4, <2>5
<1>5. CASE reply = "SESSION_REQUIRED"
  <2>1. Render(url, idle, flight) /\ nav' = [to |-> "login", sel |-> q.sel]
    BY <1>5 DEF Confirmed, LoginTarget
  <2> HIDE DEF idle
  <2>2. DrawnInv' /\ url' = url /\ at' = at /\ page' = idle
    BY <1>1, <1>2, <2>1, IdleInPlace
  <2>3. Leads(q, FALSE)
    BY <1>1, <2>1 DEF Leads
  <2>4. QED
    BY <1>2, <1>5, <2>2, <2>3
<1>6. CASE reply \in {"SLOT_CONFLICT", "PAST_DATE"}
  <2> DEFINE t == ClearSlot(q.sel)
  <2>1. Render(url, idle, flight) /\ nav' = [to |-> "booking", sel |-> t]
    BY <1>6 DEF Confirmed, Go
  <2>2. t \in Selection /\ SameChair(t, q.sel) /\ t.appt = None
    BY <1>1, Selections, ChairsKept
  <2> HIDE DEF idle, t
  <2>3. SameChair(t, url)
    BY <1>1, <2>2 DEF SameChair
  <2>4. DrawnInv' /\ url' = url /\ at' = at /\ page' = idle
    BY <1>1, <1>2, <2>1, IdleInPlace
  <2>5. Leads(q, FALSE)
    BY <2>1, <2>2, <2>3 DEF Leads
  <2>6. QED
    BY <1>2, <1>6, <2>4, <2>5
<1>7. CASE reply \notin {"CREATED", "SESSION_REQUIRED", "SLOT_CONFLICT", "PAST_DATE"}
  <2>1. Render(url, failed, flight) /\ nav' = nav
    BY <1>7 DEF Confirmed
  <2> HIDE DEF failed
  <2>2. DrawnInv' /\ url' = url /\ at' = at /\ page' = failed
    BY <1>1, <1>3, <2>1, IdleInPlace
  <2>3. QED
    BY <1>3, <1>7, <2>1, <2>2 DEF Leads
<1>8. QED
  BY <1>4, <1>5, <1>6, <1>7

\* An answer to the request of this visit.
LEMMA AnsweredSeen ==
  ASSUME PageInv, NEW q \in posts, q.live, NEW reply, NEW arrives \in BOOLEAN,
         AnswerBooking(q, reply, arrives)
  PROVE  PageInv'
<1> USE BookingPageAssumption
<1> DEFINE told == IF arrives THEN reply ELSE "NETWORK"
           n == Len(appts) + 1
<1>1. /\ posts' = posts \ {q} /\ UNCHANGED <<signedIn, wasPaid>>
      /\ Confirmed(q, told)
      /\ made' = made + (IF reply = "CREATED" THEN 1 ELSE 0)
      /\ lost' = (lost \/ ~ arrives)
  BY DEF AnswerBooking
<1>2. /\ url \in Selection /\ q.sel \in Selection
      /\ at = "booking" /\ Choosing(url) /\ SameChair(q.sel, url) /\ page.submitting
      /\ made \in Nat /\ lost \in BOOLEAN /\ Len(appts) \in Nat
      /\ nav # None => nav.sel \in Selection /\ nav.sel.appt = None
      /\ page.pix # None => page.pix[1] \in 1 .. Len(appts)
  BY DEF PageInv, BrowserTyped, ServerTyped, OneRequest, PaymentsSound
<1>3. made' \in Nat /\ lost' \in BOOLEAN
  BY <1>1, <1>2
<1>4. /\ ServerTyped' /\ PaidWasMade'
      /\ appts' \in Seq(Bookings) /\ Len(appts) <= Len(appts')
      /\ \A s \in Selection : NamesItsBooking(s, appts) => NamesItsBooking(s, appts')
      /\ reply = "CREATED" => n \in 1 .. Len(appts') /\ appts'[n] = Booking(q.sel)
  BY <1>1, <1>3, BookingRecorded DEF AnswerBooking
<1>5. /\ DrawnInv' /\ url' = url /\ at' = at /\ page'.pix = page.pix
      /\ told = "CREATED" => page' = page
      /\ Leads(q, told = "CREATED")
  BY <1>1, <1>4, ConfirmedLeads
<1>6. told = "CREATED" => arrives /\ reply = "CREATED"
  OBVIOUS
<1> HIDE DEF told
<1>7. /\ nav' \in [to : {"booking", "login"}, sel : Selection] \cup {None}
      /\ nav' # None /\ nav'.sel.appt # None =>
           /\ told = "CREATED" /\ nav'.sel.appt = n
           /\ Booking(nav'.sel) = Booking(q.sel)
      /\ nav' # None =>
           /\ nav'.to = "booking" => Follows(url, nav'.sel)
           /\ nav'.to = "login" => nav'.sel.appt = None
  <2>1. CASE nav' = nav
    BY <1>2, <2>1 DEF PageInv, BrowserTyped, NavigationFollows
  <2>2. CASE nav' # nav
    <3>1. PICK to \in {"booking", "login"}, s \in Selection :
            /\ nav' = [to |-> to, sel |-> s] /\ SameChair(s, url)
            /\ to = "login" => s.appt = None
            /\ \/ s.appt = None
               \/ told = "CREATED" /\ s.appt = n /\ Booking(s) = Booking(q.sel)
      BY <1>5, <2>2 DEF Leads
    <3>2. Follows(url, s)
      BY <1>2, <3>1 DEF Follows
    <3>3. nav'.to = to /\ nav'.sel = s
      BY <3>1
    <3>4. QED
      BY <3>1, <3>2, <3>3
  <2>3. QED
    BY <2>1, <2>2
<1>8. \A r \in posts' : ~ r.live
  BY <1>1 DEF PageInv, OneRequest
<1>9. BrowserTyped'
  BY <1>1, <1>5, <1>7 DEF PageInv, BrowserTyped, DrawnInv
<1>10. NavigationFollows'
  BY <1>2, <1>5, <1>7 DEF NavigationFollows
<1>11. SelectionsNameBookings'
  <2>1. NamesItsBooking(url, appts')
    BY <1>2, <1>4 DEF PageInv, SelectionsNameBookings
  <2>2. nav' # None => NamesItsBooking(nav'.sel, appts')
    BY <1>4, <1>6, <1>7 DEF NamesItsBooking
  <2>3. \A r \in posts' : r.sel.appt = None
    BY <1>1 DEF PageInv, SelectionsNameBookings
  <2>4. QED
    BY <1>5, <2>1, <2>2, <2>3 DEF SelectionsNameBookings
<1>12. OneRequest'
  BY <1>8 DEF OneRequest
<1>13. VisitCounts'
  <2>1. ~ lost => ~ (made > 0)
    BY DEF PageInv, VisitCounts, Done
  <2>2. ~ lost' /\ made' > 0 => made' = 1 /\ told = "CREATED"
    <3>1. ~ lost' => ~ lost /\ arrives
      BY <1>1, <1>2
    <3>2. arrives => told = reply
      BY DEF told
    <3>3. ~ lost => made = 0
      BY <1>2, <2>1
    <3>4. QED
      BY <1>1, <3>1, <3>2, <3>3
  <2>3. told = "CREATED" => Done(url', page', posts')
    BY <1>2, <1>5, <1>8 DEF Done
  <2>4. QED
    BY <1>2, <1>5, <1>7, <2>2, <2>3 DEF VisitCounts
<1>14. PaymentsSound'
  <2>1. page'.pix # None => page'.pix[1] \in 1 .. Len(appts')
    <3>1. Len(appts') \in Nat
      BY <1>4
    <3>2. QED
      BY <1>2, <1>4, <1>5, <3>1
  <2>2. QED
    BY <1>4, <1>5, <2>1 DEF PaymentsSound, PaidWasMade, DrawnInv
<1>15. QED
  BY <1>4, <1>5, <1>9, <1>10, <1>11, <1>12, <1>13, <1>14 DEF PageInv, DrawnInv

-----------------------------------------------------------------------------
(* Clicks. *)

\* A click starts a navigation to a selection without an appointment.
LEMMA ClickStays ==
  ASSUME PageInv, at = "booking", NEW s \in Selection, s.appt = None, Follows(url, s),
         Go(s), Unsent
  PROVE  PageInv'
<1> USE BookingPageAssumption
<1>1. /\ nav' = [to |-> "booking", sel |-> s]
      /\ UNCHANGED <<at, url, page, flight, posts, poll, signedIn, appts, charges, pay,
                     wasPaid, made, lost>>
  BY DEF Go, Unsent, serverVars, ghostVars
<1>2. nav'.to = "booking" /\ nav'.sel = s
      /\ nav' \in [to : {"booking", "login"}, sel : Selection]
  BY <1>1
<1>3. BrowserTyped' /\ ServerTyped'
  BY <1>1, <1>2 DEF PageInv, BrowserTyped, ServerTyped
<1>4. NavigationFollows' /\ SelectionsNameBookings'
  BY <1>1, <1>2 DEF PageInv, NavigationFollows, SelectionsNameBookings, NamesItsBooking
<1>5. OneRequest' /\ VisitCounts'
  BY <1>1, <1>2 DEF PageInv, OneRequest, VisitCounts
<1>6. QED
  BY <1>1, <1>3, <1>4, <1>5 DEF PageInv, FlightMatches, PaymentsSound

LEMMA ClicksStay ==
  ASSUME PageInv,
         \/ \E x \in Shops : PickShop(x)
         \/ \E x \in Services : PickService(x)
         \/ \E x \in Barbers : PickBarber(x)
         \/ \E d \in Dates : PickDate(d)
         \/ \E x \in Slots : PickSlot(x)
         \/ Back
  PROVE  PageInv'
<1>1. url \in Selection /\ (Step # "login" => at = "booking" /\ BookingStepOf(url) = Step)
  BY DEF PageInv, BrowserTyped, Step
<1>2. ASSUME NEW x \in Shops, PickShop(x)
      PROVE  PageInv'
  <2>1. Step = "tenant" /\ Go(SelectBarbershop(url, x)) /\ Unsent
    BY <1>2 DEF PickShop
  <2>2. Follows(url, SelectBarbershop(url, x))
    BY <1>1, <2>1 DEF Follows
  <2>3. SelectBarbershop(url, x) \in Selection /\ SelectBarbershop(url, x).appt = None
    BY <1>1, Selections, ChairsChosen
  <2>4. QED
    BY <1>1, <2>1, <2>2, <2>3, ClickStays
<1>3. ASSUME NEW x \in Services, PickService(x)
      PROVE  PageInv'
  <2>1. Step = "services" /\ Go(SelectService(url, x)) /\ Unsent
    BY <1>3 DEF PickService
  <2>2. Follows(url, SelectService(url, x)) /\ url.appt = None
    BY <1>1, <2>1, Steps DEF Follows
  <2>3. SelectService(url, x) \in Selection /\ SelectService(url, x).appt = None
    BY <1>1, <2>2, Selections, ChairsChosen
  <2>4. QED
    BY <1>1, <2>1, <2>2, <2>3, ClickStays
<1>4. ASSUME NEW x \in Barbers, PickBarber(x)
      PROVE  PageInv'
  <2>1. Step = "barbers" /\ Go(SelectBarber(url, x)) /\ Unsent
    BY <1>4 DEF PickBarber
  <2>2. Follows(url, SelectBarber(url, x)) /\ url.appt = None
    BY <1>1, <2>1, Steps DEF Follows
  <2>3. SelectBarber(url, x) \in Selection /\ SelectBarber(url, x).appt = None
    BY <1>1, <2>2, Selections, ChairsChosen
  <2>4. QED
    BY <1>1, <2>1, <2>2, <2>3, ClickStays
<1>5. ASSUME NEW s \in Selection, SameChair(s, url), s.appt = url.appt,
             Step \in {"date-slot", "confirm"}, Go(s), Unsent
      PROVE  PageInv'
  <2>1. Choosing(url) /\ at = "booking"
    BY <1>1, <1>5 DEF Choosing
  <2>2. url.appt = None /\ Follows(url, s)
    BY <1>1, <1>5, <2>1, Steps DEF Follows
  <2>3. QED
    BY <1>5, <2>1, <2>2, ClickStays
<1>6. ASSUME NEW d \in Dates, PickDate(d)
      PROVE  PageInv'
  BY <1>1, <1>5, <1>6, Selections, ChairsKept DEF PickDate
<1>7. ASSUME NEW x \in Slots, PickSlot(x)
      PROVE  PageInv'
  BY <1>1, <1>5, <1>7, Selections, ChairsKept DEF PickSlot
<1>8. ASSUME Back
      PROVE  PageInv'
  BY <1>1, <1>5, <1>8, Selections, ChairsKept DEF Back
<1>9. QED
  BY <1>2, <1>3, <1>4, <1>6, <1>7, <1>8

-----------------------------------------------------------------------------
(* Navigations and loads. *)

\* What the page keeps when the URL moves on to s.
LEMMA NavigationKeeps ==
  ASSUME PageInv, NavigationLands, NEW s \in Selection, s = nav.sel, NEW p, p = Kept(s, page)
  PROVE  /\ at = "booking" /\ Follows(url, s) /\ url.appt = None
         /\ p \in PageState /\ ListsMatch(s, p) /\ Unheard(s, p, flight)
         /\ PaymentShown(p, None, wasPaid) /\ NamesItsBooking(s, appts)
         /\ p.pix # None => p.pix[1] \in 1 .. Len(appts)
         /\ s.appt # None => \A q \in posts : ~ q.live
         /\ s.appt = None => p = page
<1> USE BookingPageAssumption
<1>1. /\ url \in Selection /\ page \in PageState /\ ListsMatch(url, page)
      /\ PaymentShown(page, poll, wasPaid)
      /\ nav # None /\ nav.to = "booking"
      /\ page.pix # None => page.pix[1] \in 1 .. Len(appts)
  BY DEF PageInv, BrowserTyped, PaymentsSound, NavigationLands
<1>2. at = "booking" /\ Follows(url, s)
  BY <1>1 DEF PageInv, NavigationFollows
<1>3. url.appt = None /\ BookingStepOf(url) # "waiting"
  BY <1>1, <1>2, FollowsLeads, Steps
<1>4. NamesItsBooking(s, appts)
  BY <1>1 DEF PageInv, SelectionsNameBookings
<1>5. CASE s.appt # None
  <2>1. BookingStepOf(s) = "waiting" /\ Step # "waiting"
    BY <1>2, <1>3, <1>5, Steps DEF Step
  <2>2. p = FreshPage
    BY <2>1 DEF Kept
  <2>3. \A q \in posts : ~ q.live
    BY <1>1, <1>5 DEF PageInv, VisitCounts, Done
  <2>4. p \in PageState
    BY <2>2, FreshTyped
  <2>5. ListsMatch(s, p) /\ PaymentShown(p, None, wasPaid) /\ p.pix = None
    BY <2>2 DEF FreshPage, ListsMatch, PaymentShown
  <2>6. Unheard(s, p, flight)
    <3>1. SUFFICES ASSUME NEW k \in Kinds, Unanswered(k, s, p),
                          Deps(k, url, page) = Deps(k, s, p)
                   PROVE  FALSE
      BY DEF Unheard
    <3>2. k # "qr"
      BY <3>1 DEF Unanswered
    <3>3. BookingStepOf(url) = BookingStepOf(s)
      BY <3>1, <3>2 DEF Deps, Kinds
    <3>4. QED
      BY <1>3, <2>1, <3>3
  <2>7. QED
    BY <1>2, <1>3, <1>4, <1>5, <2>3, <2>4, <2>5, <2>6
<1>6. CASE s.appt = None
  <2>1. p = page
    BY <1>6, Steps DEF Kept
  <2>2. Unheard(s, p, flight)
    <3>1. SameLists(page)
      BY DEF SameLists
    <3>2. QED
      BY <1>1, <1>2, <2>1, <3>1, KeptUnheard
  <2>3. ListsMatch(s, p)
    <3>1. /\ url.slug # None => s.slug = url.slug
          /\ url.slug # None /\ url.service # None => s.service = url.service
          /\ Choosing(url) => SameChair(s, url)
      BY <1>1, <1>2, FollowsLeads
    <3>2. page.slots # None => Choosing(url)
      BY <1>1, <1>3, Steps DEF ListsMatch
    <3>3. QED
      BY <1>1, <2>1, <3>1, <3>2 DEF ListsMatch, SameChair
  <2>4. PaymentShown(p, None, wasPaid)
    BY <1>1, <2>1 DEF PaymentShown
  <2>5. QED
    BY <1>1, <1>2, <1>3, <1>4, <1>6, <2>1, <2>2, <2>3, <2>4
<1>7. QED
  BY <1>5, <1>6

LEMMA NavigationLandsStays == PageInv /\ NavigationLands => PageInv'
<1> SUFFICES ASSUME PageInv, NavigationLands
             PROVE  PageInv'
  OBVIOUS
<1> USE BookingPageAssumption
<1> DEFINE s == nav.sel
           p == Kept(s, page)
<1>1. /\ nav # None /\ Render(s, p, flight) /\ nav' = None
      /\ UNCHANGED <<posts, signedIn, appts, charges, pay, wasPaid, made, lost>>
  BY DEF NavigationLands, serverVars, ghostVars
<1>2. s \in Selection /\ url \in Selection /\ page \in PageState
  BY <1>1 DEF PageInv, BrowserTyped
<1>3. /\ at = "booking" /\ Follows(url, s) /\ url.appt = None
      /\ p \in PageState /\ ListsMatch(s, p) /\ Unheard(s, p, flight)
      /\ PaymentShown(p, None, wasPaid) /\ NamesItsBooking(s, appts)
      /\ p.pix # None => p.pix[1] \in 1 .. Len(appts)
      /\ s.appt # None => \A q \in posts : ~ q.live
      /\ s.appt = None => p = page
  BY <1>2, NavigationKeeps
<1>4. s.appt # None => Done(url, page, posts)
  BY <1>1 DEF PageInv, VisitCounts
<1> HIDE DEF p, s
<1>5. url' = s /\ at' = at /\ page' = p
  BY <1>1 DEF Render
<1>6. appts \in Seq(Bookings) /\ Len(appts) <= Len(appts)
  BY DEF PageInv, ServerTyped
<1>7. Waits(at', url', page', flight')
  BY <1>1, <1>2, <1>3, RenderWaits
<1>8. \A f \in flight' : f.kind = "pix" => f.about[5] \in 1 .. Len(appts)
  BY <1>1, <1>2, <1>3, <1>6, RenderAsks
<1>9. PaymentShown(page', poll', wasPaid')
  BY <1>1, <1>3, RenderPays DEF PaymentShown
<1>10. BrowserTyped'
  <2>1. BrowserTyped
    BY DEF PageInv
  <2>2. /\ at' = at /\ url' \in Selection /\ page' \in PageState
        /\ FlightTyped(flight')
        /\ poll' \in [charge : Charge, attempt : 1 .. MaxAttempts,
                      phase : {"fetch", "sleep"}] \cup {None}
    BY <1>1, <1>2, <1>3, <2>1, RenderTyped
  <2>3. QED
    BY <1>1, <2>1, <2>2 DEF BrowserTyped
<1>11. ServerTyped'
  BY <1>1 DEF PageInv, ServerTyped
<1>12. NavigationFollows' /\ SelectionsNameBookings'
  BY <1>1, <1>3, <1>5 DEF PageInv, NavigationFollows, SelectionsNameBookings
<1>13. OneRequest'
  <2>1. ASSUME NEW q \in posts, q.live
        PROVE  Choosing(s) /\ SameChair(q.sel, s) /\ p.submitting
    <3>1. s.appt = None /\ p = page
      BY <1>3, <2>1
    <3>2. Choosing(url) /\ SameChair(q.sel, url) /\ page.submitting
      BY <2>1 DEF PageInv, OneRequest
    <3>3. SameChair(s, url)
      BY <1>2, <1>3, <3>2, FollowsLeads
    <3>4. Choosing(s)
      BY <1>2, <3>1, <3>2, <3>3, Steps DEF SameChair
    <3>5. QED
      BY <3>1, <3>2, <3>3, <3>4 DEF SameChair
  <2>2. QED
    BY <1>1, <1>3, <1>5, <2>1 DEF PageInv, OneRequest
<1>14. VisitCounts'
  <2>1. ASSUME Done(url, page, posts)
        PROVE  Done(s, p, posts)
    <3>1. CASE s.appt # None
      BY <1>2, <2>1, <3>1, Steps DEF Done
    <3>2. CASE s.appt = None
      <4>1. BookingStepOf(url) # "waiting" /\ p = page
        BY <1>2, <1>3, <3>2, Steps
      <4>2. QED
        BY <2>1, <4>1 DEF Done
    <3>3. QED
      BY <3>1, <3>2
  <2>2. QED
    BY <1>1, <1>3, <1>5, <2>1 DEF PageInv, VisitCounts
<1>15. PaymentsSound'
  BY <1>1, <1>3, <1>5, <1>9 DEF PageInv, PaymentsSound
<1>16. QED
  BY <1>1, <1>3, <1>5, <1>7, <1>8, <1>10, <1>11, <1>12, <1>13, <1>14, <1>15
  DEF PageInv, FlightMatches

\* A page just loaded shows nothing.
LEMMA FreshEmpty ==
  /\ \A s : ListsMatch(s, FreshPage)
  /\ FreshPage.pix = None /\ FreshPage.result # "paid"
  /\ FreshPage.result # None => FreshPage.pix # None
<1> USE BookingPageAssumption
<1>1. /\ FreshPage.services = None /\ FreshPage.barbers = None /\ FreshPage.slots = None
      /\ FreshPage.pix = None /\ FreshPage.result = None
  BY DEF FreshPage
<1>2. QED
  BY <1>1 DEF ListsMatch

\* What outlives a page: requests for charges nobody waits for.
LEMMA OutlivedRequests ==
  ASSUME PageInv
  PROVE  /\ FlightTyped(Outlived(flight))
         /\ \A f \in Outlived(flight) :
              ~ f.live /\ f.kind = "pix" /\ f.about[5] \in 1 .. Len(appts)
<1>1. FlightTyped(flight) /\ \A f \in flight : f.kind = "pix" => f.about[5] \in 1 .. Len(appts)
  BY DEF PageInv, BrowserTyped, FlightMatches
<1>2. ASSUME NEW f \in Outlived(flight)
      PROVE  /\ f \in [kind : Kinds, live : BOOLEAN, about : Named \cup Charge]
             /\ f.about \in Named
             /\ ~ f.live /\ f.kind = "pix" /\ f.about[5] \in 1 .. Len(appts)
  <2>1. PICK g \in flight : g.kind = "pix" /\ f = [g EXCEPT !.live = FALSE]
    BY <1>2 DEF Outlived
  <2>2. g \in [kind : Kinds, live : BOOLEAN, about : Named \cup Charge] /\ g.about \in Named
    BY <1>1, <2>1 DEF FlightTyped
  <2>3. f = [kind |-> g.kind, live |-> FALSE, about |-> g.about]
    BY <2>1, <2>2
  <2>4. f.kind = g.kind /\ f.about = g.about /\ f.live = FALSE
    BY <2>3
  <2>5. f \in [kind : Kinds, live : BOOLEAN, about : Named \cup Charge]
    BY <2>2, <2>3
  <2>6. QED
    BY <1>1, <2>1, <2>2, <2>4, <2>5
<1>3. QED
  BY <1>2 DEF FlightTyped

\* The requests of a page just loaded.
LEMMA FreshRequests ==
  ASSUME NEW s \in Selection, NamesItsBooking(s, appts)
  PROVE  LET fresh == {Request(k, s, FreshPage) : k \in {k \in Kinds : Sends(k, s, FreshPage)}}
         IN  /\ FlightTyped(fresh)
             /\ \A f \in fresh : /\ f.live /\ Sends(f.kind, s, FreshPage)
                                 /\ f.about = About(f.kind, s, FreshPage)
                                 /\ f.kind = "pix" => f.about[5] \in 1 .. Len(appts)
<1> DEFINE fresh == {Request(k, s, FreshPage) : k \in {k \in Kinds : Sends(k, s, FreshPage)}}
<1>1. ASSUME NEW f \in fresh
      PROVE  /\ f \in [kind : Kinds, live : BOOLEAN, about : Named \cup Charge]
             /\ f.about \in Named
             /\ f.live /\ Sends(f.kind, s, FreshPage) /\ f.about = About(f.kind, s, FreshPage)
             /\ f.kind = "pix" => f.about[5] \in 1 .. Len(appts)
  <2>1. PICK k \in Kinds : Sends(k, s, FreshPage) /\ f = Request(k, s, FreshPage)
    BY <1>1
  <2>2. k # "qr"
    BY <2>1 DEF Sends, FreshPage
  <2>3. /\ f = [kind |-> k, live |-> TRUE,
                about |-> <<s.slug, s.service, s.barber, s.date, s.appt>>]
        /\ f.about = About(k, s, FreshPage)
    BY <2>1, <2>2 DEF Request, About
  <2>4. <<s.slug, s.service, s.barber, s.date, s.appt>> \in Named
    BY SelectionFields
  <2>5. f.kind = k /\ f.live = TRUE
        /\ f.about = <<s.slug, s.service, s.barber, s.date, s.appt>>
    BY <2>3
  <2>6. k = "pix" => s.appt \in 1 .. Len(appts)
    BY <2>1, Steps DEF Sends, NamesItsBooking
  <2>7. f \in [kind : Kinds, live : BOOLEAN, about : Named \cup Charge]
    BY <2>3, <2>4
  <2>8. QED
    <3>1. /\ f.live /\ Sends(f.kind, s, FreshPage) /\ f.about \in Named
          /\ f.about = About(f.kind, s, FreshPage)
      BY <2>1, <2>3, <2>4, <2>5
    <3>2. f.kind = "pix" => f.about[5] \in 1 .. Len(appts)
      BY <2>5, <2>6
    <3>3. QED
      BY <2>7, <3>1, <3>2
<1>2. QED
  BY <1>1 DEF FlightTyped

\* A load leaves no request the server has yet to answer that the page waits for.
LEMMA OutlivedPosts ==
  ASSUME PageInv, posts' = {[q EXCEPT !.live = FALSE] : q \in posts}
  PROVE  /\ posts' \subseteq [sel : Selection, live : BOOLEAN]
         /\ \A q \in posts' : ~ q.live /\ q.sel.appt = None
<1>1. /\ posts \subseteq [sel : Selection, live : BOOLEAN]
      /\ \A q \in posts : q.sel.appt = None
  BY DEF PageInv, BrowserTyped, SelectionsNameBookings
<1>2. SUFFICES ASSUME NEW q \in posts
               PROVE  LET r == [q EXCEPT !.live = FALSE] IN
                      /\ r \in [sel : Selection, live : BOOLEAN]
                      /\ ~ r.live /\ r.sel.appt = None
  OBVIOUS
<1>3. q = [sel |-> q.sel, live |-> q.live] /\ q.sel \in Selection /\ q.sel.appt = None
  BY <1>1
<1> DEFINE n == FALSE
           r == [q EXCEPT !.live = n]
<1>4. n \in BOOLEAN /\ ~ n /\ r = [q EXCEPT !.live = FALSE]
  OBVIOUS
<1> HIDE DEF n
<1>5. r \in [sel : Selection, live : BOOLEAN] /\ r.sel = q.sel /\ r.live = n
  BY <1>1, <1>4
<1> HIDE DEF r
<1>6. QED
  BY <1>3, <1>4, <1>5

LEMMA MountStays ==
  ASSUME PageInv, NEW s \in Selection, NamesItsBooking(s, appts), Mount(s),
         signedIn' \in BOOLEAN, UNCHANGED <<appts, charges, pay, wasPaid>>
  PROVE  PageInv'
<1> DEFINE fresh == {Request(k, s, FreshPage) : k \in {k \in Kinds : Sends(k, s, FreshPage)}}
<1>1. /\ at' = "booking" /\ url' = s /\ nav' = None /\ page' = FreshPage /\ poll' = None
      /\ flight' = Outlived(flight) \cup fresh
      /\ posts' = {[q EXCEPT !.live = FALSE] : q \in posts}
      /\ made' = 0 /\ lost' = FALSE
  BY DEF Mount
<1>2. /\ FlightTyped(Outlived(flight))
      /\ \A f \in Outlived(flight) :
           ~ f.live /\ f.kind = "pix" /\ f.about[5] \in 1 .. Len(appts)
  BY OutlivedRequests
<1>3. /\ FlightTyped(fresh)
      /\ \A f \in fresh : /\ f.live /\ Sends(f.kind, s, FreshPage)
                          /\ f.about = About(f.kind, s, FreshPage)
                          /\ f.kind = "pix" => f.about[5] \in 1 .. Len(appts)
  BY FreshRequests
<1>4. /\ posts' \subseteq [sel : Selection, live : BOOLEAN]
      /\ \A q \in posts' : ~ q.live /\ q.sel.appt = None
  BY <1>1, OutlivedPosts
<1>5. Waits("booking", s, FreshPage, Outlived(flight) \cup fresh)
  BY <1>2, <1>3 DEF Waits
<1> HIDE DEF fresh
<1>6. FlightMatches'
  <2>1. \A f \in Outlived(flight) \cup fresh : f.kind = "pix" => f.about[5] \in 1 .. Len(appts)
    BY <1>2, <1>3
  <2>2. QED
    BY <1>1, <1>5, <2>1 DEF FlightMatches
<1>7. FlightTyped(flight')
  BY <1>1, <1>2, <1>3 DEF FlightTyped
<1>8. BrowserTyped'
  BY <1>1, <1>4, <1>7, FreshTyped DEF BrowserTyped
<1>9. ServerTyped'
  BY <1>1 DEF PageInv, ServerTyped
<1>10. NavigationFollows' /\ SelectionsNameBookings'
  BY <1>1, <1>4 DEF NavigationFollows, SelectionsNameBookings
<1>11. OneRequest' /\ VisitCounts'
  BY <1>1, <1>4 DEF OneRequest, VisitCounts
<1>12. ListsMatch(url', page') /\ PaymentShown(page', poll', wasPaid') /\ page'.pix = None
  BY <1>1, FreshEmpty DEF PaymentShown
<1>13. PaymentsSound'
  BY <1>12 DEF PageInv, PaymentsSound
<1>14. QED
  BY <1>6, <1>8, <1>9, <1>10, <1>11, <1>12, <1>13 DEF PageInv

LEMMA LeaveStays ==
  ASSUME PageInv, NEW s \in Selection, s.appt = None, Leave(s),
         UNCHANGED <<signedIn, appts, charges, pay, wasPaid>>
  PROVE  PageInv'
<1>1. /\ at' = "login" /\ url' = s /\ nav' = None /\ page' = FreshPage /\ poll' = None
      /\ flight' = Outlived(flight)
      /\ posts' = {[q EXCEPT !.live = FALSE] : q \in posts}
      /\ made' = 0 /\ lost' = FALSE
  BY DEF Leave
<1>2. /\ FlightTyped(Outlived(flight))
      /\ \A f \in Outlived(flight) :
           ~ f.live /\ f.kind = "pix" /\ f.about[5] \in 1 .. Len(appts)
  BY OutlivedRequests
<1>3. /\ posts' \subseteq [sel : Selection, live : BOOLEAN]
      /\ \A q \in posts' : ~ q.live /\ q.sel.appt = None
  BY <1>1, OutlivedPosts
<1>4. FlightMatches'
  BY <1>1, <1>2 DEF FlightMatches, Waits
<1>5. BrowserTyped'
  BY <1>1, <1>2, <1>3, FreshTyped DEF BrowserTyped
<1>6. ServerTyped'
  BY <1>1 DEF PageInv, ServerTyped
<1>7. NavigationFollows' /\ SelectionsNameBookings'
  BY <1>1, <1>3 DEF NavigationFollows, SelectionsNameBookings, NamesItsBooking
<1>8. OneRequest' /\ VisitCounts'
  BY <1>1, <1>3 DEF OneRequest, VisitCounts
<1>9. ListsMatch(url', page') /\ PaymentShown(page', poll', wasPaid') /\ page'.pix = None
  BY <1>1, FreshEmpty DEF PaymentShown
<1>10. PaymentsSound'
  BY <1>9 DEF PageInv, PaymentsSound
<1>11. QED
  BY <1>4, <1>5, <1>6, <1>7, <1>8, <1>9, <1>10 DEF PageInv

LEMMA LoadsStay ==
  ASSUME PageInv, LoginLands \/ SubmitCredentials \/ Reload
  PROVE  PageInv'
<1> USE BookingPageAssumption
<1>1. /\ url \in Selection /\ NamesItsBooking(url, appts) /\ signedIn \in BOOLEAN
      /\ nav # None => nav.sel \in Selection /\ NamesItsBooking(nav.sel, appts)
      /\ nav # None /\ nav.to = "login" => nav.sel.appt = None
  BY DEF PageInv, BrowserTyped, ServerTyped, SelectionsNameBookings, NavigationFollows
<1>2. CASE LoginLands
  BY <1>1, <1>2, MountStays, LeaveStays DEF LoginLands, serverVars
<1>3. CASE SubmitCredentials
  BY <1>1, <1>3, MountStays DEF SubmitCredentials
<1>4. CASE Reload
  BY <1>1, <1>4, MountStays DEF Reload, serverVars
<1>5. QED
  BY <1>2, <1>3, <1>4

-----------------------------------------------------------------------------
(* The rest of the world. *)

\* The server's side of charges moves on; the browser does not notice.
LEMMA WorldStays ==
  ASSUME PageInv, BrowserIdle, ServerTyped', PaidWasMade', UNCHANGED appts,
         wasPaid \subseteq wasPaid'
  PROVE  PageInv'
<1>1. UNCHANGED <<at, url, nav, page, flight, posts, poll, appts, made, lost>>
  BY DEF BrowserIdle, browserVars
<1>2. PaymentsSound'
  BY <1>1 DEF PageInv, PaymentsSound, PaymentShown, PaidWasMade
<1>3. BrowserTyped' /\ NavigationFollows' /\ SelectionsNameBookings' /\ OneRequest'
      /\ VisitCounts' /\ FlightMatches' /\ ListsMatch(url', page')
  BY <1>1 DEF PageInv, BrowserTyped, NavigationFollows, SelectionsNameBookings, OneRequest,
     VisitCounts, FlightMatches
<1>4. QED
  BY <1>2, <1>3 DEF PageInv

LEMMA SessionEndsStays == PageInv /\ SessionEnds => PageInv'
<1> SUFFICES ASSUME PageInv, SessionEnds
             PROVE  PageInv'
  OBVIOUS
<1>1. BrowserIdle /\ signedIn' = FALSE /\ UNCHANGED <<appts, charges, pay, wasPaid, made, lost>>
  BY DEF SessionEnds, BrowserIdle
<1>2. ServerTyped' /\ PaidWasMade'
  BY <1>1 DEF PageInv, ServerTyped, PaymentsSound, PaidWasMade
<1>3. QED
  BY <1>1, <1>2, WorldStays

LEMMA ChargesStay ==
  ASSUME PageInv, NEW a \in DOMAIN appts,
         OtherTabCreatesPix(a) \/ \E status \in {"paid", "expired"} : ChargeSettles(a, status)
  PROVE  PageInv'
<1>1. ServerTyped /\ PaidWasMade /\ a \in 1 .. Len(appts) /\ BrowserIdle
  BY ServerLengths DEF PageInv, PaymentsSound, PaidWasMade, OtherTabCreatesPix, ChargeSettles
<1>2. made' = made /\ lost' = lost
  BY <1>1 DEF BrowserIdle
<1>3. CASE OtherTabCreatesPix(a)
  <2>1. NewCharge(a) /\ UNCHANGED <<signedIn, appts, wasPaid, made, lost>>
    BY <1>2, <1>3 DEF OtherTabCreatesPix
  <2>2. ServerTyped' /\ PaidWasMade'
    BY <1>1, <2>1, ChargeMade
  <2>3. QED
    BY <1>1, <2>1, <2>2, WorldStays
<1>4. ASSUME NEW status \in {"paid", "expired"}, ChargeSettles(a, status)
      PROVE  PageInv'
  <2>1. /\ pay' = [pay EXCEPT ![a] = status]
        /\ wasPaid' = IF status = "paid" THEN wasPaid \cup {<<a, charges[a]>>} ELSE wasPaid
        /\ UNCHANGED <<signedIn, appts, charges, made, lost>>
    BY <1>2, <1>4 DEF ChargeSettles
  <2>2. /\ DOMAIN pay = 1 .. Len(appts) /\ charges[a] \in Nat /\ Len(appts) \in Nat
        /\ pay \in Seq({"pending", "paid", "expired"}) /\ Len(pay) = Len(appts)
    BY <1>1, ServerLengths DEF ServerTyped
  <2>3. pay' \in Seq({"pending", "paid", "expired"}) /\ Len(pay') = Len(appts)
    BY <1>1, <2>1, <2>2, ExceptSeq
  <2>4. <<a, charges[a]>> \in Charge
    BY <1>1, <2>2 DEF Charge
  <2>5. wasPaid \subseteq wasPaid' /\ wasPaid' \subseteq Charge
    BY <1>1, <2>1, <2>4 DEF ServerTyped
  <2>6. ServerTyped'
    BY <1>1, <2>1, <2>3, <2>5 DEF ServerTyped
  <2>7. PaidWasMade'
    BY <1>1, <2>1, <2>2, <2>5 DEF PaidWasMade
  <2>8. QED
    BY <1>1, <2>1, <2>5, <2>6, <2>7, WorldStays
<1>5. QED
  BY <1>3, <1>4

-----------------------------------------------------------------------------
(* The invariant. *)

LEMMA InitHolds == Init => PageInv
<1> SUFFICES ASSUME Init
             PROVE  PageInv
  OBVIOUS
<1> USE BookingPageAssumption
<1>1. PICK e \in Entries :
        /\ at = "booking" /\ url = e /\ nav = None /\ page = FreshPage
        /\ flight = {Request(k, e, FreshPage) : k \in {k \in Kinds : Sends(k, e, FreshPage)}}
        /\ posts = {} /\ poll = None /\ signedIn \in BOOLEAN
        /\ appts = <<>> /\ charges = <<>> /\ pay = <<>>
        /\ wasPaid = {} /\ made = 0 /\ lost = FALSE
  BY DEF Init
<1>2. e \in Selection /\ e.appt = None /\ NamesItsBooking(e, appts)
  BY DEF NamesItsBooking
<1>3. /\ FlightTyped(flight)
      /\ \A f \in flight : /\ f.live /\ Sends(f.kind, e, FreshPage)
                           /\ f.about = About(f.kind, e, FreshPage)
                           /\ f.kind = "pix" => f.about[5] \in 1 .. Len(appts)
  BY <1>1, <1>2, FreshRequests
<1>4. BrowserTyped
  BY <1>1, <1>2, <1>3, FreshTyped DEF BrowserTyped
<1>5. ServerTyped
  <2>1. \A S : << >> \in Seq(S)
    OBVIOUS
  <2>2. Len(<< >>) = 0
    OBVIOUS
  <2>3. QED
    BY <1>1, <2>1, <2>2 DEF ServerTyped
<1>6. FlightMatches
  BY <1>1, <1>3 DEF FlightMatches, Waits
<1>7. NavigationFollows /\ SelectionsNameBookings /\ OneRequest /\ VisitCounts
  BY <1>1, <1>2 DEF NavigationFollows, SelectionsNameBookings, OneRequest, VisitCounts
<1>8. ListsMatch(url, page) /\ PaymentsSound
  BY <1>1 DEF ListsMatch, PaymentsSound, PaymentShown, FreshPage
<1>9. QED
  BY <1>4, <1>5, <1>6, <1>7, <1>8 DEF PageInv

LEMMA NextStays == PageInv /\ [Next]_pageVars => PageInv'
<1> SUFFICES ASSUME PageInv, [Next]_pageVars
             PROVE  PageInv'
  OBVIOUS
<1>1. CASE UNCHANGED pageVars
  BY <1>1 DEF pageVars, PageInv, BrowserTyped, ServerTyped, NavigationFollows,
     SelectionsNameBookings, OneRequest, VisitCounts, FlightMatches, PaymentsSound
<1>2. CASE Guest
  BY <1>2, ClicksStay, RetryBarbershopsStays, RetryPaymentStays, HandleConfirmStays, LoadsStay
  DEF Guest
<1>3. CASE NavigationLands \/ LoginLands
  BY <1>3, NavigationLandsStays, LoadsStay
<1>4. CASE Answers
  BY <1>4, ReceiveStays, ReceivePixStays DEF Answers
<1>5. CASE PollFetch \/ PollSleep
  BY <1>5, PollFetchStays, PollSleepStays
<1>6. ASSUME NEW q \in posts, NEW reply \in Replies(q), NEW arrives \in BOOLEAN,
             AnswerBooking(q, reply, arrives)
      PROVE  PageInv'
  BY <1>6, AnsweredSeen, AnsweredUnseen
<1>7. CASE SessionEnds
  BY <1>7, SessionEndsStays
<1>8. ASSUME NEW a \in DOMAIN appts,
             OtherTabCreatesPix(a) \/ \E s \in {"paid", "expired"} : ChargeSettles(a, s)
      PROVE  PageInv'
  BY <1>8, ChargesStay
<1>9. QED
  BY <1>1, <1>2, <1>3, <1>4, <1>5, <1>6, <1>7, <1>8 DEF Next

\* The strengthening every theorem below follows from.
THEOREM PageInvariant == Spec => []PageInv
<1>1. Init => PageInv
  BY InitHolds
<1>2. PageInv /\ [Next]_pageVars => PageInv'
  BY NextStays
<1>3. QED
  BY <1>1, <1>2, PTL DEF Spec

-----------------------------------------------------------------------------
(* What follows. *)

\* The shape of the state; the poll makes at most maxAttempts attempts
\* (payment-poll.ts:45).
THEOREM PageTyped == Spec => []PageTypeOK
<1>1. PageInv => PageTypeOK
  BY DEF PageInv, BrowserTyped, ServerTyped, FlightTyped, PageTypeOK, Bookings
<1>2. QED
  BY <1>1, PageInvariant, PTL

\* Whatever is clicked, lands late or is answered late, the lists on the page are
\* those of the selection in the URL (booking-flow.tsx:318-365).
THEOREM ShownBelongs == Spec => []ShownBelongsToSelection
<1>1. PageInv => ShownBelongsToSelection
  <2> SUFFICES ASSUME PageInv
               PROVE  ShownBelongsToSelection
    OBVIOUS
  <2>1. ListsMatch(url, page)
    BY DEF PageInv
  <2>2. QED
    BY <2>1 DEF ListsMatch, ShownBelongsToSelection, BarbersForRender, SlotsForRender
<1>2. QED
  BY <1>1, PageInvariant, PTL

\* The appointment in the URL was made, for the selection beside it, however
\* often the guest went back or the answer was late (booking-flow.tsx:622-650).
THEOREM UrlNames == Spec => []UrlNamesItsBooking
<1>1. PageInv => UrlNamesItsBooking
  <2> SUFFICES ASSUME PageInv
               PROVE  UrlNamesItsBooking
    OBVIOUS
  <2>1. DOMAIN appts = 1 .. Len(appts) /\ NamesItsBooking(url, appts)
    BY ServerLengths DEF PageInv, SelectionsNameBookings
  <2>2. QED
    BY <2>1 DEF NamesItsBooking, UrlNamesItsBooking
<1>2. QED
  BY <1>1, PageInvariant, PTL

\* One visit books at most once unless an answer was lost: the submitting flag
\* (booking-flow.tsx:271, :624) survives every way of leaving the confirm step.
THEOREM BooksOnce == Spec => []OneBookingPerVisit
<1>1. PageInv => OneBookingPerVisit
  BY DEF PageInv, ServerTyped, VisitCounts, OneBookingPerVisit
<1>2. QED
  BY <1>1, PageInvariant, PTL

\* "Pagamento recebido" only for a charge the server recorded as paid, however
\* charges are replaced meanwhile (payment-poll.ts:47-50).
THEOREM PaidWasPaid == Spec => []PaidShownWasPaid
<1>1. PageInv => PaidShownWasPaid
  BY DEF PageInv, PaymentsSound, PaymentShown, PaidShownWasPaid
<1>2. QED
  BY <1>1, PageInvariant, PTL

\* A step that shows "loading" has its own request in flight, whatever was
\* cancelled or answered late (booking-flow.tsx:429-575).
THEOREM LoadingAnswered == Spec => []LoadingIsAnswered
<1>1. PageInv => LoadingIsAnswered
  <2> SUFFICES ASSUME PageInv, Loading
               PROVE  \E f \in flight :
                        /\ f.live
                        /\ f.kind = CASE Step = "tenant"    -> "shops"
                                      [] Step = "date-slot" -> "slots"
                                      [] Step = "waiting"   -> "pix"
                                      [] OTHER              -> Step
                        /\ f.about = <<url.slug, url.service, url.barber, url.date, url.appt>>
    BY DEF LoadingIsAnswered
  <2> DEFINE k == CASE Step = "tenant"    -> "shops"
                    [] Step = "date-slot" -> "slots"
                    [] Step = "waiting"   -> "pix"
                    [] OTHER              -> Step
  <2>1. /\ url \in Selection /\ at \in {"booking", "login"}
        /\ Waits(at, url, page, flight)
    BY DEF PageInv, BrowserTyped, FlightMatches
  <2>2. at = "booking" /\ Step = BookingStepOf(url)
    BY <2>1 DEF Loading, Step
  <2>3. /\ k \in {"shops", "services", "barbers", "slots", "pix"}
        /\ Sends(k, url, page) /\ Unanswered(k, url, page)
    <3>1. CASE Step = "tenant"
      BY <2>2, <3>1 DEF Loading, Sends, Unanswered
    <3>2. CASE Step = "services"
      BY <2>2, <3>2 DEF Loading, Sends, Unanswered
    <3>3. CASE Step = "barbers"
      <4>1. /\ BarbersForRender = None /\ ~ BarbersErrorForRender
            /\ k = "barbers" /\ BookingStepOf(url) = "barbers"
        BY <2>2, <3>3 DEF Loading
      <4>2. ~ (page.barbers # None /\ page.barbers.service = url.service)
        BY <4>1 DEF BarbersForRender
      <4>3. ~ (url.service # None /\ page.barbersError = url.service)
        BY <4>1 DEF BarbersErrorForRender
      <4>4. QED
        BY <4>1, <4>2, <4>3 DEF Sends, Unanswered
    <3>4. CASE Step = "date-slot"
      <4>1. /\ SlotsForRender = None /\ ~ SlotsErrorForRender
            /\ url.date # None /\ url.date >= Today
            /\ k = "slots" /\ BookingStepOf(url) = "date-slot"
        BY <2>2, <3>4 DEF Loading
      <4>2. ~ (url.date # None /\ page.slots # None /\ page.slots.date = url.date)
        BY <4>1 DEF SlotsForRender
      <4>3. ~ (url.date # None /\ page.slotsError = url.date)
        BY <4>1 DEF SlotsErrorForRender
      <4>4. QED
        BY <4>1, <4>2, <4>3 DEF Sends, SlotsFetchParams, Unanswered
    <3>5. CASE Step = "waiting"
      BY <2>2, <3>5 DEF Loading, Sends, Unanswered
    <3>6. QED
      BY <3>1, <3>2, <3>3, <3>4, <3>5 DEF Loading
  <2> HIDE DEF k
  <2>4. Request(k, url, page) \in flight
    BY <2>1, <2>2, <2>3 DEF Waits, Kinds
  <2>5. /\ Request(k, url, page).live /\ Request(k, url, page).kind = k
        /\ Request(k, url, page).about
             = <<url.slug, url.service, url.barber, url.date, url.appt>>
    BY <2>3 DEF Request
  <2>6. QED
    BY <2>4, <2>5 DEF k
<1>2. QED
  BY <1>1, PageInvariant, PTL

================================================================================
