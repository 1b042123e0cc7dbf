-------------------------------- MODULE Catalog --------------------------------
(***************************************************************************)
(* Services, barbers and assignments of apps/web/lib/catalog.ts, as the    *)
(* admin routes, the public routes and bookings use them, and the page     *)
(* that edits services, app/(admin)/services/services-manager.tsx.  A      *)
(* request is one call; it waits between any two of its queries, and its   *)
(* answer takes time to come back or gets lost.  One page is modelled with *)
(* all it keeps; the other admins, of its shop and of other shops, call    *)
(* the routes as they like, as their own pages and scripts would.          *)
(*                                                                         *)
(* Name, price and duration of a service are one value, its data.  Barber  *)
(* profiles come with an accepted invite (Accounts) and are never removed. *)
(***************************************************************************)
EXTENDS Naturals, FiniteSets

CONSTANTS
  Shops,
  Home,       \* the shop whose admin has the page open
  Services,   \* the ids of services that exist or may be created
  Barbers,
  ShopOf,     \* the shop of every barber
  Data,
  Rows,       \* what admins elsewhere create
  Patches,    \* and what they send to update a service
  Calls,      \* bound on the requests under way at the same time
  None

Row == [shop : Shops, data : Data, active : BOOLEAN]
Deleted == [gone |-> TRUE]

ASSUME CatalogAssumption ==
  /\ Home \in Shops
  /\ ShopOf \in [Barbers -> Shops]
  /\ None \notin Data
  /\ None \notin Services
  /\ None \notin Row /\ None # Deleted
  /\ Rows \subseteq [data : Data, active : BOOLEAN]
  /\ Patches \subseteq [data : Data \cup {None}, active : BOOLEAN \cup {None}]

VARIABLES
  service,   \* the Service table; Deleted once the row is gone
  barber,    \* the active column of every Barber
  assigned,  \* the BarberService table
  booked,    \* the barber and service of every Appointment
  booking,   \* what a booking under way has checked
  missing,   \* the shops that have no schedules or no pix settings
  call,      \* the requests under way
  list,      \* the page: `services`
  editing,   \*   the id and row of the service it edits
  form,      \*   the fields of the form
  saving,    \*   `submitting`
  busy,      \*   `busyId`
  removed    \* history: the services the page has been told it deleted

tables == <<service, barber, assigned, booked, booking, missing>>
page == <<list, editing, form, saving, busy, removed>>
vars == <<tables, call, page>>

View == [data : Data, active : BOOLEAN]
NoCall == [at |-> "none"]

\* What a PUT carries; None is a field that is left out.
Patch == [data : Data \cup {None}, active : BOOLEAN \cup {None}]

\* `touched` is history: the fields the user has changed.
Form ==
  [data : Data \cup {None}, active : BOOLEAN, touched : SUBSET {"data", "active"}]

EMPTY_FORM == [data |-> None, active |-> TRUE, touched |-> {}]

\* Where a request comes from: the form, a button of a row, or elsewhere.
From == {"form", "row", "api"}

Call ==
  {NoCall}
    \cup [at : {"create"}, from : From, shop : Shops, row : View]
    \cup [at : {"updateScope", "updateWrite"}, from : From, shop : Shops,
         id : Services, patch : Patch, touched : SUBSET {"data", "active"}]
    \cup [at : {"deleteScope", "deleteCount", "deleteWrite"}, from : From,
         shop : Shops, id : Services]
    \cup [at : {"assignScope", "assignWrite", "unassignWrite"}, from : {"api"},
         shop : Shops, id : Services, barber : Barbers, on : BOOLEAN]
    \cup [at : {"answer"}, from : From, kind : {"created", "updated", "deleted"},
         id : Services, row : View]
    \cup [at : {"failed"}, from : From]

Exists(s) == service[s] \notin {None, Deleted}

ViewOf(row) == [data |-> row.data, active |-> row.active]

Init ==
  /\ service \in [Services -> Row \cup {None}]
  /\ barber = [b \in Barbers |-> TRUE]
  /\ assigned = {}
  /\ booked = {}
  /\ booking = None
  /\ missing \in SUBSET Shops
  /\ call = [c \in Calls |-> NoCall]
  /\ list = [s \in {x \in Services : Exists(x) /\ service[x].shop = Home} |->
               ViewOf(service[s])]
  /\ editing = None
  /\ form = EMPTY_FORM
  /\ saving = FALSE
  /\ busy = None
  /\ removed = {}

Sends(c, request) ==
  /\ call[c] = NoCall
  /\ call' = [call EXCEPT ![c] = request]

Goes(c, request) == call' = [call EXCEPT ![c] = request]

-----------------------------------------------------------------------------
(* The page.                                                                 *)

startEdit(s) ==
  /\ s \in DOMAIN list
  /\ editing' = [id |-> s, row |-> list[s]]
  /\ form' = [data |-> list[s].data, active |-> list[s].active, touched |-> {}]
  /\ UNCHANGED <<tables, call, list, saving, busy, removed>>

cancelEdit ==
  /\ editing # None
  /\ editing' = None
  /\ form' = EMPTY_FORM
  /\ UNCHANGED <<tables, call, list, saving, busy, removed>>

TypeData(d) ==
  /\ form' = [form EXCEPT !.data = d, !.touched = @ \cup {"data"}]
  /\ UNCHANGED <<tables, call, list, editing, saving, busy, removed>>

\* The checkbox is shown while editing only.
ToggleActive ==
  /\ editing # None
  /\ form' = [form EXCEPT !.active = ~@, !.touched = @ \cup {"active"}]
  /\ UNCHANGED <<tables, call, list, editing, saving, busy, removed>>

\* MUTANT of serviceUpdatePatch: every field of the form is sent.
WholeForm(row, f) == [active |-> f.active, data |-> f.data]

serviceUpdatePatch(row, f) ==
  [active |-> f.active, data |-> IF f.data # row.data THEN f.data ELSE None]

\* An empty field never leaves the page: the contract refuses it there.
Save(c) ==
  /\ ~saving
  /\ form.data # None
  /\ IF editing # None
       THEN Sends(c, [at |-> "updateScope", from |-> "form", shop |-> Home,
                      id |-> editing.id, touched |-> form.touched,
                      patch |-> serviceUpdatePatch(editing.row, form)])
       ELSE Sends(c, [at |-> "create", from |-> "form", shop |-> Home,
                      row |-> [data |-> form.data, active |-> TRUE]])
  /\ saving' = TRUE
  /\ UNCHANGED <<tables, list, editing, form, busy, removed>>

Deactivate(c, s) ==
  /\ s \in DOMAIN list
  /\ busy # s
  /\ list[s].active
  /\ Sends(c, [at |-> "updateScope", from |-> "row", shop |-> Home, id |-> s,
               patch |-> [data |-> None, active |-> FALSE], touched |-> {"active"}])
  /\ busy' = s
  /\ UNCHANGED <<tables, list, editing, form, saving, removed>>

Delete(c, s) ==
  /\ s \in DOMAIN list
  /\ busy # s
  /\ Sends(c, [at |-> "deleteScope", from |-> "row", shop |-> Home, id |-> s])
  /\ busy' = s
  /\ UNCHANGED <<tables, list, editing, form, saving, removed>>

\* MUTANT of Replaced: an update adds a service the list does not have.
ReplacedOrAdded(s, row) ==
  [x \in DOMAIN list \cup {s} |-> IF x = s THEN row ELSE list[x]]

Replaced(s, row) ==
  [x \in DOMAIN list |-> IF x = s THEN row ELSE list[x]]

Appended(s, row) ==
  [x \in DOMAIN list \cup {s} |-> IF x = s THEN row ELSE list[x]]

Filtered(s) == [x \in DOMAIN list \ {s} |-> list[x]]

\* The form is emptied after a save even when it edits something else by then.
Answered(c) ==
  /\ call[c].at = "answer"
  /\ call[c].from # "api"
  /\ LET a == call[c] IN
     /\ list' = CASE a.kind = "created" -> Appended(a.id, a.row)
                  [] a.kind = "updated" -> Replaced(a.id, a.row)
                  [] a.kind = "deleted" -> Filtered(a.id)
     /\ form' = IF a.from = "form" THEN EMPTY_FORM ELSE form
     /\ editing' = IF a.from = "form" /\ a.kind = "updated" THEN None ELSE editing
     /\ saving' = IF a.from = "form" THEN FALSE ELSE saving
     /\ busy' = IF a.from = "row" THEN None ELSE busy
     /\ removed' = IF a.kind = "deleted" THEN removed \cup {a.id} ELSE removed
  /\ Goes(c, NoCall)
  /\ UNCHANGED tables

\* MUTANT of Refused: a network error is thrown past the handler.
RefusedUnhandled(c) ==
  /\ call[c].at = "failed"
  /\ Goes(c, NoCall)
  /\ UNCHANGED <<tables, page>>

\* A refusal, a server error, or no answer at all: the form and the list stay.
Refused(c) ==
  /\ call[c].at = "failed"
  /\ saving' = IF call[c].from = "form" THEN FALSE ELSE saving
  /\ busy' = IF call[c].from = "row" THEN None ELSE busy
  /\ Goes(c, NoCall)
  /\ UNCHANGED <<tables, list, editing, form, removed>>

-----------------------------------------------------------------------------
(* Admins elsewhere, of any shop, name any service and any barber.           *)

ApiCreate(c, p, row) ==
  /\ Sends(c, [at |-> "create", from |-> "api", shop |-> p, row |-> row])
  /\ UNCHANGED <<tables, page>>

ApiUpdate(c, p, s, patch) ==
  /\ Sends(c, [at |-> "updateScope", from |-> "api", shop |-> p, id |-> s,
               patch |-> patch, touched |-> {"data", "active"}])
  /\ UNCHANGED <<tables, page>>

ApiDelete(c, p, s) ==
  /\ Sends(c, [at |-> "deleteScope", from |-> "api", shop |-> p, id |-> s])
  /\ UNCHANGED <<tables, page>>

ApiAssign(c, p, b, s, on) ==
  /\ Sends(c, [at |-> "assignScope", from |-> "api", shop |-> p, barber |-> b,
               id |-> s, on |-> on])
  /\ UNCHANGED <<tables, page>>

\* updateBarber: the profile stays, so its check and its write are one step.
\* A payload that leaves `active` out is parsed as TRUE.
UpdateBarber(p, b, active) ==
  /\ ShopOf[b] = p
  /\ barber' = [barber EXCEPT ![b] = active]
  /\ UNCHANGED <<service, assigned, booked, booking, missing, call, page>>

\* The first schedule entry is created or the last one removed (Schedules), or
\* the pix settings are.
SetupChanges(p) ==
  /\ missing' = IF p \in missing THEN missing \ {p} ELSE missing \cup {p}
  /\ UNCHANGED <<service, barber, assigned, booked, booking, call, page>>

-----------------------------------------------------------------------------
(* The server.                                                               *)

\* MUTANT of Scoped: the row is looked up by its id alone.
ScopedById(s, p) == Exists(s)

Scoped(s, p) == Exists(s) /\ service[s].shop = p

\* Only the page does something with its answers.
Fails(c) ==
  Goes(c, IF call[c].from = "api" THEN NoCall
          ELSE [at |-> "failed", from |-> call[c].from])

Answers(c, kind, s, row) ==
  Goes(c, IF call[c].from = "api" THEN NoCall
          ELSE [at |-> "answer", from |-> call[c].from, kind |-> kind, id |-> s,
                row |-> row])

\* With every id of the instance taken the create fails, as when the database
\* refuses it.
CreateService(c) ==
  /\ call[c].at = "create"
  /\ \/ \E s \in Services :
          /\ service[s] = None
          /\ service' = [service EXCEPT ![s] =
               [shop |-> call[c].shop, data |-> call[c].row.data,
                active |-> call[c].row.active]]
          /\ Answers(c, "created", s, call[c].row)
     \/ (\A s \in Services : service[s] # None) /\ UNCHANGED service /\ Fails(c)
  /\ UNCHANGED <<barber, assigned, booked, booking, missing, page>>

\* MUTANT of ServiceUpdate: the schema has no default for `active`.
ServiceUpdateAsSent(patch) == patch

\* ServiceUpdate.parse: the default of `active` survives partial().
ServiceUpdate(patch) ==
  [patch EXCEPT !.active = IF @ = None THEN TRUE ELSE @]

Patched(row, patch) ==
  [row EXCEPT !.active = patch.active,
              !.data = IF patch.data = None THEN @ ELSE patch.data]

ScopeUpdate(c) ==
  /\ call[c].at = "updateScope"
  /\ IF Scoped(call[c].id, call[c].shop)
       THEN Goes(c, [call[c] EXCEPT !.at = "updateWrite",
                                    !.patch = ServiceUpdate(@)])
       ELSE Fails(c)
  /\ UNCHANGED <<tables, page>>

\* The row is updated by its id; Prisma throws when it is gone by now.
UpdateService(c) ==
  /\ call[c].at = "updateWrite"
  /\ LET s == call[c].id IN
     IF Exists(s)
       THEN /\ service' = [service EXCEPT ![s] = Patched(@, call[c].patch)]
            /\ Answers(c, "updated", s, ViewOf(Patched(service[s], call[c].patch)))
       ELSE UNCHANGED service /\ Fails(c)
  /\ UNCHANGED <<barber, assigned, booked, booking, missing, page>>

ScopeDelete(c) ==
  /\ call[c].at = "deleteScope"
  /\ IF Scoped(call[c].id, call[c].shop)
       THEN Goes(c, [call[c] EXCEPT !.at = "deleteCount"])
       ELSE Fails(c)
  /\ UNCHANGED <<tables, page>>

InUse(s) == \E b \in Barbers : <<b, s>> \in booked

\* Answered 409 SERVICE_IN_USE when an appointment names the service.
CountAppointments(c) ==
  /\ call[c].at = "deleteCount"
  /\ IF InUse(call[c].id)
       THEN Fails(c)
       ELSE Goes(c, [call[c] EXCEPT !.at = "deleteWrite"])
  /\ UNCHANGED <<tables, page>>

\* MUTANT of Referenced: the count is trusted and the relation does not restrict.
NotReferenced(s) == FALSE

\* The foreign key of Appointment.service restricts the delete.
Referenced(s) == InUse(s)

\* The foreign key of BarberService cascades.
DeleteService(c) ==
  /\ call[c].at = "deleteWrite"
  /\ LET s == call[c].id IN
     IF Exists(s) /\ ~Referenced(s)
       THEN /\ service' = [service EXCEPT ![s] = Deleted]
            /\ assigned' = {pair \in assigned : pair[2] # s}
            /\ Answers(c, "deleted", s, ViewOf(service[s]))
       ELSE UNCHANGED <<service, assigned>> /\ Fails(c)
  /\ UNCHANGED <<barber, booked, booking, missing, page>>

ScopeAssign(c) ==
  /\ call[c].at = "assignScope"
  /\ IF ShopOf[call[c].barber] = call[c].shop /\ Scoped(call[c].id, call[c].shop)
       THEN Goes(c, [call[c] EXCEPT !.at =
              IF call[c].on THEN "assignWrite" ELSE "unassignWrite"])
       ELSE Fails(c)
  /\ UNCHANGED <<tables, page>>

\* The insert of the upsert fails when the service is gone by now.
AssignService(c) ==
  /\ call[c].at = "assignWrite"
  /\ IF Exists(call[c].id)
       THEN assigned' = assigned \cup {<<call[c].barber, call[c].id>>}
       ELSE UNCHANGED assigned
  /\ Goes(c, NoCall)
  /\ UNCHANGED <<service, barber, booked, booking, missing, page>>

UnassignService(c) ==
  /\ call[c].at = "unassignWrite"
  /\ assigned' = assigned \ {<<call[c].barber, call[c].id>>}
  /\ Goes(c, NoCall)
  /\ UNCHANGED <<service, barber, booked, booking, missing, page>>

\* The request never arrives, or the answer is lost; a browser sees no
\* difference.
NetworkFails(c) ==
  /\ call[c].at \in {"create", "updateScope", "deleteScope", "answer"}
  /\ call[c].from # "api"
  /\ Fails(c)
  /\ UNCHANGED <<tables, page>>

-----------------------------------------------------------------------------
(* The public catalog, and the booking that follows.                         *)

ServicesOf(p) == {s \in Services : Exists(s) /\ service[s].shop = p}

BarbersOf(p) == {b \in Barbers : ShopOf[b] = p}

listPublicBarbershops ==
  {p \in Shops : \E s \in ServicesOf(p) : service[s].active}

getPublicServices(p) == {s \in ServicesOf(p) : service[s].active}

\* MUTANT of getPublicBarbersByService: barbers on leave are listed too.
PublicBarbersAll(p, s) ==
  {b \in BarbersOf(p) : s \in getPublicServices(p) /\ <<b, s>> \in assigned}

getPublicBarbersByService(p, s) ==
  {b \in BarbersOf(p) :
     s \in getPublicServices(p) /\ barber[b] /\ <<b, s>> \in assigned}

onboarded(p) == p \notin missing /\ ServicesOf(p) # {} /\ BarbersOf(p) # {}

\* The checks of createBooking that look at the catalog.
CheckOffer(b, s) ==
  /\ Exists(s)
  /\ onboarded(service[s].shop)
  /\ ShopOf[b] = service[s].shop
  /\ service[s].active
  /\ barber[b]
  /\ <<b, s>> \in assigned

BeginBooking(b, s) ==
  /\ booking = None
  /\ CheckOffer(b, s)
  /\ booking' = <<b, s>>
  /\ UNCHANGED <<service, barber, assigned, booked, missing, call, page>>

\* The insert breaks the foreign key when the service is gone by now.
CommitBooking ==
  /\ booking # None
  /\ booked' = IF Exists(booking[2]) THEN booked \cup {booking} ELSE booked
  /\ booking' = None
  /\ UNCHANGED <<service, barber, assigned, missing, call, page>>

-----------------------------------------------------------------------------
Serve(c) ==
  \/ CreateService(c) \/ ScopeUpdate(c) \/ UpdateService(c)
  \/ ScopeDelete(c) \/ CountAppointments(c) \/ DeleteService(c)
  \/ ScopeAssign(c) \/ AssignService(c) \/ UnassignService(c)
  \/ Answered(c) \/ Refused(c)

Next ==
  \/ cancelEdit \/ ToggleActive \/ CommitBooking
  \/ \E s \in Services : startEdit(s)
  \/ \E d \in Data : TypeData(d)
  \/ \E b \in Barbers, s \in Services : BeginBooking(b, s)
  \/ \E p \in Shops : SetupChanges(p)
  \/ \E p \in Shops, b \in Barbers, active \in BOOLEAN : UpdateBarber(p, b, active)
  \/ \E c \in Calls :
       \/ Serve(c) \/ NetworkFails(c) \/ Save(c)
       \/ \E s \in Services : Deactivate(c, s) \/ Delete(c, s)
       \/ \E p \in Shops :
            \/ \E row \in Rows : ApiCreate(c, p, row)
            \/ \E s \in Services :
                 \/ \E patch \in Patches : ApiUpdate(c, p, s, patch)
                 \/ ApiDelete(c, p, s)
                 \/ \E b \in Barbers, on \in BOOLEAN : ApiAssign(c, p, b, s, on)

Spec == Init /\ [][Next]_vars

FairSpec == Spec /\ \A c \in Calls : WF_vars(Serve(c))

-----------------------------------------------------------------------------
(* Properties.                                                               *)

\* Every variable has its type: a service is active or not whatever a request
\* left out, and the form and the requests carry what the contracts accept.
CatalogTypeOK ==
  /\ service \in [Services -> Row \cup {None, Deleted}]
  /\ barber \in [Barbers -> BOOLEAN]
  /\ assigned \subseteq Barbers \X Services
  /\ booked \subseteq Barbers \X Services
  /\ booking \in (Barbers \X Services) \cup {None}
  /\ missing \subseteq Shops
  /\ call \in [Calls -> Call]
  /\ DOMAIN list \subseteq Services /\ \A s \in DOMAIN list : list[s] \in View
  /\ editing \in [id : Services, row : View] \cup {None}
  /\ form \in Form
  /\ saving \in BOOLEAN
  /\ busy \in Services \cup {None}
  /\ removed \subseteq Services

\* However a delete (catalog.ts:208-213: look, count, delete), a booking
\* (booking.ts:286-334) and an assignment (catalog.ts:284-290) interleave, no
\* appointment and no assignment is left naming a service that is gone, and
\* assignments stay inside one shop.
NothingNamesAGoneService ==
  \A b \in Barbers, s \in Services :
    /\ <<b, s>> \in booked => Exists(s)
    /\ <<b, s>> \in assigned => Exists(s) /\ service[s].shop = ShopOf[b]

\* "A resource owned by another tenant resolves to NotFound" (catalog.ts:8-9): a
\* request changes rows of its own shop only, although every write is by id and
\* the look at the tenant comes earlier.
OnlyOwnShopChanges ==
  [][\A s \in Services : service'[s] # service[s] =>
       \E c \in Calls :
         /\ call[c].at \in {"create", "updateWrite", "deleteWrite"}
         /\ call'[c] # call[c]
         /\ call[c].shop = IF Exists(s) THEN service[s].shop ELSE service'[s].shop]_vars

\* Saving the form changes a service's data only when the user changed it
\* (services-manager.tsx:13-15), whatever other admins wrote since the form was
\* filled: an edit started from an old row does not bring its data back.
Saved(c) ==
  call[c].at = "updateWrite" /\ call[c].from = "form" /\ call'[c] # call[c]

SaveKeepsUntouchedData ==
  [][\A c \in Calls :
       Saved(c) /\ service' # service /\ "data" \notin call[c].touched =>
         service'[call[c].id].data = service[call[c].id].data]_vars

\* services-manager.tsx:14-15: "an edit that does not touch `active` can never
\* reactivate a deactivated service".  It can: the form sends the value it was
\* filled with, and the service may have been deactivated since, by the button
\* next to the form or elsewhere.
EditNeverReactivates ==
  [][\A c \in Calls :
       Saved(c) /\ service' # service /\ "active" \notin call[c].touched =>
         (service'[call[c].id].active => service[call[c].id].active)]_vars

\* A service the page was told it deleted does not come back to its list, in
\* whatever order the answers of an edit and a deletion arrive
\* (services-manager.tsx:113, 138, 154).
DeletedStaysOffTheList == removed \cap DOMAIN list = {}

\* The public lists (catalog.ts:450-488) and the checks of a booking
\* (booking.ts:286-307) are two implementations of one rule: of a shop that is
\* set up, exactly the barbers and services a booking accepts are offered.
OfferedIsAccepted ==
  \A p \in Shops, s \in Services, b \in Barbers :
    onboarded(p) =>
      ((p \in listPublicBarbershops /\ s \in getPublicServices(p)
          /\ b \in getPublicBarbersByService(p, s))
        <=> (Exists(s) /\ service[s].shop = p /\ CheckOffer(b, s)))

\* Whatever the server refuses and the network loses, the save button comes
\* back (services-manager.tsx:97-126, admin-api.ts:84-92).
SaveButtonComesBack == saving ~> ~saving
=============================================================================
