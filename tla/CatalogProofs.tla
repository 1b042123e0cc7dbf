---------------------------- MODULE CatalogProofs -----------------------------
(***************************************************************************)
(* Theorems about Catalog for every set of shops, services, barbers, data  *)
(* and requests under way.                                                 *)
(***************************************************************************)
EXTENDS Catalog, TLAPS

-----------------------------------------------------------------------------
(* What the step a request is at says about its fields.                      *)

Updates == {"updateScope", "updateWrite"}
Deletes == {"deleteScope", "deleteCount", "deleteWrite"}
Assigns == {"assignScope", "assignWrite", "unassignWrite"}

\* The steps that trust an earlier look at the tenant.
Trusting == {"updateWrite", "deleteCount", "deleteWrite", "assignWrite", "unassignWrite"}

LEMMA RowFields ==
  ASSUME NEW r \in Row
  PROVE  /\ r.shop \in Shops /\ r.data \in Data /\ r.active \in BOOLEAN
         /\ r # None /\ r # Deleted
         /\ ViewOf(r) \in View
<1>1. r.shop \in Shops /\ r.data \in Data /\ r.active \in BOOLEAN
  BY DEF Row
<1>2. r # None
  BY CatalogAssumption
<1>3. r # Deleted
  BY DEF Row, Deleted
<1>4. ViewOf(r) \in View
  BY <1>1 DEF ViewOf, View
<1>5. QED
  BY <1>1, <1>2, <1>3, <1>4

LEMMA CallShape ==
  ASSUME NEW c \in Call
  PROVE  /\ c.at = "create" => c.from \in From /\ c.shop \in Shops /\ c.row \in View
         /\ c.at \in Updates =>
              /\ c.from \in From /\ c.shop \in Shops /\ c.id \in Services
              /\ c.patch \in Patch /\ c.touched \in SUBSET {"data", "active"}
         /\ c.at \in Deletes =>
              c.from \in From /\ c.shop \in Shops /\ c.id \in Services
         /\ c.at \in Assigns =>
              /\ c.from = "api" /\ c.shop \in Shops /\ c.id \in Services
              /\ c.barber \in Barbers /\ c.on \in BOOLEAN
         /\ c.at = "answer" =>
              /\ c.from \in From /\ c.id \in Services /\ c.row \in View
              /\ c.kind \in {"created", "updated", "deleted"}
         /\ c.at = "failed" => c.from \in From
BY DEF Call, NoCall, Updates, Deletes, Assigns

\* A call that has looked goes on to its next step: what it carries along.
Decided(c, p) == [c EXCEPT !.at = "updateWrite", !.patch = p]
GoesOnTo(c, n) == [c EXCEPT !.at = n]

LEMMA UpdateMoves ==
  ASSUME NEW c \in Call, c.at \in Updates, NEW p \in Patch
  PROVE  /\ Decided(c, p) \in Call
         /\ Decided(c, p).at = "updateWrite" /\ Decided(c, p).patch = p
         /\ Decided(c, p).id = c.id /\ Decided(c, p).shop = c.shop
<1>1. c \in [at : Updates, from : From, shop : Shops,
             id : Services, patch : Patch, touched : SUBSET {"data", "active"}]
  BY DEF Call, NoCall, Updates
<1>2. QED
  BY <1>1 DEF Call, Updates, Decided

LEMMA DeleteMoves ==
  ASSUME NEW c \in Call, c.at \in Deletes, NEW n \in {"deleteCount", "deleteWrite"}
  PROVE  /\ GoesOnTo(c, n) \in Call /\ GoesOnTo(c, n).at = n
         /\ GoesOnTo(c, n).id = c.id /\ GoesOnTo(c, n).shop = c.shop
         /\ GoesOnTo(c, n).from = c.from
<1>1. c \in [at : Deletes, from : From, shop : Shops, id : Services]
  BY DEF Call, NoCall, Deletes
<1>2. QED
  BY <1>1 DEF Call, Deletes, GoesOnTo

LEMMA AssignMoves ==
  ASSUME NEW c \in Call, c.at \in Assigns, NEW n \in {"assignWrite", "unassignWrite"}
  PROVE  /\ GoesOnTo(c, n) \in Call /\ GoesOnTo(c, n).at = n
         /\ GoesOnTo(c, n).id = c.id /\ GoesOnTo(c, n).shop = c.shop
         /\ GoesOnTo(c, n).barber = c.barber
<1>1. c \in [at : Assigns, from : {"api"}, shop : Shops, id : Services,
             barber : Barbers, on : BOOLEAN]
  BY DEF Call, NoCall, Assigns
<1>2. QED
  BY <1>1 DEF Call, Assigns, GoesOnTo

LEMMA CallsMade ==
  /\ NoCall \in Call
  /\ \A f \in From : [at |-> "failed", from |-> f] \in Call
  /\ \A f \in From, k \in {"created", "updated", "deleted"}, s \in Services, v \in View :
       [at |-> "answer", from |-> f, kind |-> k, id |-> s, row |-> v] \in Call
  /\ \A f \in From, p \in Shops, v \in View :
       [at |-> "create", from |-> f, shop |-> p, row |-> v] \in Call
  /\ \A f \in From, p \in Shops, s \in Services, u \in Patch, t \in SUBSET {"data", "active"} :
       [at |-> "updateScope", from |-> f, shop |-> p, id |-> s, patch |-> u, touched |-> t] \in Call
  /\ \A f \in From, p \in Shops, s \in Services :
       [at |-> "deleteScope", from |-> f, shop |-> p, id |-> s] \in Call
  /\ \A p \in Shops, s \in Services, b \in Barbers, o \in BOOLEAN :
       [at |-> "assignScope", from |-> "api", shop |-> p, barber |-> b, id |-> s, on |-> o] \in Call
BY DEF Call

-----------------------------------------------------------------------------
(* Types and references.  That a write by id changes a row of the request's  *)
(* own shop, or names one that is there, rests on the look at the tenant     *)
(* before it: what a request saw then stays true, or the row is gone.        *)

CallScoped(c) ==
  /\ call[c].at \in Trusting =>
       /\ service[call[c].id] # None
       /\ service[call[c].id] # Deleted =>
            service[call[c].id].shop = call[c].shop
  /\ call[c].at = "assignWrite" => ShopOf[call[c].barber] = call[c].shop
  /\ call[c].at = "updateWrite" => call[c].patch.active \in BOOLEAN

CatalogInv ==
  /\ CatalogTypeOK
  /\ \A c \in Calls : CallScoped(c)
  /\ NothingNamesAGoneService

\* What can become of a service.
Same(s) == service'[s] = service[s]
Made(s) == service[s] = None /\ service'[s] \in Row
Edited(s) ==
  /\ service[s] \in Row /\ service'[s] \in Row
  /\ service'[s].shop = service[s].shop
Gone(s) == service[s] \in Row /\ service'[s] = Deleted

ServiceIsKept == \A s \in Services : Same(s) \/ Made(s) \/ Edited(s) \/ Gone(s)

\* The three steps that write services.
ServiceSteps ==
  \E c \in Calls : CreateService(c) \/ UpdateService(c) \/ DeleteService(c)

LEMMA ServicesStep == [Next]_vars => UNCHANGED service \/ ServiceSteps
<1> SUFFICES ASSUME [Next]_vars, ~ ServiceSteps
             PROVE  UNCHANGED service
  OBVIOUS
<1>1. CASE UNCHANGED vars
  BY <1>1 DEF vars, tables
<1>2. CASE Next
  BY <1>2, ZenonT(60)
  DEF Next, ServiceSteps, Serve, tables, cancelEdit, ToggleActive, CommitBooking, startEdit,
      TypeData, BeginBooking, SetupChanges, UpdateBarber, NetworkFails, Save, Deactivate,
      Delete, ApiCreate, ApiUpdate, ApiDelete, ApiAssign, ScopeUpdate, ScopeDelete,
      CountAppointments, ScopeAssign, AssignService, UnassignService, Answered, Refused
<1>3. QED
  BY <1>1, <1>2

LEMMA CreateServiceKeeps ==
  ASSUME CatalogInv, NEW c \in Calls, CreateService(c)
  PROVE  ServiceIsKept
<1>1. call[c].shop \in Shops /\ call[c].row \in View
  BY CallShape DEF CreateService, CatalogInv, CatalogTypeOK
<1>2. [shop |-> call[c].shop, data |-> call[c].row.data,
       active |-> call[c].row.active] \in Row
  BY <1>1 DEF Row, View
<1>3. QED
  BY <1>2 DEF CreateService, ServiceIsKept, Same, Made, CatalogInv, CatalogTypeOK

LEMMA PatchedRow ==
  ASSUME CatalogInv, NEW c \in Calls, call[c].at = "updateWrite", Exists(call[c].id)
  PROVE  /\ call[c].id \in Services
         /\ service[call[c].id] \in Row
         /\ Patched(service[call[c].id], call[c].patch) \in Row
         /\ Patched(service[call[c].id], call[c].patch).shop = service[call[c].id].shop
         /\ service[call[c].id].shop = call[c].shop
<1>1. /\ call[c].id \in Services /\ call[c].patch \in Patch
      /\ call[c].patch.active \in BOOLEAN
      /\ service[call[c].id].shop = call[c].shop
  BY CallShape DEF CatalogInv, CatalogTypeOK, CallScoped, Updates, Trusting, Exists
<1>2. service[call[c].id] \in Row
  BY <1>1 DEF Exists, CatalogInv, CatalogTypeOK
<1>3. \A r \in Row, p \in Patch :
         p.active \in BOOLEAN => Patched(r, p) \in Row /\ Patched(r, p).shop = r.shop
  BY DEF Row, Patch, Patched
<1>4. QED
  BY <1>1, <1>2, <1>3

LEMMA UpdateServiceKeeps ==
  ASSUME CatalogInv, NEW c \in Calls, UpdateService(c)
  PROVE  ServiceIsKept
<1>1. CASE Exists(call[c].id)
  BY <1>1, PatchedRow
  DEF UpdateService, ServiceIsKept, Same, Edited, CatalogInv, CatalogTypeOK
<1>2. CASE ~ Exists(call[c].id)
  BY <1>2 DEF UpdateService, ServiceIsKept, Same
<1>3. QED
  BY <1>1, <1>2

LEMMA DeleteServiceKeeps ==
  ASSUME CatalogInv, NEW c \in Calls, DeleteService(c)
  PROVE  ServiceIsKept
<1>1. call[c].id \in Services
  BY CallShape DEF DeleteService, CatalogInv, CatalogTypeOK, Deletes
<1>2. QED
  BY <1>1 DEF DeleteService, Exists, ServiceIsKept, Same, Gone, CatalogInv, CatalogTypeOK

LEMMA ServiceMoves == CatalogInv /\ [Next]_vars => ServiceIsKept
BY ServicesStep, CreateServiceKeeps, UpdateServiceKeeps, DeleteServiceKeeps
DEF ServiceSteps, ServiceIsKept, Same

\* What can become of a request: it ends, or it goes on to a step that trusts
\* nothing yet, or to one that trusts what was looked up in this very step.
ScopedCall(x) ==
  /\ service[x.id] # None
  /\ service[x.id] # Deleted => service[x.id].shop = x.shop
  /\ x.at = "assignWrite" => ShopOf[x.barber] = x.shop
  /\ x.at = "updateWrite" => x.patch.active \in BOOLEAN

Moves(c) ==
  \E x \in Call : Goes(c, x) /\ (x.at \in Trusting => UNCHANGED service /\ ScopedCall(x))

LEMMA EndsMove ==
  ASSUME NEW c \in Calls, Goes(c, NoCall)
  PROVE  Moves(c)
BY CallsMade DEF Moves, NoCall, Trusting

LEMMA FailsMove ==
  ASSUME NEW c \in Calls, Fails(c), call[c].from \in From
  PROVE  Moves(c)
<1>1. CASE call[c].from = "api"
  BY <1>1, EndsMove DEF Fails
<1>2. CASE call[c].from # "api"
  <2> DEFINE x == [at |-> "failed", from |-> call[c].from]
  <2>1. Goes(c, x)
    BY <1>2 DEF Fails
  <2>2. x \in Call
    BY CallsMade
  <2>3. x.at \notin Trusting
    BY DEF Trusting
  <2> HIDE DEF x
  <2>4. QED
    BY <2>1, <2>2, <2>3 DEF Moves
<1>3. QED
  BY <1>1, <1>2

LEMMA AnswersMove ==
  ASSUME NEW c \in Calls, NEW k \in {"created", "updated", "deleted"},
         NEW s \in Services, NEW v \in View, Answers(c, k, s, v), call[c].from \in From
  PROVE  Moves(c)
<1>1. CASE call[c].from = "api"
  BY <1>1, EndsMove DEF Answers
<1>2. CASE call[c].from # "api"
  <2> DEFINE x == [at |-> "answer", from |-> call[c].from, kind |-> k, id |-> s, row |-> v]
  <2>1. Goes(c, x)
    BY <1>2 DEF Answers
  <2>2. x \in Call
    BY CallsMade
  <2>3. x.at \notin Trusting
    BY DEF Trusting
  <2> HIDE DEF x
  <2>4. QED
    BY <2>1, <2>2, <2>3 DEF Moves
<1>3. QED
  BY <1>1, <1>2

LEMMA CreateServiceMoves ==
  ASSUME CatalogInv, NEW c \in Calls, CreateService(c)
  PROVE  Moves(c)
<1>1. call[c].from \in From /\ call[c].row \in View
  BY CallShape DEF CreateService, CatalogInv, CatalogTypeOK
<1>2. Fails(c) \/ \E s \in Services : Answers(c, "created", s, call[c].row)
  BY DEF CreateService
<1>3. QED
  BY <1>1, <1>2, FailsMove, AnswersMove

LEMMA UpdateServiceMoves ==
  ASSUME CatalogInv, NEW c \in Calls, UpdateService(c)
  PROVE  Moves(c)
<1>1. call[c].from \in From /\ call[c].id \in Services /\ call[c].at = "updateWrite"
  BY CallShape DEF UpdateService, CatalogInv, CatalogTypeOK, Updates
<1>2. CASE Exists(call[c].id)
  <2> DEFINE s == call[c].id
             v == ViewOf(Patched(service[s], call[c].patch))
  <2>1. v \in View
    BY <1>1, <1>2, PatchedRow, RowFields
  <2>2. Answers(c, "updated", s, v)
    BY <1>2 DEF UpdateService
  <2> HIDE DEF s, v
  <2>3. s \in Services
    BY <1>1 DEF s
  <2>4. QED
    BY <1>1, <2>1, <2>2, <2>3, AnswersMove
<1>3. CASE ~ Exists(call[c].id)
  BY <1>1, <1>3, FailsMove DEF UpdateService
<1>4. QED
  BY <1>2, <1>3

LEMMA DeleteServiceMoves ==
  ASSUME CatalogInv, NEW c \in Calls, DeleteService(c)
  PROVE  Moves(c)
<1>1. call[c].from \in From /\ call[c].id \in Services
  BY CallShape DEF DeleteService, CatalogInv, CatalogTypeOK, Deletes
<1>2. CASE Exists(call[c].id) /\ ~ Referenced(call[c].id)
  <2> DEFINE s == call[c].id
             v == ViewOf(service[s])
  <2>1. service[s] \in Row
    BY <1>1, <1>2 DEF Exists, CatalogInv, CatalogTypeOK
  <2>2. v \in View
    BY <2>1, RowFields
  <2>3. Answers(c, "deleted", s, v)
    BY <1>2 DEF DeleteService
  <2> HIDE DEF s, v
  <2>4. s \in Services
    BY <1>1 DEF s
  <2>5. QED
    BY <1>1, <2>2, <2>3, <2>4, AnswersMove
<1>3. CASE ~ (Exists(call[c].id) /\ ~ Referenced(call[c].id))
  BY <1>1, <1>3, FailsMove DEF DeleteService
<1>4. QED
  BY <1>2, <1>3

LEMMA ScopeUpdateMoves ==
  ASSUME CatalogInv, NEW c \in Calls, ScopeUpdate(c)
  PROVE  Moves(c)
<1>1. /\ call[c] \in Call /\ call[c].at \in Updates
      /\ call[c].from \in From /\ call[c].id \in Services /\ call[c].patch \in Patch
  BY CallShape DEF ScopeUpdate, CatalogInv, CatalogTypeOK, Updates
<1>2. CASE Scoped(call[c].id, call[c].shop)
  <2> DEFINE p == ServiceUpdate(call[c].patch)
             x == Decided(call[c], p)
  <2>1. p \in Patch /\ p.active \in BOOLEAN
    BY <1>1 DEF ServiceUpdate, Patch
  <2> HIDE DEF p
  <2>2. /\ x \in Call /\ x.at = "updateWrite" /\ x.patch = p
        /\ x.id = call[c].id /\ x.shop = call[c].shop
    BY <1>1, <2>1, UpdateMoves
  <2>3. Goes(c, x)
    BY <1>2 DEF ScopeUpdate, p, Decided
  <2>4. UNCHANGED service
    BY DEF ScopeUpdate, tables
  <2> HIDE DEF x
  <2>5. ScopedCall(x)
    BY <1>2, <2>1, <2>2 DEF ScopedCall, Scoped, Exists
  <2>6. QED
    BY <2>2, <2>3, <2>4, <2>5 DEF Moves
<1>3. CASE ~ Scoped(call[c].id, call[c].shop)
  BY <1>1, <1>3, FailsMove DEF ScopeUpdate
<1>4. QED
  BY <1>2, <1>3

LEMMA ScopeDeleteMoves ==
  ASSUME CatalogInv, NEW c \in Calls, ScopeDelete(c) \/ CountAppointments(c)
  PROVE  Moves(c)
<1>1. call[c] \in Call /\ call[c].at \in Deletes /\ call[c].from \in From
  BY CallShape DEF ScopeDelete, CountAppointments, CatalogInv, CatalogTypeOK, Deletes
<1>2. CASE Fails(c)
  BY <1>1, <1>2, FailsMove
<1>3. CASE ~ Fails(c)
  <2>1. PICK n \in {"deleteCount", "deleteWrite"} : Goes(c, GoesOnTo(call[c], n))
    BY <1>3 DEF ScopeDelete, CountAppointments, GoesOnTo
  <2> DEFINE x == GoesOnTo(call[c], n)
  <2>2. /\ x \in Call /\ x.at = n /\ x.id = call[c].id /\ x.shop = call[c].shop
    BY <1>1, DeleteMoves
  <2>3. UNCHANGED service
    BY DEF ScopeDelete, CountAppointments, tables
  <2>4. /\ service[call[c].id] # None
        /\ service[call[c].id] # Deleted => service[call[c].id].shop = call[c].shop
    BY <1>3 DEF ScopeDelete, CountAppointments, Scoped, Exists, CatalogInv, CallScoped, Trusting
  <2>5. Goes(c, x)
    BY <2>1
  <2> HIDE DEF x
  <2>6. ScopedCall(x)
    BY <2>2, <2>4 DEF ScopedCall
  <2>7. QED
    BY <2>2, <2>3, <2>5, <2>6 DEF Moves
<1>4. QED
  BY <1>2, <1>3

LEMMA ScopeAssignMoves ==
  ASSUME CatalogInv, NEW c \in Calls, ScopeAssign(c)
  PROVE  Moves(c)
<1>1. call[c] \in Call /\ call[c].at \in Assigns /\ call[c].from = "api"
  BY CallShape DEF ScopeAssign, CatalogInv, CatalogTypeOK, Assigns
<1>2. CASE ShopOf[call[c].barber] = call[c].shop /\ Scoped(call[c].id, call[c].shop)
  <2>1. PICK n \in {"assignWrite", "unassignWrite"} : Goes(c, GoesOnTo(call[c], n))
    BY <1>2 DEF ScopeAssign, GoesOnTo
  <2> DEFINE x == GoesOnTo(call[c], n)
  <2>2. /\ x \in Call /\ x.at = n /\ x.id = call[c].id /\ x.shop = call[c].shop
        /\ x.barber = call[c].barber
    BY <1>1, AssignMoves
  <2>3. UNCHANGED service
    BY DEF ScopeAssign, tables
  <2>4. Goes(c, x)
    BY <2>1
  <2> HIDE DEF x
  <2>5. ScopedCall(x)
    BY <1>2, <2>2 DEF ScopedCall, Scoped, Exists
  <2>6. QED
    BY <2>2, <2>3, <2>4, <2>5 DEF Moves
<1>3. CASE ~ (ShopOf[call[c].barber] = call[c].shop /\ Scoped(call[c].id, call[c].shop))
  BY <1>1, <1>3, FailsMove DEF ScopeAssign, From
<1>4. QED
  BY <1>2, <1>3

LEMMA SendsMove ==
  ASSUME NEW c \in Calls, NEW x \in Call, Sends(c, x), x.at \notin Trusting
  PROVE  Moves(c)
BY DEF Sends, Goes, Moves

LEMMA SaveMoves ==
  ASSUME CatalogInv, NEW c \in Calls, Save(c)
  PROVE  Moves(c)
<1>1. /\ form.data \in Data /\ form.active \in BOOLEAN
      /\ form.touched \in SUBSET {"data", "active"}
  BY DEF Save, CatalogInv, CatalogTypeOK, Form
<1>2. CASE editing # None
  <2> DEFINE p == serviceUpdatePatch(editing.row, form)
             x == [at |-> "updateScope", from |-> "form", shop |-> Home,
                   id |-> editing.id, patch |-> p, touched |-> form.touched]
  <2>1. editing.id \in Services
    BY <1>2 DEF CatalogInv, CatalogTypeOK
  <2>2. p \in Patch
    BY <1>1 DEF serviceUpdatePatch, Patch
  <2>3. Sends(c, x)
    BY <1>2 DEF Save
  <2> HIDE DEF p
  <2>4. x \in Call
    BY <1>1, <2>1, <2>2, CatalogAssumption, CallsMade DEF From
  <2>5. x.at \notin Trusting
    BY DEF Trusting
  <2> HIDE DEF x
  <2>6. QED
    BY <2>3, <2>4, <2>5, SendsMove
<1>3. CASE editing = None
  <2> DEFINE x == [at |-> "create", from |-> "form", shop |-> Home,
                   row |-> [data |-> form.data, active |-> TRUE]]
  <2>1. Sends(c, x)
    BY <1>3 DEF Save
  <2>2. x \in Call
    BY <1>1, CatalogAssumption, CallsMade DEF From, View
  <2>3. x.at \notin Trusting
    BY DEF Trusting
  <2> HIDE DEF x
  <2>4. QED
    BY <2>1, <2>2, <2>3, SendsMove
<1>4. QED
  BY <1>2, <1>3

LEMMA RowButtonsMove ==
  ASSUME NEW c \in Calls, NEW s \in Services, Deactivate(c, s) \/ Delete(c, s)
  PROVE  Moves(c)
<1>1. CASE Deactivate(c, s)
  <2> DEFINE p == [data |-> None, active |-> FALSE]
             x == [at |-> "updateScope", from |-> "row", shop |-> Home, id |-> s,
                   patch |-> p, touched |-> {"active"}]
  <2>1. p \in Patch
    BY DEF Patch
  <2>2. Sends(c, x)
    BY <1>1 DEF Deactivate
  <2> HIDE DEF p
  <2>3. x \in Call
    BY <2>1, CatalogAssumption, CallsMade DEF From
  <2>4. x.at \notin Trusting
    BY DEF Trusting
  <2> HIDE DEF x
  <2>5. QED
    BY <2>2, <2>3, <2>4, SendsMove
<1>2. CASE Delete(c, s)
  <2> DEFINE x == [at |-> "deleteScope", from |-> "row", shop |-> Home, id |-> s]
  <2>1. Sends(c, x)
    BY <1>2 DEF Delete
  <2>2. x \in Call
    BY CatalogAssumption, CallsMade DEF From
  <2>3. x.at \notin Trusting
    BY DEF Trusting
  <2> HIDE DEF x
  <2>4. QED
    BY <2>1, <2>2, <2>3, SendsMove
<1>3. QED
  BY <1>1, <1>2

\* A request from elsewhere.
Api(c) ==
  \E p \in Shops :
    \/ \E row \in Rows : ApiCreate(c, p, row)
    \/ \E s \in Services :
         \/ \E patch \in Patches : ApiUpdate(c, p, s, patch)
         \/ ApiDelete(c, p, s)
         \/ \E b \in Barbers, on \in BOOLEAN : ApiAssign(c, p, b, s, on)

LEMMA ApiMoves ==
  ASSUME NEW c \in Calls, Api(c)
  PROVE  Moves(c)
<1>1. Rows \subseteq View /\ Patches \subseteq Patch /\ "api" \in From
  BY CatalogAssumption DEF View, Patch, From
<1>2. PICK x \in Call : Sends(c, x) /\ x.at \notin Trusting
  <2>1. ASSUME NEW p \in Shops, NEW row \in Rows, ApiCreate(c, p, row)
        PROVE  \E x \in Call : Sends(c, x) /\ x.at \notin Trusting
    <3> DEFINE x == [at |-> "create", from |-> "api", shop |-> p, row |-> row]
    <3>1. x \in Call /\ x.at \notin Trusting
      BY <1>1, CallsMade DEF Trusting
    <3>2. QED
      BY <2>1, <3>1 DEF ApiCreate
  <2>2. ASSUME NEW p \in Shops, NEW s \in Services, NEW patch \in Patches,
               ApiUpdate(c, p, s, patch)
        PROVE  \E x \in Call : Sends(c, x) /\ x.at \notin Trusting
    <3> DEFINE x == [at |-> "updateScope", from |-> "api", shop |-> p, id |-> s,
                     patch |-> patch, touched |-> {"data", "active"}]
    <3>1. x \in Call /\ x.at \notin Trusting
      BY <1>1, CallsMade DEF Trusting
    <3>2. QED
      BY <2>2, <3>1 DEF ApiUpdate
  <2>3. ASSUME NEW p \in Shops, NEW s \in Services, ApiDelete(c, p, s)
        PROVE  \E x \in Call : Sends(c, x) /\ x.at \notin Trusting
    <3> DEFINE x == [at |-> "deleteScope", from |-> "api", shop |-> p, id |-> s]
    <3>1. x \in Call /\ x.at \notin Trusting
      BY <1>1, CallsMade DEF Trusting
    <3>2. QED
      BY <2>3, <3>1 DEF ApiDelete
  <2>4. ASSUME NEW p \in Shops, NEW s \in Services, NEW b \in Barbers, NEW on \in BOOLEAN,
               ApiAssign(c, p, b, s, on)
        PROVE  \E x \in Call : Sends(c, x) /\ x.at \notin Trusting
    <3> DEFINE x == [at |-> "assignScope", from |-> "api", shop |-> p, barber |-> b,
                     id |-> s, on |-> on]
    <3>1. x \in Call /\ x.at \notin Trusting
      BY CallsMade DEF Trusting
    <3>2. QED
      BY <2>4, <3>1 DEF ApiAssign
  <2>5. QED
    BY <2>1, <2>2, <2>3, <2>4 DEF Api
<1>3. QED
  BY <1>2, SendsMove

LEMMA NetworkFailsMoves ==
  ASSUME CatalogInv, NEW c \in Calls, NetworkFails(c)
  PROVE  Moves(c)
<1>1. call[c].from \in From
  BY CallShape DEF NetworkFails, CatalogInv, CatalogTypeOK, Updates, Deletes
<1>2. QED
  BY <1>1, FailsMove DEF NetworkFails

LEMMA CallsMove == CatalogInv /\ [Next]_vars => UNCHANGED call \/ \E c \in Calls : Moves(c)
<1> SUFFICES ASSUME CatalogInv, [Next]_vars
             PROVE  UNCHANGED call \/ \E c \in Calls : Moves(c)
  OBVIOUS
<1>1. ASSUME NEW c \in Calls, Serve(c)
      PROVE  Moves(c)
  <2>1. CASE \/ AssignService(c) \/ UnassignService(c) \/ Answered(c) \/ Refused(c)
    BY <2>1, EndsMove DEF AssignService, UnassignService, Answered, Refused
  <2>2. QED
    BY <1>1, <2>1, CreateServiceMoves, UpdateServiceMoves, DeleteServiceMoves, ScopeUpdateMoves,
       ScopeDeleteMoves, ScopeAssignMoves DEF Serve
<1>2. CASE UNCHANGED vars
  BY <1>2 DEF vars
<1>3. CASE Next
  BY <1>1, <1>3, SaveMoves, RowButtonsMove, ApiMoves, NetworkFailsMoves
  DEF Next, Api, cancelEdit, ToggleActive, CommitBooking, startEdit, TypeData, BeginBooking,
      SetupChanges, UpdateBarber
<1>4. QED
  BY <1>2, <1>3

LEMMA ScopedStays ==
  ASSUME CatalogInv, [Next]_vars, NEW x, x.id \in Services, ScopedCall(x)
  PROVE  ScopedCall(x)'
<1>1. x.id \in Services =>
        Same(x.id) \/ Made(x.id) \/ Edited(x.id) \/ Gone(x.id)
  BY ServiceMoves DEF ServiceIsKept
<1>2. QED
  BY <1>1, RowFields, CatalogAssumption DEF ScopedCall, Same, Made, Edited, Gone, Row, Deleted

LEMMA CallsStaySound == CatalogInv /\ [Next]_vars =>
  call' \in [Calls -> Call] /\ \A c \in Calls : CallScoped(c)'
<1> SUFFICES ASSUME CatalogInv, [Next]_vars
             PROVE  call' \in [Calls -> Call] /\ \A c \in Calls : CallScoped(c)'
  OBVIOUS
<1>1. call \in [Calls -> Call]
  BY DEF CatalogInv, CatalogTypeOK
<1>2. \A x \in Call : x.at \in Trusting => x.id \in Services
  BY CallShape DEF Trusting, Updates, Deletes, Assigns
<1>3. ASSUME NEW d \in Calls, call'[d] = call[d]
      PROVE  CallScoped(d)'
  <2>1. PICK x \in Call : x = call[d]
    BY <1>1
  <2>2. x.at \in Trusting => ScopedCall(x)
    BY <2>1 DEF CatalogInv, CallScoped, ScopedCall
  <2>3. x.at \in Trusting => ScopedCall(x)'
    BY <1>2, <2>2, ScopedStays
  <2>4. QED
    BY <1>3, <2>1, <2>3 DEF CallScoped, ScopedCall, Trusting
<1>4. CASE UNCHANGED call
  BY <1>1, <1>3, <1>4
<1>5. ASSUME NEW c \in Calls, Moves(c)
      PROVE  call' \in [Calls -> Call] /\ \A d \in Calls : CallScoped(d)'
  <2>1. PICK x \in Call :
          Goes(c, x) /\ (x.at \in Trusting => UNCHANGED service /\ ScopedCall(x))
    BY <1>5 DEF Moves
  <2>2. call' \in [Calls -> Call] /\ call'[c] = x /\ \A d \in Calls \ {c} : call'[d] = call[d]
    BY <1>1, <2>1 DEF Goes
  <2>3. x.at \in Trusting => ScopedCall(x)'
    BY <1>2, <2>1, ScopedStays
  <2>4. CallScoped(c)'
    BY <2>2, <2>3 DEF CallScoped, ScopedCall, Trusting
  <2>5. QED
    BY <1>3, <2>2, <2>4
<1>6. QED
  BY <1>4, <1>5, CallsMove

\* The tables beside Service.
References ==
  /\ barber \in [Barbers -> BOOLEAN]
  /\ assigned \subseteq Barbers \X Services
  /\ booked \subseteq Barbers \X Services
  /\ booking \in (Barbers \X Services) \cup {None}
  /\ missing \subseteq Shops

referenceTables == <<barber, assigned, booked, booking, missing>>

\* The steps that write them.
ReferenceSteps ==
  \/ CommitBooking
  \/ \E b \in Barbers, s \in Services : BeginBooking(b, s)
  \/ \E p \in Shops : SetupChanges(p)
  \/ \E p \in Shops, b \in Barbers, active \in BOOLEAN : UpdateBarber(p, b, active)
  \/ \E c \in Calls : DeleteService(c) \/ AssignService(c) \/ UnassignService(c)

LEMMA ReferencesStep == [Next]_vars => UNCHANGED referenceTables \/ ReferenceSteps
<1> SUFFICES ASSUME [Next]_vars, ~ ReferenceSteps
             PROVE  UNCHANGED referenceTables
  OBVIOUS
<1>1. CASE UNCHANGED vars
  BY <1>1 DEF vars, tables, referenceTables
<1>2. CASE Next
  BY <1>2, ZenonT(60)
  DEF Next, ReferenceSteps, Serve, tables, referenceTables, cancelEdit, ToggleActive, startEdit,
      TypeData, NetworkFails, Save, Deactivate, Delete, ApiCreate, ApiUpdate, ApiDelete,
      ApiAssign, CreateService, UpdateService, ScopeUpdate, ScopeDelete, CountAppointments,
      ScopeAssign, Answered, Refused
<1>3. QED
  BY <1>1, <1>2

LEMMA ReferencesStayTyped == CatalogInv /\ [Next]_vars => References'
<1> SUFFICES ASSUME CatalogInv, [Next]_vars
             PROVE  References'
  OBVIOUS
<1> USE DEF References
<1>1. References
  BY DEF CatalogInv, CatalogTypeOK
<1>2. CASE UNCHANGED referenceTables
  BY <1>1, <1>2 DEF referenceTables
<1>3. CASE CommitBooking
  BY <1>1, <1>3 DEF CommitBooking
<1>4. ASSUME NEW b \in Barbers, NEW s \in Services, BeginBooking(b, s)
      PROVE  References'
  BY <1>1, <1>4 DEF BeginBooking
<1>5. ASSUME NEW p \in Shops, SetupChanges(p)
      PROVE  References'
  BY <1>1, <1>5 DEF SetupChanges
<1>6. ASSUME NEW p \in Shops, NEW b \in Barbers, NEW active \in BOOLEAN,
             UpdateBarber(p, b, active)
      PROVE  References'
  BY <1>1, <1>6 DEF UpdateBarber
<1>7. ASSUME NEW c \in Calls, DeleteService(c)
      PROVE  References'
  BY <1>1, <1>7 DEF DeleteService
<1>8. ASSUME NEW c \in Calls, AssignService(c)
      PROVE  References'
  <2>1. call[c].barber \in Barbers /\ call[c].id \in Services
    BY <1>8, CallShape DEF AssignService, Assigns, CatalogInv, CatalogTypeOK
  <2>2. QED
    BY <1>1, <1>8, <2>1 DEF AssignService
<1>9. ASSUME NEW c \in Calls, UnassignService(c)
      PROVE  References'
  BY <1>1, <1>9 DEF UnassignService
<1>10. QED
  BY <1>2, <1>3, <1>4, <1>5, <1>6, <1>7, <1>8, <1>9, ReferencesStep DEF ReferenceSteps

\* What the page keeps.
PageTyped ==
  /\ DOMAIN list \subseteq Services /\ \A s \in DOMAIN list : list[s] \in View
  /\ editing \in [id : Services, row : View] \cup {None}
  /\ form \in Form
  /\ saving \in BOOLEAN
  /\ busy \in Services \cup {None}
  /\ removed \subseteq Services

\* The steps that write it.
PageSteps ==
  \/ cancelEdit \/ ToggleActive
  \/ \E s \in Services : startEdit(s)
  \/ \E d \in Data : TypeData(d)
  \/ \E c \in Calls :
       \/ Save(c) \/ Answered(c) \/ Refused(c)
       \/ \E s \in Services : Deactivate(c, s) \/ Delete(c, s)

LEMMA PageStep == [Next]_vars => UNCHANGED page \/ PageSteps
<1> SUFFICES ASSUME [Next]_vars, ~ PageSteps
             PROVE  UNCHANGED page
  OBVIOUS
<1>1. CASE UNCHANGED vars
  BY <1>1 DEF vars
<1>2. CASE Next
  BY <1>2, ZenonT(60)
  DEF Next, PageSteps, Serve, BeginBooking, CommitBooking, SetupChanges, UpdateBarber,
      NetworkFails, ApiCreate, ApiUpdate, ApiDelete, ApiAssign, CreateService, UpdateService,
      DeleteService, ScopeUpdate, ScopeDelete, CountAppointments, ScopeAssign, AssignService,
      UnassignService
<1>3. QED
  BY <1>1, <1>2

LEMMA PageStaysTyped == CatalogInv /\ [Next]_vars => PageTyped'
<1> SUFFICES ASSUME CatalogInv, [Next]_vars
             PROVE  PageTyped'
  OBVIOUS
<1> USE DEF PageTyped
<1>1. PageTyped
  BY DEF CatalogInv, CatalogTypeOK
<1>2. CASE UNCHANGED page
  BY <1>1, <1>2 DEF page
<1>3. CASE cancelEdit
  BY <1>1, <1>3 DEF cancelEdit, EMPTY_FORM, Form
<1>4. CASE ToggleActive
  BY <1>1, <1>4 DEF ToggleActive, Form
<1>5. ASSUME NEW s \in Services, startEdit(s)
      PROVE  PageTyped'
  <2>1. list[s] \in View
    BY <1>1, <1>5 DEF startEdit
  <2>2. form' \in Form
    BY <1>5, <2>1 DEF startEdit, View, Form
  <2>3. QED
    BY <1>1, <1>5, <2>1, <2>2 DEF startEdit
<1>6. ASSUME NEW d \in Data, TypeData(d)
      PROVE  PageTyped'
  BY <1>1, <1>6 DEF TypeData, Form
<1>7. ASSUME NEW c \in Calls, Save(c)
      PROVE  PageTyped'
  BY <1>1, <1>7 DEF Save
<1>8. ASSUME NEW c \in Calls, Answered(c)
      PROVE  PageTyped'
  <2>1. /\ call[c].id \in Services /\ call[c].row \in View
        /\ call[c].kind \in {"created", "updated", "deleted"}
    BY <1>8, CallShape DEF Answered, CatalogInv, CatalogTypeOK
  <2>2. DOMAIN list' \subseteq Services /\ \A s \in DOMAIN list' : list'[s] \in View
    <3>1. CASE call[c].kind = "created"
      BY <1>1, <1>8, <2>1, <3>1 DEF Answered, Appended
    <3>2. CASE call[c].kind = "updated"
      BY <1>1, <1>8, <2>1, <3>2 DEF Answered, Replaced
    <3>3. CASE call[c].kind = "deleted"
      BY <1>1, <1>8, <2>1, <3>3 DEF Answered, Filtered
    <3>4. QED
      BY <2>1, <3>1, <3>2, <3>3
  <2>3. form' \in Form
    BY <1>1, <1>8 DEF Answered, EMPTY_FORM, Form
  <2>4. /\ editing' \in [id : Services, row : View] \cup {None}
        /\ saving' \in BOOLEAN /\ busy' \in Services \cup {None}
        /\ removed' \subseteq Services
    BY <1>1, <1>8, <2>1 DEF Answered
  <2>5. QED
    BY <2>2, <2>3, <2>4
<1>9. ASSUME NEW c \in Calls, Refused(c)
      PROVE  PageTyped'
  BY <1>1, <1>9 DEF Refused
<1>10. ASSUME NEW c \in Calls, NEW s \in Services, Deactivate(c, s) \/ Delete(c, s)
       PROVE  PageTyped'
  BY <1>1, <1>10 DEF Deactivate, Delete
<1>11. QED
  BY <1>2, <1>3, <1>4, <1>5, <1>6, <1>7, <1>8, <1>9, <1>10, PageStep DEF PageSteps

LEMMA CatalogInit == Init => CatalogInv
<1> SUFFICES ASSUME Init
             PROVE  CatalogInv
  OBVIOUS
<1>1. \A c \in Calls : call[c] = NoCall
  BY DEF Init
<1>2. \A c \in Calls : CallScoped(c)
  BY <1>1 DEF CallScoped, NoCall, Trusting
<1>3. call \in [Calls -> Call]
  BY CallsMade DEF Init
<1>4. References
  BY DEF Init, References
<1>5. DOMAIN list \subseteq Services /\ \A s \in DOMAIN list : list[s] \in View
  <2>1. \A s \in Services : Exists(s) => ViewOf(service[s]) \in View
    BY RowFields DEF Init, Exists
  <2>2. QED
    BY <2>1 DEF Init
<1>6. PageTyped
  BY <1>5 DEF Init, PageTyped, EMPTY_FORM, Form
<1>7. service \in [Services -> Row \cup {None, Deleted}]
  BY DEF Init
<1>8. NothingNamesAGoneService
  BY DEF Init, NothingNamesAGoneService
<1>9. QED
  BY <1>2, <1>3, <1>4, <1>6, <1>7, <1>8 DEF CatalogInv, CatalogTypeOK, References, PageTyped

LEMMA NamesStay == CatalogInv /\ [Next]_vars => NothingNamesAGoneService'
<1> SUFFICES ASSUME CatalogInv, [Next]_vars, NEW b \in Barbers, NEW s \in Services
             PROVE  /\ <<b, s>> \in booked' => Exists(s)'
                    /\ <<b, s>> \in assigned' => Exists(s)' /\ service'[s].shop = ShopOf[b]
  BY DEF NothingNamesAGoneService
<1>1. /\ <<b, s>> \in booked => Exists(s)
      /\ <<b, s>> \in assigned => Exists(s) /\ service[s].shop = ShopOf[b]
  BY DEF CatalogInv, NothingNamesAGoneService
<1>2. Same(s) \/ Made(s) \/ Edited(s) \/ Gone(s)
  BY ServiceMoves DEF ServiceIsKept
<1>3. Exists(s) /\ ~ Gone(s) => Exists(s)' /\ service'[s].shop = service[s].shop
  BY <1>2, RowFields DEF Exists, Same, Made, Edited
<1>4. CASE Gone(s)
  <2>1. ~ UNCHANGED service
    BY <1>4, RowFields DEF Gone
  <2>2. PICK c \in Calls : DeleteService(c)
    <3>1. ASSUME NEW c \in Calls, CreateService(c)
          PROVE  FALSE
      BY <1>4, <3>1, RowFields
      DEF Gone, CreateService, Deleted, Row, CatalogInv, CatalogTypeOK
    <3>2. ASSUME NEW c \in Calls, UpdateService(c)
          PROVE  FALSE
      BY <1>4, <2>1, <3>2, PatchedRow, RowFields
      DEF Gone, UpdateService, CatalogInv, CatalogTypeOK
    <3>3. QED
      BY <2>1, <3>1, <3>2, ServicesStep DEF ServiceSteps
  <2>3. s = call[c].id /\ ~ Referenced(call[c].id)
    BY <1>4, <2>1, <2>2, RowFields DEF Gone, DeleteService, CatalogInv, CatalogTypeOK
  <2>4. ~ InUse(s)
    BY <2>3 DEF Referenced
  <2>5. <<b, s>> \notin booked /\ UNCHANGED booked
    BY <2>2, <2>4 DEF InUse, DeleteService
  <2>6. <<b, s>> \notin assigned'
    BY <2>1, <2>2, <2>3 DEF DeleteService
  <2>7. QED
    BY <2>5, <2>6
<1>5. CASE ~ Gone(s) /\ (<<b, s>> \in booked' => <<b, s>> \in booked)
                     /\ (<<b, s>> \in assigned' => <<b, s>> \in assigned)
  BY <1>1, <1>3, <1>5
<1>6. CASE CommitBooking
  <2>1. UNCHANGED <<service, assigned>>
    BY <1>6 DEF CommitBooking
  <2>2. <<b, s>> \in booked' => <<b, s>> \in booked \/ Exists(s)
    BY <1>6 DEF CommitBooking
  <2>3. QED
    BY <1>1, <2>1, <2>2 DEF Exists
<1>7. ASSUME NEW c \in Calls, AssignService(c)
      PROVE  /\ <<b, s>> \in booked' => Exists(s)'
             /\ <<b, s>> \in assigned' => Exists(s)' /\ service'[s].shop = ShopOf[b]
  <2>1. UNCHANGED <<service, booked>> /\ call[c].at = "assignWrite"
    BY <1>7 DEF AssignService
  <2>2. CASE <<b, s>> \in assigned \/ <<b, s>> \notin assigned'
    BY <1>1, <2>1, <2>2 DEF Exists
  <2>3. CASE <<b, s>> \notin assigned /\ <<b, s>> \in assigned'
    <3>1. Exists(call[c].id) /\ b = call[c].barber /\ s = call[c].id
      BY <1>7, <2>3 DEF AssignService
    <3>2. Exists(s)
      BY <3>1
    <3>3. service[s].shop = call[c].shop /\ ShopOf[b] = call[c].shop
      BY <2>1, <3>1 DEF CatalogInv, CallScoped, Trusting, Exists
    <3>4. QED
      BY <1>1, <2>1, <3>2, <3>3 DEF Exists
  <2>4. QED
    BY <2>2, <2>3
<1>8. CASE ~ Gone(s) /\ ~ CommitBooking /\ ~ \E c \in Calls : AssignService(c)
  <2>1. booked' = booked
    BY <1>8, ReferencesStep
    DEF ReferenceSteps, referenceTables, BeginBooking, SetupChanges, UpdateBarber, DeleteService,
        UnassignService
  <2>2. assigned' \subseteq assigned
    BY <1>8, ReferencesStep
    DEF ReferenceSteps, referenceTables, BeginBooking, SetupChanges, UpdateBarber, DeleteService,
        UnassignService
  <2>3. QED
    BY <1>5, <1>8, <2>1, <2>2
<1>9. QED
  BY <1>4, <1>6, <1>7, <1>8

LEMMA CatalogNext == CatalogInv /\ [Next]_vars => CatalogInv'
<1> SUFFICES ASSUME CatalogInv, [Next]_vars
             PROVE  CatalogInv'
  OBVIOUS
<1>1. service' \in [Services -> Row \cup {None, Deleted}]
  <2>1. service \in [Services -> Row \cup {None, Deleted}]
    BY DEF CatalogInv, CatalogTypeOK
  <2>2. \A s \in Services : service'[s] \in Row \cup {None, Deleted}
    BY <2>1, ServiceMoves DEF ServiceIsKept, Same, Made, Edited, Gone
  <2>3. UNCHANGED service \/ \E s, r : service' = [service EXCEPT ![s] = r]
    BY ServicesStep DEF ServiceSteps, CreateService, UpdateService, DeleteService
  <2>4. QED
    BY <2>1, <2>2, <2>3
<1>2. CatalogTypeOK'
  BY <1>1, CallsStaySound, ReferencesStayTyped, PageStaysTyped
  DEF CatalogTypeOK, References, PageTyped
<1>3. QED
  BY <1>2, CallsStaySound, NamesStay DEF CatalogInv

\* The tables, every call under way and what the page knows agree at every step
\* of every request (catalog.ts, the writes one by one).
THEOREM CatalogInvariant == Spec => []CatalogInv
BY CatalogInit, CatalogNext, PTL DEF Spec

\* Every variable keeps its type, whatever admins, the page and clients do.
THEOREM CatalogTyped == Spec => []CatalogTypeOK
BY CatalogInvariant, PTL DEF CatalogInv

\* No appointment and no assignment names a service that is gone, and
\* assignments stay inside one shop, however deletes (catalog.ts 208-213),
\* assignments (284-290) and bookings (booking.ts 286-334) interleave.
THEOREM CatalogNamesLive == Spec => []NothingNamesAGoneService
BY CatalogInvariant, PTL DEF CatalogInv

-----------------------------------------------------------------------------
(* Tenants.                                                                  *)

LEMMA ReplyGoes ==
  ASSUME NEW c \in Calls, Fails(c) \/ \E k, s, v : Answers(c, k, s, v)
  PROVE  \E x : Goes(c, x) /\ x.at \in {"none", "failed", "answer"}
<1>1. CASE call[c].from = "api"
  BY <1>1 DEF Fails, Answers, NoCall
<1>2. CASE Fails(c) /\ call[c].from # "api"
  BY <1>2 DEF Fails
<1>3. CASE ~ Fails(c) /\ call[c].from # "api"
  <2>1. PICK k, s, v : Answers(c, k, s, v)
    BY <1>3
  <2> DEFINE x == [at |-> "answer", from |-> call[c].from, kind |-> k, id |-> s, row |-> v]
  <2>2. Goes(c, x) /\ x.at = "answer"
    BY <1>3, <2>1 DEF Answers
  <2>3. QED
    BY <2>2
<1>4. QED
  BY <1>1, <1>2, <1>3

LEMMA ReplyEndsStep ==
  ASSUME CatalogInv, NEW c \in Calls,
         Fails(c) \/ \E k, s, v : Answers(c, k, s, v)
  PROVE  call'[c].at \in {"none", "failed", "answer"}
<1>1. PICK x : Goes(c, x) /\ x.at \in {"none", "failed", "answer"}
  BY ReplyGoes
<1>2. QED
  BY <1>1 DEF Goes, CatalogInv, CatalogTypeOK

OwnShop(s, c) ==
  /\ call[c].at \in {"create", "updateWrite", "deleteWrite"}
  /\ call'[c] # call[c]
  /\ call[c].shop = IF Exists(s) THEN service[s].shop ELSE service'[s].shop

LEMMA OwnShopStep ==
  ASSUME CatalogInv, [Next]_vars, NEW s \in Services, service'[s] # service[s]
  PROVE  \E c \in Calls : OwnShop(s, c)
<1>1. ASSUME NEW c \in Calls, CreateService(c)
      PROVE  OwnShop(s, c)
  <2>1. PICK r \in Services :
          /\ service[r] = None
          /\ service' = [service EXCEPT ![r] =
               [shop |-> call[c].shop, data |-> call[c].row.data,
                active |-> call[c].row.active]]
          /\ Answers(c, "created", r, call[c].row)
    BY <1>1 DEF CreateService
  <2>2. r = s /\ service'[s].shop = call[c].shop
    BY <2>1 DEF CatalogInv, CatalogTypeOK
  <2>3. call'[c].at # "create" /\ call[c].at = "create"
    BY <1>1, <2>1, ReplyEndsStep DEF CreateService
  <2>4. QED
    BY <2>1, <2>2, <2>3 DEF OwnShop, Exists
<1>2. ASSUME NEW c \in Calls, UpdateService(c)
      PROVE  OwnShop(s, c)
  <2>1. Exists(call[c].id) /\ s = call[c].id /\ call[c].at = "updateWrite"
    BY <1>2 DEF UpdateService, CatalogInv, CatalogTypeOK
  <2>2. call'[c].at # "updateWrite"
    BY <1>2, <2>1, ReplyEndsStep DEF UpdateService
  <2>3. QED
    BY <2>1, <2>2, PatchedRow DEF OwnShop
<1>3. ASSUME NEW c \in Calls, DeleteService(c)
      PROVE  OwnShop(s, c)
  <2>1. Exists(call[c].id) /\ s = call[c].id /\ call[c].at = "deleteWrite"
    BY <1>3 DEF DeleteService, CatalogInv, CatalogTypeOK
  <2>2. call'[c].at # "deleteWrite"
    BY <1>3, <2>1, ReplyEndsStep DEF DeleteService
  <2>3. service[s].shop = call[c].shop
    BY <2>1 DEF CatalogInv, CallScoped, Trusting, Exists
  <2>4. QED
    BY <2>1, <2>2, <2>3 DEF OwnShop
<1>4. QED
  BY <1>1, <1>2, <1>3, ServicesStep DEF ServiceSteps

\* An admin's request changes services of its own shop only (catalog.ts 8-9),
\* though its writes are by id and the tenant was looked up earlier.
THEOREM CatalogKeepsTenantsApart == Spec => OnlyOwnShopChanges
<1>1. CatalogInv /\ [Next]_vars =>
        [\A s \in Services : service'[s] # service[s] =>
           \E c \in Calls :
             /\ call[c].at \in {"create", "updateWrite", "deleteWrite"}
             /\ call'[c] # call[c]
             /\ call[c].shop = IF Exists(s) THEN service[s].shop ELSE service'[s].shop]_vars
  BY OwnShopStep DEF OwnShop
<1>2. QED
  BY <1>1, CatalogInvariant, PTL DEF Spec, OnlyOwnShopChanges

-----------------------------------------------------------------------------
(* The page's list.  An answer that puts a service on the list is the first  *)
(* the page hears of it, so nobody there can have asked for its deletion.    *)

\* A request of the page that will put s on the list, or take it off.
Creates(c, s) ==
  /\ call[c].at = "answer" /\ call[c].from # "api" /\ call[c].kind = "created"
  /\ call[c].id = s

Removes(c, s) ==
  /\ call[c].from # "api"
  /\ call[c].id = s
  /\ \/ call[c].at \in Deletes
     \/ call[c].at = "answer" /\ call[c].kind = "deleted"

Known(s) ==
  \/ s \in DOMAIN list \/ s \in removed
  \/ \E c \in Calls : Creates(c, s) \/ Removes(c, s)

PageInv ==
  /\ \A s \in Services : Known(s) => service[s] # None
  /\ \A c \in Calls, s \in Services : Creates(c, s) =>
       /\ s \notin DOMAIN list /\ s \notin removed
       /\ \A d \in Calls : ~ Removes(d, s) /\ (Creates(d, s) => d = c)
  /\ DeletedStaysOffTheList

LEMMA PageInvInit == Init => PageInv
<1> SUFFICES ASSUME Init
             PROVE  PageInv
  OBVIOUS
<1>1. \A c \in Calls, s \in Services : ~ Creates(c, s) /\ ~ Removes(c, s)
  BY DEF Init, NoCall, Creates, Removes, Deletes
<1>2. \A s \in DOMAIN list : service[s] # None
  BY DEF Init, Exists
<1>3. removed = {}
  BY DEF Init
<1>4. QED
  BY <1>1, <1>2, <1>3 DEF PageInv, Known, DeletedStaysOffTheList

\* A step after which no request says more of s than it did before.
QuietCalls ==
  \A c \in Calls, s \in Services :
    (Creates(c, s)' => Creates(c, s)) /\ (Removes(c, s)' => Removes(c, s))

LEMMA PageInvQuiet ==
  ASSUME CatalogInv, PageInv, [Next]_vars, QuietCalls,
         DOMAIN list' = DOMAIN list, removed' = removed
  PROVE  PageInv'
<1>1. \A s \in Services : service[s] # None => service'[s] # None
  BY ServiceMoves, RowFields, CatalogAssumption DEF ServiceIsKept, Same, Made, Edited, Gone
<1>2. \A s \in Services : Known(s)' => Known(s)
  BY DEF QuietCalls, Known
<1>3. \A s \in Services : Known(s)' => service'[s] # None
  BY <1>1, <1>2 DEF PageInv
<1>4. \A c \in Calls, s \in Services : Creates(c, s)' =>
       /\ s \notin DOMAIN list' /\ s \notin removed'
       /\ \A d \in Calls : ~ Removes(d, s)' /\ (Creates(d, s)' => d = c)
  BY DEF QuietCalls, PageInv
<1>5. DeletedStaysOffTheList'
  BY DEF PageInv, DeletedStaysOffTheList
<1>6. QED
  BY <1>3, <1>4, <1>5 DEF PageInv

LEMMA QuietMove ==
  ASSUME CatalogInv, NEW c \in Calls, NEW x, Goes(c, x),
         x.at = "answer" => x.kind # "created" \/ x.from = "api",
         x.at \in Deletes \/ (x.at = "answer" /\ x.kind = "deleted") =>
           x.from = "api" \/ Removes(c, x.id)
  PROVE  QuietCalls
<1>1. call'[c] = x /\ \A d \in Calls \ {c} : call'[d] = call[d]
  BY DEF Goes, CatalogInv, CatalogTypeOK
<1>2. ASSUME NEW d \in Calls, NEW s \in Services
      PROVE  (Creates(d, s)' => Creates(d, s)) /\ (Removes(d, s)' => Removes(d, s))
  <2>1. CASE d = c
    BY <1>1, <2>1 DEF Creates, Removes
  <2>2. CASE d # c
    BY <1>1, <2>2 DEF Creates, Removes
  <2>3. QED
    BY <2>1, <2>2
<1>3. QED
  BY <1>2 DEF QuietCalls

LEMMA QuietEnd ==
  ASSUME CatalogInv, NEW c \in Calls, Goes(c, NoCall)
  PROVE  QuietCalls
BY QuietMove DEF NoCall, Deletes

LEMMA QuietFailure ==
  ASSUME CatalogInv, NEW c \in Calls, Fails(c)
  PROVE  QuietCalls
<1>1. CASE call[c].from = "api"
  BY <1>1, QuietEnd DEF Fails
<1>2. CASE call[c].from # "api"
  <2> DEFINE x == [at |-> "failed", from |-> call[c].from]
  <2>1. Goes(c, x) /\ x.at = "failed"
    BY <1>2 DEF Fails
  <2> HIDE DEF x
  <2>2. QED
    BY <2>1, QuietMove DEF Deletes
<1>3. QED
  BY <1>1, <1>2

LEMMA QuietUpdate ==
  ASSUME CatalogInv, NEW c \in Calls, UpdateService(c)
  PROVE  QuietCalls
<1>1. Fails(c) \/ \E s, v : Answers(c, "updated", s, v)
  BY DEF UpdateService
<1>2. ASSUME NEW s, NEW v, Answers(c, "updated", s, v), call[c].from # "api"
      PROVE  QuietCalls
  <2> DEFINE x == [at |-> "answer", from |-> call[c].from, kind |-> "updated", id |-> s, row |-> v]
  <2>1. Goes(c, x) /\ x.at = "answer" /\ x.kind = "updated"
    BY <1>2 DEF Answers
  <2> HIDE DEF x
  <2>2. QED
    BY <2>1, QuietMove DEF Deletes
<1>3. ASSUME NEW s, NEW v, Answers(c, "updated", s, v), call[c].from = "api"
      PROVE  QuietCalls
  BY <1>3, QuietEnd DEF Answers
<1>4. QED
  BY <1>1, <1>2, <1>3, QuietFailure

LEMMA QuietDelete ==
  ASSUME CatalogInv, NEW c \in Calls, DeleteService(c)
  PROVE  QuietCalls
<1>1. Fails(c) \/ \E v : Answers(c, "deleted", call[c].id, v)
  BY DEF DeleteService
<1>2. ASSUME NEW v, Answers(c, "deleted", call[c].id, v), call[c].from # "api"
      PROVE  QuietCalls
  <2> DEFINE x == [at |-> "answer", from |-> call[c].from, kind |-> "deleted",
                   id |-> call[c].id, row |-> v]
  <2>1. Goes(c, x) /\ x.at = "answer" /\ x.kind = "deleted" /\ x.id = call[c].id
    BY <1>2 DEF Answers
  <2>2. Removes(c, call[c].id)
    BY <1>2 DEF DeleteService, Removes, Deletes
  <2> HIDE DEF x
  <2>3. QED
    BY <2>1, <2>2, QuietMove DEF Deletes
<1>3. ASSUME NEW v, Answers(c, "deleted", call[c].id, v), call[c].from = "api"
      PROVE  QuietCalls
  BY <1>3, QuietEnd DEF Answers
<1>4. QED
  BY <1>1, <1>2, <1>3, QuietFailure

LEMMA QuietScopes ==
  ASSUME CatalogInv, NEW c \in Calls,
         ScopeUpdate(c) \/ ScopeAssign(c) \/ ScopeDelete(c) \/ CountAppointments(c)
  PROVE  QuietCalls
<1>1. call[c] \in Call
  BY DEF CatalogInv, CatalogTypeOK
<1>2. CASE Fails(c)
  BY <1>2, QuietFailure
<1>3. CASE ScopeUpdate(c) /\ ~ Fails(c)
  <2> DEFINE p == ServiceUpdate(call[c].patch)
             x == Decided(call[c], p)
  <2>1. call[c].at \in Updates /\ call[c].patch \in Patch
    BY <1>1, <1>3, CallShape DEF ScopeUpdate, Updates
  <2>2. p \in Patch
    BY <2>1 DEF ServiceUpdate, Patch
  <2>3. Goes(c, x)
    BY <1>3 DEF ScopeUpdate, Decided
  <2> HIDE DEF p
  <2>4. x.at = "updateWrite"
    BY <1>1, <2>1, <2>2, UpdateMoves
  <2> HIDE DEF x
  <2>5. QED
    BY <2>3, <2>4, QuietMove DEF Deletes
<1>4. CASE ScopeAssign(c) /\ ~ Fails(c)
  <2>1. PICK n \in {"assignWrite", "unassignWrite"} : Goes(c, GoesOnTo(call[c], n))
    BY <1>4 DEF ScopeAssign, GoesOnTo
  <2>2. GoesOnTo(call[c], n).at = n
    BY <1>1, <1>4, AssignMoves DEF ScopeAssign, Assigns
  <2>3. QED
    BY <2>1, <2>2, QuietMove DEF Deletes
<1>5. CASE (ScopeDelete(c) \/ CountAppointments(c)) /\ ~ Fails(c)
  <2>1. PICK n \in {"deleteCount", "deleteWrite"} : Goes(c, GoesOnTo(call[c], n))
    BY <1>5 DEF ScopeDelete, CountAppointments, GoesOnTo
  <2> DEFINE x == GoesOnTo(call[c], n)
  <2>2. call[c].at \in Deletes
    BY <1>5 DEF ScopeDelete, CountAppointments, Deletes
  <2>3. x.at = n /\ x.id = call[c].id /\ x.from = call[c].from
    BY <1>1, <2>2, DeleteMoves
  <2>4. Goes(c, x)
    BY <2>1
  <2> HIDE DEF x
  <2>5. x.from = "api" \/ Removes(c, x.id)
    BY <2>2, <2>3 DEF Removes
  <2>6. QED
    BY <2>3, <2>4, <2>5, QuietMove
<1>6. QED
  BY <1>2, <1>3, <1>4, <1>5

LEMMA QuietSends ==
  ASSUME CatalogInv, NEW c \in Calls,
         Save(c) \/ Api(c) \/ \E s \in Services : Deactivate(c, s)
  PROVE  QuietCalls
<1>1. PICK x : Goes(c, x) /\ x.at # "answer" /\ (x.at \in Deletes => x.from = "api")
  <2>1. CASE Save(c) /\ editing # None
    <3> DEFINE x == [at |-> "updateScope", from |-> "form", shop |-> Home,
                     id |-> editing.id, touched |-> form.touched,
                     patch |-> serviceUpdatePatch(editing.row, form)]
    <3>1. Goes(c, x)
      BY <2>1 DEF Save, Sends, Goes
    <3>2. x.at = "updateScope"
      OBVIOUS
    <3> HIDE DEF x
    <3>3. QED
      BY <3>1, <3>2 DEF Deletes
  <2>2. CASE Save(c) /\ editing = None
    <3> DEFINE x == [at |-> "create", from |-> "form", shop |-> Home,
                     row |-> [data |-> form.data, active |-> TRUE]]
    <3>1. Goes(c, x) /\ x.at = "create"
      BY <2>2 DEF Save, Sends, Goes
    <3> HIDE DEF x
    <3>2. QED
      BY <3>1 DEF Deletes
  <2>3. ASSUME NEW s \in Services, Deactivate(c, s)
        PROVE  \E x : Goes(c, x) /\ x.at # "answer" /\ (x.at \in Deletes => x.from = "api")
    <3> DEFINE x == [at |-> "updateScope", from |-> "row", shop |-> Home, id |-> s,
                     patch |-> [data |-> None, active |-> FALSE], touched |-> {"active"}]
    <3>1. Goes(c, x) /\ x.at = "updateScope"
      BY <2>3 DEF Deactivate, Sends, Goes
    <3> HIDE DEF x
    <3>2. QED
      BY <3>1 DEF Deletes
  <2>4. ASSUME NEW p \in Shops, NEW row \in Rows, ApiCreate(c, p, row)
        PROVE  \E x : Goes(c, x) /\ x.at # "answer" /\ (x.at \in Deletes => x.from = "api")
    <3> DEFINE x == [at |-> "create", from |-> "api", shop |-> p, row |-> row]
    <3>1. Goes(c, x) /\ x.at = "create"
      BY <2>4 DEF ApiCreate, Sends, Goes
    <3> HIDE DEF x
    <3>2. QED
      BY <3>1 DEF Deletes
  <2>5. ASSUME NEW p \in Shops, NEW s \in Services, NEW patch \in Patches,
               ApiUpdate(c, p, s, patch)
        PROVE  \E x : Goes(c, x) /\ x.at # "answer" /\ (x.at \in Deletes => x.from = "api")
    <3> DEFINE x == [at |-> "updateScope", from |-> "api", shop |-> p, id |-> s,
                     patch |-> patch, touched |-> {"data", "active"}]
    <3>1. Goes(c, x) /\ x.at = "updateScope"
      BY <2>5 DEF ApiUpdate, Sends, Goes
    <3> HIDE DEF x
    <3>2. QED
      BY <3>1 DEF Deletes
  <2>6. ASSUME NEW p \in Shops, NEW s \in Services, ApiDelete(c, p, s)
        PROVE  \E x : Goes(c, x) /\ x.at # "answer" /\ (x.at \in Deletes => x.from = "api")
    <3> DEFINE x == [at |-> "deleteScope", from |-> "api", shop |-> p, id |-> s]
    <3>1. Goes(c, x) /\ x.at = "deleteScope" /\ x.from = "api"
      BY <2>6 DEF ApiDelete, Sends, Goes
    <3> HIDE DEF x
    <3>2. QED
      BY <3>1
  <2>7. ASSUME NEW p \in Shops, NEW s \in Services, NEW b \in Barbers, NEW on \in BOOLEAN,
               ApiAssign(c, p, b, s, on)
        PROVE  \E x : Goes(c, x) /\ x.at # "answer" /\ (x.at \in Deletes => x.from = "api")
    <3> DEFINE x == [at |-> "assignScope", from |-> "api", shop |-> p, barber |-> b,
                     id |-> s, on |-> on]
    <3>1. Goes(c, x) /\ x.at = "assignScope"
      BY <2>7 DEF ApiAssign, Sends, Goes
    <3> HIDE DEF x
    <3>2. QED
      BY <3>1 DEF Deletes
  <2>8. QED
    BY <2>1, <2>2, <2>3, <2>4, <2>5, <2>6, <2>7 DEF Api
<1>2. QED
  BY <1>1, QuietMove

\* The page hears of s for the first time.
LEMMA PageInvCreate ==
  ASSUME CatalogInv, PageInv, [Next]_vars, NEW c \in Calls, CreateService(c)
  PROVE  PageInv'
<1>1. UNCHANGED <<list, removed>>
  BY DEF CreateService, page
<1>2. CASE QuietCalls
  BY <1>1, <1>2, PageInvQuiet
<1>3. CASE ~ QuietCalls
  <2>1. PICK s \in Services :
          /\ service[s] = None /\ service'[s] # None
          /\ Answers(c, "created", s, call[c].row)
    <3>1. ~ Fails(c)
      BY <1>3, QuietFailure
    <3>2. PICK s \in Services :
            /\ service[s] = None
            /\ service' = [service EXCEPT ![s] =
                 [shop |-> call[c].shop, data |-> call[c].row.data,
                  active |-> call[c].row.active]]
            /\ Answers(c, "created", s, call[c].row)
      BY <3>1 DEF CreateService
    <3>3. call[c].shop \in Shops /\ call[c].row \in View
      BY CallShape DEF CreateService, CatalogInv, CatalogTypeOK
    <3>4. service'[s] \in Row
      BY <3>2, <3>3 DEF Row, View, CatalogInv, CatalogTypeOK
    <3>5. QED
      BY <3>2, <3>4, RowFields
  <2> DEFINE x == [at |-> "answer", from |-> call[c].from, kind |-> "created", id |-> s,
                   row |-> call[c].row]
  <2>2. Goes(c, x)
    BY <1>3, <2>1, QuietEnd DEF Answers
  <2>3. x.at = "answer" /\ x.kind = "created" /\ x.id = s
    OBVIOUS
  <2> HIDE DEF x
  <2>4. call'[c] = x /\ \A d \in Calls \ {c} : call'[d] = call[d]
    BY <2>2 DEF Goes, CatalogInv, CatalogTypeOK
  <2>5. ~ Known(s)
    BY <2>1 DEF PageInv
  <2>6. \A r \in Services : Creates(c, r)' => r = s
    BY <2>3, <2>4 DEF Creates
  <2>7. \A r \in Services : ~ Removes(c, r)'
    BY <2>3, <2>4 DEF Removes, Deletes
  <2>8. \A d \in Calls \ {c}, r \in Services :
          (Creates(d, r)' <=> Creates(d, r)) /\ (Removes(d, r)' <=> Removes(d, r))
    BY <2>4 DEF Creates, Removes
  <2>9. \A r \in Services : service[r] # None => service'[r] # None
    BY ServiceMoves, RowFields, CatalogAssumption DEF ServiceIsKept, Same, Made, Edited, Gone
  <2>10. \A r \in Services : Known(r)' => r = s \/ Known(r)
    BY <1>1, <2>6, <2>7, <2>8 DEF Known
  <2>11. \A r \in Services : Known(r)' => service'[r] # None
    BY <2>1, <2>9, <2>10 DEF PageInv
  <2>12. ASSUME NEW d \in Calls, NEW r \in Services, Creates(d, r)'
         PROVE  /\ r \notin DOMAIN list' /\ r \notin removed'
                /\ \A e \in Calls : ~ Removes(e, r)' /\ (Creates(e, r)' => e = d)
    <3>1. CASE r = s
      BY <1>1, <2>5, <2>7, <2>8, <2>12, <3>1 DEF Known
    <3>2. CASE r # s
      BY <1>1, <2>6, <2>7, <2>8, <2>12, <3>2 DEF PageInv
    <3>3. QED
      BY <3>1, <3>2
  <2>13. DeletedStaysOffTheList'
    BY <1>1 DEF PageInv, DeletedStaysOffTheList
  <2>14. QED
    BY <2>11, <2>12, <2>13 DEF PageInv
<1>4. QED
  BY <1>2, <1>3

\* The delete button names a service of the list.
LEMMA PageInvDelete ==
  ASSUME CatalogInv, PageInv, NEW c \in Calls, NEW s \in Services, Delete(c, s)
  PROVE  PageInv'
<1> DEFINE x == [at |-> "deleteScope", from |-> "row", shop |-> Home, id |-> s]
<1>1. /\ Goes(c, x) /\ s \in DOMAIN list
      /\ UNCHANGED <<service, list, removed>>
  BY DEF Delete, Sends, Goes, tables
<1>2. x.at = "deleteScope" /\ x.id = s
  OBVIOUS
<1> HIDE DEF x
<1>3. call'[c] = x /\ \A d \in Calls \ {c} : call'[d] = call[d]
  BY <1>1 DEF Goes, CatalogInv, CatalogTypeOK
<1>4. \A r \in Services : ~ Creates(c, r)' /\ (Removes(c, r)' => r = s)
  BY <1>2, <1>3 DEF Creates, Removes
<1>5. \A d \in Calls \ {c}, r \in Services :
        (Creates(d, r)' <=> Creates(d, r)) /\ (Removes(d, r)' <=> Removes(d, r))
  BY <1>3 DEF Creates, Removes
<1>6. Known(s) /\ \A d \in Calls : ~ Creates(d, s)
  BY <1>1 DEF Known, PageInv
<1>7. \A r \in Services : Known(r)' => Known(r)
  BY <1>1, <1>4, <1>5, <1>6 DEF Known
<1>8. \A r \in Services : Known(r)' => service'[r] # None
  BY <1>1, <1>7 DEF PageInv
<1>9. \A d \in Calls, r \in Services : Creates(d, r)' =>
        /\ r \notin DOMAIN list' /\ r \notin removed'
        /\ \A e \in Calls : ~ Removes(e, r)' /\ (Creates(e, r)' => e = d)
  BY <1>1, <1>4, <1>5, <1>6 DEF PageInv
<1>10. DeletedStaysOffTheList'
  BY <1>1 DEF PageInv, DeletedStaysOffTheList
<1>11. QED
  BY <1>8, <1>9, <1>10 DEF PageInv

\* An answer arrives at the page.
LEMMA PageInvAnswered ==
  ASSUME CatalogInv, PageInv, NEW c \in Calls, Answered(c)
  PROVE  PageInv'
<1>1. /\ call[c].at = "answer" /\ call[c].from # "api"
      /\ call[c].kind \in {"created", "updated", "deleted"} /\ call[c].id \in Services
  BY CallShape DEF Answered, CatalogInv, CatalogTypeOK
<1>2. Goes(c, NoCall) /\ UNCHANGED service
  BY DEF Answered, tables
<1>3. call'[c] = NoCall /\ \A d \in Calls \ {c} : call'[d] = call[d]
  BY <1>2 DEF Goes, CatalogInv, CatalogTypeOK
<1>4. \A r \in Services : ~ Creates(c, r)' /\ ~ Removes(c, r)'
  BY <1>3 DEF Creates, Removes, NoCall, Deletes
<1>5. \A d \in Calls \ {c}, r \in Services :
        (Creates(d, r)' <=> Creates(d, r)) /\ (Removes(d, r)' <=> Removes(d, r))
  BY <1>3 DEF Creates, Removes
<1> DEFINE s == call[c].id
<1>6. \/ /\ Creates(c, s) /\ removed' = removed
         /\ DOMAIN list' = DOMAIN list \cup {s}
      \/ removed' = removed /\ DOMAIN list' = DOMAIN list
      \/ /\ Removes(c, s) /\ removed' = removed \cup {s}
         /\ DOMAIN list' = DOMAIN list \ {s}
  <2>1. CASE call[c].kind = "created"
    BY <1>1, <2>1 DEF Answered, Appended, Creates
  <2>2. CASE call[c].kind = "updated"
    BY <1>1, <2>2 DEF Answered, Replaced
  <2>3. CASE call[c].kind = "deleted"
    BY <1>1, <2>3 DEF Answered, Filtered, Removes
  <2>4. QED
    BY <1>1, <2>1, <2>2, <2>3
<1>7. \A r \in Services : Known(r)' => Known(r)
  BY <1>4, <1>5, <1>6 DEF Known
<1>8. \A r \in Services : Known(r)' => service'[r] # None
  BY <1>2, <1>7 DEF PageInv
<1>9. \A d \in Calls, r \in Services : Creates(d, r)' =>
        /\ r \notin DOMAIN list' /\ r \notin removed'
        /\ \A e \in Calls : ~ Removes(e, r)' /\ (Creates(e, r)' => e = d)
  BY <1>1, <1>4, <1>5, <1>6 DEF PageInv
<1>10. DeletedStaysOffTheList'
  BY <1>1, <1>6 DEF PageInv, DeletedStaysOffTheList
<1>11. QED
  BY <1>8, <1>9, <1>10 DEF PageInv

LEMMA PageInvNext == CatalogInv /\ PageInv /\ [Next]_vars => PageInv'
<1> SUFFICES ASSUME CatalogInv, PageInv, [Next]_vars
             PROVE  PageInv'
  OBVIOUS
<1>1. CASE \E c \in Calls :
             CreateService(c) \/ Answered(c) \/ \E s \in Services : Delete(c, s)
  BY <1>1, PageInvCreate, PageInvAnswered, PageInvDelete
<1>2. CASE ~ \E c \in Calls :
             CreateService(c) \/ Answered(c) \/ \E s \in Services : Delete(c, s)
  <2>1. UNCHANGED <<list, removed>>
    BY <1>2, PageStep
    DEF PageSteps, page, cancelEdit, ToggleActive, startEdit, TypeData, Save, Refused,
        Deactivate
  <2>2. ASSUME UNCHANGED call
        PROVE  QuietCalls
    BY <2>2 DEF QuietCalls, Creates, Removes
  <2>3. ASSUME ~ UNCHANGED call
        PROVE  QuietCalls
    <3>1. Next
      BY <2>3 DEF vars
    <3>2. ASSUME NEW c \in Calls, Serve(c)
          PROVE  QuietCalls
      BY <1>2, <3>2, QuietUpdate, QuietDelete, QuietScopes, QuietEnd
      DEF Serve, AssignService, UnassignService, Refused
    <3>3. ASSUME NEW c \in Calls, NetworkFails(c)
          PROVE  QuietCalls
      BY <3>3, QuietFailure DEF NetworkFails
    <3>4. QED
      BY <1>2, <2>3, <3>1, <3>2, <3>3, QuietSends
      DEF Next, Api, cancelEdit, ToggleActive, CommitBooking, startEdit, TypeData,
          BeginBooking, SetupChanges, UpdateBarber
  <2>4. QuietCalls
    BY <2>2, <2>3
  <2>5. QED
    BY <2>1, <2>4, PageInvQuiet
<1>3. QED
  BY <1>1, <1>2

\* A service the page was told it deleted stays off its list
\* (services-manager.tsx 113, 138, 154), whatever answers come in which order.
THEOREM CatalogDeletedStaysOff == Spec => []DeletedStaysOffTheList
<1>1. PageInv => DeletedStaysOffTheList
  BY DEF PageInv
<1>2. QED
  BY <1>1, PageInvInit, PageInvNext, CatalogInvariant, PTL DEF Spec

-----------------------------------------------------------------------------
(* The offer.                                                                *)

\* The public lists (catalog.ts 450-488) offer, of a shop that is set up, exactly
\* the barbers and services that the checks of a booking (booking.ts 286-307)
\* accept, in every state the requests of all admins can leave the tables in.
THEOREM CatalogOfferedIsAccepted == Spec => []OfferedIsAccepted
<1>1. CatalogInv => OfferedIsAccepted
  <2> SUFFICES ASSUME CatalogInv, NEW p \in Shops, NEW s \in Services, NEW b \in Barbers,
                      onboarded(p)
               PROVE  (p \in listPublicBarbershops /\ s \in getPublicServices(p)
                         /\ b \in getPublicBarbersByService(p, s))
                      <=> (Exists(s) /\ service[s].shop = p /\ CheckOffer(b, s))
    BY DEF OfferedIsAccepted
  <2>1. s \in getPublicServices(p) <=>
          Exists(s) /\ service[s].shop = p /\ service[s].active
    BY DEF getPublicServices, ServicesOf
  <2>2. s \in getPublicServices(p) => p \in listPublicBarbershops
    BY DEF getPublicServices, listPublicBarbershops
  <2>3. b \in getPublicBarbersByService(p, s) <=>
          /\ ShopOf[b] = p /\ s \in getPublicServices(p)
          /\ barber[b] /\ <<b, s>> \in assigned
    BY DEF getPublicBarbersByService, BarbersOf
  <2>4. QED
    BY <2>1, <2>2, <2>3 DEF CheckOffer
<1>2. QED
  BY <1>1, CatalogInvariant, PTL

-----------------------------------------------------------------------------
(* The form.  What it sends without the user having changed it is what it    *)
(* was filled with, and the patch leaves that out.                           *)

\* A save of the form that carries no data of the user's.
Untouched(x) == x.at \in Updates /\ x.from = "form" /\ "data" \notin x.touched

CarriesNone(x) == Untouched(x) => x.patch.data = None

FormInv ==
  /\ editing # None /\ "data" \notin form.touched => form.data \in {None, editing.row.data}
  /\ \A c \in Calls : CarriesNone(call[c])

LEMMA FormInvInit == Init => FormInv
<1> SUFFICES ASSUME Init PROVE FormInv
  OBVIOUS
<1>1. \A c \in Calls : call[c].at = "none"
  BY DEF Init, NoCall
<1>2. QED
  BY <1>1 DEF Init, FormInv, CarriesNone, Untouched, Updates

LEMMA CarriesMove ==
  ASSUME CatalogInv, FormInv, NEW c \in Calls, NEW x, Goes(c, x), CarriesNone(x)
  PROVE  \A d \in Calls : CarriesNone(call[d])'
<1>1. call'[c] = x /\ \A d \in Calls \ {c} : call'[d] = call[d]
  BY DEF Goes, CatalogInv, CatalogTypeOK
<1>2. ASSUME NEW d \in Calls
      PROVE  CarriesNone(call[d])'
  <2>1. CASE d = c
    BY <1>1, <2>1 DEF CarriesNone, Untouched
  <2>2. CASE d # c
    BY <1>1, <2>2 DEF FormInv, CarriesNone, Untouched
  <2>3. QED
    BY <2>1, <2>2
<1>3. QED
  BY <1>2

\* A request that is not a save of the form carries nothing of it.
LEMMA OthersCarryNone ==
  ASSUME CatalogInv, FormInv, NEW c \in Calls, NEW x, Goes(c, x),
         x.at \notin Updates \/ x.from # "form"
  PROVE  \A d \in Calls : CarriesNone(call[d])'
<1>1. CarriesNone(x)
  BY DEF CarriesNone, Untouched
<1>2. QED
  BY <1>1, CarriesMove

LEMMA RepliesCarryNone ==
  ASSUME CatalogInv, FormInv, NEW c \in Calls,
         Fails(c) \/ \E k, s, v : Answers(c, k, s, v)
  PROVE  \A d \in Calls : CarriesNone(call[d])'
<1>1. PICK x : Goes(c, x) /\ x.at \in {"none", "failed", "answer"}
  BY ReplyGoes
<1>2. QED
  BY <1>1, OthersCarryNone DEF Updates

LEMMA SaveCarriesNone ==
  ASSUME CatalogInv, FormInv, NEW c \in Calls, Save(c)
  PROVE  \A d \in Calls : CarriesNone(call[d])'
<1>1. CASE editing # None
  <2> DEFINE p == serviceUpdatePatch(editing.row, form)
             x == [at |-> "updateScope", from |-> "form", shop |-> Home,
                   id |-> editing.id, touched |-> form.touched, patch |-> p]
  <2>1. "data" \notin form.touched => p.data = None
    BY <1>1 DEF Save, FormInv, serviceUpdatePatch
  <2>2. Goes(c, x)
    BY <1>1 DEF Save, Sends, Goes
  <2> HIDE DEF p
  <2>3. x.touched = form.touched /\ x.patch = p
    OBVIOUS
  <2> HIDE DEF x
  <2>4. CarriesNone(x)
    BY <2>1, <2>3 DEF CarriesNone, Untouched
  <2>5. QED
    BY <2>2, <2>4, CarriesMove
<1>2. CASE editing = None
  <2> DEFINE x == [at |-> "create", from |-> "form", shop |-> Home,
                   row |-> [data |-> form.data, active |-> TRUE]]
  <2>1. Goes(c, x) /\ x.at = "create"
    BY <1>2 DEF Save, Sends, Goes
  <2> HIDE DEF x
  <2>2. QED
    BY <2>1, OthersCarryNone DEF Updates
<1>3. QED
  BY <1>1, <1>2

\* The look at the tenant passes the data of the patch on as it is.
LEMMA ScopeCarriesNone ==
  ASSUME CatalogInv, FormInv, NEW c \in Calls, ScopeUpdate(c)
  PROVE  \A d \in Calls : CarriesNone(call[d])'
<1>1. /\ call[c] \in [at : Updates, from : From, shop : Shops,
                      id : Services, patch : Patch, touched : SUBSET {"data", "active"}]
      /\ call[c].patch \in Patch
  BY DEF ScopeUpdate, Call, NoCall, Updates, CatalogInv, CatalogTypeOK
<1>2. CASE Fails(c)
  BY <1>2, RepliesCarryNone
<1>3. CASE ~ Fails(c)
  <2> DEFINE p == ServiceUpdate(call[c].patch)
             x == Decided(call[c], p)
  <2>1. p.data = call[c].patch.data
    BY <1>1 DEF ServiceUpdate, Patch
  <2>2. Goes(c, x)
    BY <1>3 DEF ScopeUpdate, Decided
  <2> HIDE DEF p
  <2>3. x.patch = p /\ x.from = call[c].from /\ x.touched = call[c].touched
    BY <1>1 DEF Decided
  <2> HIDE DEF x
  <2>4. CarriesNone(x)
    BY <1>1, <2>1, <2>3 DEF FormInv, CarriesNone, Untouched
  <2>5. QED
    BY <2>2, <2>4, CarriesMove
<1>4. QED
  BY <1>2, <1>3

\* The requests of the row buttons and of admins elsewhere say where they come from.
LEMMA OthersSend ==
  ASSUME NEW c \in Calls, Api(c) \/ \E s \in Services : Deactivate(c, s) \/ Delete(c, s)
  PROVE  \E x : Goes(c, x) /\ x.from # "form"
<1>1. ASSUME NEW s \in Services, Deactivate(c, s)
      PROVE  \E x : Goes(c, x) /\ x.from # "form"
  <2> DEFINE x == [at |-> "updateScope", from |-> "row", shop |-> Home, id |-> s,
                   patch |-> [data |-> None, active |-> FALSE], touched |-> {"active"}]
  <2>1. Goes(c, x) /\ x.from = "row"
    BY <1>1 DEF Deactivate, Sends, Goes
  <2> HIDE DEF x
  <2>2. QED
    BY <2>1
<1>2. ASSUME NEW s \in Services, Delete(c, s)
      PROVE  \E x : Goes(c, x) /\ x.from # "form"
  <2> DEFINE x == [at |-> "deleteScope", from |-> "row", shop |-> Home, id |-> s]
  <2>1. Goes(c, x) /\ x.from = "row"
    BY <1>2 DEF Delete, Sends, Goes
  <2> HIDE DEF x
  <2>2. QED
    BY <2>1
<1>3. ASSUME NEW p \in Shops, NEW row \in Rows, ApiCreate(c, p, row)
      PROVE  \E x : Goes(c, x) /\ x.from # "form"
  <2> DEFINE x == [at |-> "create", from |-> "api", shop |-> p, row |-> row]
  <2>1. Goes(c, x) /\ x.from = "api"
    BY <1>3 DEF ApiCreate, Sends, Goes
  <2> HIDE DEF x
  <2>2. QED
    BY <2>1
<1>4. ASSUME NEW p \in Shops, NEW s \in Services, NEW patch \in Patches,
             ApiUpdate(c, p, s, patch)
      PROVE  \E x : Goes(c, x) /\ x.from # "form"
  <2> DEFINE x == [at |-> "updateScope", from |-> "api", shop |-> p, id |-> s,
                   patch |-> patch, touched |-> {"data", "active"}]
  <2>1. Goes(c, x) /\ x.from = "api"
    BY <1>4 DEF ApiUpdate, Sends, Goes
  <2> HIDE DEF x
  <2>2. QED
    BY <2>1
<1>5. ASSUME NEW p \in Shops, NEW s \in Services, ApiDelete(c, p, s)
      PROVE  \E x : Goes(c, x) /\ x.from # "form"
  <2> DEFINE x == [at |-> "deleteScope", from |-> "api", shop |-> p, id |-> s]
  <2>1. Goes(c, x) /\ x.from = "api"
    BY <1>5 DEF ApiDelete, Sends, Goes
  <2> HIDE DEF x
  <2>2. QED
    BY <2>1
<1>6. ASSUME NEW p \in Shops, NEW s \in Services, NEW b \in Barbers, NEW on \in BOOLEAN,
             ApiAssign(c, p, b, s, on)
      PROVE  \E x : Goes(c, x) /\ x.from # "form"
  <2> DEFINE x == [at |-> "assignScope", from |-> "api", shop |-> p, barber |-> b,
                   id |-> s, on |-> on]
  <2>1. Goes(c, x) /\ x.from = "api"
    BY <1>6 DEF ApiAssign, Sends, Goes
  <2> HIDE DEF x
  <2>2. QED
    BY <2>1
<1>7. QED
  BY <1>1, <1>2, <1>3, <1>4, <1>5, <1>6 DEF Api

LEMMA ServerCarriesNone ==
  ASSUME CatalogInv, FormInv, NEW c \in Calls, Serve(c) \/ NetworkFails(c)
  PROVE  \A d \in Calls : CarriesNone(call[d])'
<1>1. CASE \/ CreateService(c) \/ UpdateService(c) \/ DeleteService(c) \/ NetworkFails(c)
  <2>1. Fails(c) \/ \E k, s, v : Answers(c, k, s, v)
    BY <1>1 DEF CreateService, UpdateService, DeleteService, NetworkFails
  <2>2. QED
    BY <2>1, RepliesCarryNone
<1>2. CASE AssignService(c) \/ UnassignService(c) \/ Answered(c) \/ Refused(c)
  <2>1. Goes(c, NoCall)
    BY <1>2 DEF AssignService, UnassignService, Answered, Refused
  <2>2. QED
    BY <2>1, OthersCarryNone DEF NoCall, Updates
<1>3. CASE ScopeAssign(c) \/ ScopeDelete(c) \/ CountAppointments(c)
  <2>1. CASE Fails(c)
    BY <2>1, RepliesCarryNone
  <2>2. CASE ~ Fails(c)
    <3>1. PICK n \in {"assignWrite", "unassignWrite", "deleteCount", "deleteWrite"} :
            Goes(c, [call[c] EXCEPT !.at = n])
      BY <1>3, <2>2 DEF ScopeAssign, ScopeDelete, CountAppointments
    <3>2. call[c] \in Call /\ call[c].at \in Assigns \cup Deletes
      BY <1>3 DEF ScopeAssign, ScopeDelete, CountAppointments, Assigns, Deletes,
                  CatalogInv, CatalogTypeOK
    <3> DEFINE x == [call[c] EXCEPT !.at = n]
    <3>3. x.at = n
      BY <3>2 DEF Call, NoCall, Assigns, Deletes
    <3> HIDE DEF x
    <3>4. QED
      BY <3>1, <3>3, OthersCarryNone DEF Updates, x
  <2>3. QED
    BY <2>1, <2>2
<1>4. QED
  BY <1>1, <1>2, <1>3, ScopeCarriesNone DEF Serve

LEMMA CallsCarryNone ==
  ASSUME CatalogInv, FormInv, [Next]_vars
  PROVE  \A d \in Calls : CarriesNone(call[d])'
<1>1. CASE UNCHANGED call
  BY <1>1 DEF FormInv, CarriesNone, Untouched
<1>2. ASSUME NEW c \in Calls, Api(c) \/ \E s \in Services : Deactivate(c, s) \/ Delete(c, s)
      PROVE  \A d \in Calls : CarriesNone(call[d])'
  <2>1. PICK x : Goes(c, x) /\ x.from # "form"
    BY <1>2, OthersSend
  <2>2. QED
    BY <2>1, OthersCarryNone
<1>3. CASE ~ UNCHANGED call
  <2>1. Next
    BY <1>3 DEF vars
  <2>2. QED
    BY <1>2, <1>3, <2>1, SaveCarriesNone, ServerCarriesNone
    DEF Next, Api, cancelEdit, ToggleActive, CommitBooking, startEdit, TypeData,
        BeginBooking, SetupChanges, UpdateBarber
<1>4. QED
  BY <1>1, <1>3

\* The fields of the form are the ones it was filled with, empty, or the user's.
LEMMA FormIsFilled ==
  ASSUME CatalogInv, FormInv, [Next]_vars
  PROVE  editing' # None /\ "data" \notin form'.touched =>
           form'.data \in {None, editing'.row.data}
<1> DEFINE P == editing # None /\ "data" \notin form.touched =>
                  form.data \in {None, editing.row.data}
<1>1. form \in Form /\ P
  BY DEF CatalogInv, CatalogTypeOK, FormInv
<1>2. CASE UNCHANGED <<editing, form>>
  BY <1>1, <1>2
<1>3. ASSUME NEW s \in Services, startEdit(s)
      PROVE  P'
  BY <1>3 DEF startEdit
<1>4. CASE cancelEdit
  BY <1>4 DEF cancelEdit
<1>5. ASSUME NEW d \in Data, TypeData(d)
      PROVE  P'
  BY <1>1, <1>5 DEF TypeData, Form
<1>6. CASE ToggleActive
  <2>1. form'.data = form.data /\ form'.touched = form.touched \cup {"active"}
    BY <1>1, <1>6 DEF ToggleActive, Form
  <2>2. QED
    BY <1>1, <1>6, <2>1 DEF ToggleActive
<1>7. ASSUME NEW c \in Calls, Answered(c)
      PROVE  P'
  <2>1. CASE call[c].from = "form"
    BY <1>7, <2>1 DEF Answered, EMPTY_FORM
  <2>2. CASE call[c].from # "form"
    BY <1>1, <1>7, <2>2 DEF Answered
  <2>3. QED
    BY <2>1, <2>2
<1>8. QED
  BY <1>2, <1>3, <1>4, <1>5, <1>6, <1>7, PageStep
  DEF PageSteps, page, Save, Refused, Deactivate, Delete

LEMMA FormInvNext == CatalogInv /\ FormInv /\ [Next]_vars => FormInv'
BY CallsCarryNone, FormIsFilled DEF FormInv

\* Only the step that writes a service ends a save.
LEMMA SaveIsTheWrite ==
  ASSUME CatalogInv, [Next]_vars, NEW c \in Calls, Saved(c), service' # service
  PROVE  UpdateService(c)
<1>1. PICK d \in Calls : CreateService(d) \/ UpdateService(d) \/ DeleteService(d)
  BY ServicesStep DEF ServiceSteps
<1>2. PICK x : Goes(d, x)
  BY <1>1 DEF CreateService, UpdateService, DeleteService, Fails, Answers
<1>3. d = c
  BY <1>2 DEF Goes, Saved, CatalogInv, CatalogTypeOK
<1>4. QED
  BY <1>1, <1>3 DEF Saved, CreateService, DeleteService

\* Saving the form leaves a service's data alone unless the user changed it
\* (services-manager.tsx 13-15), whatever other admins wrote in the meantime and
\* however old the row was that the form was filled with.
THEOREM CatalogSaveKeepsData == Spec => SaveKeepsUntouchedData
<1>1. CatalogInv /\ FormInv /\ [Next]_vars =>
        [\A c \in Calls :
           Saved(c) /\ service' # service /\ "data" \notin call[c].touched =>
             service'[call[c].id].data = service[call[c].id].data]_vars
  <2> SUFFICES ASSUME CatalogInv, FormInv, [Next]_vars, NEW c \in Calls,
                      Saved(c), service' # service, "data" \notin call[c].touched
               PROVE  service'[call[c].id].data = service[call[c].id].data
    OBVIOUS
  <2> DEFINE s == call[c].id
  <2>1. Exists(s) /\ service' = [service EXCEPT ![s] = Patched(@, call[c].patch)]
    BY SaveIsTheWrite DEF UpdateService
  <2>2. s \in Services /\ service[s] \in Row
    BY <2>1, PatchedRow DEF Saved
  <2>3. call[c].patch.data = None
    BY DEF FormInv, CarriesNone, Untouched, Updates, Saved
  <2>4. Patched(service[s], call[c].patch).data = service[s].data
    BY <2>2, <2>3 DEF Patched, Row
  <2>5. QED
    BY <2>1, <2>2, <2>4 DEF CatalogInv, CatalogTypeOK
<1>2. QED
  BY <1>1, FormInvInit, FormInvNext, CatalogInvariant, PTL DEF Spec, SaveKeepsUntouchedData

================================================================================
