------------------------------ MODULE Schedules ------------------------------
(***************************************************************************)
(* One barber's working day: the weekly schedule and one-off exceptions an *)
(* admin edits (apps/web/lib/catalog.ts), the slot grid the public site    *)
(* shows for a service (apps/web/lib/slots.ts), and the check a booking    *)
(* makes on its own when it arrives (assertFitsSchedule of booking.ts).    *)
(* The grid and the check are two programs over the same rows; this module *)
(* compares them with each other and with a minute-by-minute definition.   *)
(*                                                                         *)
(* Time is counted in quarters of an hour of the tenant's own clock, on a  *)
(* day that has not begun yet; conversions to UTC are not modelled here.   *)
(* Concurrent bookings are the subject of Booking: here one is one step.   *)
(***************************************************************************)
EXTENDS Integers, FiniteSetsExt

CONSTANTS
  WindowIds,     \* ids of Schedule rows for the day's weekday
  ExceptionIds,  \* ids of ScheduleException rows for the day
  Appts,         \* ids of appointments
  Editors,       \* PATCH requests on schedule entries that may run together
  Hours,         \* the windows an admin enters for a shift
  DaysOff,       \* the windows an admin enters for an exception
  DayLength,
  Granularity,   \* barbershop.slotGranularity
  Duration       \* service.durationMinutes

Quarters == 0..DayLength
Window == [from : Quarters, to : Quarters]

ASSUME SchedulesAssumption ==
  /\ DayLength \in Nat
  /\ Granularity \in {1, 2}
  /\ Duration \in Nat \ {0}
  /\ Hours \subseteq Window
  /\ DaysOff \subseteq Window

VARIABLES
  windows,     \* the Schedule rows
  exceptions,  \* the ScheduleException rows
  booked,      \* the slots of appointments that are not cancelled
  edits        \* the validated patch of every editor

vars == <<windows, exceptions, booked, edits>>

None == [from |-> -1, to |-> -1]

\* The rows that exist.
Rows(table) == {table[i] : i \in {j \in DOMAIN table : table[j] # None}}

Idle == [field |-> "none"]

Patch == [field : {"from", "to"}, id : WindowIds, value : Quarters]

-----------------------------------------------------------------------------
(* assertFitsSchedule of booking.ts. *)

Overlap(v, w) == v.from < w.to /\ v.to > w.from

\* MUTANT of Cut: the piece before an exception runs on to its end.
CutTail(w, e) ==
  IF e.to <= w.from \/ e.from >= w.to THEN {w}
  ELSE {p \in {[from |-> w.from, to |-> e.to], [from |-> e.to, to |-> w.to]} : p.from < p.to}

\* What exception e leaves of window w.
Cut(w, e) ==
  IF e.to <= w.from \/ e.from >= w.to THEN {w}
  ELSE {p \in {[from |-> w.from, to |-> e.from], [from |-> e.to, to |-> w.to]} : p.from < p.to}

Subtract(e, ws) == UNION {Cut(w, e) : w \in ws}

OpenWindows == FoldSet(Subtract, Rows(windows), Rows(exceptions))

Slot(t) == [from |-> t, to |-> t + Duration]

FitsSchedule(slot) ==
  \E w \in OpenWindows : w.from <= slot.from /\ slot.to <= w.to

Accepts(t) ==
  /\ FitsSchedule(Slot(t))
  /\ \A b \in Rows(booked) : ~ Overlap(b, Slot(t))

-----------------------------------------------------------------------------
(* getSlotGrid and projectSlots of slots.ts. *)

\* The appointments getSlotGrid loads: those within the day's outer bounds.
Busy ==
  LET starts == {w.from : w \in Rows(windows)}
      ends == {w.to : w \in Rows(windows)}
  IN {b \in Rows(booked) : b.from < Max(ends) /\ b.to > Min(starts)}

\* MUTANT of Steps: the last slot of a window is left out.
StepsShort(w) ==
  {t \in Quarters :
     /\ t >= w.from
     /\ (t - w.from) % Granularity = 0
     /\ t + Duration < w.to}

\* The starts in window w, a granule apart, that leave room for the service.
Steps(w) ==
  {t \in Quarters :
     /\ t >= w.from
     /\ (t - w.from) % Granularity = 0
     /\ t + Duration <= w.to}

\* MUTANT of Grid: forgets what is booked.
GridUnbooked ==
  IF Rows(windows) = {} THEN {}
  ELSE UNION {Steps(w) : w \in OpenWindows}

Grid ==
  IF Rows(windows) = {} THEN {}
  ELSE {t \in UNION {Steps(w) : w \in OpenWindows} : \A b \in Busy : ~ Overlap(Slot(t), b)}

-----------------------------------------------------------------------------
Init ==
  /\ windows = [i \in WindowIds |-> None]
  /\ exceptions = [i \in ExceptionIds |-> None]
  /\ booked = [a \in Appts |-> None]
  /\ edits = [e \in Editors |-> Idle]

Ordered(w) == w.from < w.to

CreateSchedule(i, w) ==
  /\ windows[i] = None
  /\ Ordered(w)
  /\ windows' = [windows EXCEPT ![i] = w]
  /\ UNCHANGED <<exceptions, booked, edits>>

DeleteSchedule(i) ==
  /\ windows[i] # None
  /\ windows' = [windows EXCEPT ![i] = None]
  /\ UNCHANGED <<exceptions, booked, edits>>

\* MUTANT of Apply: moves the boundary by the value instead of to it.
ApplyOffset(patch, w) ==
  IF patch.field = "from" THEN [w EXCEPT !.from = @ + patch.value] ELSE [w EXCEPT !.to = @ + patch.value]

Apply(patch, w) ==
  IF patch.field = "from" THEN [w EXCEPT !.from = patch.value] ELSE [w EXCEPT !.to = patch.value]

\* updateSchedule checks the order against the row as it reads it ...
PatchSchedule(e, patch) ==
  /\ edits[e] = Idle
  /\ windows[patch.id] # None
  /\ Ordered(Apply(patch, windows[patch.id]))
  /\ edits' = [edits EXCEPT ![e] = patch]
  /\ UNCHANGED <<windows, exceptions, booked>>

\* ... and later writes its own fields over whatever the row has become; if the
\* row is gone the update throws.
CommitPatch(e) ==
  /\ edits[e] # Idle
  /\ LET i == edits[e].id
     IN windows' = IF windows[i] = None THEN windows
                   ELSE [windows EXCEPT ![i] = Apply(edits[e], @)]
  /\ edits' = [edits EXCEPT ![e] = Idle]
  /\ UNCHANGED <<exceptions, booked>>

CreateException(i, w) ==
  /\ exceptions[i] = None
  /\ Ordered(w)
  /\ exceptions' = [exceptions EXCEPT ![i] = w]
  /\ UNCHANGED <<windows, booked, edits>>

DeleteException(i) ==
  /\ exceptions[i] # None
  /\ exceptions' = [exceptions EXCEPT ![i] = None]
  /\ UNCHANGED <<windows, booked, edits>>

\* createBooking: any start, on the grid or off it, that passes the check.
Book(a, t) ==
  /\ booked[a] = None
  /\ Accepts(t)
  /\ booked' = [booked EXCEPT ![a] = Slot(t)]
  /\ UNCHANGED <<windows, exceptions, edits>>

CancelBooking(a) ==
  /\ booked[a] # None
  /\ booked' = [booked EXCEPT ![a] = None]
  /\ UNCHANGED <<windows, exceptions, edits>>

Patches ==
  {[field |-> "from", id |-> i, value |-> w.from] : i \in WindowIds, w \in Hours} \cup
  {[field |-> "to", id |-> i, value |-> w.to] : i \in WindowIds, w \in Hours}

Next ==
  \/ \E i \in WindowIds : DeleteSchedule(i) \/ \E w \in Hours : CreateSchedule(i, w)
  \/ \E e \in Editors : CommitPatch(e) \/ \E p \in Patches : PatchSchedule(e, p)
  \/ \E i \in ExceptionIds : DeleteException(i) \/ \E w \in DaysOff : CreateException(i, w)
  \/ \E a \in Appts : CancelBooking(a) \/ \E t \in Quarters : Book(a, t)

Spec == Init /\ [][Next]_vars

-----------------------------------------------------------------------------
SchedulesTypeOK ==
  /\ windows \in [WindowIds -> Window \cup {None}]
  /\ exceptions \in [ExceptionIds -> Window \cup {None}]
  /\ booked \in [Appts -> Window \cup {None}]
  /\ edits \in [Editors -> Patch \cup {Idle}]

Covers(w, m) == w.from <= m /\ m < w.to

\* From t on, for the whole service, no exception and no appointment.
Undisturbed(t) ==
  \A m \in t..(t + Duration - 1) :
    \A x \in Rows(exceptions) \cup Rows(booked) : ~ Covers(x, m)

\* Where the barber last began to be available in window w, seen from t.
LastOpening(w, t) ==
  Max({w.from} \cup {e.to : e \in {x \in Rows(exceptions) : Overlap(x, w) /\ x.to <= t}})

\* Minute by minute: the starts within one shift, undisturbed, and a whole
\* number of granules after the barber last became available.
FreeStarts ==
  {t \in Quarters : \E w \in Rows(windows) :
     /\ w.from <= t /\ t + Duration <= w.to
     /\ Undisturbed(t)
     /\ (t - LastOpening(w, t)) % Granularity = 0}

\* The grid shows exactly the free starts, for overlapping shifts and exceptions
\* in any order, and for the inverted windows that two concurrent edits can
\* leave behind (slots.ts 123-175).
GridIsExact == Grid = FreeStarts

\* Whatever the grid offers, the booking check accepts, although the two are
\* separate code over separately loaded rows (booking.ts 202-247, slots.ts).
OfferedIsBookable == \A t \in Grid : Accepts(t)

\* A booking is never taken for a minute in which the barber does not work or is
\* away, on the grid or off it (booking.ts 197-201).
BookedWhileOpen ==
  [][\A a \in Appts : booked[a] = None /\ booked'[a] # None =>
       /\ Undisturbed(booked'[a].from)
       /\ \E w \in Rows(windows) : w.from <= booked'[a].from /\ booked'[a].to <= w.to]_vars

=============================================================================
