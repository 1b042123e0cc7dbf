------------------------------ MODULE Calendar ------------------------------
(***************************************************************************)
(* What the booking service promises, said without locks, requests or      *)
(* stale reads: a calendar in which every appointment holds at most one    *)
(* slot of one barber.  A slot is taken, moved or given up in one step,    *)
(* and never while another appointment of the same barber overlaps it.     *)
(* Booking implements this module.                                         *)
(***************************************************************************)
EXTENDS Integers

CONSTANTS Appts, Barbers, Instants

VARIABLE held      \* held[a]: the set of slots appointment a holds, {} or one

Slots == [barber : Barbers, start : Instants, finish : Instants]

\* Half-open intervals: back-to-back slots do not overlap.
SlotsOverlap(s, t) ==
  /\ s.barber = t.barber
  /\ s.start < t.finish
  /\ t.start < s.finish

FreeFor(a, s) ==
  \A x \in Appts \ {a} : \A t \in held[x] : ~ SlotsOverlap(t, s)

Init == held = [a \in Appts |-> {}]

\* Taking a slot, or moving to another slot of the same barber.
Reserve(a, s) ==
  /\ \A t \in held[a] : t.barber = s.barber
  /\ FreeFor(a, s)
  /\ held' = [held EXCEPT ![a] = {s}]

Release(a) ==
  /\ held[a] # {}
  /\ held' = [held EXCEPT ![a] = {}]

Next ==
  \E a \in Appts :
    \/ \E s \in Slots : Reserve(a, s)
    \/ Release(a)

Spec == Init /\ [][Next]_held

=============================================================================
