----------------------------- MODULE MCSchedules -----------------------------
(* A small instance of Schedules for TLC: a day of two hours. *)
EXTENDS Schedules, TLC

W(from, to) == [from |-> from, to |-> to]

\* Two shifts that meet, one that overlaps both.
Shifts == {W(0, 5), W(5, 8), W(3, 8)}

\* Inside a shift, across two shifts, the whole day.
Absences == {W(1, 2), W(2, 6), W(0, 8)}

Ids ==
  Permutations(WindowIds) \cup Permutations(ExceptionIds)
    \cup Permutations(Appts) \cup Permutations(Editors)

=============================================================================
