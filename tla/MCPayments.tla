----------------------------- MODULE MCPayments ------------------------------
(* Small instances of Payments for TLC: one hour, one service, no admin edits,
   so that what remains is payments against bookings and cancellations. *)
EXTENDS Payments, TLC

OneHour ==
  {[duration |-> [s \in Services |-> 1],
    active   |-> Services,
    offers   |-> Barbers \X Services,
    windows  |-> [b \in Barbers |-> {[from |-> 0, to |-> 1]}]]}

Interchangeable ==
  Permutations(Requests) \cup Permutations(Appts) \cup Permutations(PixIds)
    \cup Permutations(WebJobs)

=============================================================================
