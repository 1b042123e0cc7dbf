------------------------------ MODULE MCBooking ------------------------------
(* Small instances of Booking for TLC. *)
EXTENDS Booking

\* One service, one catalog: every barber works the whole modelled day.
OpenDay ==
  {[duration |-> [s \in Services |-> 2],
    active   |-> Services,
    offers   |-> Barbers \X Services,
    windows  |-> [b \in Barbers |-> {[from |-> 0, to |-> 4]}]]}

\* The admin may also halve the service and take all but the first hour off, so
\* that slots of both lengths meet: some overlap in part, some only touch.
ShortDay ==
  OpenDay \cup
  {[duration |-> [s \in Services |-> 1],
    active   |-> Services,
    offers   |-> Barbers \X Services,
    windows  |-> [b \in Barbers |-> {[from |-> 0, to |-> 1]}]]}
=============================================================================
