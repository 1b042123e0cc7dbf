--------------------------- MODULE MCBookingPage ---------------------------
(* Bounds for model-checking BookingPage. *)
EXTENDS BookingPage, TLC

Blank == [slug |-> None, service |-> None, barber |-> None, date |-> None,
          slot |-> None, appt |-> None]

\* The bare page, and a link to one shop, service and barber.
MCEntries ==
  {Blank} \cup {[Blank EXCEPT !.slug = x, !.service = y, !.barber = z] :
                  x \in Shops, y \in Services, z \in Barbers}

=============================================================================
