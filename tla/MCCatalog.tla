------------------------------ MODULE MCCatalog -------------------------------
(* Catalog on a small instance: two shops, the barber works in the first.    *)
EXTENDS Catalog

CONSTANTS home, other, ana

MCShopOf == [b \in Barbers |-> home]

MCRows == {[data |-> 1, active |-> TRUE]}

MCPatches ==
  {[data |-> 2, active |-> None], [data |-> None, active |-> FALSE]}

PageRests ==
  /\ DOMAIN list = {} /\ removed = {}
  /\ editing = None /\ form = EMPTY_FORM /\ ~saving /\ busy = None

BookingsRest ==
  /\ assigned = {} /\ booking = None /\ booked = {} /\ missing = {}
  /\ \A b \in Barbers : barber[b]
  /\ \A c \in Calls : "barber" \notin DOMAIN call[c]
  /\ \A c \in Calls : "shop" \in DOMAIN call[c] => call[c].shop = home

\* Either the page works on its services while nobody assigns or books them and
\* other shops rest, or the other way round; the shop without a barber keeps
\* its set-up.
Bounded == other \notin missing /\ (PageRests \/ BookingsRest)
=============================================================================
