------------------------------ MODULE MCAccounts ------------------------------
(* Accounts on a small instance: the admin of one shop is seeded.            *)
EXTENDS Accounts, TLC

CONSTANTS boss, shop

MCSeeds ==
  <<[email |-> boss, passwordHash |-> TRUE, role |-> "barbershop_admin",
     barbershopId |-> shop, consent |-> TRUE, address |-> boss, invite |-> None]>>

\* Bound: nothing is explored after the admin's own account is deleted.
AdminStays == ~Deleted(1)

SameBrowsers == Permutations(Browsers)
=============================================================================
