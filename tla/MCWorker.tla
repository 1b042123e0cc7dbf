------------------------------ MODULE MCWorker -------------------------------
(* Small instances of Worker for TLC. *)
EXTENDS Worker, TLC

\* Outbox scans are interchangeable where no fairness is assumed of them.
Twins == Permutations(OutboxScans)

=============================================================================
