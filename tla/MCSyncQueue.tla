---------------------------- MODULE MCSyncQueue ----------------------------
(* SyncQueue on small sets, for TLC. *)
EXTENDS SyncQueue, TLC

\* Notebooks, jobs, workers and requests are interchangeable: no action names one.
Symmetry ==
  Permutations(Notebooks) \cup Permutations(Jobs) \cup Permutations(Workers)
    \cup Permutations(Requests)
=============================================================================
