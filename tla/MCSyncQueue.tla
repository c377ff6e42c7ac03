----------------------------- MODULE MCSyncQueue -----------------------------
(* Instances of SyncQueue for TLC; the .cfg files give the threads.         *)
EXTENDS SyncQueue, TLC

\* Producers are interchangeable, and so are poppers.  Used by the runs that
\* check no temporal property.
Symmetry == Permutations(Producers) \cup Permutations(Poppers)
=============================================================================
