----------------------------- MODULE MCScanJobs -----------------------------
(* Instances of ScanJobs for TLC: the constants are given in the .cfg files. *)
EXTENDS ScanJobs, TLC

\* Worker identities are interchangeable, and so are addresses; used by the
\* safety runs only.
Symmetry == Permutations(Workers) \cup Permutations(Addresses)
                \cup Permutations(Schedulers)
=============================================================================
