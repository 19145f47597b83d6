------------------------- MODULE MCStreamLifecycle -------------------------
(***************************************************************************)
(* Instances of StreamLifecycle for TLC.                                   *)
(***************************************************************************)
EXTENDS StreamLifecycle, TLC

\* Threads are interchangeable, and so are talkers.
Symmetry == Permutations(Workers) \cup Permutations(Macs)
============================================================================
