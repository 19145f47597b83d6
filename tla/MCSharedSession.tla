-------------------------- MODULE MCSharedSession --------------------------
(***************************************************************************)
(* Instances of SharedSession for TLC.                                     *)
(***************************************************************************)
EXTENDS SharedSession, TLC

CONSTANTS a1, i1, s1, s2

\* An application that runs an image and is mapped to a stream.
Mapped ==
  OfStream(s1) \cup App(a1) \cup Params(a1) \cup Image({i1})
    \cup Topology \cup Refs(a1) \cup Maps(a1, {s1})

ASSUME CompleteAssumption == Complete(Installed)

Symmetry == Permutations(RestThreads)
============================================================================
