------------------------- MODULE MCModuleLifecycle -------------------------
(***************************************************************************)
(* Instances of ModuleLifecycle for TLC.                                   *)
(***************************************************************************)
EXTENDS ModuleLifecycle, TLC

CONSTANTS cuc, monitor

\* Threads are interchangeable.
Symmetry == Permutations(Clients)

Entry(name, path) == [name |-> name, path |-> path, registered |-> TRUE, pid |-> 0]

\* Both modules are registered.
TwoModules == <<Entry(cuc, cuc), Entry(monitor, monitor)>>

\* The executable of one of them is missing.
OneBroken == <<Entry(cuc, Broken), Entry(monitor, monitor)>>
============================================================================
