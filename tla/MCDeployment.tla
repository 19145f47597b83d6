---------------------------- MODULE MCDeployment ----------------------------
(***************************************************************************)
(* Two devices with an application each: the talker of one stream is the   *)
(* listener of the other, so that both devices play both roles.            *)
(***************************************************************************)
EXTENDS Deployment, TLC

CONSTANTS s1, s2

App(egress, ingress) ==
  [state |-> "whole", parameters |-> [n \in Names |-> 0], writing |-> FALSE,
   egress |-> egress, ingress |-> ingress]
OneEach == [apps |-> <<App({s1}, {s2}), App({s2}, {s1})>>,
            runs |-> <<{1}, {2}>>]
Crossed == (s1 :> <<1, 2>>) @@ (s2 :> <<2, 1>>)
\* The talker of s1 lacks its VLAN tag at first, the listener of s2 its
\* addresses; a later version lacks what was there.
Both == {"mac-addresses", "vlan-tag"}
SomeEntries ==
  (s1 :> <<<<{"mac-addresses"}, Both>>, <<{"vlan-tag"}, Both>>>>) @@
  (s2 :> <<<<Both, {"vlan-tag"}>>, <<Both, {}>>>>)
SomeOffered == <<{}, {"p"}>>

\* The values are interchangeable.
Symmetry == Permutations(Values)
=============================================================================
