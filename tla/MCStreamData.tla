---------------------------- MODULE MCStreamData ----------------------------
(***************************************************************************)
(* Instance of StreamData for TLC: each case of a frame specification and  *)
(* of a configuration entry, lists that grow and that are written again.   *)
(***************************************************************************)
EXTENDS StreamData

Request(frame, listeners, cb) == [frame |-> frame, listeners |-> listeners, cb |-> cb]

MCRequests ==
    {Request("ieee802_mac_addresses", [l \in {"0", "1"} |-> {"b"}], {"7"}),
     Request("ipv4_tuple", [l \in {"0"} |-> {"a", "b"}], {"8"}),
     Request("ipv6_tuple", [l \in {"0"} |-> {"a"}], {})}

MCSimplified == {[listeners |-> [l \in {"0"} |-> "a"], index |-> i] : i \in {"1", "9"}}

Configuration(interfaces, entry, failed) ==
    [interfaces |-> interfaces, entry |-> entry, failed |-> failed, listeners |-> {"0"}]

MCConfigurations ==
    {Configuration({"a"}, "ieee802_vlan_tag", {}),
     Configuration({"b"}, "time_aware_offset", {"c"}),
     Configuration({"a"}, "ipv6_tuple", {}),
     Configuration({"a", "b"}, "ipv4_tuple", {})}
=============================================================================
