---------------------------- MODULE StreamStore ----------------------------
(***************************************************************************)
(* How sysrepo_client.c reads the structures of a stream from the          *)
(* datastore and writes them into it (_read_... and _write_..., lines      *)
(* 282-2727).  A structure that has nothing but leaves is given by the     *)
(* set of its fields, the node of a leaf being named like the field; one   *)
(* with parts has an operator that reads it and one that gives the leaves  *)
(* its writing sets.                                                       *)
(*                                                                         *)
(* A reader answers Fail where the code returns an error code: the         *)
(* structures around the one that could not be read are then given up too. *)
(***************************************************************************)
EXTENDS Datastore

----------------------------------------------------------------------------
(* Structures of leaves *)

MacAddresses  == {"destination_mac_address", "source_mac_address"}
VlanTag       == {"priority_code_point", "vlan_id"}
IPv4Tuple     == {"source_ip_address", "destination_ip_address", "dscp",
                  "protocol", "source_port", "destination_port"}
IPv6Tuple     == {"source_ip_address", "destination_ip_address", "dscp",
                  "protocol", "source_port", "destination_port"}
UserToNetworkRequirements == {"num_seamless_trees", "max_latency"}
StreamRank    == {"rank"}
Interval      == {"numerator", "denominator"}
TimeAware     == {"earliest_transmit_offset", "latest_transmit_offset", "jitter"}
StatusInfo    == {"talker_status", "listener_status", "failure_code"}

\* The entries of a list of interfaces have their MAC address and name as
\* keys; the index of the C structure is not stored.
InterfaceId   == {"mac_address", "interface_name"}

\* The index a reader gives an interface is the loop variable, its place in
\* the array.
Placed(i) == IF i = Fail THEN Fail ELSE Beside([index |-> "position"], i)

ReadInterface(s, p) == Placed(Leaves(s, p, InterfaceId))
WriteInterface(p, x) == PutLeaves(p, InterfaceId, x)

ReadInterfaceCapabilities(s, p) ==
    Struct(s, p, {"vlan_tag_capable"},
        [cb_stream_iden_type_list |-> Keys(s, p ++ "cb_stream_iden_type_list"),
         cb_sequence_type_list    |-> Keys(s, p ++ "cb_sequence_type_list")])

WriteInterfaceCapabilities(p, x) ==
    Union({PutLeaves(p, {"vlan_tag_capable"}, x),
           PutValues(p ++ "cb_stream_iden_type_list", x.cb_stream_iden_type_list),
           PutValues(p ++ "cb_sequence_type_list", x.cb_sequence_type_list)})

----------------------------------------------------------------------------
(* The choice of a frame specification and of a configuration entry *)

CaseLeaves == [ieee802_mac_addresses |-> MacAddresses, ieee802_vlan_tag |-> VlanTag,
               ipv4_tuple |-> IPv4Tuple, ipv6_tuple |-> IPv6Tuple]

\* The type found from the nodes below an entry starts as 0, the MAC
\* addresses; the branch for an IPv6 tuple looks for "/ipv4-tuple" again.
FrameType(s, p) ==
    LET found == Keys(s, p) \cap {"ieee802_mac_addresses", "ieee802_vlan_tag", "ipv4_tuple"}
    IN IF found = {} THEN "ieee802_mac_addresses" ELSE CHOOSE t \in found : TRUE

ReadDataFrameSpecification(s, p) ==
    LET type == FrameType(s, p)
    IN Struct(s, p, {"index"},
              [field_type |-> type, field |-> Leaves(s, p ++ type, CaseLeaves[type])])

WriteDataFrameSpecification(p, x) ==
    Union({PutLeaves(p, {"index"}, x),
           PutLeaves(p ++ x.field_type, CaseLeaves[x.field_type], x.field)})

\* Mutant of ConfigType: the offset is not looked for.
ConfigTypeFrame(s, p) == FrameType(s, p)

ConfigType(s, p) ==
    IF "time_aware_offset" \in Keys(s, p) THEN "time_aware_offset" ELSE FrameType(s, p)

ReadConfigList(s, p) ==
    LET type == ConfigType(s, p)
    IN Struct(s, p, {"index"},
              [field_type |-> type,
               field |-> IF type = "time_aware_offset" THEN Get(s, p ++ type)
                         ELSE Leaves(s, p ++ type, CaseLeaves[type])])

WriteConfigList(p, x) ==
    Union({PutLeaves(p, {"index"}, x),
           IF x.field_type = "time_aware_offset" THEN PutLeaf(p ++ x.field_type, x.field)
           ELSE PutLeaves(p ++ x.field_type, CaseLeaves[x.field_type], x.field)})

----------------------------------------------------------------------------
(* The request of a stream *)

TrafficLeaves == {"max_frames_per_interval", "max_frame_size", "transmission_selection"}

ReadTrafficSpecification(s, p) ==
    Struct(s, p, TrafficLeaves, [interval   |-> Leaves(s, p ++ "interval", Interval),
                                 time_aware |-> Leaves(s, p ++ "time_aware", TimeAware)])

WriteTrafficSpecification(p, x) ==
    Union({PutLeaves(p, TrafficLeaves, x),
           PutLeaves(p ++ "interval", Interval, x.interval),
           PutLeaves(p ++ "time_aware", TimeAware, x.time_aware)})

ReadTalker(s, p) ==
    Whole([stream_rank |-> Leaves(s, p ++ "stream_rank", StreamRank),
           end_station_interfaces |-> Entries(s, p ++ "end_station_interfaces", ReadInterface),
           data_frame_specification |->
               Entries(s, p ++ "data_frame_specification", ReadDataFrameSpecification),
           traffic_specification |-> ReadTrafficSpecification(s, p ++ "traffic_specification"),
           user_to_network_requirements |->
               Leaves(s, p ++ "user_to_network_requirements", UserToNetworkRequirements),
           interface_capabilities |->
               ReadInterfaceCapabilities(s, p ++ "interface_capabilities")])

WriteTalker(p, x) ==
    Union({PutLeaves(p ++ "stream_rank", StreamRank, x.stream_rank),
           PutEntries(p ++ "end_station_interfaces", WriteInterface, x.end_station_interfaces),
           PutEntries(p ++ "data_frame_specification", WriteDataFrameSpecification,
                      x.data_frame_specification),
           WriteTrafficSpecification(p ++ "traffic_specification", x.traffic_specification),
           PutLeaves(p ++ "user_to_network_requirements", UserToNetworkRequirements,
                     x.user_to_network_requirements),
           WriteInterfaceCapabilities(p ++ "interface_capabilities", x.interface_capabilities)})

ReadListener(s, p) ==
    Struct(s, p, {"index"},
        [end_station_interfaces |-> Entries(s, p ++ "end_station_interfaces", ReadInterface),
         user_to_network_requirements |->
             Leaves(s, p ++ "user_to_network_requirements", UserToNetworkRequirements),
         interface_capabilities |-> ReadInterfaceCapabilities(s, p ++ "interface_capabilities")])

WriteListener(p, x) ==
    Union({PutLeaves(p, {"index"}, x),
           PutEntries(p ++ "end_station_interfaces", WriteInterface, x.end_station_interfaces),
           PutLeaves(p ++ "user_to_network_requirements", UserToNetworkRequirements,
                     x.user_to_network_requirements),
           WriteInterfaceCapabilities(p ++ "interface_capabilities", x.interface_capabilities)})

ReadRequest(s, p) ==
    Whole([talker        |-> ReadTalker(s, p ++ "talker"),
           listener_list |-> Entries(s, p ++ "listener_list", ReadListener)])

WriteRequest(p, x) ==
    Union({WriteTalker(p ++ "talker", x.talker),
           PutEntries(p ++ "listener_list", WriteListener, x.listener_list)})

----------------------------------------------------------------------------
(* The configuration of a stream *)

ReadInterfaceList(s, p) ==
    Struct(s, p, InterfaceId, [config_list |-> Entries(s, p ++ "config_list", ReadConfigList)])

WriteInterfaceList(p, x) ==
    Union({PutLeaves(p, InterfaceId, x),
           PutEntries(p ++ "config_list", WriteConfigList, x.config_list)})

\* Each entry is read through the path of the list, without its keys: with
\* two entries that path names two leaves and sr_get_item refuses it.
ReadInterfaceConfiguration(s, p) ==
    Whole([interface_list |->
        IF Cardinality(Keys(s, p ++ "interface_list")) > 1 THEN Fail
        ELSE Entries(s, p ++ "interface_list", ReadInterfaceList)])

WriteInterfaceConfiguration(p, x) ==
    PutEntries(p ++ "interface_list", WriteInterfaceList, x.interface_list)

ReadStatusTalker(s, p) ==
    Struct(s, p, {"accumulated_latency"},
        [interface_configuration |-> ReadInterfaceConfiguration(s, p ++ "interface_configuration")])

WriteStatusTalker(p, x) ==
    Union({PutLeaves(p, {"accumulated_latency"}, x),
           WriteInterfaceConfiguration(p ++ "interface_configuration", x.interface_configuration)})

ReadStatusListener(s, p) ==
    Struct(s, p, {"index", "accumulated_latency"},
        [interface_configuration |-> ReadInterfaceConfiguration(s, p ++ "interface_configuration")])

WriteStatusListener(p, x) ==
    Union({PutLeaves(p, {"index", "accumulated_latency"}, x),
           WriteInterfaceConfiguration(p ++ "interface_configuration", x.interface_configuration)})

\* The loop over the failed interfaces leaves their index as malloc left it.
ReadFailedInterface(s, p) ==
    LET i == Leaves(s, p, InterfaceId)
    IN IF i = Fail THEN Fail ELSE Beside([index |-> Undefined], i)

ReadConfiguration(s, p) ==
    Whole([status_info |-> Leaves(s, p ++ "status_info", StatusInfo),
           failed_interfaces |-> Entries(s, p ++ "failed_interfaces", ReadFailedInterface),
           talker |-> ReadStatusTalker(s, p ++ "talker"),
           listener_list |-> Entries(s, p ++ "listener_list", ReadStatusListener)])

WriteConfiguration(p, x) ==
    Union({PutLeaves(p ++ "status_info", StatusInfo, x.status_info),
           PutEntries(p ++ "failed_interfaces", WriteInterface, x.failed_interfaces),
           WriteStatusTalker(p ++ "talker", x.talker),
           PutEntries(p ++ "listener_list", WriteStatusListener, x.listener_list)})

----------------------------------------------------------------------------
(* A stream and the list of all streams.  A stream without a configuration *)
(* has a null pointer there.                                               *)

StreamsPath == <<"streams">>
StreamPath(id) == StreamsPath ++ id

ReadStream(s, p) ==
    Struct(s, p, {"stream_id", "configured"},
        [request       |-> ReadRequest(s, p ++ "request"),
         configuration |-> IF Get(s, p ++ "configured") = 1
                           THEN ReadConfiguration(s, p ++ "configuration") ELSE Null])

ReadStreams(s) == Entries(s, StreamsPath, ReadStream)

\* Mutant of ReadUnconfigured: the configured streams are kept.
ReadUnconfiguredAll(s, place) == ReadStreams(s)

\* On demand the streams that are configured already are left out, but the
\* others keep their place in the whole list while only they are counted: the
\* array ends at that count, and the place of a configured stream was never
\* written.  place: the order of the list.
ReadUnconfigured(s, place) ==
    LET all == ReadStreams(s)
        open == {id \in DOMAIN all : all[id].configured = 0}
        Index(id) == Cardinality({i \in DOMAIN all : place[i] < place[id]})
        array == {id \in DOMAIN all : Index(id) < Cardinality(open)}
    IN IF all = Fail THEN Fail
       ELSE [id \in array |-> IF id \in open THEN all[id] ELSE Undefined]

\* Mutant of WriteStreamRequest: the flag of a configured stream stays.
WriteStreamRequestFlagged(s, id, request) ==
    Merge(s, Union({PutLeaf(StreamPath(id) ++ "stream_id", id),
                    WriteRequest(StreamPath(id) ++ "request", request),
                    PutLeaf(StreamPath(id) ++ "configured",
                            IF Get(s, StreamPath(id) ++ "configured") = 1 THEN 1 ELSE 0)}))

\* sysrepo_write_stream_request and sysrepo_write_stream_configuration.
WriteStreamRequest(s, id, request) ==
    Merge(s, Union({PutLeaf(StreamPath(id) ++ "stream_id", id),
                    WriteRequest(StreamPath(id) ++ "request", request),
                    PutLeaf(StreamPath(id) ++ "configured", 0)}))

WriteStreamConfiguration(s, id, configuration) ==
    Merge(s, Union({WriteConfiguration(StreamPath(id) ++ "configuration", configuration),
                    PutLeaf(StreamPath(id) ++ "configured", 1)}))
=============================================================================
