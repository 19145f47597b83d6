-------------------------------- MODULE Json --------------------------------
(***************************************************************************)
(* The JSON of the REST interface and of the CNC (json_serializer.c).  A   *)
(* JSON object is a function from the names of its members to their        *)
(* values; an array is a function from the keys of its entries, like a C   *)
(* array.  Documents come from clients that send every member.             *)
(*                                                                         *)
(* Object and Record convert a structure whose members are all of one      *)
(* kind: the member is named like the field, with dashes.                  *)
(***************************************************************************)
EXTENDS DataValues

Dashed ==
    [talker_status |-> "talker-status", listener_status |-> "listener-status",
     failure_code |-> "failure-code", mac_address |-> "mac-address",
     interface_name |-> "interface-name", field_type |-> "field-type",
     destination_mac_address |-> "destination-mac-address",
     source_mac_address |-> "source-mac-address",
     priority_code_point |-> "priority-code-point", vlan_id |-> "vlan-id",
     source_ip_address |-> "source-ip-address", source_port |-> "source-port",
     destination_ip_address |-> "destination-ip-address",
     destination_port |-> "destination-port",
     earliest_transmit_offset |-> "earliest-transmit-offset",
     latest_transmit_offset |-> "latest-transmit-offset",
     max_frames_per_interval |-> "max-frames-per-interval",
     max_frame_size |-> "max-frame-size",
     transmission_selection |-> "transmission-selection", time_aware |-> "time-aware",
     num_seamless_trees |-> "num-seamless-trees", max_latency |-> "max-latency",
     vlan_tag_capable |-> "vlan-tag-capable",
     cb_stream_iden_type_list |-> "cb-stream-iden-type-list",
     cb_sequence_type_list |-> "cb-sequence-type-list", stream_rank |-> "stream-rank",
     end_station_interfaces |-> "end-station-interfaces",
     data_frame_specification |-> "data-frame-specification",
     traffic_specification |-> "traffic-specification",
     user_to_network_requirements |-> "user-to-network-requirements",
     interface_capabilities |-> "interface-capabilities", listener_list |-> "listener-list",
     accumulated_latency |-> "accumulated-latency", config_list |-> "config-list",
     interface_configuration |-> "interface-configuration",
     interface_list |-> "interface-list", status_info |-> "status-info",
     failed_interfaces |-> "failed-interfaces", stream_id |-> "stream-id",
     ieee802_mac_addresses |-> "ieee802-mac-addresses",
     ieee802_vlan_tag |-> "ieee802-vlan-tag", ipv4_tuple |-> "ipv4-tuple",
     ipv6_tuple |-> "ipv6-tuple", time_aware_offset |-> "time-aware-offset",
     num_cores |-> "num-cores", interface_uri |-> "interface-uri", has_app |-> "has-app",
     ports_count |-> "ports-count", from_mac |-> "from-mac", from_port |-> "from-port",
     to_mac |-> "to-mac", to_port |-> "to-port", has_mac |-> "has-mac",
     has_image |-> "has-image", image_ref |-> "image-ref",
     stream_mapping |-> "stream-mapping", p_id |-> "p-id", app_ref |-> "app-ref",
     subscribed_events_mask |-> "subscribed-events-mask"]

Name(field) == IF field \in DOMAIN Dashed THEN Dashed[field] ELSE field

Field == [name \in {Dashed[f] : f \in DOMAIN Dashed} |->
             CHOOSE f \in DOMAIN Dashed : Dashed[f] = name]
FieldOf(name) == IF name \in DOMAIN Field THEN Field[name] ELSE name

Object(x) == [name \in {Name(f) : f \in DOMAIN x} |-> x[FieldOf(name)]]
Record(o, fields) == [f \in fields |-> o[Name(f)]]
Array(F(_), a) == [k \in DOMAIN a |-> F(a[k])]

----------------------------------------------------------------------------
(* Data values.  Of a pointer nobody set json_string follows the bytes.    *)

DataValueToJson(type, value) ==
    IF type \in Pointers /\ value \in {Undefined, Crash} THEN Crash ELSE value

JsonToDataValue(type, j) == IF type \in DOMAIN Bits /\ j # Undefined THEN Narrow(type, j) ELSE j

SerializeModuleData(x) ==
    Object([entries |->
        Array(LAMBDA e : Object([e EXCEPT !.value = DataValueToJson(e.type, @)]), x)])

DeserializeModuleDataEntry(o) ==
    [Record(o, {"name", "type", "value"}) EXCEPT !.value = JsonToDataValue(o["type"], @)]
DeserializeModuleData(o) == Array(DeserializeModuleDataEntry, o["entries"])

SerializeModule(x)  == Object([x EXCEPT !.data = SerializeModuleData(@)])
SerializeModules(x) == Object([modules |-> Array(SerializeModule, x)])

----------------------------------------------------------------------------
(* Streams: structures of leaves *)

SerializeStreamId(id)       == Object([stream_id |-> id])
SerializeStatusInfo(x)      == Object(x)
SerializeInterfaceId(x)     == Object(x)
SerializeMacAddresses(x)    == Object(x)
SerializeVlanTag(x)         == Object(x)
SerializeIPv4Tuple(x)       == Object(x)
SerializeIPv6Tuple(x)       == Object(x)
SerializeStreamRank(x)      == Object(x)
SerializeInterval(x)        == Object(x)
SerializeTimeAware(x)       == Object(x)
SerializeUserToNetworkRequirements(x) == Object(x)

DeserializeStatusInfo(o)  == Record(o, {"talker_status", "listener_status", "failure_code"})
DeserializeInterfaceId(o) == Record(o, {"index", "mac_address", "interface_name"})
DeserializeMacAddresses(o) == Record(o, {"destination_mac_address", "source_mac_address"})
DeserializeVlanTag(o)     == Record(o, {"priority_code_point", "vlan_id"})
IPTuple == {"source_ip_address", "destination_ip_address", "dscp", "protocol",
            "source_port", "destination_port"}
DeserializeIPv4Tuple(o)   == Record(o, IPTuple)
DeserializeIPv6Tuple(o)   == Record(o, IPTuple)
DeserializeStreamRank(o)  == Record(o, {"rank"})
DeserializeInterval(o)    == Record(o, {"numerator", "denominator"})
DeserializeTimeAware(o)   ==
    Record(o, {"earliest_transmit_offset", "latest_transmit_offset", "jitter"})
DeserializeUserToNetworkRequirements(o) == Record(o, {"num_seamless_trees", "max_latency"})

\* The case of the choice, as the branches on field_type have it.
SerializeCase(type, x) ==
    CASE type = "ieee802_mac_addresses" -> SerializeMacAddresses(x)
      [] type = "ieee802_vlan_tag"      -> SerializeVlanTag(x)
      [] type = "ipv4_tuple"            -> SerializeIPv4Tuple(x)
      [] type = "ipv6_tuple"            -> SerializeIPv6Tuple(x)
      [] type = "time_aware_offset"     -> x

DeserializeCase(type, o) ==
    CASE type = "ieee802_mac_addresses" -> DeserializeMacAddresses(o)
      [] type = "ieee802_vlan_tag"      -> DeserializeVlanTag(o)
      [] type = "ipv4_tuple"            -> DeserializeIPv4Tuple(o)
      [] type = "ipv6_tuple"            -> DeserializeIPv6Tuple(o)
      [] type = "time_aware_offset"     -> o

SerializeChoice(x) ==
    Beside(Object([index |-> x.index, field_type |-> x.field_type]),
           Single(Name(x.field_type), SerializeCase(x.field_type, x.field)))

DeserializeChoice(o) ==
    LET type == o["field-type"]
    IN [index |-> o["index"], field_type |-> type, field |-> DeserializeCase(type, o[Name(type)])]

SerializeDataFrameSpecification(x)   == SerializeChoice(x)
DeserializeDataFrameSpecification(o) == DeserializeChoice(o)
SerializeConfigList(x)               == SerializeChoice(x)
DeserializeConfigList(o)             == DeserializeChoice(o)

----------------------------------------------------------------------------
(* The request *)

SerializeTrafficSpecification(x) ==
    Object([x EXCEPT !.interval = SerializeInterval(@), !.time_aware = SerializeTimeAware(@)])
DeserializeTrafficSpecification(o) ==
    [Record(o, {"interval", "max_frames_per_interval", "max_frame_size",
                "transmission_selection", "time_aware"})
        EXCEPT !.interval = DeserializeInterval(@), !.time_aware = DeserializeTimeAware(@)]

\* An empty list of types is left out, and a missing one is empty.
Capabilities == {"cb_stream_iden_type_list", "cb_sequence_type_list"}

SerializeInterfaceCapabilities(x) ==
    Object([f \in {"vlan_tag_capable"} \cup {c \in Capabilities : x[c] # {}} |-> x[f]])
DeserializeInterfaceCapabilities(o) ==
    Beside(Record(o, {"vlan_tag_capable"}),
           [c \in Capabilities |-> IF Name(c) \in DOMAIN o THEN o[Name(c)] ELSE {}])

SerializeTalker(x) ==
    Object([x EXCEPT !.stream_rank = SerializeStreamRank(@),
                     !.end_station_interfaces = Array(SerializeInterfaceId, @),
                     !.data_frame_specification = Array(SerializeDataFrameSpecification, @),
                     !.traffic_specification = SerializeTrafficSpecification(@),
                     !.user_to_network_requirements = SerializeUserToNetworkRequirements(@),
                     !.interface_capabilities = SerializeInterfaceCapabilities(@)])
DeserializeTalker(o) ==
    [Record(o, {"stream_rank", "end_station_interfaces", "data_frame_specification",
                "traffic_specification", "user_to_network_requirements",
                "interface_capabilities"})
        EXCEPT !.stream_rank = DeserializeStreamRank(@),
               !.end_station_interfaces = Array(DeserializeInterfaceId, @),
               !.data_frame_specification = Array(DeserializeDataFrameSpecification, @),
               !.traffic_specification = DeserializeTrafficSpecification(@),
               !.user_to_network_requirements = DeserializeUserToNetworkRequirements(@),
               !.interface_capabilities = DeserializeInterfaceCapabilities(@)]

SerializeListener(x) ==
    Object([x EXCEPT !.end_station_interfaces = Array(SerializeInterfaceId, @),
                     !.user_to_network_requirements = SerializeUserToNetworkRequirements(@),
                     !.interface_capabilities = SerializeInterfaceCapabilities(@)])
DeserializeListener(o) ==
    [Record(o, {"index", "end_station_interfaces", "user_to_network_requirements",
                "interface_capabilities"})
        EXCEPT !.end_station_interfaces = Array(DeserializeInterfaceId, @),
               !.user_to_network_requirements = DeserializeUserToNetworkRequirements(@),
               !.interface_capabilities = DeserializeInterfaceCapabilities(@)]

SerializeStreamRequest(x) ==
    Object([x EXCEPT !.talker = SerializeTalker(@),
                     !.listener_list = Array(SerializeListener, @)])
DeserializeStreamRequest(o) ==
    [Record(o, {"talker", "listener_list"})
        EXCEPT !.talker = DeserializeTalker(@),
               !.listener_list = Array(DeserializeListener, @)]

----------------------------------------------------------------------------
(* The configuration, as the REST interface gives it *)

SerializeInterfaceList(x) ==
    Object([x EXCEPT !.config_list = Array(SerializeConfigList, @)])
DeserializeInterfaceList(o) ==
    [Record(o, {"mac_address", "interface_name", "config_list"})
        EXCEPT !.config_list = Array(DeserializeConfigList, @)]

SerializeInterfaceConfiguration(x) ==
    Object([x EXCEPT !.interface_list = Array(SerializeInterfaceList, @)])
DeserializeInterfaceConfiguration(o) ==
    [interface_list |-> Array(DeserializeInterfaceList, o["interface-list"])]

SerializeStatusTalker(x) ==
    Object([x EXCEPT !.interface_configuration = SerializeInterfaceConfiguration(@)])
DeserializeStatusTalker(o) ==
    [Record(o, {"accumulated_latency", "interface_configuration"})
        EXCEPT !.interface_configuration = DeserializeInterfaceConfiguration(@)]

SerializeStatusListener(x) ==
    Object([x EXCEPT !.interface_configuration = SerializeInterfaceConfiguration(@)])
DeserializeStatusListener(o) ==
    [Record(o, {"index", "accumulated_latency", "interface_configuration"})
        EXCEPT !.interface_configuration = DeserializeInterfaceConfiguration(@)]

SerializeStreamConfiguration(x) ==
    Object([x EXCEPT !.talker = SerializeStatusTalker(@),
                     !.listener_list = Array(SerializeStatusListener, @),
                     !.status_info = SerializeStatusInfo(@),
                     !.failed_interfaces = Array(SerializeInterfaceId, @)])
DeserializeStreamConfiguration(o) ==
    [Record(o, {"talker", "listener_list", "status_info", "failed_interfaces"})
        EXCEPT !.talker = DeserializeStatusTalker(@),
               !.listener_list = Array(DeserializeStatusListener, @),
               !.status_info = DeserializeStatusInfo(@),
               !.failed_interfaces = Array(DeserializeInterfaceId, @)]

\* The configuration is there only if the stream has one.
SerializeStream(x) ==
    Beside(Object([stream_id |-> x.stream_id, configured |-> x.configured,
                   request |-> SerializeStreamRequest(x.request)]),
           IF x.configured = 1
           THEN [configuration |-> SerializeStreamConfiguration(x.configuration)] ELSE << >>)
DeserializeStream(o) ==
    [stream_id |-> o["stream-id"], configured |-> o["configured"],
     request |-> DeserializeStreamRequest(o["request"]),
     configuration |-> IF o["configured"] = 1
                       THEN DeserializeStreamConfiguration(o["configuration"]) ELSE Null]

SerializeStreams(x)   == Object([streams |-> Array(SerializeStream, x)])
DeserializeStreams(o) == Array(DeserializeStream, o["streams"])

----------------------------------------------------------------------------
(* The format of the CNC: the interface of an entry is a member of its     *)
(* own, the talker and the listeners carry the id of the stream, split at  *)
(* its colon, and a configuration has one array that begins with the       *)
(* talker.                                                                 *)

\* strtok on an id "<mac>:<number>"; the caller's string ends at the MAC then.
MacOf(id)    == <<"mac", id>>
NumberOf(id) == <<"number", id>>

InterfaceApart(o) ==
    [n \in {"index", "interface-id"} |->
        IF n = "index" THEN o[n] ELSE [m \in {"mac-address", "interface-name"} |-> o[m]]]

WithStreamId(o, id) ==
    Beside([o EXCEPT !["end-station-interfaces"] = Array(InterfaceApart, @)],
           Single("stream-id", [n \in {"mac-address", "unique-id"} |->
                                   IF n = "mac-address" THEN MacOf(id) ELSE NumberOf(id)]))

SerializeCncRequest(x) ==
    LET Request(s) ==
            LET id == s.stream_id
            IN [SerializeStreamRequest(s.request) EXCEPT
                   !["talker"] = WithStreamId(@, id),
                   !["listener-list"] = [l \in DOMAIN @ |-> WithStreamId(@[l], id)]]
    IN [requests |-> Array(Request, x)]

\* The type of an entry follows from the first case it has a member for.
CncCases == <<"ieee802_mac_addresses", "ieee802_vlan_tag", "ipv4_tuple", "ipv6_tuple",
              "time_aware_offset">>
DeserializeCncConfigList(o) ==
    LET present == {n \in 1..Len(CncCases) : Name(CncCases[n]) \in DOMAIN o}
        type == CncCases[CHOOSE n \in present : \A m \in present : n <= m]
    IN [index |-> o["index"],
        field_type |-> IF present = {} THEN Undefined ELSE type,
        field |-> IF present = {} THEN Undefined ELSE DeserializeCase(type, o[Name(type)])]

DeserializeCncInterfaceList(o) ==
    Beside(Record(o["interface-id"], {"mac_address", "interface_name"}),
           [config_list |-> Array(DeserializeCncConfigList, o["config-list"])])

DeserializeCncInterfaceConfiguration(o) ==
    [interface_list |-> Array(DeserializeCncInterfaceList, o["interface-list"])]

DeserializeCncStatusTalker(o) ==
    [Record(o, {"accumulated_latency", "interface_configuration"})
        EXCEPT !.interface_configuration = DeserializeCncInterfaceConfiguration(@)]
DeserializeCncStatusListener(o) ==
    [Record(o, {"index", "accumulated_latency", "interface_configuration"})
        EXCEPT !.interface_configuration = DeserializeCncInterfaceConfiguration(@)]

\* The array as its first element and the function of the others.
DeserializeCncStreamConfiguration(o) ==
    [status_info       |-> DeserializeStatusInfo(o["status-info"]),
     failed_interfaces |-> Array(DeserializeInterfaceId, o["failed-interfaces"]),
     talker        |-> DeserializeCncStatusTalker(o["status-talker-listener"].first),
     listener_list |-> Array(DeserializeCncStatusListener, o["status-talker-listener"].others)]

DeserializeCncResponse(o) ==
    Array(LAMBDA s : [stream_id |-> s["stream-id"],
                      configuration |-> DeserializeCncStreamConfiguration(s["configuration"])],
          o["streams"])

----------------------------------------------------------------------------
(* The topology *)

SerializeEnddeviceAppRef(a)   == Object([app_ref |-> a])
DeserializeEnddeviceAppRef(o) == o["app-ref"]

\* The references of a device that has no application are not looked at.
SerializeEnddevice(x) ==
    Object([x EXCEPT !.apps =
        IF x.has_app = 1 THEN {SerializeEnddeviceAppRef(a) : a \in x.apps} ELSE {}])
DeserializeEnddevice(o) ==
    [f \in {"name", "mac", "iface", "num_cores", "interface_uri", "has_app", "apps"} |->
        IF f # "apps" THEN o[Name(f)]
        ELSE IF o["has-app"] = 1 THEN {DeserializeEnddeviceAppRef(a) : a \in o["apps"]}
        ELSE Undefined]

SerializeSwitch(x)   == Object(x)
DeserializeSwitch(o) == Record(o, {"name", "mac", "ports_count"})

SerializeDevices(x) ==
    Object([enddevices |-> Array(SerializeEnddevice, x.enddevices),
            switches   |-> Array(SerializeSwitch, x.switches)])
DeserializeDevices(o) ==
    [enddevices |-> Array(DeserializeEnddevice, o["enddevices"]),
     switches   |-> Array(DeserializeSwitch, o["switches"])]

\* The structure of a connection keeps its number with 16 bits.
SerializeConnection(x)   == Object(x)
DeserializeConnection(o) ==
    [Record(o, {"id", "from_mac", "from_port", "to_mac", "to_port"}) EXCEPT !.id = @ % 2^16]

SerializeGraph(x)   == Object([connections |-> Array(SerializeConnection, x)])
DeserializeGraph(o) == Array(DeserializeConnection, o["connections"])

SerializeTopology(x) ==
    Object([devices |-> SerializeDevices(x.devices), graph |-> SerializeGraph(x.graph)])
DeserializeTopology(o) ==
    [devices |-> DeserializeDevices(o["devices"]), graph |-> DeserializeGraph(o["graph"])]

----------------------------------------------------------------------------
(* Applications *)

SerializeAppParameter(x) == Object([x EXCEPT !.value = DataValueToJson(x.type, @)])
SerializeAppStreamMapping(x)   == Object(x)
DeserializeAppStreamMapping(o) == Record(o, {"egress", "ingress"})

\* Mutant of Absent: the image is always there.
AbsentMac(x) == IF x.has_mac = 1 THEN {} ELSE {"mac"}

\* The MAC address and the image are there only if the application has them.
Absent(x) == (IF x.has_mac = 1 THEN {} ELSE {"mac"})
                 \cup (IF x.has_image = 1 THEN {} ELSE {"image_ref"})
SerializeApp(x) ==
    LET y == [x EXCEPT !.parameters = Array(SerializeAppParameter, @),
                       !.stream_mapping = SerializeAppStreamMapping(@)]
    IN Object([f \in DOMAIN x \ Absent(x) |-> y[f]])

SerializeApps(x)   == Object([apps |-> Array(SerializeApp, x)])
SerializeImage(x)  == Object(x)
SerializeImages(x) == Object([images |-> Array(SerializeImage, x)])

DeserializeAppParameter(o) ==
    [Record(o, {"name", "type", "description", "value"})
        EXCEPT !.value = JsonToDataValue(o["type"], @)]

NewId(name, version) == name \o "_" \o version

\* A document without the member image-ref is refused even if it says that
\* there is no image.  A document without an id makes one.
DeserializeApp(o) ==
    IF ~({"name", "description", "version", "image-ref", "parameters"} \subseteq DOMAIN o) THEN Null
    ELSE [f \in {"id", "name", "version", "description", "has_mac", "mac", "iface",
                 "has_image", "image_ref", "parameters", "stream_mapping"} |->
             CASE f = "id" -> IF f \in DOMAIN o THEN o[f] ELSE NewId(o["name"], o["version"])
               [] f = "mac" -> IF o["has-mac"] = 1 THEN o[f] ELSE Null
               [] f = "image_ref" -> IF o["has-image"] = 1 THEN o["image-ref"] ELSE Null
               [] f = "parameters" -> Array(DeserializeAppParameter, o[f])
               [] f = "stream_mapping" -> DeserializeAppStreamMapping(o["stream-mapping"])
               [] OTHER -> o[Name(f)]]

\* What the Docker registry and Kubernetes answer.  A list without entries
\* is treated like an error.
DeserializeImages(o) ==
    IF o["repositories"] = {} THEN Null
    ELSE [r \in o["repositories"] |->
             [id |-> r, name |-> r, version |-> "latest", description |-> "N/A"]]

SerializeApplication(x) ==
    Object([apps |-> SerializeApps(x.apps), images |-> SerializeImages(x.images)])

SerializeUni(x) ==
    Object([streams     |-> SerializeStreams(x.streams),
            modules     |-> SerializeModules(x.modules),
            topology    |-> SerializeTopology(x.topology),
            application |-> SerializeApplication(x.application)])
=============================================================================
