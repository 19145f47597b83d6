----------------------------- MODULE StreamData -----------------------------
(***************************************************************************)
(* What becomes of the contents of a stream on its way through ControlTSN: *)
(* a client posts a request, the datastore keeps it, the CUC posts the     *)
(* streams without a configuration to the CNC and stores what that         *)
(* computed, and clients get the stream back.  Where StreamLifecycle       *)
(* follows the order of these steps, this module follows the documents:    *)
(* every leaf passes the JSON of json_serializer.c and the datastore       *)
(* functions of sysrepo_client.c.                                          *)
(*                                                                         *)
(* A call is one step here.  Calls whose changes sysrepo would refuse, and *)
(* what they leave in the session, are the subject of SharedSession.       *)
(***************************************************************************)
EXTENDS StreamStore, Json

CONSTANTS
  Requests,        \* kinds of requests clients post, see RequestOf
  Simplified,      \* kinds of simplified requests, see SimplifiedRequest
  Configurations,  \* kinds of configurations the CNC computes, see ConfigurationOf
  MaxWrites        \* bound: requests and configurations written

\* The streams of a behaviour, with one from before, are no more than IdNumber has.
ASSUME WritesAssumption == MaxWrites \in 0..4

\* The entries of a list of interfaces have two keys.
InterfaceKey(mac, name) == mac \o " " \o name

\* No mark is a text of this module, a flag or a set of identification
\* types, and no key is the name of a case or a mark.
OwnTexts == CaseNames \cup {"position", "talker", "eth", "", "0", "1", "6",
                            "00-01", "00-02", "00-03", "00-04", "00-05"}
CbTypes == UNION {kind.cb : kind \in Requests}

ASSUME MarksDiffer ==
    \A m \in {Fail, Crash, Undefined, Null} :
        m \notin {0, 1} /\ m \notin OwnTexts /\ \A types \in SUBSET CbTypes : m # types

IsKey(k) == k \notin CaseNames /\ k \notin {Fail, Crash}
IsMac(m, name) == m \notin {Fail, Crash} /\ InterfaceKey(m, name) \notin CaseNames

ASSUME KindsTyped ==
    /\ \A kind \in Requests :
          /\ kind.frame \in DOMAIN CaseLeaves /\ kind.cb \cap CaseNames = {}
          /\ \A l \in DOMAIN kind.listeners :
                IsKey(l) /\ \A m \in kind.listeners[l] : IsMac(m, "eth")
    /\ \A kind \in Simplified :
          /\ IsKey(kind.index)
          /\ \A l \in DOMAIN kind.listeners : IsKey(l) /\ IsMac(kind.listeners[l], "")
    /\ \A kind \in Configurations :
          /\ kind.entry \in CaseNames
          /\ \A k \in kind.interfaces \cup kind.listeners : IsKey(k)
          /\ \A m \in kind.failed : IsMac(m, "eth")
    /\ IsMac("talker", "eth") /\ IsMac("talker", "")

VARIABLES
  emulate_opencnc, \* the build: whether the CNC uses the format of openCNC
  store,           \* the datastore
  place,           \* for each stream when it was created: the order of the list
  asked,           \* the array of requests the CNC has not answered yet
  writes,          \* requests and configurations written so far
  book             \* history: for each stream what was written to it, merged

vars == <<emulate_opencnc, store, place, asked, writes, book>>

----------------------------------------------------------------------------
(* Documents of clients and of the CNC.  The value of a leaf names the     *)
(* leaf and the write v it came with.                                      *)

Fill(leaves, v) == [f \in leaves |-> <<f, v>>]

InterfaceOf(mac, name) == [index |-> "position", mac_address |-> mac, interface_name |-> name]
Interfaces(macs) == [k \in {InterfaceKey(m, "eth") : m \in macs} |->
                        LET m == CHOOSE n \in macs : k = InterfaceKey(n, "eth")
                        IN InterfaceOf(m, "eth")]

CaseOf(type, v) == IF type = "time_aware_offset" THEN <<"offset", v>>
                   ELSE Fill(CaseLeaves[type], v)

TrafficOf(v) ==
    Beside(Fill(TrafficLeaves, v),
           [interval |-> Fill(Interval, v), time_aware |-> Fill(TimeAware, v)])

CapabilitiesOf(cb, v) ==
    Beside(Fill({"vlan_tag_capable"}, v),
           [cb_stream_iden_type_list |-> cb, cb_sequence_type_list |-> {}])

\* kind: the case of the frame specification, the listeners with their
\* interfaces, and the stream identification types of the talker.
RequestOf(kind, v) ==
    [talker |->
        [stream_rank |-> Fill(StreamRank, v),
         end_station_interfaces |-> Interfaces({"talker"}),
         data_frame_specification |->
             [d \in {"1"} |-> [index |-> d, field_type |-> kind.frame,
                               field |-> CaseOf(kind.frame, v)]],
         traffic_specification |-> TrafficOf(v),
         user_to_network_requirements |-> Fill(UserToNetworkRequirements, v),
         interface_capabilities |-> CapabilitiesOf(kind.cb, v)],
     listener_list |->
        [l \in DOMAIN kind.listeners |->
            [index |-> l,
             end_station_interfaces |-> Interfaces(kind.listeners[l]),
             user_to_network_requirements |-> Fill(UserToNetworkRequirements, v),
             interface_capabilities |-> CapabilitiesOf({}, v)]]]

\* kind: the interfaces, listener and talker alike, the case of their one
\* entry, and the interfaces that failed.
ConfigurationOf(kind, v) ==
    LET part == [accumulated_latency |-> <<"latency", v>>,
                 interface_configuration |-> [interface_list |->
                     [i \in kind.interfaces |->
                         [mac_address |-> i, interface_name |-> "eth",
                          config_list |-> [c \in {"1"} |->
                              [index |-> c, field_type |-> kind.entry,
                               field |-> CaseOf(kind.entry, v)]]]]]]
    IN [status_info |-> Fill(StatusInfo, v),
        failed_interfaces |-> Interfaces(kind.failed),
        talker |-> part,
        listener_list |-> [l \in kind.listeners |-> Beside([index |-> l], part)]]

\* The documents of the CNC in the format of openCNC.
CncEntry(e) ==
    Beside(Object([index |-> e.index]),
           Single(Name(e.field_type), SerializeCase(e.field_type, e.field)))
CncInterface(i) ==
    [n \in {"interface-id", "config-list"} |->
        IF n = "config-list" THEN Array(CncEntry, i.config_list)
        ELSE Object([mac_address |-> i.mac_address, interface_name |-> i.interface_name])]
CncPart(x) ==
    Object([x EXCEPT !.interface_configuration =
               Object([interface_list |-> Array(CncInterface, @.interface_list)])])
CncDocument(c) ==
    [n \in {"status-info", "failed-interfaces", "status-talker-listener"} |->
        CASE n = "status-info"            -> SerializeStatusInfo(c.status_info)
          [] n = "failed-interfaces"      -> Array(SerializeInterfaceId, c.failed_interfaces)
          [] n = "status-talker-listener" -> [first  |-> CncPart(c.talker),
                                              others |-> Array(CncPart, c.listener_list)]]

----------------------------------------------------------------------------
(* What is expected of a stream: the merge of all that was written to it   *)
(* since it was deleted the last time.  Lists of entries only grow, an     *)
(* entry written again and everything else is as written last.             *)

MergeEntries(F(_, _), a, b) ==
    [k \in DOMAIN a \cup DOMAIN b |->
        IF k \notin DOMAIN b THEN a[k] ELSE IF k \notin DOMAIN a THEN b[k] ELSE F(a[k], b[k])]
Latest(a, b) == b
MergeLists(a, b) == MergeEntries(Latest, a, b)

MergeCapabilities(a, b) ==
    [b EXCEPT !.cb_stream_iden_type_list = @ \cup a.cb_stream_iden_type_list,
              !.cb_sequence_type_list = @ \cup a.cb_sequence_type_list]
MergeStation(a, b) ==
    [b EXCEPT !.end_station_interfaces = MergeLists(a.end_station_interfaces, @),
              !.interface_capabilities = MergeCapabilities(a.interface_capabilities, @)]
MergeRequests(a, b) ==
    [talker |-> [MergeStation(a.talker, b.talker) EXCEPT
                    !.data_frame_specification =
                        MergeLists(a.talker.data_frame_specification, @)],
     listener_list |-> MergeEntries(MergeStation, a.listener_list, b.listener_list)]

MergeInterface(a, b) == [b EXCEPT !.config_list = MergeLists(a.config_list, @)]
MergeStatus(a, b) ==
    [b EXCEPT !.interface_configuration.interface_list =
        MergeEntries(MergeInterface, a.interface_configuration.interface_list, @)]
MergeConfigurations(a, b) ==
    [b EXCEPT !.failed_interfaces = MergeLists(a.failed_interfaces, @),
              !.talker = MergeStatus(a.talker, @),
              !.listener_list = MergeEntries(MergeStatus, a.listener_list, @)]

Streams == DOMAIN book
Posted(id, request) ==
    [i \in Streams \cup {id} |->
        IF i # id THEN book[i]
        ELSE IF id \in Streams
        THEN [book[id] EXCEPT !.request = MergeRequests(@, request), !.configured = 0]
        ELSE [request |-> request, configured |-> 0, configuration |-> Null]]
Computed(id, configuration) ==
    [book EXCEPT ![id].configured = 1,
                 ![id].configuration =
                     IF @ = Null THEN configuration ELSE MergeConfigurations(@, configuration)]

----------------------------------------------------------------------------
(* The REST interface *)

\* _generate_stream_id counts the streams of the talker, and here all are.
IdNumber == <<"00-01", "00-02", "00-03", "00-04", "00-05">>

Store(id, request) ==
    /\ store' = WriteStreamRequest(store, id, request)
    /\ place' = [i \in Streams \cup {id} |-> IF i \in Streams THEN place[i] ELSE writes + 1]
    /\ book' = Posted(id, request)

StreamRequest(request) ==
    LET all == ReadStreams(store)
    IN /\ all # Fail
       /\ Store(IdNumber[Cardinality(Keys(store, StreamsPath)) + 1], request)
       /\ writes < MaxWrites
       /\ writes' = writes + 1
       /\ UNCHANGED <<emulate_opencnc, asked>>

\* _api_streams_request: the request comes as JSON.
PostRequest(kind) ==
    StreamRequest(DeserializeStreamRequest(SerializeStreamRequest(RequestOf(kind, writes))))

\* create_stream_request sets the rank, the index of the frame specification
\* and the capability to tag nowhere; the index is a list key all the same.
CreateStreamRequest(talker_device, listener_devices, traffic_spec, qos_talker, qos_listeners, index) ==
    LET Station(device, qos) ==
            [end_station_interfaces |->
                Single(InterfaceKey(device.mac, ""), InterfaceOf(device.mac, "")),
             user_to_network_requirements |-> qos,
             interface_capabilities |-> [vlan_tag_capable |-> Undefined,
                                         cb_stream_iden_type_list |-> {},
                                         cb_sequence_type_list |-> {}]]
    IN [talker |-> Beside(Station(talker_device, qos_talker),
            [stream_rank |-> [rank |-> Undefined],
             traffic_specification |-> traffic_spec,
             data_frame_specification |->
                 Single(index, [index |-> index, field_type |-> "ieee802_vlan_tag",
                                field |-> [vlan_id |-> "0", priority_code_point |-> "6"]])]),
        listener_list |-> [l \in DOMAIN listener_devices |->
            Beside([index |-> l], Station(listener_devices[l], qos_listeners[l]))]]

\* _api_streams_request_simplified: only the MAC addresses of the end
\* devices are used.  kind: the listeners with their MAC addresses, and the
\* index that happens to be in memory.
SimplifiedRequest(kind, v) ==
    LET Qos == DeserializeUserToNetworkRequirements(
                   SerializeUserToNetworkRequirements(Fill(UserToNetworkRequirements, v)))
    IN CreateStreamRequest([mac |-> "talker"], [l \in DOMAIN kind.listeners |->
                                                   [mac |-> kind.listeners[l]]],
           DeserializeTrafficSpecification(SerializeTrafficSpecification(TrafficOf(v))),
           Qos, [l \in DOMAIN kind.listeners |-> Qos], kind.index)

PostSimplified(kind) == StreamRequest(SimplifiedRequest(kind, writes))

\* Mutant of DeleteStream: the configuration stays.
DeleteStreamRequest(id) ==
    /\ store' = Delete(store, {StreamPath(id) ++ "request", StreamPath(id) ++ "stream_id",
                               StreamPath(id) ++ "configured"})
    /\ place' = [i \in Streams \ {id} |-> place[i]]
    /\ book' = [i \in Streams \ {id} |-> book[i]]
    /\ UNCHANGED <<emulate_opencnc, asked, writes>>

\* DELETE of a stream that no application is mapped to.
DeleteStream(id) ==
    /\ store' = Delete(store, {StreamPath(id)})
    /\ place' = [i \in Streams \ {id} |-> place[i]]
    /\ book' = [i \in Streams \ {id} |-> book[i]]
    /\ UNCHANGED <<emulate_opencnc, asked, writes>>

----------------------------------------------------------------------------
(* The CUC *)

\* cnc_compute_requests: what was read of the streams without a configuration
\* is posted.  An entry that was never written is undefined: it is skipped
\* here, or ends the process, which changes nothing.
ComputeRequests ==
    LET array == ReadUnconfigured(store, place)
        streams == [id \in {i \in DOMAIN array : array[i] # Undefined} |-> array[id]]
    IN /\ asked = << >>
       /\ array # Fail
       /\ array # << >>
       /\ asked' = IF emulate_opencnc THEN SerializeCncRequest(streams)["requests"]
                   ELSE SerializeStreams(streams)["streams"]
       /\ UNCHANGED <<emulate_opencnc, store, place, writes, book>>

\* The answer gives stream id its configuration; the CNC of the prototype
\* sends back the whole stream.
Answer(id, kind) ==
    LET c == ConfigurationOf(kind, writes)
    IN IF emulate_opencnc
       THEN DeserializeCncResponse([streams |-> Single(id,
                [n \in {"stream-id", "configuration"} |->
                    IF n = "stream-id" THEN id ELSE CncDocument(c)])])
       ELSE DeserializeStreams([streams |-> Single(id,
                Beside([asked[id] EXCEPT !["configured"] = 1],
                       [configuration |-> SerializeStreamConfiguration(c)]))])

\* stream_set_computed for one stream of the answer.  The stream is there:
\* the configuration alone would be no valid entry.
SetComputed(id, kind) ==
    LET c == Answer(id, kind)[id].configuration
    IN /\ writes < MaxWrites
       /\ writes' = writes + 1
       /\ store' = WriteStreamConfiguration(store, id, c)
       /\ book' = Computed(id, c)
       /\ asked' = [i \in DOMAIN asked \ {id} |-> asked[i]]
       /\ UNCHANGED <<emulate_opencnc, place>>

\* No answer, an error, or a stream that is gone.
Unanswered ==
    /\ asked # << >>
    /\ asked' = << >>
    /\ UNCHANGED <<emulate_opencnc, store, place, writes, book>>

----------------------------------------------------------------------------
\* The datastore outlives the processes: there may be a stream with its
\* configuration, the first one of its talker or the second, the first being
\* deleted.  Its leaves are those of write MaxWrites.
Kept(id, kind, computed) ==
    LET request == RequestOf(kind, MaxWrites)
        configuration == ConfigurationOf(computed, MaxWrites)
    IN /\ store = WriteStreamConfiguration(WriteStreamRequest(<< >>, id, request), id, configuration)
       /\ place = [i \in {id} |-> 0]
       /\ book = [i \in {id} |->
                    [request |-> request, configured |-> 1, configuration |-> configuration]]

Init ==
    /\ emulate_opencnc \in BOOLEAN
    /\ asked = << >>
    /\ writes = 0
    /\ \/ store = << >> /\ place = << >> /\ book = << >>
       \/ \E n \in 1..2, kind \in Requests, computed \in Configurations :
             Kept(IdNumber[n], kind, computed)

Next ==
    \/ \E kind \in Requests : PostRequest(kind)
    \/ \E kind \in Simplified : PostSimplified(kind)
    \/ \E id \in Streams : DeleteStream(id)
    \/ ComputeRequests
    \/ \E id \in DOMAIN asked \cap Streams, kind \in Configurations : SetComputed(id, kind)
    \/ Unanswered

Spec == Init /\ [][Next]_vars

----------------------------------------------------------------------------
(* Properties *)

SpoiledFrame(b) ==
    \E d \in DOMAIN b.request.talker.data_frame_specification :
        b.request.talker.data_frame_specification[d].field_type = "ipv6_tuple"

SpoiledPart(part) ==
    LET list == part.interface_configuration.interface_list
    IN \/ Cardinality(DOMAIN list) > 1
       \/ \E i \in DOMAIN list, c \in {"1"} : list[i].config_list[c].field_type = "ipv6_tuple"

SpoiledConfiguration(b) ==
    /\ b.configured = 1
    /\ \/ SpoiledPart(b.configuration.talker)
       \/ \E l \in DOMAIN b.configuration.listener_list :
             SpoiledPart(b.configuration.listener_list[l])

Spoiled(b) == SpoiledFrame(b) \/ SpoiledConfiguration(b)

\* What a client gets back for b: the index of a failed interface is never
\* read, and without the flag there is no configuration.
Expected(id, b) ==
    [stream_id |-> id, request |-> b.request, configured |-> b.configured,
     configuration |->
        IF b.configured = 0 THEN Null
        ELSE [b.configuration EXCEPT !.failed_interfaces =
                 [i \in DOMAIN @ |-> [@[i] EXCEPT !.index = Undefined]]]]

\* The listing of the streams, and with it every further request and every
\* computation, fails exactly as long as one stream has a frame given by an
\* IPv6 tuple, or has a configuration with an IPv6 tuple or with two
\* interfaces for one station, whichever calls merged them into the stream
\* (_read_data_frame_specification, _read_config_list,
\* _read_interface_configuration).
ListingFailsIffSpoiled ==
    ReadStreams(store) = Fail <=> \E id \in Streams : Spoiled(book[id])

\* What a client gets for a stream, through the readers and the JSON, is the
\* merge of all requests and configurations written to it since it was
\* deleted the last time, in either format of the CNC
\* (sysrepo_write_stream_request, sysrepo_write_stream_configuration).
AnswersAsWritten ==
    \A id \in Streams :
        ~Spoiled(book[id]) =>
            DeserializeStream(SerializeStream(ReadStream(store, StreamPath(id))))
                = Expected(id, book[id])

\* Deleting a stream or writing to it leaves nothing of a deleted stream and
\* touches no other one: the datastore knows the streams of the book only.
NothingElseStored == Keys(store, StreamsPath) = Streams

\* The CNC is asked only for streams without a configuration, each with its
\* whole request: in the format of openCNC the members are moved, not changed.
\* It is asked for all of them exactly if no configured stream stands before
\* one of them in the list (_read_streams, serialize_cnc_request).
Together(i) == Beside([n \in {"index"} |-> i[n]], i["interface-id"])
Station(o) == [o EXCEPT !["end-station-interfaces"] = Array(Together, @)]
RequestIn(o) ==
    IF emulate_opencnc
    THEN [o EXCEPT !["talker"] = Station(@), !["listener-list"] = Array(Station, @)]
    ELSE o["request"]
Open == {id \in Streams : book[id].configured = 0}
AskedForTheUnconfigured ==
    [][ComputeRequests =>
          /\ DOMAIN asked' \subseteq Open
          /\ DOMAIN asked' = Open <=>
                \A i \in Open, j \in Streams \ Open : place[i] < place[j]
          /\ \A id \in DOMAIN asked' :
                 DeserializeStreamRequest(RequestIn(asked'[id])) = book[id].request]_vars
=============================================================================
