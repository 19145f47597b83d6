------------------------- MODULE StreamData_proofs --------------------------
(***************************************************************************)
(* Proofs about the operators of StreamStore and Json and about            *)
(* StreamData, for every document.  What is written to a stream, and its   *)
(* deletion, change nothing of what is read of another one.  What a client *)
(* or the CNC is given for a stream is the merge of all that was written   *)
(* to it; the listing fails only while one of the streams is spoiled.      *)
(*                                                                         *)
(* For each structure there are five lemmas: its JSON is read back         *)
(* (...Returns), what is in the datastore below a path holds as long as    *)
(* nothing changes there (...Still), it is what the writer puts into a     *)
(* document (...Written), a write leaves the merge of what was there and   *)
(* what is written (...Merged), and the reader finds it (...Read).         *)
(***************************************************************************)
EXTENDS StreamData, Datastore_proofs, FiniteSetTheorems,
        WellFoundedInduction, TLAPS

(***************************************************************************)
(* Readers: what is read at a path depends on what is below it only        *)
(***************************************************************************)
\* Interfaces and their capabilities.
LEMMA InterfacesAlike ==
  ASSUME NEW s, NEW t, NEW p, Alike(s, t, p)
  PROVE  /\ Entries(s, p, ReadInterface) = Entries(t, p, ReadInterface)
         /\ Entries(s, p, ReadFailedInterface) = Entries(t, p, ReadFailedInterface)
         /\ ReadInterfaceCapabilities(s, p) = ReadInterfaceCapabilities(t, p)
<1>1. /\ \A k : ReadInterface(s, p ++ k) = ReadInterface(t, p ++ k)
      /\ \A k : ReadFailedInterface(s, p ++ k) = ReadFailedInterface(t, p ++ k)
  BY AlikeFurther, LeavesAlike DEF ReadInterface, ReadFailedInterface
<1>2. Keys(s, p) = Keys(t, p)
  BY AlikeRead
<1>3. /\ Keys(s, p ++ "cb_stream_iden_type_list") = Keys(t, p ++ "cb_stream_iden_type_list")
      /\ Keys(s, p ++ "cb_sequence_type_list") = Keys(t, p ++ "cb_sequence_type_list")
  BY AlikeFurther, AlikeRead
<1>4. ReadInterfaceCapabilities(s, p) = ReadInterfaceCapabilities(t, p)
  BY <1>3, LeavesAlike DEF ReadInterfaceCapabilities
<1> QED  BY <1>1, <1>2, <1>4 DEF Entries

\* The choice of a frame specification and of an entry of a configuration.
LEMMA ChoiceAlike ==
  ASSUME NEW s, NEW t, NEW p, Alike(s, t, p)
  PROVE  /\ ReadDataFrameSpecification(s, p) = ReadDataFrameSpecification(t, p)
         /\ ReadConfigList(s, p) = ReadConfigList(t, p)
<1>1. FrameType(s, p) = FrameType(t, p) /\ ConfigType(s, p) = ConfigType(t, p)
  <2>1. Keys(s, p) = Keys(t, p)
    BY AlikeRead
  <2>2. FrameType(s, p) = FrameType(t, p)
    <3> DEFINE Type(keys) ==
          LET found == keys \cap {"ieee802_mac_addresses", "ieee802_vlan_tag", "ipv4_tuple"}
          IN IF found = {} THEN "ieee802_mac_addresses" ELSE CHOOSE x \in found : TRUE
    <3>1. FrameType(s, p) = Type(Keys(s, p)) /\ FrameType(t, p) = Type(Keys(t, p))
      BY DEF FrameType
    <3> HIDE DEF Type
    <3> QED  BY <2>1, <3>1
  <2> QED  BY <2>1, <2>2 DEF ConfigType
<1>2. \A f : /\ Get(s, p ++ f) = Get(t, p ++ f)
             /\ \A leaves : Leaves(s, p ++ f, leaves) = Leaves(t, p ++ f, leaves)
  BY AlikeFurther, AlikeRead, LeavesAlike
<1>3. \A leaves, parts : Struct(s, p, leaves, parts) = Struct(t, p, leaves, parts)
  BY LeavesAlike
<1>4. ReadDataFrameSpecification(s, p) = ReadDataFrameSpecification(t, p)
  BY <1>1, <1>2, <1>3 DEF ReadDataFrameSpecification
<1>5. ReadConfigList(s, p) = ReadConfigList(t, p)
  BY <1>1, <1>2, <1>3 DEF ReadConfigList
<1> QED  BY <1>4, <1>5

\* The request of a stream.
LEMMA TrafficAlike ==
  ASSUME NEW s, NEW t, NEW p, Alike(s, t, p)
  PROVE  ReadTrafficSpecification(s, p) = ReadTrafficSpecification(t, p)
<1>1. \A f, leaves : Leaves(s, p ++ f, leaves) = Leaves(t, p ++ f, leaves)
  BY AlikeFurther, LeavesAlike
<1> QED  BY <1>1, LeavesAlike DEF ReadTrafficSpecification

\* A listener of a request.
LEMMA ListenerAlike ==
  ASSUME NEW s, NEW t, NEW p, Alike(s, t, p)
  PROVE  ReadListener(s, p) = ReadListener(t, p)
<1>1. \A f : Alike(s, t, p ++ f)
  BY AlikeFurther
<1>2. \A f, leaves : Leaves(s, p ++ f, leaves) = Leaves(t, p ++ f, leaves)
  BY <1>1, LeavesAlike
<1>3. Entries(s, p ++ "end_station_interfaces", ReadInterface)
        = Entries(t, p ++ "end_station_interfaces", ReadInterface)
  BY <1>1, InterfacesAlike
<1>4. ReadInterfaceCapabilities(s, p ++ "interface_capabilities")
        = ReadInterfaceCapabilities(t, p ++ "interface_capabilities")
  BY <1>1, InterfacesAlike
<1> QED  BY <1>2, <1>3, <1>4, LeavesAlike DEF ReadListener

\* Its talker.
LEMMA TalkerAlike ==
  ASSUME NEW s, NEW t, NEW p, Alike(s, t, p)
  PROVE  ReadTalker(s, p) = ReadTalker(t, p)
<1>1. \A f : Alike(s, t, p ++ f)
  BY AlikeFurther
<1>2. \A f, leaves : Leaves(s, p ++ f, leaves) = Leaves(t, p ++ f, leaves)
  BY <1>1, LeavesAlike
<1>3. Entries(s, p ++ "end_station_interfaces", ReadInterface)
        = Entries(t, p ++ "end_station_interfaces", ReadInterface)
  BY <1>1, InterfacesAlike
<1>4. Entries(s, p ++ "data_frame_specification", ReadDataFrameSpecification)
        = Entries(t, p ++ "data_frame_specification", ReadDataFrameSpecification)
  <2> DEFINE d == p ++ "data_frame_specification"
  <2>1. Keys(s, d) = Keys(t, d)
    BY <1>1, AlikeRead
  <2>2. \A k : ReadDataFrameSpecification(s, d ++ k) = ReadDataFrameSpecification(t, d ++ k)
    BY <1>1, AlikeFurther, ChoiceAlike
  <2> HIDE DEF d
  <2>3. Entries(s, d, ReadDataFrameSpecification) = Entries(t, d, ReadDataFrameSpecification)
    BY <2>1, <2>2 DEF Entries
  <2> QED  BY <2>3 DEF d
<1>5. ReadTrafficSpecification(s, p ++ "traffic_specification")
        = ReadTrafficSpecification(t, p ++ "traffic_specification")
  BY <1>1, TrafficAlike
<1>6. ReadInterfaceCapabilities(s, p ++ "interface_capabilities")
        = ReadInterfaceCapabilities(t, p ++ "interface_capabilities")
  BY <1>1, InterfacesAlike
<1> QED  BY <1>2, <1>3, <1>4, <1>5, <1>6 DEF ReadTalker

\* The whole request (_read_request).
LEMMA RequestAlike ==
  ASSUME NEW s, NEW t, NEW p, Alike(s, t, p)
  PROVE  ReadRequest(s, p) = ReadRequest(t, p)
<1> DEFINE l == p ++ "listener_list"
<1>1. ReadTalker(s, p ++ "talker") = ReadTalker(t, p ++ "talker")
  BY AlikeFurther, TalkerAlike
<1>2. Alike(s, t, l)
  BY AlikeFurther
<1>3. Keys(s, l) = Keys(t, l)
  BY <1>2, AlikeRead
<1>4. \A k : ReadListener(s, l ++ k) = ReadListener(t, l ++ k)
  BY <1>2, AlikeFurther, ListenerAlike
<1> HIDE DEF l
<1>5. Entries(s, l, ReadListener) = Entries(t, l, ReadListener)
  BY <1>3, <1>4 DEF Entries
<1> QED  BY <1>1, <1>5 DEF ReadRequest, l

\* The configuration of a stream.
LEMMA InterfaceListAlike ==
  ASSUME NEW s, NEW t, NEW p, Alike(s, t, p)
  PROVE  ReadInterfaceConfiguration(s, p) = ReadInterfaceConfiguration(t, p)
<1>1. ASSUME NEW q, Alike(s, t, q) PROVE ReadInterfaceList(s, q) = ReadInterfaceList(t, q)
  <2> DEFINE c == q ++ "config_list"
  <2>1. Alike(s, t, c)
    BY <1>1, AlikeFurther
  <2>2. Keys(s, c) = Keys(t, c)
    BY <2>1, AlikeRead
  <2>3. \A k : ReadConfigList(s, c ++ k) = ReadConfigList(t, c ++ k)
    BY <2>1, AlikeFurther, ChoiceAlike
  <2> HIDE DEF c
  <2>4. Entries(s, c, ReadConfigList) = Entries(t, c, ReadConfigList)
    BY <2>2, <2>3 DEF Entries
  <2>5. \A parts : Struct(s, q, InterfaceId, parts) = Struct(t, q, InterfaceId, parts)
    BY <1>1, LeavesAlike
  <2> QED  BY <2>4, <2>5 DEF ReadInterfaceList, c
<1> DEFINE l == p ++ "interface_list"
<1>2. Alike(s, t, l)
  BY AlikeFurther
<1>3. Keys(s, l) = Keys(t, l)
  BY <1>2, AlikeRead
<1>4. \A k : ReadInterfaceList(s, l ++ k) = ReadInterfaceList(t, l ++ k)
  BY <1>1, <1>2, AlikeFurther
<1> HIDE DEF l
<1>5. Entries(s, l, ReadInterfaceList) = Entries(t, l, ReadInterfaceList)
  BY <1>3, <1>4 DEF Entries
<1> QED  BY <1>3, <1>5 DEF ReadInterfaceConfiguration, l

\* The status of the talker and of a listener.
LEMMA StatusAlike ==
  ASSUME NEW s, NEW t, NEW p, Alike(s, t, p)
  PROVE  /\ ReadStatusTalker(s, p) = ReadStatusTalker(t, p)
         /\ ReadStatusListener(s, p) = ReadStatusListener(t, p)
<1>1. ReadInterfaceConfiguration(s, p ++ "interface_configuration")
        = ReadInterfaceConfiguration(t, p ++ "interface_configuration")
  BY AlikeFurther, InterfaceListAlike
<1>2. \A leaves, parts : Struct(s, p, leaves, parts) = Struct(t, p, leaves, parts)
  BY LeavesAlike
<1> QED  BY <1>1, <1>2 DEF ReadStatusTalker, ReadStatusListener

\* The whole configuration (_read_configuration).
LEMMA ConfigurationAlike ==
  ASSUME NEW s, NEW t, NEW p, Alike(s, t, p)
  PROVE  ReadConfiguration(s, p) = ReadConfiguration(t, p)
<1> DEFINE l == p ++ "listener_list"
<1>1. \A f : Alike(s, t, p ++ f)
  BY AlikeFurther
<1>2. Leaves(s, p ++ "status_info", StatusInfo) = Leaves(t, p ++ "status_info", StatusInfo)
  BY <1>1, LeavesAlike
<1>3. Entries(s, p ++ "failed_interfaces", ReadFailedInterface)
        = Entries(t, p ++ "failed_interfaces", ReadFailedInterface)
  BY <1>1, InterfacesAlike
<1>4. ReadStatusTalker(s, p ++ "talker") = ReadStatusTalker(t, p ++ "talker")
  BY <1>1, StatusAlike
<1>5. Keys(s, l) = Keys(t, l)
  BY <1>1, AlikeRead
<1>6. \A k : ReadStatusListener(s, l ++ k) = ReadStatusListener(t, l ++ k)
  BY <1>1, AlikeFurther, StatusAlike
<1> HIDE DEF l
<1>7. Entries(s, l, ReadStatusListener) = Entries(t, l, ReadStatusListener)
  BY <1>5, <1>6 DEF Entries
<1> QED  BY <1>2, <1>3, <1>4, <1>7 DEF ReadConfiguration, l

\* What is read of a stream depends on what is below its path only
\* (_read_stream and all that it calls).
THEOREM ReadDependsOnStreamOnly ==
  ASSUME NEW s, NEW t, NEW p, Alike(s, t, p)
  PROVE  ReadStream(s, p) = ReadStream(t, p)
<1>1. \A f : Alike(s, t, p ++ f)
  BY AlikeFurther
<1>2. ReadRequest(s, p ++ "request") = ReadRequest(t, p ++ "request")
  BY <1>1, RequestAlike
<1>3. ReadConfiguration(s, p ++ "configuration") = ReadConfiguration(t, p ++ "configuration")
  BY <1>1, ConfigurationAlike
<1>4. Get(s, p ++ "configured") = Get(t, p ++ "configured")
  BY <1>1, AlikeRead
<1>5. \A leaves, parts : Struct(s, p, leaves, parts) = Struct(t, p, leaves, parts)
  BY LeavesAlike
<1> QED  BY <1>2, <1>3, <1>4, <1>5 DEF ReadStream

(***************************************************************************)
(* Writers: what is written for a structure at a path stays below the path *)
(***************************************************************************)
\* Interfaces and their capabilities.
LEMMA InterfacesUnder ==
  ASSUME NEW p, Path(p), NEW x
  PROVE  /\ Under(PutEntries(p, WriteInterface, x), p)
         /\ Under(WriteInterfaceCapabilities(p, x), p)
<1>1. \A k : Under(WriteInterface(p ++ k, x[k]), p)
  BY UnderParts DEF WriteInterface
<1>2. Under(PutEntries(p, WriteInterface, x), p)
  <2>1. \A d \in {WriteInterface(p ++ k, x[k]) : k \in DOMAIN x} : Under(d, p)
    BY <1>1
  <2> QED  BY <2>1, UnderUnion DEF PutEntries
<1>3. Under(WriteInterfaceCapabilities(p, x), p)
  BY UnderLeaves, UnderParts, UnderUnion DEF WriteInterfaceCapabilities
<1> QED  BY <1>2, <1>3

\* The choice of a frame specification and of an entry of a configuration.
LEMMA ChoiceUnder ==
  ASSUME NEW p, Path(p), NEW x
  PROVE  Under(WriteDataFrameSpecification(p, x), p) /\ Under(WriteConfigList(p, x), p)
<1>1. Under(WriteDataFrameSpecification(p, x), p)
  BY UnderLeaves, UnderParts, UnderUnion DEF WriteDataFrameSpecification
<1>2. Under(IF x.field_type = "time_aware_offset" THEN PutLeaf(p ++ x.field_type, x.field)
            ELSE PutLeaves(p ++ x.field_type, CaseLeaves[x.field_type], x.field), p)
  BY UnderLeaves, UnderParts
<1>3. Under(WriteConfigList(p, x), p)
  BY <1>2, UnderLeaves, UnderUnion DEF WriteConfigList
<1> QED  BY <1>1, <1>3

\* The request of a stream.
LEMMA ListenerUnder ==
  ASSUME NEW p, Path(p), NEW x
  PROVE  Under(WriteListener(p, x), p)
<1>1. \A name : Path(p ++ name)
  BY Longer
<1>2. /\ Under(PutEntries(p ++ "end_station_interfaces", WriteInterface,
                          x.end_station_interfaces), p)
      /\ Under(WriteInterfaceCapabilities(p ++ "interface_capabilities",
                                          x.interface_capabilities), p)
  BY <1>1, InterfacesUnder, UnderFurther
<1> QED  BY <1>2, UnderLeaves, UnderParts, UnderUnion DEF WriteListener

\* The talker.
LEMMA TalkerUnder ==
  ASSUME NEW p, Path(p), NEW x
  PROVE  Under(WriteTalker(p, x), p)
<1>1. \A name : Path(p ++ name)
  BY Longer
<1>2. /\ Under(PutEntries(p ++ "end_station_interfaces", WriteInterface,
                          x.end_station_interfaces), p)
      /\ Under(WriteInterfaceCapabilities(p ++ "interface_capabilities",
                                          x.interface_capabilities), p)
  BY <1>1, InterfacesUnder, UnderFurther
<1>3. ASSUME NEW q, Path(q), NEW y PROVE Under(PutEntries(q, WriteDataFrameSpecification, y), q)
  <2>1. \A k : Under(WriteDataFrameSpecification(q ++ k, y[k]), q)
    BY <1>3, ChoiceUnder, UnderParts
  <2>2. \A d \in {WriteDataFrameSpecification(q ++ k, y[k]) : k \in DOMAIN y} : Under(d, q)
    BY <2>1
  <2> QED  BY <2>2, UnderUnion DEF PutEntries
<1>4. Under(PutEntries(p ++ "data_frame_specification", WriteDataFrameSpecification,
                       x.data_frame_specification), p)
  BY <1>1, <1>3, UnderFurther
<1>5. ASSUME NEW q, Path(q), NEW y PROVE Under(WriteTrafficSpecification(q, y), q)
  BY <1>5, UnderLeaves, UnderParts, UnderUnion DEF WriteTrafficSpecification
<1>6. Under(WriteTrafficSpecification(p ++ "traffic_specification", x.traffic_specification), p)
  BY <1>1, <1>5, UnderFurther
<1> QED  BY <1>2, <1>4, <1>6, UnderLeaves, UnderParts, UnderUnion DEF WriteTalker

\* The whole request (_write_request).
LEMMA RequestUnder ==
  ASSUME NEW p, Path(p), NEW x
  PROVE  Under(WriteRequest(p, x), p)
<1> DEFINE l == p ++ "listener_list"
           y == x.listener_list
<1>1. Path(l) /\ Path(p ++ "talker")
  BY Longer
<1>2. Under(PutEntries(l, WriteListener, y), p)
  <2>1. \A k : Under(WriteListener(l ++ k, y[k]), l)
    BY <1>1, ListenerUnder, UnderParts
  <2>2. \A d \in {WriteListener(l ++ k, y[k]) : k \in DOMAIN y} : Under(d, l)
    BY <2>1
  <2>3. Under(PutEntries(l, WriteListener, y), l)
    BY <2>2, UnderUnion DEF PutEntries
  <2> QED  BY <2>3, UnderFurther
<1>3. Under(WriteTalker(p ++ "talker", x.talker), p)
  BY <1>1, TalkerUnder, UnderFurther
<1> QED  BY <1>2, <1>3, UnderUnion DEF WriteRequest

\* The configuration of a stream.
LEMMA InterfaceListUnder ==
  ASSUME NEW p, Path(p), NEW x
  PROVE  Under(WriteInterfaceConfiguration(p, x), p)
<1>1. ASSUME NEW q, Path(q), NEW y PROVE Under(WriteInterfaceList(q, y), q)
  <2> DEFINE c == q ++ "config_list"
             z == y.config_list
  <2>1. Path(c)
    BY <1>1, Longer
  <2>2. \A k : Under(WriteConfigList(c ++ k, z[k]), c)
    BY <2>1, ChoiceUnder, UnderParts
  <2>3. \A d \in {WriteConfigList(c ++ k, z[k]) : k \in DOMAIN z} : Under(d, c)
    BY <2>2
  <2>4. Under(PutEntries(c, WriteConfigList, z), c)
    BY <2>3, UnderUnion DEF PutEntries
  <2>5. Under(PutEntries(c, WriteConfigList, z), q)
    BY <1>1, <2>4, UnderFurther
  <2> QED  BY <1>1, <2>5, UnderLeaves, UnderUnion DEF WriteInterfaceList
<1> DEFINE l == p ++ "interface_list"
           y == x.interface_list
<1>2. Path(l)
  BY Longer
<1>3. \A k : Under(WriteInterfaceList(l ++ k, y[k]), l)
  BY <1>1, <1>2, UnderParts
<1>4. \A d \in {WriteInterfaceList(l ++ k, y[k]) : k \in DOMAIN y} : Under(d, l)
  BY <1>3
<1>5. Under(PutEntries(l, WriteInterfaceList, y), l)
  BY <1>4, UnderUnion DEF PutEntries
<1> QED  BY <1>5, UnderFurther DEF WriteInterfaceConfiguration

\* The status of the talker and of a listener.
LEMMA StatusUnder ==
  ASSUME NEW p, Path(p), NEW x
  PROVE  Under(WriteStatusTalker(p, x), p) /\ Under(WriteStatusListener(p, x), p)
<1>1. Path(p ++ "interface_configuration")
  BY Longer
<1>2. Under(WriteInterfaceConfiguration(p ++ "interface_configuration",
                                        x.interface_configuration), p)
  BY <1>1, InterfaceListUnder, UnderFurther
<1> QED  BY <1>2, UnderLeaves, UnderUnion DEF WriteStatusTalker, WriteStatusListener

\* The whole configuration (_write_configuration).
LEMMA ConfigurationUnder ==
  ASSUME NEW p, Path(p), NEW x
  PROVE  Under(WriteConfiguration(p, x), p)
<1> DEFINE l == p ++ "listener_list"
           y == x.listener_list
<1>1. \A name : Path(p ++ name)
  BY Longer
<1>2. Under(PutEntries(p ++ "failed_interfaces", WriteInterface, x.failed_interfaces), p)
  BY <1>1, InterfacesUnder, UnderFurther
<1>3. Under(WriteStatusTalker(p ++ "talker", x.talker), p)
  BY <1>1, StatusUnder, UnderFurther
<1>4. Under(PutEntries(l, WriteStatusListener, y), p)
  <2>1. \A k : Under(WriteStatusListener(l ++ k, y[k]), l)
    BY <1>1, StatusUnder, UnderParts
  <2>2. \A d \in {WriteStatusListener(l ++ k, y[k]) : k \in DOMAIN y} : Under(d, l)
    BY <2>1
  <2>3. Under(PutEntries(l, WriteStatusListener, y), l)
    BY <2>2, UnderUnion DEF PutEntries
  <2> QED  BY <1>1, <2>3, UnderFurther
<1> QED  BY <1>2, <1>3, <1>4, UnderParts, UnderUnion DEF WriteConfiguration

(***************************************************************************)
(* One stream and the others                                               *)
(***************************************************************************)
\* The path of the list of streams is the one name.
LEMMA StreamsPathIs == Path(StreamsPath) /\ Len(StreamsPath) = 1 /\ StreamsPath[1] = "streams"
<1>1. StreamsPath \in Seq({"streams"}) /\ Len(StreamsPath) = 1 /\ StreamsPath[1] = "streams"
  BY DEF StreamsPath
<1> QED  BY <1>1 DEF Path

\* The path of a stream is the name of the list and the id.
LEMMA StreamPathIs ==
  ASSUME NEW id
  PROVE  /\ Path(StreamsPath) /\ Len(StreamsPath) = 1 /\ StreamsPath[1] = "streams"
         /\ Path(StreamPath(id)) /\ Len(StreamPath(id)) = 2
         /\ StreamPath(id)[1] = "streams" /\ StreamPath(id)[2] = id
<1>1. Path(StreamsPath) /\ Len(StreamsPath) = 1 /\ StreamsPath[1] = "streams"
  BY StreamsPathIs
<1>2. /\ Path(StreamsPath ++ id) /\ Len(StreamsPath ++ id) = 2
      /\ (StreamsPath ++ id)[1] = "streams" /\ (StreamsPath ++ id)[2] = id
  <2>1. /\ Path(StreamsPath ++ id) /\ Len(StreamsPath ++ id) = Len(StreamsPath) + 1
        /\ (StreamsPath ++ id)[Len(StreamsPath) + 1] = id
        /\ \A i \in 1..Len(StreamsPath) : (StreamsPath ++ id)[i] = StreamsPath[i]
    BY <1>1, Longer
  <2>2. Len(StreamsPath) + 1 = 2 /\ 1 \in 1..Len(StreamsPath)
    BY <1>1
  <2> QED  BY <1>1, <2>1, <2>2
<1> QED  BY <1>1, <1>2 DEF StreamPath

\* What is below the path of a stream has the id for its second name.
LEMMA BelowStream ==
  ASSUME NEW id, NEW q, Path(q)
  PROVE  Below(StreamPath(id), q) <=> Len(q) >= 2 /\ q[1] = "streams" /\ q[2] = id
<1>1. Len(q) \in Nat
  BY DEF Path
<1> QED  BY <1>1, StreamPathIs DEF Below

\* The ids listed are those with a leaf below the path of their stream.
LEMMA ListedAre ==
  ASSUME NEW s, Leafed(s), NEW id
  PROVE  id \in Keys(s, StreamsPath) <=> \E q \in DOMAIN s : Below(StreamPath(id), q)
<1>1. ASSUME NEW q, Path(q)
      PROVE  IsStrictPrefix(StreamsPath, q) <=> Len(q) >= 2 /\ q[1] = "streams"
  <2>1. IsPrefix(StreamsPath, q) <=> Len(q) >= 1 /\ q[1] = "streams"
    BY <1>1, PrefixIsBelow, StreamsPathIs DEF Below
  <2>2. PICK Names : q \in Seq(Names)
    BY <1>1 DEF Path
  <2>3. Len(q) = 1 /\ q[1] = "streams" => q = StreamsPath
    BY <2>2 DEF StreamsPath
  <2>4. Len(q) \in Nat
    BY <2>2
  <2>5. Len(q) >= 2 => q # StreamsPath
    BY StreamsPathIs
  <2>6. Len(q) >= 1 /\ Len(q) # 1 => Len(q) >= 2
    BY <2>4
  <2>7. Len(q) >= 2 => Len(q) >= 1
    BY <2>4
  <2> QED  BY <2>1, <2>3, <2>5, <2>6, <2>7 DEF IsStrictPrefix
<1>2. Keys(s, StreamsPath) = {q[2] : q \in {r \in DOMAIN s : IsStrictPrefix(StreamsPath, r)}}
  <2>1. Len(StreamsPath) + 1 = 2
    BY StreamsPathIs
  <2> QED  BY <2>1 DEF Keys
<1>3. \A q \in DOMAIN s :
        Below(StreamPath(id), q) <=> IsStrictPrefix(StreamsPath, q) /\ q[2] = id
  BY <1>1, BelowStream DEF Leafed
<1> QED  BY <1>2, <1>3

\* Leaves of one stream do not conflict with those of another one.
LEMMA NoConflict ==
  ASSUME NEW id, NEW other, other # id, other \notin CaseNames,
         NEW q, Path(q), Below(StreamPath(other), q),
         NEW r, Path(r), Below(StreamPath(id), r)
  PROVE  ~ConflictsWith(q, r)
<1> SUFFICES ASSUME NEW k \in 1..Len(q), q[k] \in CaseNames, k <= Len(r),
                    SubSeq(q, 1, k - 1) = SubSeq(r, 1, k - 1)
             PROVE  FALSE
  BY DEF ConflictsWith
<1>1. PICK Q : q \in Seq(Q)
  BY DEF Path
<1>2. PICK R : r \in Seq(R)
  BY DEF Path
<1>3. q[1] = "streams" /\ q[2] = other /\ r[2] = id /\ Len(q) \in Nat /\ Len(r) \in Nat
  BY <1>1, <1>2, BelowStream
<1>4. k # 1 /\ k # 2
  BY <1>3 DEF CaseNames
<1>5. k - 1 \in Nat /\ k - 1 >= 2 /\ k - 1 <= Len(q) /\ k - 1 <= Len(r)
  BY <1>3, <1>4
<1>6. SubSeq(q, 1, k - 1)[2] = q[2]
  BY <1>1, <1>5
<1>7. SubSeq(r, 1, k - 1)[2] = r[2]
  BY <1>2, <1>5
<1> QED  BY <1>3, <1>6, <1>7

\* Setting leaves of one stream leaves each other stream as it was, and lists no
\* other one.  Ids that name a case of a choice are the exception that Merge has.
LEMMA StreamsElsewhere ==
  ASSUME NEW s, Leafed(s), NEW id, NEW doc, Under(doc, StreamPath(id))
  PROVE  /\ Leafed(Merge(s, doc))
         /\ \A other : other # id /\ other \notin CaseNames =>
              Alike(Merge(s, doc), s, StreamPath(other))
         /\ \A other : other # id /\ other \in Keys(Merge(s, doc), StreamsPath) =>
              other \in Keys(s, StreamsPath)
<1> DEFINE t == Merge(s, doc)
<1>1. /\ DOMAIN t = DOMAIN doc \cup {q \in DOMAIN s : \A r \in DOMAIN doc : ~ConflictsWith(q, r)}
      /\ \A q \in DOMAIN t : q \notin DOMAIN doc => t[q] = s[q]
  BY DEF Merge
<1> HIDE DEF t
<1>2. Leafed(t)
  BY <1>1 DEF Leafed, Under
<1>3. ASSUME NEW other, other # id, NEW q, Path(q), Below(StreamPath(other), q)
      PROVE  q \notin DOMAIN doc
  BY <1>3, BelowStream DEF Under
<1>4. ASSUME NEW other, other # id, other \notin CaseNames
      PROVE  Alike(t, s, StreamPath(other))
  <2>1. ASSUME NEW q, Path(q), Below(StreamPath(other), q)
        PROVE  (q \in DOMAIN t <=> q \in DOMAIN s) /\ (q \in DOMAIN t => t[q] = s[q])
    <3>1. \A r \in DOMAIN doc : ~ConflictsWith(q, r)
      BY <1>4, <2>1, NoConflict DEF Under
    <3> QED  BY <1>1, <1>3, <1>4, <2>1, <3>1
  <2> QED  BY <1>2, <2>1, StreamPathIs DEF Alike, Same
<1>5. ASSUME NEW other, other # id, other \in Keys(t, StreamsPath)
      PROVE  other \in Keys(s, StreamsPath)
  <2>1. PICK q \in DOMAIN t : Below(StreamPath(other), q)
    BY <1>2, <1>5, ListedAre
  <2>2. q \in DOMAIN s
    BY <1>1, <1>2, <1>3, <1>5, <2>1 DEF Leafed
  <2> QED  BY <2>1, <2>2, ListedAre
<1> QED  BY <1>2, <1>4, <1>5 DEF t

\* Deleting a stream leaves each other one as it was and takes it off the list.
LEMMA DeleteElsewhere ==
  ASSUME NEW s, Leafed(s), NEW id
  PROVE  /\ Leafed(Delete(s, {StreamPath(id)}))
         /\ \A other : other # id => Alike(Delete(s, {StreamPath(id)}), s, StreamPath(other))
         /\ Keys(Delete(s, {StreamPath(id)}), StreamsPath) = Keys(s, StreamsPath) \ {id}
<1> DEFINE t == Delete(s, {StreamPath(id)})
<1>1. /\ DOMAIN t = {r \in DOMAIN s : ~IsPrefix(StreamPath(id), r)}
      /\ \A q \in DOMAIN t : t[q] = s[q]
  BY DEF Delete
<1> HIDE DEF t
<1>2. Leafed(t)
  BY <1>1 DEF Leafed
<1>3. \A q : Path(q) => (q \in DOMAIN t <=> q \in DOMAIN s /\ ~Below(StreamPath(id), q))
  BY <1>1, PrefixIsBelow, StreamPathIs
<1>4. ASSUME NEW other, other # id
      PROVE  Alike(t, s, StreamPath(other))
  <2>1. ASSUME NEW q, Path(q), Below(StreamPath(other), q)
        PROVE  (q \in DOMAIN t <=> q \in DOMAIN s) /\ (q \in DOMAIN t => t[q] = s[q])
    BY <1>1, <1>3, <1>4, <2>1, BelowStream
  <2> QED  BY <1>2, <2>1, StreamPathIs DEF Alike, Same
<1>5. ASSUME NEW k PROVE k \in Keys(t, StreamsPath) <=> k \in Keys(s, StreamsPath) /\ k # id
  <2>1. k \in Keys(t, StreamsPath) <=> \E q \in DOMAIN t : Below(StreamPath(k), q)
    BY <1>2, ListedAre
  <2>2. k \in Keys(s, StreamsPath) <=> \E q \in DOMAIN s : Below(StreamPath(k), q)
    BY ListedAre
  <2>3. CASE k = id
    BY <1>2, <1>3, <2>1, <2>3 DEF Leafed
  <2>4. CASE k # id
    BY <1>1, <1>3, <2>1, <2>2, <2>4, BelowStream DEF Leafed
  <2> QED  BY <2>3, <2>4
<1>6. Keys(t, StreamsPath) = Keys(s, StreamsPath) \ {id}
  BY <1>5
<1> QED  BY <1>2, <1>4, <1>6 DEF t

\* The leaves of a request or of a configuration are below the stream.
RequestDocument(id, request) ==
  Union({PutLeaf(StreamPath(id) ++ "stream_id", id),
         WriteRequest(StreamPath(id) ++ "request", request),
         PutLeaf(StreamPath(id) ++ "configured", 0)})
ConfigurationDocument(id, configuration) ==
  Union({WriteConfiguration(StreamPath(id) ++ "configuration", configuration),
         PutLeaf(StreamPath(id) ++ "configured", 1)})

\* Both documents are below the stream and not empty.
LEMMA DocumentsUnder ==
  ASSUME NEW id, NEW x
  PROVE  /\ Under(RequestDocument(id, x), StreamPath(id))
         /\ Under(ConfigurationDocument(id, x), StreamPath(id))
         /\ StreamPath(id) ++ "configured" \in DOMAIN RequestDocument(id, x)
         /\ StreamPath(id) ++ "configured" \in DOMAIN ConfigurationDocument(id, x)
<1>1. Path(StreamPath(id)) /\ \A name : Path(StreamPath(id) ++ name)
  BY StreamPathIs, Longer
<1>2. /\ Under(WriteRequest(StreamPath(id) ++ "request", x), StreamPath(id))
      /\ Under(WriteConfiguration(StreamPath(id) ++ "configuration", x), StreamPath(id))
  BY <1>1, RequestUnder, ConfigurationUnder, UnderFurther
<1>3. \A name, v : Under(PutLeaf(StreamPath(id) ++ name, v), StreamPath(id))
  BY <1>1, UnderLeaves
<1>4. \A v : StreamPath(id) ++ "configured" \in DOMAIN PutLeaf(StreamPath(id) ++ "configured", v)
  BY DEF PutLeaf
<1>6. StreamPath(id) ++ "configured" \in DOMAIN RequestDocument(id, x)
  <2> DEFINE leaf == PutLeaf(StreamPath(id) ++ "configured", 0)
             docs == {PutLeaf(StreamPath(id) ++ "stream_id", id),
                      WriteRequest(StreamPath(id) ++ "request", x), leaf}
  <2>1. RequestDocument(id, x) = Union(docs)
    BY DEF RequestDocument
  <2>2. leaf \in docs
    OBVIOUS
  <2>3. StreamPath(id) ++ "configured" \in DOMAIN leaf
    BY <1>4
  <2> HIDE DEF docs, leaf
  <2>4. StreamPath(id) ++ "configured" \in DOMAIN Union(docs)
    BY <2>2, <2>3, UnionHas
  <2> QED  BY <2>1, <2>4
<1>7. StreamPath(id) ++ "configured" \in DOMAIN ConfigurationDocument(id, x)
  <2> DEFINE leaf == PutLeaf(StreamPath(id) ++ "configured", 1)
             docs == {WriteConfiguration(StreamPath(id) ++ "configuration", x), leaf}
  <2>1. ConfigurationDocument(id, x) = Union(docs)
    BY DEF ConfigurationDocument
  <2>2. leaf \in docs
    OBVIOUS
  <2>3. StreamPath(id) ++ "configured" \in DOMAIN leaf
    BY <1>4
  <2> HIDE DEF docs, leaf
  <2>4. StreamPath(id) ++ "configured" \in DOMAIN Union(docs)
    BY <2>2, <2>3, UnionHas
  <2> QED  BY <2>1, <2>4
<1>8. Under(RequestDocument(id, x), StreamPath(id))
  BY <1>2, <1>3, UnderUnion DEF RequestDocument
<1>9. Under(ConfigurationDocument(id, x), StreamPath(id))
  BY <1>2, <1>3, UnderUnion DEF ConfigurationDocument
<1> QED  BY <1>6, <1>7, <1>8, <1>9

\* The two writers set exactly these documents.
LEMMA WritesAreMerges ==
  ASSUME NEW s, NEW id, NEW x
  PROVE  /\ WriteStreamRequest(s, id, x) = Merge(s, RequestDocument(id, x))
         /\ WriteStreamConfiguration(s, id, x) = Merge(s, ConfigurationDocument(id, x))
  BY DEF WriteStreamRequest, WriteStreamConfiguration, RequestDocument, ConfigurationDocument

\* Whatever is written to one stream or deleted with it, each other stream is
\* read as before (sysrepo_write_stream_request, sysrepo_write_stream_configuration,
\* sysrepo_delete_stream), for all documents and contents of the datastore.
THEOREM OtherStreamsUntouched ==
  ASSUME NEW s, Leafed(s), NEW id, NEW other, other # id, other \notin CaseNames, NEW x
  PROVE  LET Untouched(t) == ReadStream(t, StreamPath(other)) = ReadStream(s, StreamPath(other))
         IN /\ Untouched(WriteStreamRequest(s, id, x))
            /\ Untouched(WriteStreamConfiguration(s, id, x))
            /\ Untouched(Delete(s, {StreamPath(id)}))
<1>1. \A doc : Under(doc, StreamPath(id)) => Alike(Merge(s, doc), s, StreamPath(other))
  BY StreamsElsewhere
<1>2. /\ Alike(WriteStreamRequest(s, id, x), s, StreamPath(other))
      /\ Alike(WriteStreamConfiguration(s, id, x), s, StreamPath(other))
  BY <1>1, DocumentsUnder, WritesAreMerges
<1>3. Alike(Delete(s, {StreamPath(id)}), s, StreamPath(other))
  BY DeleteElsewhere
<1> QED  BY <1>2, <1>3, ReadDependsOnStreamOnly

\* A write adds its stream to those that are listed, and no other.
LEMMA ListedAfterMerge ==
  ASSUME NEW s, Leafed(s), Keys(s, StreamsPath) \cap CaseNames = {},
         NEW id, NEW doc, Under(doc, StreamPath(id)), DOMAIN doc # {}
  PROVE  /\ Leafed(Merge(s, doc))
         /\ Keys(Merge(s, doc), StreamsPath) = Keys(s, StreamsPath) \cup {id}
<1> DEFINE t == Merge(s, doc)
<1>1. Leafed(t)
  BY StreamsElsewhere
<1>2. \A other : other # id /\ other \in Keys(t, StreamsPath) => other \in Keys(s, StreamsPath)
  BY StreamsElsewhere
<1>3. \A other : other # id /\ other \notin CaseNames => Alike(t, s, StreamPath(other))
  BY StreamsElsewhere
<1>4. DOMAIN doc \subseteq DOMAIN t
  BY DEF Merge
<1> HIDE DEF t
<1>5. id \in Keys(t, StreamsPath)
  <2>1. PICK q \in DOMAIN doc : TRUE
    OBVIOUS
  <2>2. q \in DOMAIN t /\ Below(StreamPath(id), q)
    BY <1>4, <2>1 DEF Under
  <2> QED  BY <1>1, <2>2, ListedAre
<1>6. ASSUME NEW other, other # id, other \in Keys(s, StreamsPath)
      PROVE  other \in Keys(t, StreamsPath)
  <2>1. PICK q \in DOMAIN s : Below(StreamPath(other), q)
    BY <1>6, ListedAre
  <2>2. Alike(t, s, StreamPath(other))
    BY <1>3, <1>6
  <2>3. q \in DOMAIN t
    BY <2>1, <2>2 DEF Alike, Same, Leafed
  <2> QED  BY <1>1, <2>1, <2>3, ListedAre
<1>7. Keys(t, StreamsPath) = Keys(s, StreamsPath) \cup {id}
  BY <1>2, <1>5, <1>6
<1> QED  BY <1>1, <1>7 DEF t

\* The same for the two writers of streams.
LEMMA ListedAfterWrite ==
  ASSUME NEW s, Leafed(s), Keys(s, StreamsPath) \cap CaseNames = {}, NEW id, NEW x
  PROVE  /\ Leafed(WriteStreamRequest(s, id, x)) /\ Leafed(WriteStreamConfiguration(s, id, x))
         /\ Keys(WriteStreamRequest(s, id, x), StreamsPath) = Keys(s, StreamsPath) \cup {id}
         /\ Keys(WriteStreamConfiguration(s, id, x), StreamsPath) = Keys(s, StreamsPath) \cup {id}
<1>1. /\ DOMAIN RequestDocument(id, x) # {} /\ DOMAIN ConfigurationDocument(id, x) # {}
      /\ Under(RequestDocument(id, x), StreamPath(id))
      /\ Under(ConfigurationDocument(id, x), StreamPath(id))
  BY DocumentsUnder
<1>2. /\ Leafed(Merge(s, RequestDocument(id, x)))
      /\ Keys(Merge(s, RequestDocument(id, x)), StreamsPath) = Keys(s, StreamsPath) \cup {id}
  BY <1>1, ListedAfterMerge
<1>3. /\ Leafed(Merge(s, ConfigurationDocument(id, x)))
      /\ Keys(Merge(s, ConfigurationDocument(id, x)), StreamsPath) = Keys(s, StreamsPath) \cup {id}
  BY <1>1, ListedAfterMerge
<1> QED  BY <1>2, <1>3, WritesAreMerges

(***************************************************************************)
(* The streams in the datastore are those of the book                      *)
(***************************************************************************)
Ids == {IdNumber[n] : n \in 1..5}

StreamsInv ==
  /\ Leafed(store) /\ NothingElseStored
  /\ Streams \subseteq Ids /\ IsFiniteSet(Streams) /\ Cardinality(Streams) <= writes + 1
  /\ writes \in 0..MaxWrites
  /\ DOMAIN place = Streams /\ \A id \in Streams : place[id] \in 0..writes
  /\ \A i, j \in Streams : place[i] = place[j] => i = j

\* The ids are five texts.
LEMMA IdsAre == Ids = {"00-01", "00-02", "00-03", "00-04", "00-05"}
<1>1. 1..5 = {1, 2, 3, 4, 5}
  OBVIOUS
<1>2. /\ IdNumber[1] = "00-01" /\ IdNumber[2] = "00-02" /\ IdNumber[3] = "00-03"
      /\ IdNumber[4] = "00-04" /\ IdNumber[5] = "00-05"
  BY DEF IdNumber
<1> QED  BY <1>1, <1>2 DEF Ids

\* The names of the cases of a choice are no ids.
LEMMA IdsAreNoCases == Ids \cap CaseNames = {}
BY IdsAre DEF CaseNames

\* A datastore that is empty or keeps one stream from before.
LEMMA InitStreams == Init => StreamsInv
<1> SUFFICES ASSUME Init PROVE StreamsInv
  OBVIOUS
<1>1. writes = 0 /\ 0 \in 0..MaxWrites
  BY WritesAssumption DEF Init
<1>2. Leafed(<< >>) /\ Keys(<< >>, StreamsPath) = {}
  <2>1. DOMAIN << >> = {}
    OBVIOUS
  <2> QED  BY <2>1 DEF Leafed, Keys
<1>3. CASE store = << >> /\ place = << >> /\ book = << >>
  <2>1. Streams = {} /\ DOMAIN place = {}
    BY <1>3 DEF Streams
  <2>2. IsFiniteSet({}) /\ Cardinality({}) = 0
    BY FS_EmptySet
  <2> QED  BY <1>1, <1>2, <1>3, <2>1, <2>2 DEF StreamsInv, NothingElseStored
<1>4. ASSUME NEW n \in 1..2, NEW kind \in Requests, NEW computed \in Configurations,
             Kept(IdNumber[n], kind, computed)
      PROVE  StreamsInv
  <2> DEFINE id == IdNumber[n]
             s == WriteStreamRequest(<< >>, id, RequestOf(kind, MaxWrites))
  <2>1. store = WriteStreamConfiguration(s, id, ConfigurationOf(computed, MaxWrites))
    BY <1>4 DEF Kept
  <2>2. Streams = {id} /\ DOMAIN place = {id} /\ place[id] = 0
    BY <1>4 DEF Kept, Streams
  <2>3. id \in Ids
    <3>1. n \in 1..5
      OBVIOUS
    <3> QED  BY <3>1 DEF Ids
  <2> HIDE DEF id
  <2>4. Leafed(s) /\ Keys(s, StreamsPath) = {id}
    BY <1>2, ListedAfterWrite
  <2> HIDE DEF s
  <2>5. Keys(s, StreamsPath) \cap CaseNames = {}
    BY <2>3, <2>4, IdsAreNoCases
  <2>6. Leafed(store) /\ Keys(store, StreamsPath) = {id}
    BY <2>1, <2>4, <2>5, ListedAfterWrite
  <2>7. IsFiniteSet({id}) /\ Cardinality({id}) = 1
    BY FS_Singleton
  <2> QED  BY <1>1, <2>2, <2>3, <2>6, <2>7 DEF StreamsInv, NothingElseStored
<1> QED  BY <1>3, <1>4 DEF Init

\* A request is stored under one of the ids.
LEMMA RequestKeeps ==
  ASSUME StreamsInv, NEW request, StreamRequest(request)
  PROVE  StreamsInv'
<1> DEFINE n == Cardinality(Keys(store, StreamsPath)) + 1
           id == IdNumber[n]
<1>1. /\ store' = WriteStreamRequest(store, id, request) /\ book' = Posted(id, request)
      /\ place' = [i \in Streams \cup {id} |-> IF i \in Streams THEN place[i] ELSE writes + 1]
      /\ writes < MaxWrites /\ writes' = writes + 1
  BY DEF StreamRequest, Store
<1>2. Keys(store, StreamsPath) = Streams
  BY DEF StreamsInv, NothingElseStored
<1>3. IsFiniteSet(Streams) /\ Cardinality(Streams) \in Nat
  BY FS_CardinalityType DEF StreamsInv
<1>4. Cardinality(Streams) <= writes + 1 /\ writes \in 0..MaxWrites /\ MaxWrites \in 0..4
  BY WritesAssumption DEF StreamsInv
<1>5. n \in 1..5
  BY <1>1, <1>2, <1>3, <1>4
<1>6. id \in Ids
  BY <1>5 DEF Ids
<1> HIDE DEF id, n
<1>7. Streams' = Streams \cup {id}
  BY <1>1 DEF Posted, Streams
<1>8. Keys(store, StreamsPath) \cap CaseNames = {} /\ Leafed(store)
  BY <1>2, IdsAreNoCases DEF StreamsInv
<1>9. Leafed(store') /\ Keys(store', StreamsPath) = Streams'
  BY <1>1, <1>2, <1>7, <1>8, ListedAfterWrite
<1>10. IsFiniteSet(Streams') /\ Cardinality(Streams') <= writes' + 1
  <2>1. CASE id \in Streams
    <3>1. Streams' = Streams
      BY <1>7, <2>1
    <3> QED  BY <1>1, <1>3, <1>4, <3>1
  <2>2. CASE id \notin Streams
    <3>1. IsFiniteSet(Streams') /\ Cardinality(Streams') = Cardinality(Streams) + 1
      BY <1>3, <1>7, <2>2, FS_AddElement
    <3> QED  BY <1>1, <1>3, <1>4, <3>1
  <2> QED  BY <2>1, <2>2
<1>11. writes' \in 0..MaxWrites
  BY <1>1, <1>4
<1>12. Streams' \subseteq Ids
  BY <1>6, <1>7 DEF StreamsInv
<1>13. /\ DOMAIN place' = Streams'
       /\ \A i \in Streams' : place'[i] \in 0..writes'
       /\ \A i, j \in Streams' : place'[i] = place'[j] => i = j
  <2>1. /\ DOMAIN place' = Streams'
        /\ \A i \in Streams : place'[i] = place[i] /\ place[i] \in 0..writes
        /\ id \notin Streams => place'[id] = writes + 1
    BY <1>1, <1>7 DEF StreamsInv
  <2>2. \A i \in Streams' : i \in Streams \/ i = id
    BY <1>7
  <2>3. \A i, j \in Streams : place[i] = place[j] => i = j
    BY DEF StreamsInv
  <2> QED  BY <1>1, <1>4, <2>1, <2>2, <2>3
<1> QED  BY <1>9, <1>10, <1>11, <1>12, <1>13 DEF StreamsInv, NothingElseStored

\* Each request and each answer of the CNC keeps the datastore and the book together.
LEMMA NextStreams == StreamsInv /\ [Next]_vars => StreamsInv'
<1> SUFFICES ASSUME StreamsInv, [Next]_vars PROVE StreamsInv'
  OBVIOUS
<1>1. ASSUME NEW kind \in Requests, PostRequest(kind) PROVE StreamsInv'
  BY <1>1, RequestKeeps DEF PostRequest
<1>2. ASSUME NEW kind \in Simplified, PostSimplified(kind) PROVE StreamsInv'
  BY <1>2, RequestKeeps DEF PostSimplified
<1>3. ASSUME NEW id \in Streams, DeleteStream(id) PROVE StreamsInv'
  <2>1. /\ store' = Delete(store, {StreamPath(id)}) /\ writes' = writes
        /\ Streams' = Streams \ {id} /\ place' = [i \in Streams' |-> place[i]]
    BY <1>3 DEF DeleteStream, Streams
  <2>2. Leafed(store') /\ Keys(store', StreamsPath) = Streams'
    BY <2>1, DeleteElsewhere DEF StreamsInv, NothingElseStored
  <2>3. IsFiniteSet(Streams') /\ Cardinality(Streams') = Cardinality(Streams) - 1
    BY <2>1, FS_RemoveElement DEF StreamsInv
  <2>4. Cardinality(Streams) \in Nat
    BY FS_CardinalityType DEF StreamsInv
  <2>5. Cardinality(Streams') <= writes' + 1
    BY <2>1, <2>3, <2>4 DEF StreamsInv
  <2> QED  BY <2>1, <2>2, <2>3, <2>5 DEF StreamsInv, NothingElseStored
<1>4. ASSUME NEW id \in DOMAIN asked \cap Streams, NEW kind \in Configurations,
             SetComputed(id, kind)
      PROVE  StreamsInv'
  <2>1. PICK c : store' = WriteStreamConfiguration(store, id, c) /\ book' = Computed(id, c)
    BY <1>4 DEF SetComputed
  <2>2. writes < MaxWrites /\ writes' = writes + 1 /\ place' = place
    BY <1>4 DEF SetComputed
  <2>3. Streams' = Streams
    BY <2>1 DEF Computed, Streams
  <2>4. Keys(store, StreamsPath) = Streams /\ Keys(store, StreamsPath) \cap CaseNames = {}
    BY IdsAreNoCases DEF StreamsInv, NothingElseStored
  <2>5. Leafed(store') /\ Keys(store', StreamsPath) = Streams'
    <3>1. Leafed(store)
      BY DEF StreamsInv
    <3>2. /\ Leafed(WriteStreamConfiguration(store, id, c))
          /\ Keys(WriteStreamConfiguration(store, id, c), StreamsPath)
               = Keys(store, StreamsPath) \cup {id}
      BY <3>1, <2>4, ListedAfterWrite
    <3>3. Streams \cup {id} = Streams
      BY <1>4
    <3> QED  BY <2>1, <2>3, <2>4, <3>2, <3>3
  <2>6. Cardinality(Streams) \in Nat
    BY FS_CardinalityType DEF StreamsInv
  <2>7. MaxWrites \in 0..4
    BY WritesAssumption
  <2>8. writes' \in 0..MaxWrites /\ Cardinality(Streams') <= writes' + 1
    BY <2>2, <2>3, <2>6, <2>7 DEF StreamsInv
  <2>9. \A i \in Streams : place[i] \in 0..writes'
    BY <2>2, <2>7 DEF StreamsInv
  <2> QED  BY <2>2, <2>3, <2>5, <2>8, <2>9 DEF StreamsInv, NothingElseStored
<1>5. CASE UNCHANGED <<store, place, book, writes>>
  BY <1>5 DEF StreamsInv, NothingElseStored, Streams
<1>6. ComputeRequests \/ Unanswered \/ UNCHANGED vars => UNCHANGED <<store, place, book, writes>>
  BY DEF ComputeRequests, Unanswered, vars
<1> QED  BY <1>1, <1>2, <1>3, <1>4, <1>5, <1>6 DEF Next

\* The datastore knows the streams that clients posted and did not delete, and
\* no other one: nothing a document holds makes an entry of its own, or takes
\* another stream away.
THEOREM NothingElseIsStored == Spec => []NothingElseStored
<1>1. StreamsInv => NothingElseStored
  BY DEF StreamsInv
<1> QED  BY <1>1, InitStreams, NextStreams, PTL DEF Spec

(***************************************************************************)
(* The JSON of a stream                                                    *)
(***************************************************************************)
\* The fields of the structures of a stream.
TalkerFields == {"stream_rank", "end_station_interfaces", "data_frame_specification",
                 "traffic_specification", "user_to_network_requirements",
                 "interface_capabilities"}
ListenerFields == {"index", "end_station_interfaces", "user_to_network_requirements",
                   "interface_capabilities"}
RequestFields == {"talker", "listener_list"}
TrafficFields == {"interval", "max_frames_per_interval", "max_frame_size",
                  "transmission_selection", "time_aware"}
ChoiceFields == {"index", "field_type", "field"}
CapabilitiesFields == {"vlan_tag_capable"} \cup Capabilities
InterfaceFields == {"index", "mac_address", "interface_name"}
EntryFields == {"mac_address", "interface_name", "config_list"}
TalkerStatusFields == {"accumulated_latency", "interface_configuration"}
ListenerStatusFields == {"index", "accumulated_latency", "interface_configuration"}
ConfigurationFields == {"talker", "listener_list", "status_info", "failed_interfaces"}

Named == TalkerFields \cup ListenerFields \cup RequestFields \cup TrafficFields \cup ChoiceFields
           \cup CapabilitiesFields \cup InterfaceFields \cup EntryFields \cup ListenerStatusFields
           \cup ConfigurationFields \cup StreamRank \cup UserToNetworkRequirements \cup Interval
           \cup TimeAware \cup StatusInfo \cup MacAddresses \cup VlanTag \cup IPv4Tuple \cup CaseNames
           \cup {"interface_list", "stream_id", "configured", "request", "configuration",
                 "streams", "requests"}

\* The name of a field in a document stands for that field alone.
LEMMA NamesReturn ==
  \A f \in Named : FieldOf(Name(f)) = f
<1>1. \A f, g \in DOMAIN Dashed : Dashed[f] = Dashed[g] => f = g
  BY DEF Dashed
<1>2. DOMAIN Field = {Dashed[f] : f \in DOMAIN Dashed}
  BY DEF Field
<1>3. ASSUME NEW f \in DOMAIN Dashed PROVE FieldOf(Name(f)) = f
  <2> DEFINE n == Dashed[f]
             g == CHOOSE h \in DOMAIN Dashed : Dashed[h] = n
  <2>1. Name(f) = n /\ n \in DOMAIN Field
    BY <1>2, <1>3 DEF Name
  <2>2. Field[n] = g
    BY <1>2, <2>1 DEF Field
  <2>3. g \in DOMAIN Dashed /\ Dashed[g] = n
    BY <1>3
  <2> HIDE DEF g
  <2>4. g = f
    BY <1>1, <1>3, <2>3
  <2> QED  BY <2>1, <2>2, <2>4 DEF FieldOf
<1> DEFINE plain == {"index", "talker", "interval", "field", "jitter", "rank", "numerator",
                     "denominator", "dscp", "protocol", "configured", "request", "configuration",
                     "streams", "requests"}
<1>4. Named \subseteq plain \cup DOMAIN Dashed
  <2>1. /\ TalkerFields \cup ListenerFields \cup RequestFields \cup TrafficFields \cup ChoiceFields
             \cup CapabilitiesFields \cup InterfaceFields \subseteq plain \cup DOMAIN Dashed
    BY DEF TalkerFields, ListenerFields, RequestFields, TrafficFields, ChoiceFields,
           CapabilitiesFields, Capabilities, InterfaceFields, Dashed
  <2>2. EntryFields \cup ListenerStatusFields \cup ConfigurationFields \cup StreamRank
          \cup UserToNetworkRequirements \cup Interval \cup TimeAware \cup StatusInfo
          \subseteq plain \cup DOMAIN Dashed
    BY DEF EntryFields, ListenerStatusFields, ConfigurationFields, StreamRank,
           UserToNetworkRequirements, Interval, TimeAware, StatusInfo, Dashed
  <2>3. MacAddresses \cup VlanTag \cup IPv4Tuple \cup CaseNames
          \cup {"interface_list", "stream_id", "configured", "request", "configuration",
                "streams", "requests"} \subseteq plain \cup DOMAIN Dashed
    BY DEF MacAddresses, VlanTag, IPv4Tuple, CaseNames, Dashed
  <2> QED  BY <2>1, <2>2, <2>3 DEF Named
<1>5. \A f \in plain : f \notin DOMAIN Dashed
  BY DEF Dashed
<1>6. \A f \in DOMAIN Dashed : Dashed[f] \notin plain
  BY DEF Dashed
<1>7. ASSUME NEW f \in plain PROVE FieldOf(Name(f)) = f
  BY <1>2, <1>5, <1>6, <1>7 DEF Name, FieldOf
<1> HIDE DEF plain
<1> QED  BY <1>3, <1>4, <1>7

\* A structure with these fields.
Shaped(x, fields) == x = [f \in fields |-> x[f]]

\* What the object of a structure has, and that the structure is read back.
LEMMA RecordReturns ==
  ASSUME NEW fields, fields \subseteq Named, NEW x, Shaped(x, fields)
  PROVE  /\ Record(Object(x), fields) = x
         /\ \A f \in fields : Name(f) \in DOMAIN Object(x) /\ Object(x)[Name(f)] = x[f]
         /\ DOMAIN Object(x) = {Name(f) : f \in fields}
         /\ \A others : others \subseteq fields => Record(Object(x), others) = [f \in others |-> x[f]]
<1>1. DOMAIN x = fields
  BY DEF Shaped
<1>2. \A f \in fields : FieldOf(Name(f)) = f
  BY NamesReturn
<1>3. Object(x) = [n \in {Name(f) : f \in fields} |-> x[FieldOf(n)]]
  BY <1>1 DEF Object
<1>4. \A f \in fields : Name(f) \in DOMAIN Object(x) /\ Object(x)[Name(f)] = x[f]
  BY <1>2, <1>3
<1>5. \A others : others \subseteq fields => Record(Object(x), others) = [f \in others |-> x[f]]
  BY <1>4 DEF Record
<1>6. Record(Object(x), fields) = [f \in fields |-> x[f]]
  BY <1>5
<1>7. DOMAIN Object(x) = {Name(f) : f \in fields}
  BY <1>3
<1> QED  BY <1>4, <1>5, <1>6, <1>7 DEF Shaped

\* What clients and the CNC send: leaves are no errors, keys no names of cases.
Sound(x, fields) == \A f \in fields : x[f] \notin {Fail, Crash}
IsLeaves(x, fields) == Shaped(x, fields) /\ Sound(x, fields)
IsList(x) == x = [k \in DOMAIN x |-> x[k]] /\ DOMAIN x \cap CaseNames = {}
AreInterfaces(x) ==
  IsList(x) /\ \A k \in DOMAIN x : IsLeaves(x[k], InterfaceFields) /\ x[k].index = "position"
IsCapabilities(x) ==
  /\ Shaped(x, CapabilitiesFields) /\ Sound(x, {"vlan_tag_capable"})
  /\ \A c \in Capabilities : x[c] \in SUBSET CbTypes
IsField(type, x) ==
  IF type = "time_aware_offset" THEN x \notin {Fail, Crash} ELSE IsLeaves(x, CaseLeaves[type])
IsChoice(x) ==
  /\ Shaped(x, ChoiceFields) /\ Sound(x, {"index"})
  /\ x.field_type \in CaseNames /\ IsField(x.field_type, x.field)

IsTraffic(x) ==
  /\ Shaped(x, TrafficFields) /\ Sound(x, TrafficLeaves)
  /\ IsLeaves(x.interval, Interval) /\ IsLeaves(x.time_aware, TimeAware)
AreFrames(x) ==
  IsList(x) /\ \A k \in DOMAIN x : IsChoice(x[k]) /\ x[k].field_type # "time_aware_offset"
IsStation(x) ==
  /\ AreInterfaces(x.end_station_interfaces)
  /\ IsLeaves(x.user_to_network_requirements, UserToNetworkRequirements)
  /\ IsCapabilities(x.interface_capabilities)
IsTalker(x) ==
  /\ Shaped(x, TalkerFields) /\ IsStation(x)
  /\ IsLeaves(x.stream_rank, StreamRank)
  /\ AreFrames(x.data_frame_specification) /\ IsTraffic(x.traffic_specification)
IsListener(x) == Shaped(x, ListenerFields) /\ Sound(x, {"index"}) /\ IsStation(x)
AreListeners(x) == IsList(x) /\ \A l \in DOMAIN x : IsListener(x[l])
IsRequest(x) ==
  Shaped(x, RequestFields) /\ IsTalker(x.talker) /\ AreListeners(x.listener_list)

\* Structures of leaves, the cases of a choice among them.
LEMMA LeavesReturn ==
  ASSUME NEW x
  PROVE  /\ Shaped(x, InterfaceFields) => DeserializeInterfaceId(SerializeInterfaceId(x)) = x
         /\ Shaped(x, UserToNetworkRequirements) =>
              DeserializeUserToNetworkRequirements(SerializeUserToNetworkRequirements(x)) = x
         /\ Shaped(x, StreamRank) => DeserializeStreamRank(SerializeStreamRank(x)) = x
         /\ Shaped(x, Interval) => DeserializeInterval(SerializeInterval(x)) = x
         /\ Shaped(x, TimeAware) => DeserializeTimeAware(SerializeTimeAware(x)) = x
         /\ Shaped(x, StatusInfo) => DeserializeStatusInfo(SerializeStatusInfo(x)) = x
         /\ Shaped(x, MacAddresses) => DeserializeMacAddresses(SerializeMacAddresses(x)) = x
         /\ Shaped(x, VlanTag) => DeserializeVlanTag(SerializeVlanTag(x)) = x
         /\ Shaped(x, IPv4Tuple) => DeserializeIPv4Tuple(SerializeIPv4Tuple(x)) = x
         /\ Shaped(x, IPv6Tuple) => DeserializeIPv6Tuple(SerializeIPv6Tuple(x)) = x
<1>1. /\ InterfaceFields \subseteq Named /\ UserToNetworkRequirements \subseteq Named
      /\ StreamRank \subseteq Named /\ Interval \subseteq Named /\ TimeAware \subseteq Named
      /\ StatusInfo \subseteq Named /\ MacAddresses \subseteq Named /\ VlanTag \subseteq Named
      /\ IPv4Tuple \subseteq Named /\ IPv6Tuple = IPv4Tuple /\ IPTuple = IPv4Tuple
  BY DEF Named, IPv6Tuple, IPv4Tuple, IPTuple
<1>2. \A fields : fields \subseteq Named /\ Shaped(x, fields) => Record(Object(x), fields) = x
  BY RecordReturns
<1>3. /\ Shaped(x, InterfaceFields) => DeserializeInterfaceId(SerializeInterfaceId(x)) = x
      /\ Shaped(x, UserToNetworkRequirements) =>
           DeserializeUserToNetworkRequirements(SerializeUserToNetworkRequirements(x)) = x
      /\ Shaped(x, StreamRank) => DeserializeStreamRank(SerializeStreamRank(x)) = x
  BY <1>1, <1>2 DEF DeserializeInterfaceId, SerializeInterfaceId, InterfaceFields,
     DeserializeUserToNetworkRequirements, SerializeUserToNetworkRequirements,
     UserToNetworkRequirements, DeserializeStreamRank, SerializeStreamRank, StreamRank
<1>4. /\ Shaped(x, Interval) => DeserializeInterval(SerializeInterval(x)) = x
      /\ Shaped(x, TimeAware) => DeserializeTimeAware(SerializeTimeAware(x)) = x
      /\ Shaped(x, StatusInfo) => DeserializeStatusInfo(SerializeStatusInfo(x)) = x
  BY <1>1, <1>2 DEF DeserializeInterval, SerializeInterval, Interval,
     DeserializeTimeAware, SerializeTimeAware, TimeAware,
     DeserializeStatusInfo, SerializeStatusInfo, StatusInfo
<1>5. /\ Shaped(x, MacAddresses) => DeserializeMacAddresses(SerializeMacAddresses(x)) = x
      /\ Shaped(x, VlanTag) => DeserializeVlanTag(SerializeVlanTag(x)) = x
      /\ Shaped(x, IPv4Tuple) => DeserializeIPv4Tuple(SerializeIPv4Tuple(x)) = x
      /\ Shaped(x, IPv6Tuple) => DeserializeIPv6Tuple(SerializeIPv6Tuple(x)) = x
  <2>1. /\ MacAddresses = {"destination_mac_address", "source_mac_address"}
        /\ VlanTag = {"priority_code_point", "vlan_id"}
    BY DEF MacAddresses, VlanTag
  <2> QED
    BY <1>1, <1>2, <2>1 DEF DeserializeMacAddresses, SerializeMacAddresses,
       DeserializeVlanTag, SerializeVlanTag, DeserializeIPv4Tuple, SerializeIPv4Tuple,
       DeserializeIPv6Tuple, SerializeIPv6Tuple
<1> QED  BY <1>3, <1>4, <1>5

\* The leaves of the cases.
LEMMA CasesAre ==
  /\ DOMAIN CaseLeaves = CaseNames \ {"time_aware_offset"}
  /\ CaseLeaves["ieee802_mac_addresses"] = MacAddresses /\ CaseLeaves["ieee802_vlan_tag"] = VlanTag
  /\ CaseLeaves["ipv4_tuple"] = IPv4Tuple /\ CaseLeaves["ipv6_tuple"] = IPv6Tuple
BY DEF CaseLeaves, CaseNames

\* The case of a choice comes back.
LEMMA CaseReturns ==
  ASSUME NEW type \in CaseNames, NEW x, IsField(type, x)
  PROVE  DeserializeCase(type, SerializeCase(type, x)) = x
<1>1. CASE type = "ieee802_mac_addresses"
  <2>1. Shaped(x, MacAddresses)
    BY <1>1, CasesAre DEF IsField, IsLeaves
  <2> QED  BY <1>1, <2>1, LeavesReturn DEF SerializeCase, DeserializeCase
<1>2. CASE type = "ieee802_vlan_tag"
  <2>1. Shaped(x, VlanTag)
    BY <1>2, CasesAre DEF IsField, IsLeaves
  <2> QED  BY <1>2, <2>1, LeavesReturn DEF SerializeCase, DeserializeCase
<1>3. CASE type = "ipv4_tuple"
  <2>1. Shaped(x, IPv4Tuple)
    BY <1>3, CasesAre DEF IsField, IsLeaves
  <2> QED  BY <1>3, <2>1, LeavesReturn DEF SerializeCase, DeserializeCase
<1>4. CASE type = "ipv6_tuple"
  <2>1. Shaped(x, IPv6Tuple)
    BY <1>4, CasesAre DEF IsField, IsLeaves
  <2> QED  BY <1>4, <2>1, LeavesReturn DEF SerializeCase, DeserializeCase
<1>5. CASE type = "time_aware_offset"
  BY <1>5 DEF SerializeCase, DeserializeCase
<1> QED  BY <1>1, <1>2, <1>3, <1>4, <1>5 DEF CaseNames

\* Names that the documents are read with.
LEMMA NamesAre ==
  /\ Name("index") = "index" /\ Name("field_type") = "field-type"
  /\ Name("talker") = "talker" /\ Name("configured") = "configured"
  /\ Name("request") = "request" /\ Name("configuration") = "configuration"
  /\ Name("streams") = "streams" /\ Name("requests") = "requests"
  /\ Name("stream_id") = "stream-id" /\ Name("listener_list") = "listener-list"
  /\ Name("end_station_interfaces") = "end-station-interfaces"
  /\ Name("mac_address") = "mac-address" /\ Name("interface_name") = "interface-name"
  /\ Name("interface_list") = "interface-list" /\ Name("config_list") = "config-list"
<1>1. /\ Dashed["field_type"] = "field-type" /\ Dashed["stream_id"] = "stream-id"
      /\ Dashed["listener_list"] = "listener-list"
      /\ Dashed["end_station_interfaces"] = "end-station-interfaces"
      /\ Dashed["mac_address"] = "mac-address" /\ Dashed["interface_name"] = "interface-name"
      /\ Dashed["interface_list"] = "interface-list" /\ Dashed["config_list"] = "config-list"
  BY DEF Dashed
<1>2. {"field_type", "stream_id", "listener_list", "end_station_interfaces", "mac_address",
       "interface_name", "interface_list", "config_list"} \subseteq DOMAIN Dashed
  BY DEF Dashed
<1>3. \A f \in {"index", "talker", "configured", "request", "configuration", "streams", "requests"} :
         f \notin DOMAIN Dashed
  BY DEF Dashed
<1> QED  BY <1>1, <1>2, <1>3 DEF Name

\* A choice comes back.
LEMMA ChoiceReturns ==
  ASSUME NEW x, IsChoice(x)
  PROVE  DeserializeChoice(SerializeChoice(x)) = x
<1> DEFINE h == [index |-> x.index, field_type |-> x.field_type]
           c == SerializeCase(x.field_type, x.field)
           o == Beside(Object(h), Single(Name(x.field_type), c))
<1>1. Shaped(h, {"index", "field_type"}) /\ h.index = x.index /\ h.field_type = x.field_type
  BY DEF Shaped
<1>2. {"index", "field_type"} \subseteq Named /\ x.field_type \in Named
  BY DEF Named, ChoiceFields, IsChoice
<1> HIDE DEF h
<1>3. /\ DOMAIN Object(h) = {Name(f) : f \in {"index", "field_type"}}
      /\ \A f \in {"index", "field_type"} : Object(h)[Name(f)] = h[f]
  BY <1>1, <1>2, RecordReturns
<1>4. x.field_type \notin {"index", "field_type"}
  BY DEF IsChoice, CaseNames
<1>5. Name(x.field_type) \notin DOMAIN Object(h)
  BY <1>2, <1>3, <1>4, NamesReturn
<1>6. o["index"] = x.index /\ o["field-type"] = x.field_type /\ o[Name(x.field_type)] = c
  BY <1>1, <1>3, <1>5, NamesAre DEF Beside, Single
<1>7. SerializeChoice(x) = o
  BY DEF SerializeChoice, h
<1> HIDE DEF o
<1>8. DeserializeChoice(o) = [index |-> x.index, field_type |-> x.field_type,
                              field |-> DeserializeCase(x.field_type, c)]
  BY <1>6 DEF DeserializeChoice
<1>9. DeserializeCase(x.field_type, c) = x.field
  BY CaseReturns DEF IsChoice
<1>10. x = [index |-> x.index, field_type |-> x.field_type, field |-> x.field]
  BY DEF IsChoice, Shaped, ChoiceFields
<1> QED  BY <1>7, <1>8, <1>9, <1>10

\* The capabilities of an interface, empty lists being left out.
LEMMA CapabilitiesReturn ==
  ASSUME NEW x, Shaped(x, CapabilitiesFields)
  PROVE  DeserializeInterfaceCapabilities(SerializeInterfaceCapabilities(x)) = x
<1> DEFINE F == {"vlan_tag_capable"} \cup {c \in Capabilities : x[c] # {}}
           h == [f \in F |-> x[f]]
           o == Object(h)
           r == Record(o, {"vlan_tag_capable"})
           l == [c \in Capabilities |-> IF Name(c) \in DOMAIN o THEN o[Name(c)] ELSE {}]
<1>1. F \subseteq Named /\ Capabilities \subseteq Named
  BY DEF Named, CapabilitiesFields
<1>2. Shaped(h, F) /\ \A f \in F : h[f] = x[f]
  BY DEF Shaped
<1>3. o = SerializeInterfaceCapabilities(x)
  BY DEF SerializeInterfaceCapabilities
<1>4. "vlan_tag_capable" \in F
  OBVIOUS
<1>5. \A c \in Capabilities : c \in F <=> x[c] # {}
  BY DEF Capabilities
<1> HIDE DEF F, h
<1>6. /\ DOMAIN o = {Name(f) : f \in F} /\ \A f \in F : o[Name(f)] = x[f]
      /\ r = [f \in {"vlan_tag_capable"} |-> x[f]]
  <2> HIDE DEF o
  <2>0. /\ DOMAIN Object(h) = {Name(f) : f \in F}
        /\ \A f \in F : Name(f) \in DOMAIN Object(h) /\ Object(h)[Name(f)] = h[f]
    BY <1>1, <1>2, RecordReturns
  <2>1. /\ DOMAIN o = {Name(f) : f \in F} /\ \A f \in F : o[Name(f)] = h[f]
    BY <2>0 DEF o
  <2>2. Name("vlan_tag_capable") \in DOMAIN o
    BY <1>4, <2>1
  <2>3. r["vlan_tag_capable"] = x["vlan_tag_capable"] /\ r = [f \in {"vlan_tag_capable"} |-> r[f]]
    BY <1>2, <1>4, <2>1 DEF Record
  <2> QED  BY <1>2, <2>1, <2>3
<1> HIDE DEF o, r
<1>7. \A c \in Capabilities : Name(c) \in DOMAIN o <=> c \in F
  BY <1>1, <1>6, NamesReturn
<1>8. l = [c \in Capabilities |-> x[c]]
  BY <1>5, <1>6, <1>7
<1>9. DeserializeInterfaceCapabilities(o) = Beside(r, l)
  BY DEF DeserializeInterfaceCapabilities, r
<1> HIDE DEF l
<1>10. Beside(r, l) = [f \in CapabilitiesFields |-> x[f]]
  BY <1>6, <1>8 DEF Beside, CapabilitiesFields, Capabilities
<1> QED  BY <1>3, <1>9, <1>10 DEF Shaped

\* Lists of interfaces, of frame specifications and of entries.
LEMMA ListsReturn ==
  ASSUME NEW x, IsList(x)
  PROVE  /\ (\A k \in DOMAIN x : IsLeaves(x[k], InterfaceFields)) =>
              Array(DeserializeInterfaceId, Array(SerializeInterfaceId, x)) = x
         /\ (\A k \in DOMAIN x : IsChoice(x[k])) =>
              /\ Array(DeserializeDataFrameSpecification,
                       Array(SerializeDataFrameSpecification, x)) = x
              /\ Array(DeserializeConfigList, Array(SerializeConfigList, x)) = x
<1>1. ASSUME \A k \in DOMAIN x : IsLeaves(x[k], InterfaceFields)
      PROVE  Array(DeserializeInterfaceId, Array(SerializeInterfaceId, x)) = x
  <2>1. \A k \in DOMAIN x : DeserializeInterfaceId(SerializeInterfaceId(x[k])) = x[k]
    BY <1>1, LeavesReturn DEF IsLeaves
  <2> QED  BY <2>1 DEF Array, IsList
<1>2. ASSUME \A k \in DOMAIN x : IsChoice(x[k])
      PROVE  /\ Array(DeserializeDataFrameSpecification,
                      Array(SerializeDataFrameSpecification, x)) = x
             /\ Array(DeserializeConfigList, Array(SerializeConfigList, x)) = x
  <2>1. \A k \in DOMAIN x :
          /\ DeserializeDataFrameSpecification(SerializeDataFrameSpecification(x[k])) = x[k]
          /\ DeserializeConfigList(SerializeConfigList(x[k])) = x[k]
    BY <1>2, ChoiceReturns DEF DeserializeDataFrameSpecification, SerializeDataFrameSpecification,
       DeserializeConfigList, SerializeConfigList
  <2>2. Array(DeserializeDataFrameSpecification, Array(SerializeDataFrameSpecification, x)) = x
    BY <2>1 DEF Array, IsList
  <2>3. Array(DeserializeConfigList, Array(SerializeConfigList, x)) = x
    BY <2>1 DEF Array, IsList
  <2> QED  BY <2>2, <2>3
<1> QED  BY <1>1, <1>2

\* The traffic specification.
LEMMA TrafficReturns ==
  ASSUME NEW x, IsTraffic(x)
  PROVE  DeserializeTrafficSpecification(SerializeTrafficSpecification(x)) = x
<1> DEFINE y == [x EXCEPT !.interval = SerializeInterval(@), !.time_aware = SerializeTimeAware(@)]
<1>1. Shaped(x, TrafficFields)
  BY DEF IsTraffic
<1>2. /\ Shaped(y, TrafficFields)
      /\ y.interval = SerializeInterval(x.interval) /\ y.time_aware = SerializeTimeAware(x.time_aware)
      /\ \A f \in TrafficFields \ {"interval", "time_aware"} : y[f] = x[f]
  BY <1>1 DEF Shaped, TrafficFields
<1>3. SerializeTrafficSpecification(x) = Object(y)
  BY DEF SerializeTrafficSpecification
<1> HIDE DEF y
<1>4. Record(Object(y), TrafficFields) = y
  <2>1. TrafficFields \subseteq Named
    BY DEF Named
  <2> QED  BY <1>2, <2>1, RecordReturns
<1>5. DeserializeTrafficSpecification(Object(y)) =
        [y EXCEPT !.interval = DeserializeInterval(@), !.time_aware = DeserializeTimeAware(@)]
  BY <1>4 DEF DeserializeTrafficSpecification, TrafficFields
<1>6. DeserializeInterval(y.interval) = x.interval /\ DeserializeTimeAware(y.time_aware) = x.time_aware
  BY <1>2, LeavesReturn DEF IsTraffic, IsLeaves
<1>7. [y EXCEPT !.interval = DeserializeInterval(@), !.time_aware = DeserializeTimeAware(@)] = x
  BY <1>1, <1>2, <1>6 DEF Shaped, TrafficFields
<1> QED  BY <1>3, <1>5, <1>7

\* What is alike in a talker and in a listener.
LEMMA StationReturns ==
  ASSUME NEW x, IsStation(x)
  PROVE  /\ Array(DeserializeInterfaceId, Array(SerializeInterfaceId, x.end_station_interfaces))
              = x.end_station_interfaces
         /\ DeserializeUserToNetworkRequirements(
              SerializeUserToNetworkRequirements(x.user_to_network_requirements))
              = x.user_to_network_requirements
         /\ DeserializeInterfaceCapabilities(
              SerializeInterfaceCapabilities(x.interface_capabilities)) = x.interface_capabilities
<1>1. /\ AreInterfaces(x.end_station_interfaces)
      /\ Shaped(x.user_to_network_requirements, UserToNetworkRequirements)
      /\ Shaped(x.interface_capabilities, CapabilitiesFields)
  BY DEF IsStation, IsLeaves, IsCapabilities
<1>2. Array(DeserializeInterfaceId, Array(SerializeInterfaceId, x.end_station_interfaces))
        = x.end_station_interfaces
  BY <1>1, ListsReturn DEF AreInterfaces
<1> QED  BY <1>1, <1>2, LeavesReturn, CapabilitiesReturn

\* The talker.
LEMMA TalkerReturns ==
  ASSUME NEW x, IsTalker(x)
  PROVE  DeserializeTalker(SerializeTalker(x)) = x
<1> DEFINE y == [x EXCEPT !.stream_rank = SerializeStreamRank(@),
                     !.end_station_interfaces = Array(SerializeInterfaceId, @),
                     !.data_frame_specification = Array(SerializeDataFrameSpecification, @),
                     !.traffic_specification = SerializeTrafficSpecification(@),
                     !.user_to_network_requirements = SerializeUserToNetworkRequirements(@),
                     !.interface_capabilities = SerializeInterfaceCapabilities(@)]
<1>1. Shaped(x, TalkerFields) /\ IsStation(x)
  BY DEF IsTalker
<1>2. /\ Shaped(y, TalkerFields)
      /\ y.stream_rank = SerializeStreamRank(x.stream_rank)
      /\ y.end_station_interfaces = Array(SerializeInterfaceId, x.end_station_interfaces)
      /\ y.data_frame_specification =
           Array(SerializeDataFrameSpecification, x.data_frame_specification)
      /\ y.traffic_specification = SerializeTrafficSpecification(x.traffic_specification)
      /\ y.user_to_network_requirements =
           SerializeUserToNetworkRequirements(x.user_to_network_requirements)
      /\ y.interface_capabilities = SerializeInterfaceCapabilities(x.interface_capabilities)
  BY <1>1 DEF Shaped, TalkerFields
<1>3. SerializeTalker(x) = Object(y)
  BY DEF SerializeTalker
<1> HIDE DEF y
<1>4. Record(Object(y), TalkerFields) = y
  <2>1. TalkerFields \subseteq Named
    BY DEF Named
  <2> QED  BY <1>2, <2>1, RecordReturns
<1> DEFINE z == [y EXCEPT !.stream_rank = DeserializeStreamRank(@),
               !.end_station_interfaces = Array(DeserializeInterfaceId, @),
               !.data_frame_specification = Array(DeserializeDataFrameSpecification, @),
               !.traffic_specification = DeserializeTrafficSpecification(@),
               !.user_to_network_requirements = DeserializeUserToNetworkRequirements(@),
               !.interface_capabilities = DeserializeInterfaceCapabilities(@)]
<1>5. DeserializeTalker(Object(y)) = z
  BY <1>4 DEF DeserializeTalker, TalkerFields
<1>6. /\ Shaped(z, TalkerFields)
      /\ z.stream_rank = DeserializeStreamRank(y.stream_rank)
      /\ z.end_station_interfaces = Array(DeserializeInterfaceId, y.end_station_interfaces)
      /\ z.data_frame_specification =
           Array(DeserializeDataFrameSpecification, y.data_frame_specification)
      /\ z.traffic_specification = DeserializeTrafficSpecification(y.traffic_specification)
      /\ z.user_to_network_requirements =
           DeserializeUserToNetworkRequirements(y.user_to_network_requirements)
      /\ z.interface_capabilities = DeserializeInterfaceCapabilities(y.interface_capabilities)
  BY <1>2 DEF Shaped, TalkerFields
<1> HIDE DEF z
<1>7. z.stream_rank = x.stream_rank /\ z.traffic_specification = x.traffic_specification
  BY <1>2, <1>6, LeavesReturn, TrafficReturns DEF IsTalker, IsLeaves
<1>8. z.data_frame_specification = x.data_frame_specification
  <2>1. AreFrames(x.data_frame_specification)
    BY DEF IsTalker
  <2>2. Array(DeserializeDataFrameSpecification,
              Array(SerializeDataFrameSpecification, x.data_frame_specification))
          = x.data_frame_specification
    BY <2>1, ListsReturn DEF AreFrames
  <2> QED  BY <1>2, <1>6, <2>2
<1>9. /\ z.end_station_interfaces = x.end_station_interfaces
      /\ z.user_to_network_requirements = x.user_to_network_requirements
      /\ z.interface_capabilities = x.interface_capabilities
  BY <1>1, <1>2, <1>6, StationReturns
<1>10. \A f \in TalkerFields : z[f] = x[f]
  BY <1>7, <1>8, <1>9 DEF TalkerFields
<1> QED  BY <1>1, <1>3, <1>5, <1>6, <1>10 DEF Shaped

\* A listener.
LEMMA ListenerReturns ==
  ASSUME NEW x, IsListener(x)
  PROVE  DeserializeListener(SerializeListener(x)) = x
<1> DEFINE y == [x EXCEPT !.end_station_interfaces = Array(SerializeInterfaceId, @),
                     !.user_to_network_requirements = SerializeUserToNetworkRequirements(@),
                     !.interface_capabilities = SerializeInterfaceCapabilities(@)]
<1>1. Shaped(x, ListenerFields) /\ IsStation(x)
  BY DEF IsListener
<1>2. /\ Shaped(y, ListenerFields) /\ y.index = x.index
      /\ y.end_station_interfaces = Array(SerializeInterfaceId, x.end_station_interfaces)
      /\ y.user_to_network_requirements =
           SerializeUserToNetworkRequirements(x.user_to_network_requirements)
      /\ y.interface_capabilities = SerializeInterfaceCapabilities(x.interface_capabilities)
  BY <1>1 DEF Shaped, ListenerFields
<1>3. SerializeListener(x) = Object(y)
  BY DEF SerializeListener
<1> HIDE DEF y
<1>4. Record(Object(y), ListenerFields) = y
  <2>1. ListenerFields \subseteq Named
    BY DEF Named
  <2> QED  BY <1>2, <2>1, RecordReturns
<1> DEFINE z == [y EXCEPT !.end_station_interfaces = Array(DeserializeInterfaceId, @),
               !.user_to_network_requirements = DeserializeUserToNetworkRequirements(@),
               !.interface_capabilities = DeserializeInterfaceCapabilities(@)]
<1>5. DeserializeListener(Object(y)) = z
  BY <1>4 DEF DeserializeListener, ListenerFields
<1>6. /\ Shaped(z, ListenerFields) /\ z.index = y.index
      /\ z.end_station_interfaces = Array(DeserializeInterfaceId, y.end_station_interfaces)
      /\ z.user_to_network_requirements =
           DeserializeUserToNetworkRequirements(y.user_to_network_requirements)
      /\ z.interface_capabilities = DeserializeInterfaceCapabilities(y.interface_capabilities)
  BY <1>2 DEF Shaped, ListenerFields
<1> HIDE DEF z
<1>7. \A f \in ListenerFields : z[f] = x[f]
  BY <1>1, <1>2, <1>6, StationReturns DEF ListenerFields
<1> QED  BY <1>1, <1>3, <1>5, <1>6, <1>7 DEF Shaped

\* The request of a stream.
LEMMA RequestReturns ==
  ASSUME NEW x, IsRequest(x)
  PROVE  DeserializeStreamRequest(SerializeStreamRequest(x)) = x
<1> DEFINE y == [x EXCEPT !.talker = SerializeTalker(@),
                          !.listener_list = Array(SerializeListener, @)]
<1>1. Shaped(x, RequestFields) /\ IsTalker(x.talker) /\ AreListeners(x.listener_list)
  BY DEF IsRequest
<1>2. /\ Shaped(y, RequestFields) /\ y.talker = SerializeTalker(x.talker)
      /\ y.listener_list = Array(SerializeListener, x.listener_list)
  BY <1>1 DEF Shaped, RequestFields
<1>3. SerializeStreamRequest(x) = Object(y)
  BY DEF SerializeStreamRequest
<1> HIDE DEF y
<1>4. Record(Object(y), RequestFields) = y
  <2>1. RequestFields \subseteq Named
    BY DEF Named
  <2> QED  BY <1>2, <2>1, RecordReturns
<1> DEFINE z == [y EXCEPT !.talker = DeserializeTalker(@),
                          !.listener_list = Array(DeserializeListener, @)]
<1>5. DeserializeStreamRequest(Object(y)) = z
  BY <1>4 DEF DeserializeStreamRequest, RequestFields
<1>6. /\ Shaped(z, RequestFields) /\ z.talker = DeserializeTalker(y.talker)
      /\ z.listener_list = Array(DeserializeListener, y.listener_list)
  BY <1>2 DEF Shaped, RequestFields
<1> HIDE DEF z
<1>7. z.listener_list = x.listener_list
  <2> DEFINE l == x.listener_list
  <2>1. IsList(l) /\ \A k \in DOMAIN l : DeserializeListener(SerializeListener(l[k])) = l[k]
    BY <1>1, ListenerReturns DEF AreListeners
  <2>2. Array(DeserializeListener, Array(SerializeListener, l)) = l
    BY <2>1 DEF Array, IsList
  <2> QED  BY <1>2, <1>6, <2>2
<1>8. \A f \in RequestFields : z[f] = x[f]
  BY <1>1, <1>2, <1>6, <1>7, TalkerReturns DEF RequestFields
<1> QED  BY <1>1, <1>3, <1>5, <1>6, <1>8 DEF Shaped

\* What the CNC computes.  A stream has one entry for each interface; the
\* index of a failed interface may be anything.
IsEntry(x) ==
  /\ Shaped(x, EntryFields) /\ Sound(x, InterfaceId)
  /\ IsList(x.config_list) /\ DOMAIN x.config_list = {"1"} /\ IsChoice(x.config_list["1"])
AreEntriesOf(x) == IsList(x) /\ \A i \in DOMAIN x : IsEntry(x[i])
IsInterfaceConfiguration(x) ==
  Shaped(x, {"interface_list"}) /\ AreEntriesOf(x.interface_list)
IsStatus(x, fields) ==
  /\ Shaped(x, fields) /\ Sound(x, fields \ {"interface_configuration"})
  /\ IsInterfaceConfiguration(x.interface_configuration)
AreStatuses(x) == IsList(x) /\ \A l \in DOMAIN x : IsStatus(x[l], ListenerStatusFields)
AreFailed(x) == IsList(x) /\ \A k \in DOMAIN x : IsLeaves(x[k], InterfaceFields)
IsConfiguration(x) ==
  /\ Shaped(x, ConfigurationFields)
  /\ IsLeaves(x.status_info, StatusInfo) /\ AreFailed(x.failed_interfaces)
  /\ IsStatus(x.talker, TalkerStatusFields) /\ AreStatuses(x.listener_list)

\* The configuration of the interfaces of a station.
LEMMA InterfacesReturn ==
  ASSUME NEW x, IsInterfaceConfiguration(x)
  PROVE  DeserializeInterfaceConfiguration(SerializeInterfaceConfiguration(x)) = x
<1> DEFINE l == x.interface_list
           a == Array(SerializeInterfaceList, l)
           y == [x EXCEPT !.interface_list = Array(SerializeInterfaceList, @)]
<1>1. ASSUME NEW e, IsEntry(e) PROVE DeserializeInterfaceList(SerializeInterfaceList(e)) = e
  <2> DEFINE f == [e EXCEPT !.config_list = Array(SerializeConfigList, @)]
             g == [f EXCEPT !.config_list = Array(DeserializeConfigList, @)]
  <2>1. /\ Shaped(e, EntryFields) /\ IsList(e.config_list)
        /\ \A c \in DOMAIN e.config_list : IsChoice(e.config_list[c])
    BY <1>1 DEF IsEntry
  <2>2. /\ Shaped(f, EntryFields) /\ f.config_list = Array(SerializeConfigList, e.config_list)
        /\ \A n \in EntryFields \ {"config_list"} : f[n] = e[n]
    BY <2>1 DEF Shaped, EntryFields
  <2>3. SerializeInterfaceList(e) = Object(f)
    BY DEF SerializeInterfaceList
  <2> HIDE DEF f
  <2>4. Record(Object(f), EntryFields) = f
    <3>1. EntryFields \subseteq Named
      BY DEF Named
    <3> QED  BY <2>2, <3>1, RecordReturns
  <2>5. DeserializeInterfaceList(Object(f)) = g
    BY <2>4 DEF DeserializeInterfaceList, EntryFields
  <2>6. g.config_list = Array(DeserializeConfigList, f.config_list)
    BY <2>2 DEF Shaped, EntryFields
  <2>7. Array(DeserializeConfigList, Array(SerializeConfigList, e.config_list)) = e.config_list
    BY <2>1, ListsReturn
  <2>8. /\ Shaped(g, EntryFields) /\ \A n \in EntryFields \ {"config_list"} : g[n] = f[n]
    BY <2>2 DEF Shaped, EntryFields
  <2> HIDE DEF g
  <2>9. \A n \in EntryFields : g[n] = e[n]
    BY <2>2, <2>6, <2>7, <2>8
  <2> QED  BY <2>1, <2>3, <2>5, <2>8, <2>9 DEF Shaped
<1>2. Shaped(x, {"interface_list"}) /\ IsList(l) /\ \A i \in DOMAIN l : IsEntry(l[i])
  BY DEF IsInterfaceConfiguration, AreEntriesOf
<1>3. Array(DeserializeInterfaceList, a) = l
  BY <1>1, <1>2 DEF Array, IsList
<1>4. Shaped(y, {"interface_list"}) /\ y.interface_list = a
  BY <1>2 DEF Shaped
<1>5. SerializeInterfaceConfiguration(x) = Object(y)
  BY DEF SerializeInterfaceConfiguration
<1> HIDE DEF y, a, l
<1>6. Object(y)["interface-list"] = a
  <2>1. {"interface_list"} \subseteq Named
    BY DEF Named
  <2>2. Object(y)[Name("interface_list")] = y["interface_list"]
    BY <1>4, <2>1, RecordReturns
  <2> QED  BY <1>4, <2>2, NamesAre
<1>7. DeserializeInterfaceConfiguration(Object(y)) = [interface_list |-> l]
  BY <1>3, <1>6 DEF DeserializeInterfaceConfiguration
<1> QED  BY <1>2, <1>5, <1>7 DEF Shaped, l

\* The status of the talker and of a listener.
LEMMA StatusReturns ==
  ASSUME NEW x
  PROVE  /\ IsStatus(x, TalkerStatusFields) =>
              DeserializeStatusTalker(SerializeStatusTalker(x)) = x
         /\ IsStatus(x, ListenerStatusFields) =>
              DeserializeStatusListener(SerializeStatusListener(x)) = x
<1> DEFINE y == [x EXCEPT !.interface_configuration = SerializeInterfaceConfiguration(@)]
           z == [y EXCEPT !.interface_configuration = DeserializeInterfaceConfiguration(@)]
<1>1. TalkerStatusFields \subseteq Named /\ ListenerStatusFields \subseteq Named
  BY DEF Named, TalkerStatusFields, ListenerStatusFields
<1>2. ASSUME NEW fields, fields \subseteq Named, "interface_configuration" \in fields,
             IsStatus(x, fields)
      PROVE  Record(Object(y), fields) = y /\ z = x
  <2>1. Shaped(x, fields) /\ IsInterfaceConfiguration(x.interface_configuration)
    BY <1>2 DEF IsStatus
  <2>2. /\ Shaped(y, fields)
        /\ y["interface_configuration"] = SerializeInterfaceConfiguration(x.interface_configuration)
        /\ \A n \in fields \ {"interface_configuration"} : y[n] = x[n]
    BY <1>2, <2>1 DEF Shaped
  <2> HIDE DEF y
  <2>3. Record(Object(y), fields) = y
    BY <1>2, <2>2, RecordReturns
  <2>4. /\ Shaped(z, fields)
        /\ z["interface_configuration"]
             = DeserializeInterfaceConfiguration(y["interface_configuration"])
        /\ \A n \in fields \ {"interface_configuration"} : z[n] = y[n]
    BY <1>2, <2>2 DEF Shaped
  <2> HIDE DEF z
  <2>5. z["interface_configuration"] = x["interface_configuration"]
    BY <2>1, <2>2, <2>4, InterfacesReturn
  <2>6. \A n \in fields : z[n] = x[n]
    BY <2>2, <2>4, <2>5
  <2> QED  BY <2>1, <2>3, <2>4, <2>6 DEF Shaped
<1>3. SerializeStatusTalker(x) = Object(y) /\ SerializeStatusListener(x) = Object(y)
  BY DEF SerializeStatusTalker, SerializeStatusListener
<1> HIDE DEF y
<1>4. /\ Record(Object(y), TalkerStatusFields) = y => DeserializeStatusTalker(Object(y)) = z
      /\ Record(Object(y), ListenerStatusFields) = y => DeserializeStatusListener(Object(y)) = z
  BY DEF DeserializeStatusTalker, DeserializeStatusListener, TalkerStatusFields,
     ListenerStatusFields
<1>5. "interface_configuration" \in TalkerStatusFields \cap ListenerStatusFields
  BY DEF TalkerStatusFields, ListenerStatusFields
<1> QED  BY <1>1, <1>2, <1>3, <1>4, <1>5

\* The configuration, in the format of the REST interface.
LEMMA ConfigurationReturns ==
  ASSUME NEW x, IsConfiguration(x)
  PROVE  DeserializeStreamConfiguration(SerializeStreamConfiguration(x)) = x
<1> DEFINE y == [x EXCEPT !.talker = SerializeStatusTalker(@),
                     !.listener_list = Array(SerializeStatusListener, @),
                     !.status_info = SerializeStatusInfo(@),
                     !.failed_interfaces = Array(SerializeInterfaceId, @)]
<1>1. Shaped(x, ConfigurationFields)
  BY DEF IsConfiguration
<1>2. /\ Shaped(y, ConfigurationFields) /\ y.talker = SerializeStatusTalker(x.talker)
      /\ y.listener_list = Array(SerializeStatusListener, x.listener_list)
      /\ y.status_info = SerializeStatusInfo(x.status_info)
      /\ y.failed_interfaces = Array(SerializeInterfaceId, x.failed_interfaces)
  BY <1>1 DEF Shaped, ConfigurationFields
<1>3. SerializeStreamConfiguration(x) = Object(y)
  BY DEF SerializeStreamConfiguration
<1> HIDE DEF y
<1>4. Record(Object(y), ConfigurationFields) = y
  <2>1. ConfigurationFields \subseteq Named
    BY DEF Named
  <2> QED  BY <1>2, <2>1, RecordReturns
<1> DEFINE z == [y EXCEPT !.talker = DeserializeStatusTalker(@),
               !.listener_list = Array(DeserializeStatusListener, @),
               !.status_info = DeserializeStatusInfo(@),
               !.failed_interfaces = Array(DeserializeInterfaceId, @)]
<1>5. DeserializeStreamConfiguration(Object(y)) = z
  BY <1>4 DEF DeserializeStreamConfiguration, ConfigurationFields
<1>6. /\ Shaped(z, ConfigurationFields) /\ z.talker = DeserializeStatusTalker(y.talker)
      /\ z.listener_list = Array(DeserializeStatusListener, y.listener_list)
      /\ z.status_info = DeserializeStatusInfo(y.status_info)
      /\ z.failed_interfaces = Array(DeserializeInterfaceId, y.failed_interfaces)
  BY <1>2 DEF Shaped, ConfigurationFields
<1> HIDE DEF z
<1>7. z.talker = x.talker /\ z.status_info = x.status_info
  BY <1>2, <1>6, StatusReturns, LeavesReturn DEF IsConfiguration, IsLeaves
<1>8. z.failed_interfaces = x.failed_interfaces
  <2>1. AreFailed(x.failed_interfaces)
    BY DEF IsConfiguration
  <2>2. Array(DeserializeInterfaceId, Array(SerializeInterfaceId, x.failed_interfaces))
          = x.failed_interfaces
    BY <2>1, ListsReturn DEF AreFailed
  <2> QED  BY <1>2, <1>6, <2>2
<1>9. z.listener_list = x.listener_list
  <2> DEFINE l == x.listener_list
  <2>1. IsList(l) /\ \A k \in DOMAIN l : DeserializeStatusListener(SerializeStatusListener(l[k])) = l[k]
    BY StatusReturns DEF IsConfiguration, AreStatuses
  <2>2. Array(DeserializeStatusListener, Array(SerializeStatusListener, l)) = l
    BY <2>1 DEF Array, IsList
  <2> QED  BY <1>2, <1>6, <2>2
<1>10. \A f \in ConfigurationFields : z[f] = x[f]
  BY <1>7, <1>8, <1>9 DEF ConfigurationFields
<1> QED  BY <1>1, <1>3, <1>5, <1>6, <1>10 DEF Shaped

\* An entry in the format of the CNC, which has no member for its type.
LEMMA CncEntryReturns ==
  ASSUME NEW x, IsChoice(x)
  PROVE  DeserializeCncConfigList(CncEntry(x)) = x
<1> DEFINE h == [index |-> x.index]
           c == SerializeCase(x.field_type, x.field)
           o == Beside(Object(h), Single(Name(x.field_type), c))
           present == {n \in 1..Len(CncCases) : Name(CncCases[n]) \in DOMAIN o}
           least == CHOOSE n \in present : \A m \in present : n <= m
<1>1. Shaped(h, {"index"}) /\ h["index"] = x.index
  BY DEF Shaped
<1>2. {"index"} \subseteq Named /\ CaseNames \subseteq Named /\ x.field_type \in CaseNames
  BY DEF Named, ChoiceFields, IsChoice
<1> HIDE DEF h
<1>3. DOMAIN Object(h) = {Name(f) : f \in {"index"}} /\ Object(h)[Name("index")] = h["index"]
  BY <1>1, <1>2, RecordReturns
<1>4. "index" \notin CaseNames
  BY DEF CaseNames
<1>5. /\ DOMAIN o = {"index", Name(x.field_type)} /\ Name(x.field_type) # "index"
  BY <1>2, <1>3, <1>4, NamesReturn, NamesAre DEF Beside, Single
<1>6. o["index"] = x.index /\ o[Name(x.field_type)] = c
  BY <1>1, <1>3, <1>5, NamesAre DEF Beside, Single
<1>7. CncEntry(x) = o
  BY DEF CncEntry, h
<1> HIDE DEF o, c
<1>8. /\ Len(CncCases) = 5 /\ CaseNames = {CncCases[n] : n \in 1..5}
      /\ \A m, n \in 1..5 : CncCases[m] = CncCases[n] => m = n
  <2>1. /\ Len(CncCases) = 5
        /\ CncCases[1] = "ieee802_mac_addresses" /\ CncCases[2] = "ieee802_vlan_tag"
        /\ CncCases[3] = "ipv4_tuple" /\ CncCases[4] = "ipv6_tuple"
        /\ CncCases[5] = "time_aware_offset"
    BY DEF CncCases
  <2>2. \A n : n \in 1..5 <=> n = 1 \/ n = 2 \/ n = 3 \/ n = 4 \/ n = 5
    OBVIOUS
  <2>3. CaseNames = {CncCases[n] : n \in 1..5}
    BY <2>1, <2>2 DEF CaseNames
  <2>4. \A m, n \in 1..5 : CncCases[m] = CncCases[n] => m = n
    BY <2>1, <2>2
  <2> QED  BY <2>1, <2>3, <2>4
<1>9. PICK n \in 1..5 : CncCases[n] = x.field_type
  BY <1>2, <1>8
<1>10. present = {n}
  <2>1. ASSUME NEW m \in 1..5 PROVE Name(CncCases[m]) \in DOMAIN o <=> m = n
    <3>1. CncCases[m] \in CaseNames
      BY <1>8
    <3>2. Name(CncCases[m]) # "index"
      BY <3>1, <1>2, <1>4, NamesReturn, NamesAre
    <3>3. Name(CncCases[m]) = Name(x.field_type) => CncCases[m] = x.field_type
      BY <3>1, <1>2, NamesReturn
    <3> QED  BY <1>5, <1>8, <1>9, <3>2, <3>3
  <2> QED  BY <1>8, <1>9, <2>1
<1>11. present # {} /\ least = n
  BY <1>10
<1> HIDE DEF present
<1>12. DeserializeCncConfigList(o)
         = [index |-> o["index"], field_type |-> CncCases[least],
            field |-> DeserializeCase(CncCases[least], o[Name(CncCases[least])])]
  BY <1>11 DEF DeserializeCncConfigList, present
<1>13. DeserializeCase(x.field_type, c) = x.field
  BY CaseReturns DEF IsChoice, c
<1>14. x = [index |-> x.index, field_type |-> x.field_type, field |-> x.field]
  BY DEF IsChoice, Shaped, ChoiceFields
<1> QED  BY <1>6, <1>7, <1>9, <1>11, <1>12, <1>13, <1>14

\* The interfaces of a station.
LEMMA CncInterfaceReturns ==
  ASSUME NEW x, IsEntry(x)
  PROVE  DeserializeCncInterfaceList(CncInterface(x)) = x
<1> DEFINE h == [mac_address |-> x.mac_address, interface_name |-> x.interface_name]
           o == CncInterface(x)
           l == x.config_list
<1>1. Shaped(h, {"mac_address", "interface_name"})
  BY DEF Shaped
<1>2. {"mac_address", "interface_name"} \subseteq Named
  BY DEF Named, EntryFields
<1>3. Record(Object(h), {"mac_address", "interface_name"}) = h
  BY <1>1, <1>2, RecordReturns
<1>4. o["config-list"] = Array(CncEntry, l) /\ o["interface-id"] = Object(h)
  BY DEF CncInterface
<1>5. Array(DeserializeCncConfigList, Array(CncEntry, l)) = l
  <2>1. IsList(l) /\ \A c \in DOMAIN l : DeserializeCncConfigList(CncEntry(l[c])) = l[c]
    BY CncEntryReturns DEF IsEntry
  <2> QED  BY <2>1 DEF Array, IsList
<1> HIDE DEF o
<1>6. DeserializeCncInterfaceList(o) = Beside(h, [config_list |-> l])
  BY <1>3, <1>4, <1>5 DEF DeserializeCncInterfaceList
<1>7. Beside(h, [config_list |-> l]) = x
  BY DEF Beside, IsEntry, Shaped, EntryFields
<1> QED  BY <1>6, <1>7 DEF o

\* The status of the talker and of a listener.
LEMMA CncStatusReturns ==
  ASSUME NEW x
  PROVE  /\ IsStatus(x, TalkerStatusFields) => DeserializeCncStatusTalker(CncPart(x)) = x
         /\ IsStatus(x, ListenerStatusFields) => DeserializeCncStatusListener(CncPart(x)) = x
<1> DEFINE l == x.interface_configuration.interface_list
           a == Array(CncInterface, l)
           h == [interface_list |-> a]
           y == [x EXCEPT !.interface_configuration =
                   Object([interface_list |-> Array(CncInterface, @.interface_list)])]
           z == [y EXCEPT !.interface_configuration = DeserializeCncInterfaceConfiguration(@)]
<1>1. /\ TalkerStatusFields \subseteq Named /\ ListenerStatusFields \subseteq Named
      /\ {"interface_list"} \subseteq Named
  BY DEF Named, TalkerStatusFields, ListenerStatusFields
<1>2. Object(h)["interface-list"] = a
  <2>1. Shaped(h, {"interface_list"}) /\ h["interface_list"] = a
    BY DEF Shaped
  <2> HIDE DEF h
  <2>2. Object(h)[Name("interface_list")] = h["interface_list"]
    BY <1>1, <2>1, RecordReturns
  <2> QED  BY <2>1, <2>2, NamesAre
<1>3. ASSUME IsInterfaceConfiguration(x.interface_configuration)
      PROVE  DeserializeCncInterfaceConfiguration(Object(h)) = x.interface_configuration
  <2>1. IsList(l) /\ \A i \in DOMAIN l : DeserializeCncInterfaceList(CncInterface(l[i])) = l[i]
    BY <1>3, CncInterfaceReturns DEF IsInterfaceConfiguration, AreEntriesOf
  <2>2. Array(DeserializeCncInterfaceList, a) = l
    BY <2>1 DEF Array, IsList
  <2> HIDE DEF a, h
  <2>3. DeserializeCncInterfaceConfiguration(Object(h)) = [interface_list |-> l]
    BY <1>2, <2>2 DEF DeserializeCncInterfaceConfiguration
  <2> QED  BY <1>3, <2>3 DEF IsInterfaceConfiguration, Shaped
<1>4. ASSUME NEW fields, fields \subseteq Named, "interface_configuration" \in fields,
             IsStatus(x, fields)
      PROVE  Record(Object(y), fields) = y /\ z = x
  <2>1. Shaped(x, fields) /\ IsInterfaceConfiguration(x.interface_configuration)
    BY <1>4 DEF IsStatus
  <2>2. /\ Shaped(y, fields) /\ y["interface_configuration"] = Object(h)
        /\ \A n \in fields \ {"interface_configuration"} : y[n] = x[n]
    BY <1>4, <2>1 DEF Shaped
  <2> HIDE DEF y, h
  <2>3. Record(Object(y), fields) = y
    BY <1>4, <2>2, RecordReturns
  <2>4. /\ Shaped(z, fields)
        /\ z["interface_configuration"]
             = DeserializeCncInterfaceConfiguration(y["interface_configuration"])
        /\ \A n \in fields \ {"interface_configuration"} : z[n] = y[n]
    BY <1>4, <2>2 DEF Shaped
  <2> HIDE DEF z
  <2>5. z["interface_configuration"] = x["interface_configuration"]
    BY <1>3, <2>1, <2>2, <2>4
  <2>6. \A n \in fields : z[n] = x[n]
    BY <2>2, <2>4, <2>5
  <2> QED  BY <2>1, <2>3, <2>4, <2>6 DEF Shaped
<1>5. CncPart(x) = Object(y)
  BY DEF CncPart
<1> HIDE DEF y
<1>6. /\ Record(Object(y), TalkerStatusFields) = y => DeserializeCncStatusTalker(Object(y)) = z
      /\ Record(Object(y), ListenerStatusFields) = y => DeserializeCncStatusListener(Object(y)) = z
  BY DEF DeserializeCncStatusTalker, DeserializeCncStatusListener, TalkerStatusFields,
     ListenerStatusFields
<1>7. "interface_configuration" \in TalkerStatusFields \cap ListenerStatusFields
  BY DEF TalkerStatusFields, ListenerStatusFields
<1> QED  BY <1>1, <1>4, <1>5, <1>6, <1>7

\* The configuration, in the format of the CNC.
LEMMA CncReturns ==
  ASSUME NEW x, IsConfiguration(x)
  PROVE  DeserializeCncStreamConfiguration(CncDocument(x)) = x
<1> DEFINE o == CncDocument(x)
           l == x.listener_list
<1>1. /\ o["status-info"] = SerializeStatusInfo(x.status_info)
      /\ o["failed-interfaces"] = Array(SerializeInterfaceId, x.failed_interfaces)
      /\ o["status-talker-listener"].first = CncPart(x.talker)
      /\ o["status-talker-listener"].others = Array(CncPart, l)
  BY DEF CncDocument
<1> HIDE DEF o
<1>2. DeserializeStatusInfo(SerializeStatusInfo(x.status_info)) = x.status_info
  BY LeavesReturn DEF IsConfiguration, IsLeaves
<1>3. Array(DeserializeInterfaceId, Array(SerializeInterfaceId, x.failed_interfaces))
        = x.failed_interfaces
  BY ListsReturn DEF IsConfiguration, AreFailed
<1>4. DeserializeCncStatusTalker(CncPart(x.talker)) = x.talker
  BY CncStatusReturns DEF IsConfiguration
<1>5. Array(DeserializeCncStatusListener, Array(CncPart, l)) = l
  <2>1. IsList(l) /\ \A k \in DOMAIN l : DeserializeCncStatusListener(CncPart(l[k])) = l[k]
    BY CncStatusReturns DEF IsConfiguration, AreStatuses
  <2> QED  BY <2>1 DEF Array, IsList
<1>6. DeserializeCncStreamConfiguration(o)
        = [status_info |-> x.status_info, failed_interfaces |-> x.failed_interfaces,
           talker |-> x.talker, listener_list |-> l]
  BY <1>1, <1>2, <1>3, <1>4, <1>5 DEF DeserializeCncStreamConfiguration
<1>7. x = [status_info |-> x.status_info, failed_interfaces |-> x.failed_interfaces,
           talker |-> x.talker, listener_list |-> l]
  BY DEF IsConfiguration, Shaped, ConfigurationFields
<1> QED  BY <1>6, <1>7 DEF o

\* The answer of the CNC, in either format, gives the stream the configuration
\* that was computed (SetComputed).  What was asked is a stream that is not
\* configured, in the format of the REST interface.
AskedSound ==
  ~emulate_opencnc =>
    \A id \in DOMAIN asked :
      /\ asked[id] = [n \in DOMAIN asked[id] |-> asked[id][n]]
      /\ "configured" \in DOMAIN asked[id] /\ "configuration" \notin DOMAIN asked[id]

LEMMA AnswerIs ==
  ASSUME AskedSound, NEW id \in DOMAIN asked, NEW kind,
         IsConfiguration(ConfigurationOf(kind, writes))
  PROVE  Answer(id, kind)[id].configuration = ConfigurationOf(kind, writes)
<1> DEFINE c == ConfigurationOf(kind, writes)
           cnc == [n \in {"stream-id", "configuration"} |->
                     IF n = "stream-id" THEN id ELSE CncDocument(c)]
           a == [asked[id] EXCEPT !["configured"] = 1]
           b == [configuration |-> SerializeStreamConfiguration(c)]
           o == Beside(a, b)
<1>1. CASE emulate_opencnc
  <2>1. cnc["configuration"] = CncDocument(c)
    OBVIOUS
  <2>2. Answer(id, kind) = DeserializeCncResponse([streams |-> Single(id, cnc)])
    BY <1>1 DEF Answer
  <2> HIDE DEF cnc, c
  <2>3. Answer(id, kind)[id] =
          [stream_id |-> cnc["stream-id"],
           configuration |-> DeserializeCncStreamConfiguration(cnc["configuration"])]
    BY <2>2 DEF DeserializeCncResponse, Array, Single
  <2> QED  BY <2>1, <2>3, CncReturns DEF c
<1>2. CASE ~emulate_opencnc
  <2>1. /\ asked[id] = [n \in DOMAIN asked[id] |-> asked[id][n]]
        /\ "configured" \in DOMAIN asked[id] /\ "configuration" \notin DOMAIN asked[id]
    BY <1>2 DEF AskedSound
  <2>2. DOMAIN a = DOMAIN asked[id] /\ a["configured"] = 1
    BY <2>1
  <2>3. Answer(id, kind) = DeserializeStreams([streams |-> Single(id, o)])
    BY <1>2 DEF Answer
  <2> HIDE DEF a, c
  <2>4. o["configured"] = 1 /\ o["configuration"] = SerializeStreamConfiguration(c)
    BY <2>1, <2>2 DEF Beside
  <2> HIDE DEF o
  <2>5. Answer(id, kind)[id] = DeserializeStream(o)
    BY <2>3 DEF DeserializeStreams, Array, Single
  <2>6. DeserializeStream(o).configuration = DeserializeStreamConfiguration(o["configuration"])
    BY <2>4 DEF DeserializeStream
  <2> QED  BY <2>4, <2>5, <2>6, ConfigurationReturns DEF c
<1> QED  BY <1>1, <1>2

\* A stream, the configuration being there only if it has one.
StreamFields == {"stream_id", "configured", "request", "configuration"}
IsStream(x) ==
  /\ Shaped(x, StreamFields) /\ x.configured \in {0, 1} /\ IsRequest(x.request)
  /\ IF x.configured = 1 THEN IsConfiguration(x.configuration) ELSE x.configuration = Null

\* A stream comes back; the members of its object are its fields.
LEMMA StreamReturns ==
  ASSUME NEW x, IsStream(x)
  PROVE  LET o == SerializeStream(x)
         IN /\ DeserializeStream(o) = x
            /\ o = [n \in DOMAIN o |-> o[n]]
            /\ "configured" \in DOMAIN o /\ (x.configured = 0 => "configuration" \notin DOMAIN o)
            /\ o["request"] = SerializeStreamRequest(x.request)
<1> DEFINE F == {"stream_id", "configured", "request"}
           h == [stream_id |-> x.stream_id, configured |-> x.configured,
                 request |-> SerializeStreamRequest(x.request)]
           c == IF x.configured = 1
                THEN [configuration |-> SerializeStreamConfiguration(x.configuration)] ELSE << >>
           o == Beside(Object(h), c)
<1>1. /\ Shaped(h, F) /\ h["stream_id"] = x.stream_id /\ h["configured"] = x.configured
      /\ h["request"] = SerializeStreamRequest(x.request)
  BY DEF Shaped
<1>2. F \subseteq Named
  BY DEF Named
<1>3. SerializeStream(x) = o
  BY DEF SerializeStream
<1>4. DOMAIN c = IF x.configured = 1 THEN {"configuration"} ELSE {}
  OBVIOUS
<1>5. x.configured = 1 => c["configuration"] = SerializeStreamConfiguration(x.configuration)
  OBVIOUS
<1> HIDE DEF h, c
<1>6. /\ DOMAIN Object(h) = {Name(f) : f \in F} /\ \A f \in F : Object(h)[Name(f)] = h[f]
  BY <1>1, <1>2, RecordReturns
<1>7. DOMAIN Object(h) = {"stream-id", "configured", "request"}
  BY <1>6, NamesAre
<1>8. /\ o["stream-id"] = x.stream_id /\ o["configured"] = x.configured
      /\ o["request"] = SerializeStreamRequest(x.request)
      /\ x.configured = 1 => o["configuration"] = SerializeStreamConfiguration(x.configuration)
      /\ DOMAIN o = DOMAIN Object(h) \cup DOMAIN c
      /\ o = [n \in DOMAIN o |-> o[n]]
  <2>1. /\ DOMAIN o = DOMAIN Object(h) \cup DOMAIN c
        /\ o = [n \in DOMAIN o |-> o[n]]
        /\ \A n \in DOMAIN o : o[n] = IF n \in DOMAIN Object(h) THEN Object(h)[n] ELSE c[n]
    BY DEF Beside
  <2>2. /\ Object(h)["stream-id"] = x.stream_id /\ Object(h)["configured"] = x.configured
        /\ Object(h)["request"] = SerializeStreamRequest(x.request)
    BY <1>1, <1>6, NamesAre
  <2> HIDE DEF o
  <2> QED  BY <1>4, <1>5, <1>7, <2>1, <2>2
<1> HIDE DEF o
<1>9. DeserializeStreamRequest(SerializeStreamRequest(x.request)) = x.request
  BY RequestReturns DEF IsStream
<1>10. x.configured = 1 =>
         DeserializeStreamConfiguration(SerializeStreamConfiguration(x.configuration))
           = x.configuration
  BY ConfigurationReturns DEF IsStream
<1>11. DeserializeStream(o)
         = [stream_id |-> x.stream_id, configured |-> x.configured, request |-> x.request,
            configuration |-> x.configuration]
  BY <1>8, <1>9, <1>10 DEF DeserializeStream, IsStream
<1>12. x = [stream_id |-> x.stream_id, configured |-> x.configured, request |-> x.request,
            configuration |-> x.configuration]
  BY DEF IsStream, Shaped, StreamFields
<1> QED  BY <1>3, <1>4, <1>7, <1>8, <1>11, <1>12

\* The interfaces of a station, moved to a member of their own and back.
LEMMA InterfacesTogether ==
  ASSUME NEW x, AreInterfaces(x)
  PROVE  Array(Together, Array(InterfaceApart, Array(SerializeInterfaceId, x)))
           = Array(SerializeInterfaceId, x)
<1>1. ASSUME NEW i, Shaped(i, InterfaceFields)
      PROVE  Together(InterfaceApart(SerializeInterfaceId(i))) = SerializeInterfaceId(i)
  <2> DEFINE o == Object(i)
             p == InterfaceApart(o)
  <2>1. DOMAIN o = {Name(f) : f \in InterfaceFields} /\ o = [n \in DOMAIN o |-> o[n]]
    <3>1. InterfaceFields \subseteq Named
      BY DEF Named
    <3>2. DOMAIN o = {Name(f) : f \in InterfaceFields}
      BY <1>1, <3>1, RecordReturns
    <3> QED  BY <3>2 DEF Object
  <2>2. DOMAIN o = {"index", "mac-address", "interface-name"}
    BY <2>1, NamesAre DEF InterfaceFields
  <2> HIDE DEF o
  <2>3. /\ p["index"] = o["index"]
        /\ p["interface-id"] = [m \in {"mac-address", "interface-name"} |-> o[m]]
    BY DEF InterfaceApart
  <2> HIDE DEF p
  <2>4. Together(p) = o
    BY <2>1, <2>2, <2>3 DEF Together, Beside
  <2> QED  BY <2>4 DEF o, p, SerializeInterfaceId
<1>2. \A k \in DOMAIN x : Together(InterfaceApart(SerializeInterfaceId(x[k])))
                            = SerializeInterfaceId(x[k])
  BY <1>1 DEF AreInterfaces, IsLeaves
<1> QED  BY <1>2 DEF Array

\* A station in the format of the CNC has the members it had.
LEMMA StationTogether ==
  ASSUME NEW o, o = [n \in DOMAIN o |-> o[n]], "end-station-interfaces" \in DOMAIN o,
         NEW x, AreInterfaces(x), o["end-station-interfaces"] = Array(SerializeInterfaceId, x),
         NEW id
  PROVE  \A n \in DOMAIN o : Station(WithStreamId(o, id))[n] = o[n]
<1> DEFINE e == "end-station-interfaces"
           a == [o EXCEPT ![e] = Array(InterfaceApart, @)]
           s == Single("stream-id", [n \in {"mac-address", "unique-id"} |->
                                       IF n = "mac-address" THEN MacOf(id) ELSE NumberOf(id)])
           w == Beside(a, s)
<1>1. WithStreamId(o, id) = w
  BY DEF WithStreamId
<1>2. /\ DOMAIN a = DOMAIN o /\ a[e] = Array(InterfaceApart, o[e])
      /\ \A n \in DOMAIN o \ {e} : a[n] = o[n]
  OBVIOUS
<1> HIDE DEF a, s
<1>3. /\ DOMAIN w = DOMAIN o \cup DOMAIN s /\ w = [n \in DOMAIN w |-> w[n]]
      /\ \A n \in DOMAIN o : w[n] = a[n]
  BY <1>2 DEF Beside
<1> HIDE DEF w
<1>4. /\ Station(w)[e] = Array(Together, w[e])
      /\ \A n \in DOMAIN w \ {e} : Station(w)[n] = w[n]
  BY <1>3 DEF Station
<1>5. Array(Together, Array(InterfaceApart, o[e])) = o[e]
  BY InterfacesTogether
<1> QED  BY <1>1, <1>2, <1>3, <1>4, <1>5

\* The talker and a listener are read of these members only.
LEMMA StationsReturn ==
  ASSUME NEW id
  PROVE  /\ \A x : IsTalker(x) =>
              DeserializeTalker(Station(WithStreamId(SerializeTalker(x), id))) = x
         /\ \A x : IsListener(x) =>
              DeserializeListener(Station(WithStreamId(SerializeListener(x), id))) = x
<1>1. ASSUME NEW fields, fields \subseteq Named, NEW y, Shaped(y, fields),
             "end_station_interfaces" \in fields, NEW x, AreInterfaces(x),
             y.end_station_interfaces = Array(SerializeInterfaceId, x)
      PROVE  Record(Station(WithStreamId(Object(y), id)), fields) = Record(Object(y), fields)
  <2> DEFINE o == Object(y)
             q == Station(WithStreamId(o, id))
  <2>1. \A f \in fields : Name(f) \in DOMAIN o /\ o[Name(f)] = y[f]
    BY <1>1, RecordReturns
  <2>2. o = [n \in DOMAIN o |-> o[n]]
    BY DEF Object
  <2>3. "end-station-interfaces" \in DOMAIN o
        /\ o["end-station-interfaces"] = Array(SerializeInterfaceId, x)
    BY <1>1, <2>1, NamesAre
  <2> HIDE DEF o
  <2>4. \A n \in DOMAIN o : q[n] = o[n]
    BY <1>1, <2>2, <2>3, StationTogether
  <2> HIDE DEF q
  <2>5. Record(q, fields) = Record(o, fields)
    BY <2>1, <2>4 DEF Record
  <2> QED  BY <2>5 DEF q, o
<1>2. ASSUME NEW x, IsTalker(x)
      PROVE  DeserializeTalker(Station(WithStreamId(SerializeTalker(x), id))) = x
  <2> DEFINE y == [x EXCEPT !.stream_rank = SerializeStreamRank(@),
                     !.end_station_interfaces = Array(SerializeInterfaceId, @),
                     !.data_frame_specification = Array(SerializeDataFrameSpecification, @),
                     !.traffic_specification = SerializeTrafficSpecification(@),
                     !.user_to_network_requirements = SerializeUserToNetworkRequirements(@),
                     !.interface_capabilities = SerializeInterfaceCapabilities(@)]
             q == Station(WithStreamId(Object(y), id))
  <2>1. Shaped(x, TalkerFields) /\ AreInterfaces(x.end_station_interfaces)
    BY <1>2 DEF IsTalker, IsStation
  <2>2. /\ Shaped(y, TalkerFields)
        /\ y.end_station_interfaces = Array(SerializeInterfaceId, x.end_station_interfaces)
    BY <2>1 DEF Shaped, TalkerFields
  <2>3. SerializeTalker(x) = Object(y)
    BY DEF SerializeTalker
  <2> HIDE DEF y
  <2>4. TalkerFields \subseteq Named /\ "end_station_interfaces" \in TalkerFields
    BY DEF Named, TalkerFields
  <2>5. Record(q, TalkerFields) = Record(Object(y), TalkerFields)
    BY <1>1, <2>1, <2>2, <2>4
  <2> HIDE DEF q
  <2>6. DeserializeTalker(q) = DeserializeTalker(Object(y))
    BY <2>5 DEF DeserializeTalker, TalkerFields
  <2> QED  BY <1>2, <2>3, <2>6, TalkerReturns DEF q
<1>3. ASSUME NEW x, IsListener(x)
      PROVE  DeserializeListener(Station(WithStreamId(SerializeListener(x), id))) = x
  <2> DEFINE y == [x EXCEPT !.end_station_interfaces = Array(SerializeInterfaceId, @),
                     !.user_to_network_requirements = SerializeUserToNetworkRequirements(@),
                     !.interface_capabilities = SerializeInterfaceCapabilities(@)]
             q == Station(WithStreamId(Object(y), id))
  <2>1. Shaped(x, ListenerFields) /\ AreInterfaces(x.end_station_interfaces)
    BY <1>3 DEF IsListener, IsStation
  <2>2. /\ Shaped(y, ListenerFields)
        /\ y.end_station_interfaces = Array(SerializeInterfaceId, x.end_station_interfaces)
    BY <2>1 DEF Shaped, ListenerFields
  <2>3. SerializeListener(x) = Object(y)
    BY DEF SerializeListener
  <2> HIDE DEF y
  <2>4. ListenerFields \subseteq Named /\ "end_station_interfaces" \in ListenerFields
    BY DEF Named, ListenerFields
  <2>5. Record(q, ListenerFields) = Record(Object(y), ListenerFields)
    BY <1>1, <2>1, <2>2, <2>4
  <2> HIDE DEF q
  <2>6. DeserializeListener(q) = DeserializeListener(Object(y))
    BY <2>5 DEF DeserializeListener, ListenerFields
  <2> QED  BY <1>3, <2>3, <2>6, ListenerReturns DEF q
<1> QED  BY <1>2, <1>3

\* A request in the format of the CNC is read, its members moved back, as the
\* request it was.
CncRequest(x, id) ==
  [SerializeStreamRequest(x) EXCEPT
      !["talker"] = WithStreamId(@, id),
      !["listener-list"] = [l \in DOMAIN @ |-> WithStreamId(@[l], id)]]
MovedBack(o) ==
  [o EXCEPT !["talker"] = Station(@), !["listener-list"] = Array(Station, @)]

LEMMA RequestTogether ==
  ASSUME NEW x, IsRequest(x), NEW id
  PROVE  DeserializeStreamRequest(MovedBack(CncRequest(x, id))) = x
<1> DEFINE y == [x EXCEPT !.talker = SerializeTalker(@),
                          !.listener_list = Array(SerializeListener, @)]
           s == Object(y)
           o == CncRequest(x, id)
           r == MovedBack(o)
           l == x.listener_list
           ls == Array(SerializeListener, l)
           lw == [k \in DOMAIN ls |-> WithStreamId(ls[k], id)]
           lb == Array(Station, lw)
<1>1. Shaped(x, RequestFields) /\ IsTalker(x.talker) /\ AreListeners(l)
  BY DEF IsRequest
<1>2. Shaped(y, RequestFields) /\ y.talker = SerializeTalker(x.talker) /\ y.listener_list = ls
  BY <1>1 DEF Shaped, RequestFields
<1>3. SerializeStreamRequest(x) = s
  BY DEF SerializeStreamRequest
<1> HIDE DEF y
<1>4. RequestFields \subseteq Named /\ RequestFields = {"talker", "listener_list"}
  BY DEF Named, RequestFields
<1>5. /\ "talker" \in DOMAIN s /\ "listener-list" \in DOMAIN s
      /\ s["talker"] = SerializeTalker(x.talker) /\ s["listener-list"] = ls
  <2> HIDE DEF s, ls
  <2>1. \A f \in RequestFields : Name(f) \in DOMAIN Object(y) /\ Object(y)[Name(f)] = y[f]
    BY <1>2, <1>4, RecordReturns
  <2> QED  BY <1>2, <1>4, <2>1, NamesAre DEF s
<1>6. s = [n \in DOMAIN s |-> s[n]]
  BY DEF Object
<1> HIDE DEF s, ls, lw, lb
<1>7. /\ DOMAIN o = DOMAIN s /\ o["talker"] = WithStreamId(s["talker"], id)
      /\ o["listener-list"] = lw
  BY <1>3, <1>5, <1>6 DEF CncRequest, lw
<1> HIDE DEF o
<1>8. r["talker"] = Station(o["talker"]) /\ r["listener-list"] = Array(Station, o["listener-list"])
  BY <1>5, <1>7 DEF MovedBack
<1> HIDE DEF r
<1>9. DeserializeTalker(r["talker"]) = x.talker
  BY <1>1, <1>5, <1>7, <1>8, StationsReturn
<1>10. Array(DeserializeListener, r["listener-list"]) = l
  <2>1. IsList(l) /\ \A k \in DOMAIN l :
          DeserializeListener(Station(WithStreamId(SerializeListener(l[k]), id))) = l[k]
    BY <1>1, StationsReturn DEF AreListeners
  <2>2. DOMAIN ls = DOMAIN l /\ \A k \in DOMAIN l : ls[k] = SerializeListener(l[k])
    BY DEF ls, Array
  <2>3. DOMAIN lw = DOMAIN l /\ \A k \in DOMAIN l : lw[k] = WithStreamId(SerializeListener(l[k]), id)
    BY <2>2 DEF lw
  <2>4. DOMAIN lb = DOMAIN l /\
        \A k \in DOMAIN l : lb[k] = Station(WithStreamId(SerializeListener(l[k]), id))
    BY <2>3 DEF lb, Array
  <2>5. Array(DeserializeListener, lb) = l
    BY <2>1, <2>4 DEF Array, IsList
  <2> QED  BY <1>7, <1>8, <2>5 DEF lb
<1>11. DeserializeStreamRequest(r) = [talker |-> x.talker, listener_list |-> l]
  <2> DEFINE q == Record(r, {"talker", "listener_list"})
  <2>1. /\ q = [f \in {"talker", "listener_list"} |-> q[f]]
        /\ q.talker = r["talker"] /\ q.listener_list = r["listener-list"]
    BY NamesAre DEF Record
  <2>2. DeserializeStreamRequest(r) =
          [q EXCEPT !.talker = DeserializeTalker(@), !.listener_list = Array(DeserializeListener, @)]
    BY DEF DeserializeStreamRequest
  <2> HIDE DEF q
  <2> DEFINE z == [q EXCEPT !.talker = DeserializeTalker(@),
                            !.listener_list = Array(DeserializeListener, @)]
  <2>3. /\ z = [f \in {"talker", "listener_list"} |-> z[f]]
        /\ z.talker = DeserializeTalker(q.talker)
        /\ z.listener_list = Array(DeserializeListener, q.listener_list)
    BY <2>1
  <2> HIDE DEF z
  <2>4. z.talker = x.talker /\ z.listener_list = l
    BY <1>9, <1>10, <2>1, <2>3
  <2>5. z = [talker |-> x.talker, listener_list |-> l]
    BY <2>3, <2>4
  <2> QED  BY <2>2, <2>5 DEF z
<1>12. x = [talker |-> x.talker, listener_list |-> l]
  BY <1>1, <1>4 DEF Shaped
<1> QED  BY <1>11, <1>12 DEF r, o

(***************************************************************************)
(* What clients and the CNC send is sound                                  *)
(***************************************************************************)
\* No text, flag, set of types, pair or structure is a mark.
LEMMA NoMarks ==
  ASSUME MarksApart
  PROVE  /\ \A m \in {Fail, Crash} : /\ m \notin OwnTexts \cup {0, 1} /\ m # Undefined /\ m # Null
                                     /\ \A types \in SUBSET CbTypes : m # types
                                     /\ \A f, v : m # <<f, v>>
         /\ \A x, fields : Shaped(x, fields) => x \notin {Fail, Crash, Undefined, Null}
<1>1. \A m \in {Fail, Crash, Undefined, Null} : m # [x \in DOMAIN m |-> m[x]]
  BY DEF MarksApart
<1>2. \A f, v : <<f, v>> = [i \in DOMAIN <<f, v>> |-> <<f, v>>[i]]
  OBVIOUS
<1>3. \A x, fields : Shaped(x, fields) => x = [f \in DOMAIN x |-> x[f]]
  BY DEF Shaped
<1>4. \A m \in {Fail, Crash} : m # Undefined /\ m # Null
  BY MarksDistinct
<1>5. \A m \in {Fail, Crash} : /\ m \notin OwnTexts \cup {0, 1}
                               /\ \A types \in SUBSET CbTypes : m # types
  BY MarksDiffer
<1>6. \A m \in {Fail, Crash} : \A f, v : m # <<f, v>>
  BY <1>1, <1>2
<1>7. \A x, fields : Shaped(x, fields) => x \notin {Fail, Crash, Undefined, Null}
  BY <1>1, <1>3
<1> QED  BY <1>4, <1>5, <1>6, <1>7

\* Structures of leaves, interfaces, choices, traffic and capabilities.
LEMMA PartsSound ==
  ASSUME MarksApart, NEW v
  PROVE  /\ \A leaves : IsLeaves(Fill(leaves, v), leaves)
         /\ \A mac, name : mac \notin {Fail, Crash} /\ name \in OwnTexts =>
              IsLeaves(InterfaceOf(mac, name), InterfaceFields)
         /\ \A type \in CaseNames : IsField(type, CaseOf(type, v))
         /\ IsTraffic(TrafficOf(v))
         /\ \A cb \in SUBSET CbTypes : IsCapabilities(CapabilitiesOf(cb, v))
<1>1. ASSUME NEW leaves PROVE IsLeaves(Fill(leaves, v), leaves)
  <2>1. \A f : <<f, v>> \notin {Fail, Crash}
    BY NoMarks
  <2> QED  BY <2>1 DEF IsLeaves, Shaped, Sound, Fill
<1>2. ASSUME NEW mac, NEW name, mac \notin {Fail, Crash}, name \in OwnTexts
      PROVE  IsLeaves(InterfaceOf(mac, name), InterfaceFields)
  <2>1. name \notin {Fail, Crash} /\ "position" \notin {Fail, Crash}
    BY <1>2, NoMarks DEF OwnTexts
  <2> QED  BY <1>2, <2>1 DEF IsLeaves, Shaped, Sound, InterfaceOf, InterfaceFields
<1>3. ASSUME NEW type \in CaseNames PROVE IsField(type, CaseOf(type, v))
  BY <1>1, NoMarks DEF IsField, CaseOf
<1>4. IsTraffic(TrafficOf(v))
  <2> DEFINE a == Fill(TrafficLeaves, v)
             b == [interval |-> Fill(Interval, v), time_aware |-> Fill(TimeAware, v)]
  <2>1. IsLeaves(a, TrafficLeaves)
    BY <1>1
  <2>2. /\ DOMAIN b = {"interval", "time_aware"}
        /\ b.interval = Fill(Interval, v) /\ b.time_aware = Fill(TimeAware, v)
    OBVIOUS
  <2>3. TrafficOf(v) = Beside(a, b)
    BY DEF TrafficOf
  <2> HIDE DEF a, b
  <2>4. DOMAIN a = TrafficLeaves
    BY <2>1 DEF IsLeaves, Shaped
  <2>5. TrafficFields = TrafficLeaves \cup {"interval", "time_aware"}
        /\ TrafficLeaves \cap {"interval", "time_aware"} = {}
    BY DEF TrafficFields, TrafficLeaves
  <2>6. /\ Shaped(Beside(a, b), TrafficFields) /\ Beside(a, b).interval = b.interval
        /\ Beside(a, b).time_aware = b.time_aware
        /\ \A f \in TrafficLeaves : Beside(a, b)[f] = a[f]
    BY <2>2, <2>4, <2>5 DEF Beside, Shaped
  <2> QED  BY <1>1, <2>1, <2>2, <2>3, <2>6 DEF IsTraffic, IsLeaves, Sound
<1>5. ASSUME NEW cb \in SUBSET CbTypes PROVE IsCapabilities(CapabilitiesOf(cb, v))
  <2> DEFINE a == Fill({"vlan_tag_capable"}, v)
             b == [cb_stream_iden_type_list |-> cb, cb_sequence_type_list |-> {}]
  <2>1. IsLeaves(a, {"vlan_tag_capable"})
    BY <1>1
  <2>2. /\ DOMAIN b = Capabilities
        /\ b["cb_stream_iden_type_list"] = cb /\ b["cb_sequence_type_list"] = {}
    BY DEF Capabilities
  <2>3. CapabilitiesOf(cb, v) = Beside(a, b)
    BY DEF CapabilitiesOf
  <2> HIDE DEF a, b
  <2>4. DOMAIN a = {"vlan_tag_capable"} /\ "vlan_tag_capable" \notin Capabilities
    BY <2>1 DEF IsLeaves, Shaped, Capabilities
  <2>5. /\ Shaped(Beside(a, b), CapabilitiesFields)
        /\ Beside(a, b)["vlan_tag_capable"] = a["vlan_tag_capable"]
        /\ \A c \in Capabilities : Beside(a, b)[c] = b[c]
    BY <2>2, <2>4 DEF Beside, Shaped, CapabilitiesFields
  <2>6. \A c \in Capabilities : b[c] \in SUBSET CbTypes
    BY <2>2 DEF Capabilities
  <2> QED  BY <2>1, <2>3, <2>5, <2>6 DEF IsCapabilities, IsLeaves, Sound
<1> QED  BY <1>1, <1>2, <1>3, <1>4, <1>5

\* The interfaces of a station.
LEMMA InterfacesSound ==
  ASSUME MarksApart, NEW macs, \A m \in macs : IsMac(m, "eth")
  PROVE  AreInterfaces(Interfaces(macs))
<1> DEFINE x == Interfaces(macs)
           M(k) == CHOOSE n \in macs : k = InterfaceKey(n, "eth")
<1>1. /\ x = [k \in DOMAIN x |-> x[k]] /\ DOMAIN x = {InterfaceKey(m, "eth") : m \in macs}
      /\ \A k \in DOMAIN x : x[k] = InterfaceOf(M(k), "eth")
  BY DEF Interfaces
<1>2. \A k \in DOMAIN x : M(k) \in macs
  BY <1>1
<1> HIDE DEF x, M
<1>3. DOMAIN x \cap CaseNames = {}
  BY <1>1 DEF IsMac
<1>4. \A m \in macs : m \notin {Fail, Crash}
  BY DEF IsMac
<1>5. ASSUME NEW k \in DOMAIN x PROVE IsLeaves(x[k], InterfaceFields) /\ x[k].index = "position"
  <2>1. IsLeaves(InterfaceOf(M(k), "eth"), InterfaceFields)
    BY <1>2, <1>4, PartsSound DEF OwnTexts
  <2> QED  BY <1>1, <2>1 DEF InterfaceOf
<1> QED  BY <1>1, <1>3, <1>5 DEF AreInterfaces, IsList, x

\* The request of a client.
LEMMA RequestSound ==
  ASSUME MarksApart, NEW kind \in Requests, NEW v
  PROVE  IsRequest(RequestOf(kind, v))
<1> DEFINE frames == [d \in {"1"} |-> [index |-> d, field_type |-> kind.frame,
                                       field |-> CaseOf(kind.frame, v)]]
           t == [stream_rank |-> Fill(StreamRank, v),
                 end_station_interfaces |-> Interfaces({"talker"}),
                 data_frame_specification |-> frames,
                 traffic_specification |-> TrafficOf(v),
                 user_to_network_requirements |-> Fill(UserToNetworkRequirements, v),
                 interface_capabilities |-> CapabilitiesOf(kind.cb, v)]
           l == [n \in DOMAIN kind.listeners |->
                  [index |-> n,
                   end_station_interfaces |-> Interfaces(kind.listeners[n]),
                   user_to_network_requirements |-> Fill(UserToNetworkRequirements, v),
                   interface_capabilities |-> CapabilitiesOf({}, v)]]
<1>1. /\ kind.frame \in DOMAIN CaseLeaves /\ kind.cb \in SUBSET CbTypes
      /\ \A n \in DOMAIN kind.listeners :
           IsKey(n) /\ \A m \in kind.listeners[n] : IsMac(m, "eth")
      /\ \A m \in {"talker"} : IsMac(m, "eth")
  BY KindsTyped DEF CbTypes
<1>2. AreFrames(frames)
  <2> DEFINE c == [index |-> "1", field_type |-> kind.frame, field |-> CaseOf(kind.frame, v)]
  <2>1. kind.frame \in CaseNames /\ kind.frame # "time_aware_offset"
    BY <1>1, CasesAre
  <2>2. "1" \notin {Fail, Crash} /\ "1" \notin CaseNames
    BY NoMarks DEF OwnTexts, CaseNames
  <2>3. IsField(kind.frame, CaseOf(kind.frame, v))
    BY <2>1, PartsSound
  <2>4. IsChoice(c) /\ c.field_type # "time_aware_offset"
    BY <2>1, <2>2, <2>3 DEF IsChoice, Shaped, Sound, ChoiceFields
  <2> HIDE DEF c
  <2>5. frames = [d \in {"1"} |-> c]
    BY DEF c
  <2> HIDE DEF frames
  <2> QED  BY <2>2, <2>4, <2>5 DEF AreFrames, IsList
<1>3. /\ AreInterfaces(Interfaces({"talker"}))
      /\ \A n \in DOMAIN kind.listeners : AreInterfaces(Interfaces(kind.listeners[n]))
  BY <1>1, InterfacesSound
<1>4. /\ \A leaves : IsLeaves(Fill(leaves, v), leaves)
      /\ IsTraffic(TrafficOf(v))
      /\ IsCapabilities(CapabilitiesOf(kind.cb, v)) /\ IsCapabilities(CapabilitiesOf({}, v))
  BY <1>1, PartsSound
<1>5. IsTalker(t)
  <2> HIDE DEF frames
  <2>1. Shaped(t, TalkerFields)
    BY DEF Shaped, TalkerFields
  <2>2. /\ t.stream_rank = Fill(StreamRank, v)
        /\ t.end_station_interfaces = Interfaces({"talker"})
        /\ t.data_frame_specification = frames /\ t.traffic_specification = TrafficOf(v)
        /\ t.user_to_network_requirements = Fill(UserToNetworkRequirements, v)
        /\ t.interface_capabilities = CapabilitiesOf(kind.cb, v)
    OBVIOUS
  <2> HIDE DEF t
  <2> QED  BY <1>2, <1>3, <1>4, <2>1, <2>2 DEF IsTalker, IsStation
<1>6. AreListeners(l)
  <2>1. l = [n \in DOMAIN l |-> l[n]] /\ DOMAIN l = DOMAIN kind.listeners
    OBVIOUS
  <2>2. ASSUME NEW n \in DOMAIN l PROVE IsListener(l[n])
    <3>1. /\ l[n].index = n /\ l[n].end_station_interfaces = Interfaces(kind.listeners[n])
          /\ l[n].user_to_network_requirements = Fill(UserToNetworkRequirements, v)
          /\ l[n].interface_capabilities = CapabilitiesOf({}, v)
          /\ Shaped(l[n], ListenerFields)
      BY <2>2 DEF Shaped, ListenerFields
    <3> HIDE DEF l
    <3>2. n \notin {Fail, Crash}
      BY <1>1, <2>1 DEF IsKey
    <3> QED  BY <1>3, <1>4, <2>1, <3>1, <3>2 DEF IsListener, IsStation, Sound
  <2>3. DOMAIN l \cap CaseNames = {}
    BY <1>1, <2>1 DEF IsKey
  <2> HIDE DEF l
  <2> QED  BY <2>1, <2>2, <2>3 DEF AreListeners, IsList
<1>7. RequestOf(kind, v) = [talker |-> t, listener_list |-> l]
  BY DEF RequestOf
<1> HIDE DEF t, l
<1> QED  BY <1>5, <1>6, <1>7 DEF IsRequest, Shaped, RequestFields

\* The configuration that the CNC computes.
LEMMA ConfigurationSound ==
  ASSUME MarksApart, NEW kind \in Configurations, NEW v
  PROVE  IsConfiguration(ConfigurationOf(kind, v))
<1> DEFINE c == [index |-> "1", field_type |-> kind.entry, field |-> CaseOf(kind.entry, v)]
           e(i) == [mac_address |-> i, interface_name |-> "eth", config_list |-> [n \in {"1"} |-> c]]
           es == [i \in kind.interfaces |-> e(i)]
           ic == [interface_list |-> es]
           part == [accumulated_latency |-> <<"latency", v>>, interface_configuration |-> ic]
           l == [n \in kind.listeners |-> Beside([index |-> n], part)]
           x == [status_info |-> Fill(StatusInfo, v),
                 failed_interfaces |-> Interfaces(kind.failed),
                 talker |-> part, listener_list |-> l]
<1>1. /\ kind.entry \in CaseNames
      /\ \A k \in kind.interfaces \cup kind.listeners : k \notin CaseNames /\ k \notin {Fail, Crash}
      /\ \A m \in kind.failed : IsMac(m, "eth")
  BY KindsTyped DEF IsKey
<1>2. IsChoice(c)
  <2>1. "1" \notin {Fail, Crash}
    BY NoMarks DEF OwnTexts
  <2>2. IsField(kind.entry, CaseOf(kind.entry, v))
    BY <1>1, PartsSound
  <2> QED  BY <1>1, <2>1, <2>2 DEF IsChoice, Shaped, Sound, ChoiceFields
<1>3. ASSUME NEW i \in kind.interfaces PROVE IsEntry(e(i))
  <2>1. "eth" \notin {Fail, Crash} /\ "1" \notin CaseNames
    BY NoMarks DEF OwnTexts, CaseNames
  <2>2. i \notin {Fail, Crash}
    BY <1>1
  <2> HIDE DEF c
  <2> DEFINE cl == [n \in {"1"} |-> c]
  <2>3. IsList(cl) /\ DOMAIN cl = {"1"} /\ IsChoice(cl["1"])
    BY <1>2, <2>1 DEF IsList
  <2> HIDE DEF cl
  <2>4. e(i) = [mac_address |-> i, interface_name |-> "eth", config_list |-> cl]
    BY DEF cl
  <2> HIDE DEF e
  <2> QED  BY <2>1, <2>2, <2>3, <2>4 DEF IsEntry, Shaped, Sound, EntryFields, InterfaceId
<1> HIDE DEF e
<1>4. AreEntriesOf(es)
  BY <1>1, <1>3 DEF AreEntriesOf, IsList
<1> HIDE DEF es
<1>5. IsInterfaceConfiguration(ic)
  BY <1>4 DEF IsInterfaceConfiguration, Shaped
<1> HIDE DEF ic
<1>6. \A f : <<f, v>> \notin {Fail, Crash}
  BY NoMarks
<1>7. IsStatus(part, TalkerStatusFields) /\ DOMAIN part = TalkerStatusFields
  BY <1>5, <1>6 DEF IsStatus, Shaped, Sound, TalkerStatusFields
<1>8. ASSUME NEW n \in kind.listeners PROVE IsStatus(Beside([index |-> n], part), ListenerStatusFields)
  <2> DEFINE b == Beside([index |-> n], part)
  <2>1. /\ Shaped(b, ListenerStatusFields) /\ b.index = n
        /\ b.accumulated_latency = part.accumulated_latency
        /\ b.interface_configuration = part.interface_configuration
    BY DEF Beside, Shaped, ListenerStatusFields
  <2>2. n \notin {Fail, Crash}
    BY <1>1
  <2>3. part.accumulated_latency \notin {Fail, Crash} /\ IsInterfaceConfiguration(part.interface_configuration)
    BY <1>7 DEF IsStatus, Sound, TalkerStatusFields
  <2> HIDE DEF b, part
  <2>4. Sound(b, ListenerStatusFields \ {"interface_configuration"})
    BY <2>1, <2>2, <2>3 DEF Sound, ListenerStatusFields
  <2>5. IsStatus(b, ListenerStatusFields)
    BY <2>1, <2>3, <2>4 DEF IsStatus
  <2> QED  BY <2>5 DEF b
<1> HIDE DEF part
<1>9. AreStatuses(l)
  BY <1>1, <1>8 DEF AreStatuses, IsList
<1> HIDE DEF l
<1>10. AreFailed(Interfaces(kind.failed))
  BY <1>1, InterfacesSound DEF AreFailed, AreInterfaces
<1>11. IsLeaves(Fill(StatusInfo, v), StatusInfo)
  BY PartsSound
<1>12. IsConfiguration(x)
  BY <1>7, <1>9, <1>10, <1>11 DEF IsConfiguration, Shaped, ConfigurationFields
<1>13. ConfigurationOf(kind, v) = x
  BY DEF ConfigurationOf, x, l, part, ic, es, e, c
<1> QED  BY <1>12, <1>13

\* A simplified request.
LEMMA SimplifiedSound ==
  ASSUME MarksApart, NEW kind \in Simplified, NEW v
  PROVE  IsRequest(SimplifiedRequest(kind, v))
<1> DEFINE Qos == Fill(UserToNetworkRequirements, v)
           Caps == [vlan_tag_capable |-> Undefined, cb_stream_iden_type_list |-> {},
                    cb_sequence_type_list |-> {}]
           Ifs(mac) == Single(InterfaceKey(mac, ""), InterfaceOf(mac, ""))
           S(mac) == [end_station_interfaces |-> Ifs(mac),
                      user_to_network_requirements |-> Qos, interface_capabilities |-> Caps]
           rank == [rank |-> Undefined]
           tag == [vlan_id |-> "0", priority_code_point |-> "6"]
           frame == [index |-> kind.index, field_type |-> "ieee802_vlan_tag", field |-> tag]
           frames == Single(kind.index, frame)
           own == [stream_rank |-> rank, traffic_specification |-> TrafficOf(v),
                   data_frame_specification |-> frames]
           t == Beside(S("talker"), own)
           l == [n \in DOMAIN kind.listeners |-> Beside([index |-> n], S(kind.listeners[n]))]
<1>1. /\ kind.index \notin CaseNames /\ kind.index \notin {Fail, Crash}
      /\ \A n \in DOMAIN kind.listeners :
           n \notin CaseNames /\ n \notin {Fail, Crash} /\ IsMac(kind.listeners[n], "")
      /\ IsMac("talker", "")
  BY KindsTyped DEF IsKey
<1>2. /\ Undefined \notin {Fail, Crash} /\ "0" \notin {Fail, Crash} /\ "6" \notin {Fail, Crash}
      /\ {} \in SUBSET CbTypes
  BY NoMarks DEF OwnTexts
<1>3. IsLeaves(Qos, UserToNetworkRequirements) /\ IsTraffic(TrafficOf(v))
  BY PartsSound
<1>4. IsCapabilities(Caps)
  BY <1>2 DEF IsCapabilities, Shaped, Sound, CapabilitiesFields, Capabilities
<1>5. IsLeaves(rank, StreamRank)
  BY <1>2 DEF IsLeaves, Shaped, Sound, StreamRank
<1>6. AreFrames(frames)
  <2>1. IsLeaves(tag, VlanTag)
    BY <1>2 DEF IsLeaves, Shaped, Sound, VlanTag
  <2> HIDE DEF tag
  <2>2. IsField("ieee802_vlan_tag", tag)
    BY <2>1, CasesAre DEF IsField
  <2>3. "ieee802_vlan_tag" \in CaseNames
    BY DEF CaseNames
  <2>4. IsChoice(frame) /\ frame.field_type # "time_aware_offset"
    <3>1. /\ Shaped(frame, ChoiceFields) /\ frame.index = kind.index
          /\ frame.field_type = "ieee802_vlan_tag" /\ frame.field = tag
      BY DEF Shaped, ChoiceFields
    <3> HIDE DEF frame
    <3> QED  BY <1>1, <2>2, <2>3, <3>1 DEF IsChoice, Sound
  <2> HIDE DEF frame
  <2> QED  BY <1>1, <2>4 DEF AreFrames, IsList, Single
<1>7. ASSUME NEW mac, IsMac(mac, "") PROVE AreInterfaces(Ifs(mac))
  <2>1. IsLeaves(InterfaceOf(mac, ""), InterfaceFields)
    BY <1>7, PartsSound DEF IsMac, OwnTexts
  <2>2. InterfaceOf(mac, "").index = "position"
    BY DEF InterfaceOf
  <2> QED  BY <1>7, <2>1, <2>2 DEF AreInterfaces, IsList, Single, IsMac
<1> HIDE DEF Qos, Caps, Ifs, rank, frames
<1>8. ASSUME NEW mac
      PROVE  /\ DOMAIN S(mac) = {"end_station_interfaces", "user_to_network_requirements",
                                 "interface_capabilities"}
             /\ S(mac).end_station_interfaces = Ifs(mac)
             /\ S(mac).user_to_network_requirements = Qos
             /\ S(mac).interface_capabilities = Caps
  OBVIOUS
<1>9. /\ DOMAIN own = {"stream_rank", "traffic_specification", "data_frame_specification"}
      /\ own.stream_rank = rank /\ own.traffic_specification = TrafficOf(v)
      /\ own.data_frame_specification = frames
  OBVIOUS
<1> HIDE DEF S, own
<1>10. IsTalker(t)
  <2>1. /\ Shaped(t, TalkerFields) /\ t.end_station_interfaces = Ifs("talker")
        /\ t.user_to_network_requirements = Qos /\ t.interface_capabilities = Caps
        /\ t.stream_rank = rank /\ t.traffic_specification = TrafficOf(v)
        /\ t.data_frame_specification = frames
    BY <1>8, <1>9 DEF Beside, Shaped, TalkerFields
  <2> HIDE DEF t
  <2>2. IsStation(t)
    BY <1>1, <1>3, <1>4, <1>7, <2>1 DEF IsStation
  <2> QED  BY <1>3, <1>5, <1>6, <2>1, <2>2 DEF IsTalker
<1>11. ASSUME NEW n \in DOMAIN kind.listeners
       PROVE  IsListener(Beside([index |-> n], S(kind.listeners[n])))
  <2> DEFINE b == Beside([index |-> n], S(kind.listeners[n]))
  <2>1. /\ Shaped(b, ListenerFields) /\ b.index = n
        /\ b.end_station_interfaces = Ifs(kind.listeners[n])
        /\ b.user_to_network_requirements = Qos /\ b.interface_capabilities = Caps
    BY <1>8 DEF Beside, Shaped, ListenerFields
  <2> HIDE DEF b
  <2>2. IsStation(b)
    BY <1>1, <1>3, <1>4, <1>7, <2>1 DEF IsStation
  <2>3. Sound(b, {"index"})
    BY <1>1, <2>1 DEF Sound
  <2>4. IsListener(b)
    BY <2>1, <2>2, <2>3 DEF IsListener
  <2> QED  BY <2>4 DEF b
<1>12. AreListeners(l)
  BY <1>1, <1>11 DEF AreListeners, IsList
<1>13. SimplifiedRequest(kind, v) = [talker |-> t, listener_list |-> l]
  <2>1. /\ DeserializeUserToNetworkRequirements(SerializeUserToNetworkRequirements(Qos)) = Qos
        /\ DeserializeTrafficSpecification(SerializeTrafficSpecification(TrafficOf(v)))
             = TrafficOf(v)
    BY <1>3, LeavesReturn, TrafficReturns DEF IsLeaves
  <2> DEFINE devices == [n \in DOMAIN kind.listeners |-> [mac |-> kind.listeners[n]]]
             qs == [n \in DOMAIN kind.listeners |-> Qos]
             talker == [mac |-> "talker"]
  <2>2. SimplifiedRequest(kind, v)
          = CreateStreamRequest(talker, devices, TrafficOf(v), Qos, qs, kind.index)
    BY <2>1 DEF SimplifiedRequest, Qos
  <2>3. /\ DOMAIN devices = DOMAIN kind.listeners
        /\ \A n \in DOMAIN kind.listeners : devices[n].mac = kind.listeners[n] /\ qs[n] = Qos
        /\ talker.mac = "talker"
    OBVIOUS
  <2> HIDE DEF devices, qs, talker
  <2> DEFINE ll == [n \in DOMAIN devices |->
                     Beside([index |-> n],
                       [end_station_interfaces |->
                          Single(InterfaceKey(devices[n].mac, ""), InterfaceOf(devices[n].mac, "")),
                        user_to_network_requirements |-> qs[n],
                        interface_capabilities |-> Caps])]
             tt == Beside([end_station_interfaces |->
                             Single(InterfaceKey(talker.mac, ""), InterfaceOf(talker.mac, "")),
                           user_to_network_requirements |-> Qos,
                           interface_capabilities |-> Caps], own)
  <2>4. CreateStreamRequest(talker, devices, TrafficOf(v), Qos, qs, kind.index)
          = [talker |-> tt, listener_list |-> ll]
    BY DEF CreateStreamRequest, own, rank, frames, Caps
  <2>5. ll = l
    BY <2>3 DEF S, Ifs
  <2>6. tt = t
    <3>1. [end_station_interfaces |->
             Single(InterfaceKey(talker.mac, ""), InterfaceOf(talker.mac, "")),
           user_to_network_requirements |-> Qos, interface_capabilities |-> Caps] = S("talker")
      BY <2>3 DEF S, Ifs
    <3> QED  BY <3>1
  <2> HIDE DEF tt, ll, t, l
  <2> QED  BY <2>2, <2>4, <2>5, <2>6
<1> HIDE DEF t, l
<1> QED  BY <1>10, <1>12, <1>13 DEF IsRequest, Shaped, RequestFields

(***************************************************************************)
(* What the datastore has of a stream: the leaves and, for each list, the  *)
(* keys of the entries                                                     *)
(***************************************************************************)
InterfacesAre(s, p, x) ==
  Keys(s, p) = DOMAIN x /\ \A k \in DOMAIN x : Holds(s, p ++ k, InterfaceId, x[k])
CapabilitiesAre(s, p, x) ==
  Holds(s, p, {"vlan_tag_capable"}, x) /\ \A c \in Capabilities : Keys(s, p ++ c) = x[c]
FieldIs(s, p, type, v) ==
  IF type = "time_aware_offset" THEN Get(s, p) = v ELSE Holds(s, p, CaseLeaves[type], v)
ChoiceIs(s, p, x) ==
  /\ Holds(s, p, {"index"}, x) /\ Keys(s, p) = {"index", x.field_type}
  /\ FieldIs(s, p ++ x.field_type, x.field_type, x.field)
ChoicesAre(s, p, x) ==
  Keys(s, p) = DOMAIN x /\ \A k \in DOMAIN x : ChoiceIs(s, p ++ k, x[k])

TrafficIs(s, p, x) ==
  /\ Holds(s, p, TrafficLeaves, x) /\ Holds(s, p ++ "interval", Interval, x.interval)
  /\ Holds(s, p ++ "time_aware", TimeAware, x.time_aware)
StationIs(s, p, x) ==
  /\ InterfacesAre(s, p ++ "end_station_interfaces", x.end_station_interfaces)
  /\ Holds(s, p ++ "user_to_network_requirements", UserToNetworkRequirements,
           x.user_to_network_requirements)
  /\ CapabilitiesAre(s, p ++ "interface_capabilities", x.interface_capabilities)
TalkerIs(s, p, x) ==
  /\ StationIs(s, p, x) /\ Holds(s, p ++ "stream_rank", StreamRank, x.stream_rank)
  /\ ChoicesAre(s, p ++ "data_frame_specification", x.data_frame_specification)
  /\ TrafficIs(s, p ++ "traffic_specification", x.traffic_specification)
ListenerIs(s, p, x) == Holds(s, p, {"index"}, x) /\ StationIs(s, p, x)
ListenersAre(s, p, x) ==
  Keys(s, p) = DOMAIN x /\ \A l \in DOMAIN x : ListenerIs(s, p ++ l, x[l])
RequestIs(s, p, x) ==
  TalkerIs(s, p ++ "talker", x.talker) /\ ListenersAre(s, p ++ "listener_list", x.listener_list)

EntryIs(s, p, x) ==
  Holds(s, p, InterfaceId, x) /\ ChoicesAre(s, p ++ "config_list", x.config_list)
EntriesKept(s, p, x) ==
  Keys(s, p) = DOMAIN x /\ \A i \in DOMAIN x : EntryIs(s, p ++ i, x[i])
StatusIs(s, p, x, fields) ==
  /\ Holds(s, p, fields \ {"interface_configuration"}, x)
  /\ EntriesKept(s, p ++ "interface_configuration" ++ "interface_list",
                 x.interface_configuration.interface_list)
StatusesAre(s, p, x) ==
  Keys(s, p) = DOMAIN x /\ \A l \in DOMAIN x : StatusIs(s, p ++ l, x[l], ListenerStatusFields)
ConfigurationIs(s, p, x) ==
  /\ Holds(s, p ++ "status_info", StatusInfo, x.status_info)
  /\ InterfacesAre(s, p ++ "failed_interfaces", x.failed_interfaces)
  /\ StatusIs(s, p ++ "talker", x.talker, TalkerStatusFields)
  /\ StatusesAre(s, p ++ "listener_list", x.listener_list)

\* All of this depends on what is below the path only.
LEMMA PartsStill ==
  ASSUME NEW s, NEW t, NEW p, Alike(s, t, p), NEW x
  PROVE  /\ InterfacesAre(t, p, x) => InterfacesAre(s, p, x)
         /\ CapabilitiesAre(t, p, x) => CapabilitiesAre(s, p, x)
         /\ ChoiceIs(t, p, x) => ChoiceIs(s, p, x)
         /\ TrafficIs(t, p, x) => TrafficIs(s, p, x)
<1>1. /\ \A f : Alike(s, t, p ++ f) /\ Keys(s, p ++ f) = Keys(t, p ++ f) /\ Get(s, p ++ f) = Get(t, p ++ f)
      /\ Keys(s, p) = Keys(t, p) /\ Get(s, p) = Get(t, p)
  BY AlikeFurther, AlikeRead
<1>2. /\ \A fields, y : Holds(t, p, fields, y) => Holds(s, p, fields, y)
      /\ \A f, fields, y : Holds(t, p ++ f, fields, y) => Holds(s, p ++ f, fields, y)
  BY <1>1, HoldsStill
<1>3. InterfacesAre(t, p, x) => InterfacesAre(s, p, x)
  BY <1>1, <1>2 DEF InterfacesAre
<1>4. CapabilitiesAre(t, p, x) => CapabilitiesAre(s, p, x)
  BY <1>1, <1>2 DEF CapabilitiesAre
<1>5. \A f, type, y : FieldIs(t, p ++ f, type, y) => FieldIs(s, p ++ f, type, y)
  BY <1>1, <1>2 DEF FieldIs
<1>6. ChoiceIs(t, p, x) => ChoiceIs(s, p, x)
  BY <1>1, <1>2, <1>5 DEF ChoiceIs
<1>7. TrafficIs(t, p, x) => TrafficIs(s, p, x)
  BY <1>1, <1>2 DEF TrafficIs
<1> QED  BY <1>3, <1>4, <1>6, <1>7

\* A station, a talker, a listener.
LEMMA StationsStill ==
  ASSUME NEW s, NEW t, NEW p, Alike(s, t, p), NEW x
  PROVE  /\ ChoicesAre(t, p, x) => ChoicesAre(s, p, x)
         /\ StationIs(t, p, x) => StationIs(s, p, x)
         /\ ListenerIs(t, p, x) => ListenerIs(s, p, x)
<1>1. (\A f : Alike(s, t, p ++ f)) /\ Keys(s, p) = Keys(t, p)
  BY AlikeFurther, AlikeRead
<1>2. /\ \A fields, y : Holds(t, p, fields, y) => Holds(s, p, fields, y)
      /\ \A f, fields, y : Holds(t, p ++ f, fields, y) => Holds(s, p ++ f, fields, y)
  BY <1>1, HoldsStill
<1>3. \A f, y : /\ ChoiceIs(t, p ++ f, y) => ChoiceIs(s, p ++ f, y)
                /\ InterfacesAre(t, p ++ f, y) => InterfacesAre(s, p ++ f, y)
                /\ CapabilitiesAre(t, p ++ f, y) => CapabilitiesAre(s, p ++ f, y)
  BY <1>1, PartsStill
<1>4. ChoicesAre(t, p, x) => ChoicesAre(s, p, x)
  BY <1>1, <1>3 DEF ChoicesAre
<1>5. StationIs(t, p, x) => StationIs(s, p, x)
  BY <1>2, <1>3 DEF StationIs
<1>6. ListenerIs(t, p, x) => ListenerIs(s, p, x)
  BY <1>2, <1>5 DEF ListenerIs
<1> QED  BY <1>4, <1>5, <1>6

\* The talker, the listeners, an entry of an interface.
LEMMA TalkersStill ==
  ASSUME NEW s, NEW t, NEW q, Alike(s, t, q), NEW y
  PROVE  /\ TalkerIs(t, q, y) => TalkerIs(s, q, y)
         /\ ListenersAre(t, q, y) => ListenersAre(s, q, y)
         /\ EntryIs(t, q, y) => EntryIs(s, q, y)
<1>1. (\A f : Alike(s, t, q ++ f)) /\ Keys(s, q) = Keys(t, q)
  BY AlikeFurther, AlikeRead
<1>2. /\ \A fields, z : Holds(t, q, fields, z) => Holds(s, q, fields, z)
      /\ \A f, fields, z : Holds(t, q ++ f, fields, z) => Holds(s, q ++ f, fields, z)
  BY <1>1, HoldsStill
<1>3. /\ StationIs(t, q, y) => StationIs(s, q, y)
      /\ \A f, z : ChoicesAre(t, q ++ f, z) => ChoicesAre(s, q ++ f, z)
      /\ \A f, z : TrafficIs(t, q ++ f, z) => TrafficIs(s, q ++ f, z)
      /\ \A f, z : ListenerIs(t, q ++ f, z) => ListenerIs(s, q ++ f, z)
  BY <1>1, StationsStill, PartsStill
<1>4. TalkerIs(t, q, y) => TalkerIs(s, q, y)
  BY <1>2, <1>3 DEF TalkerIs
<1>5. ListenersAre(t, q, y) => ListenersAre(s, q, y)
  BY <1>1, <1>3 DEF ListenersAre
<1>6. EntryIs(t, q, y) => EntryIs(s, q, y)
  BY <1>2, <1>3 DEF EntryIs
<1> QED  BY <1>4, <1>5, <1>6

\* A list of entries.
LEMMA EntriesStill ==
  ASSUME NEW s, NEW t, NEW p, Alike(s, t, p), NEW x, EntriesKept(t, p, x)
  PROVE  EntriesKept(s, p, x)
<1>1. Keys(s, p) = Keys(t, p) /\ \A i : Alike(s, t, p ++ i)
  BY AlikeFurther, AlikeRead
<1> QED  BY <1>1, TalkersStill DEF EntriesKept

\* The whole request, and the status of a station.
LEMMA RequestStill ==
  ASSUME NEW s, NEW t, NEW p, Alike(s, t, p), NEW x
  PROVE  /\ RequestIs(t, p, x) => RequestIs(s, p, x)
         /\ \A fields : StatusIs(t, p, x, fields) => StatusIs(s, p, x, fields)
<1>1. \A f : Alike(s, t, p ++ f)
  BY AlikeFurther
<1>2. RequestIs(t, p, x) => RequestIs(s, p, x)
  BY <1>1, TalkersStill DEF RequestIs
<1>3. ASSUME NEW fields, StatusIs(t, p, x, fields) PROVE StatusIs(s, p, x, fields)
  <2> DEFINE l == p ++ "interface_configuration" ++ "interface_list"
             z == x.interface_configuration.interface_list
  <2>1. Alike(s, t, l)
    BY <1>1, AlikeFurther
  <2>2. EntriesKept(t, l, z)
    BY <1>3 DEF StatusIs
  <2> HIDE DEF l, z
  <2>3. EntriesKept(s, l, z)
    BY <2>1, <2>2, EntriesStill
  <2>4. Holds(s, p, fields \ {"interface_configuration"}, x)
    BY <1>3, HoldsStill DEF StatusIs
  <2> QED  BY <2>3, <2>4 DEF StatusIs, l, z
<1> QED  BY <1>2, <1>3

\* The status of the listeners.
LEMMA StatusesStill ==
  ASSUME NEW s, NEW t, NEW p, Alike(s, t, p), NEW x, StatusesAre(t, p, x)
  PROVE  StatusesAre(s, p, x)
<1>1. Keys(s, p) = Keys(t, p) /\ \A k : Alike(s, t, p ++ k)
  BY AlikeFurther, AlikeRead
<1> QED  BY <1>1, RequestStill DEF StatusesAre

\* The whole configuration.
LEMMA ConfigurationStill ==
  ASSUME NEW s, NEW t, NEW p, Alike(s, t, p), NEW x
  PROVE  ConfigurationIs(t, p, x) => ConfigurationIs(s, p, x)
<1>1. \A f : Alike(s, t, p ++ f)
  BY AlikeFurther
<1>2. \A f, y : StatusesAre(t, p ++ f, y) => StatusesAre(s, p ++ f, y)
  BY <1>1, StatusesStill
<1>3. \A f, fields, y : /\ Holds(t, p ++ f, fields, y) => Holds(s, p ++ f, fields, y)
                        /\ StatusIs(t, p ++ f, y, fields) => StatusIs(s, p ++ f, y, fields)
  BY <1>1, HoldsStill, RequestStill
<1>4. \A f, y : InterfacesAre(t, p ++ f, y) => InterfacesAre(s, p ++ f, y)
  BY <1>1, PartsStill
<1> QED  BY <1>2, <1>3, <1>4 DEF ConfigurationIs

(***************************************************************************)
(* What the writers put into a document                                    *)
(***************************************************************************)
\* A list of interfaces.
LEMMA InterfacesWritten ==
  ASSUME NEW p, Path(p), NEW x, \A k \in DOMAIN x : IsLeaves(x[k], InterfaceFields)
  PROVE  /\ Under(PutEntries(p, WriteInterface, x), p)
         /\ InterfacesAre(PutEntries(p, WriteInterface, x), p, x)
<1> DEFINE K == DOMAIN x
           D == [k \in K |-> WriteInterface(p ++ k, x[k])]
           docs == {WriteInterface(p ++ k, x[k]) : k \in K}
           u == Union(docs)
<1>1. PutEntries(p, WriteInterface, x) = u
  BY DEF PutEntries
<1>2. AreEntries(docs, p, K, D)
  <2>1. \A k \in K : Under(D[k], p ++ k)
    BY Longer, LeavesAre DEF WriteInterface
  <2> QED  BY <2>1 DEF AreEntries
<1>3. \A k \in K : Holds(D[k], p ++ k, InterfaceId, x[k])
  BY Longer, LeavesAre DEF WriteInterface, Holds, Get
<1> HIDE DEF D, docs, u
<1>4. /\ Under(u, p) /\ Leafed(u) /\ \A k \in K : Alike(u, D[k], p ++ k)
      /\ \A k : k \notin K => Blank(u, p ++ k)
  BY <1>2, EntriesAre DEF u
<1>5. ASSUME NEW k \in K PROVE Holds(u, p ++ k, InterfaceId, x[k])
  <2> DEFINE d == D[k]
  <2>1. Alike(u, d, p ++ k) /\ Holds(d, p ++ k, InterfaceId, x[k])
    BY <1>3, <1>4
  <2> HIDE DEF d
  <2> QED  BY <2>1, HoldsStill
<1>6. ASSUME NEW k \in K PROVE k \in Keys(u, p)
  <2>1. Get(u, p ++ k ++ "mac_address") # Fail
    BY <1>5, <1>6 DEF Holds, InterfaceId, IsLeaves, Sound, InterfaceFields
  <2> QED  BY <1>4, <2>1, HeldKey
<1>7. \A k : k \notin K => k \notin Keys(u, p)
  BY <1>4, BlankIs, KeysAre DEF Blank
<1>8. Keys(u, p) = K
  BY <1>6, <1>7
<1> QED  BY <1>1, <1>4, <1>5, <1>8 DEF InterfacesAre

\* The capabilities of an interface.
LEMMA CapabilitiesWritten ==
  ASSUME NEW p, Path(p), NEW x
  PROVE  /\ Under(WriteInterfaceCapabilities(p, x), p)
         /\ CapabilitiesAre(WriteInterfaceCapabilities(p, x), p, x)
<1> DEFINE D == [c \in Capabilities |-> PutValues(p ++ c, x[c])]
           docs == {PutLeaves(p, {"vlan_tag_capable"}, x),
                    PutValues(p ++ "cb_stream_iden_type_list", x.cb_stream_iden_type_list),
                    PutValues(p ++ "cb_sequence_type_list", x.cb_sequence_type_list)}
           u == Union(docs)
<1>1. WriteInterfaceCapabilities(p, x) = u
  BY DEF WriteInterfaceCapabilities
<1>2. \A c \in Capabilities : Under(D[c], p ++ c) /\ Keys(D[c], p ++ c) = x[c]
  BY Longer, ValuesAre
<1>3. ArePartsOf(docs, p, {"vlan_tag_capable"}, x, Capabilities, D)
  BY <1>2 DEF ArePartsOf, Capabilities
<1> HIDE DEF D, docs, u
<1>4. /\ Under(u, p) /\ Holds(u, p, {"vlan_tag_capable"}, x)
      /\ \A c \in Capabilities : Alike(u, D[c], p ++ c)
  BY <1>3, PartsAre DEF u
<1>5. \A c \in Capabilities : Keys(u, p ++ c) = x[c]
  BY <1>2, <1>4, AlikeRead
<1> QED  BY <1>1, <1>4, <1>5 DEF CapabilitiesAre

\* A choice: the entry has the one case.
LEMMA ChoiceWritten ==
  ASSUME NEW p, Path(p), NEW x, IsChoice(x)
  PROVE  /\ Under(WriteConfigList(p, x), p) /\ ChoiceIs(WriteConfigList(p, x), p, x)
         /\ x.field_type # "time_aware_offset" =>
              WriteDataFrameSpecification(p, x) = WriteConfigList(p, x)
<1> DEFINE type == x.field_type
           c == IF type = "time_aware_offset" THEN PutLeaf(p ++ type, x.field)
                ELSE PutLeaves(p ++ type, CaseLeaves[type], x.field)
           D == [t \in {type} |-> c]
           docs == {PutLeaves(p, {"index"}, x), c}
           u == Union(docs)
<1>1. WriteConfigList(p, x) = u
  BY DEF WriteConfigList
<1>2. type \in CaseNames /\ IsField(type, x.field) /\ "index" # type /\ x.index # Fail
  BY DEF IsChoice, Sound, CaseNames
<1>3. Path(p ++ type) /\ Below(p ++ type, p ++ type)
  BY Longer, BelowIs
<1>4. Under(c, p ++ type) /\ FieldIs(c, p ++ type, type, x.field) /\ DOMAIN c # {}
  <2>1. CASE type = "time_aware_offset"
    <3> DEFINE d == PutLeaf(p ++ type, x.field)
    <3>1. Leafed(d) /\ DOMAIN d = {p ++ type} /\ d[p ++ type] = x.field
      BY <1>3 DEF PutLeaf, Leafed
    <3>2. c = d
      BY <2>1
    <3> HIDE DEF c, d
    <3> QED  BY <1>3, <2>1, <3>1, <3>2 DEF Under, FieldIs, Get
  <2>2. CASE type # "time_aware_offset"
    <3> DEFINE d == PutLeaves(p ++ type, CaseLeaves[type], x.field)
    <3>1. /\ Under(d, p ++ type)
          /\ \A f \in CaseLeaves[type] : p ++ type ++ f \in DOMAIN d /\ d[p ++ type ++ f] = x.field[f]
      BY <1>3, LeavesAre
    <3>2. \E f : f \in CaseLeaves[type]
      <4> HIDE DEF type
      <4>1. type \in {"ieee802_mac_addresses", "ieee802_vlan_tag", "ipv4_tuple", "ipv6_tuple"}
        BY <1>2, <2>2 DEF CaseNames
      <4>2. CASE type = "ieee802_mac_addresses"
        BY <4>2, CasesAre DEF MacAddresses
      <4>3. CASE type = "ieee802_vlan_tag"
        BY <4>3, CasesAre DEF VlanTag
      <4>4. CASE type = "ipv4_tuple"
        BY <4>4, CasesAre DEF IPv4Tuple
      <4>5. CASE type = "ipv6_tuple"
        BY <4>5, CasesAre DEF IPv6Tuple
      <4> QED  BY <4>1, <4>2, <4>3, <4>4, <4>5
    <3>3. c = d
      BY <2>2
    <3> HIDE DEF c, d
    <3> QED  BY <2>2, <3>1, <3>2, <3>3 DEF FieldIs, Holds, Get
  <2> QED  BY <2>1, <2>2
<1>5. type # "time_aware_offset" => WriteDataFrameSpecification(p, x) = u
  BY DEF WriteDataFrameSpecification
<1> HIDE DEF c
<1>6. ArePartsOf(docs, p, {"index"}, x, {type}, D)
  BY <1>2, <1>4 DEF ArePartsOf
<1>7. D[type] = c
  OBVIOUS
<1> HIDE DEF D, docs, u, type
<1>8. /\ Under(u, p) /\ Leafed(u) /\ Holds(u, p, {"index"}, x) /\ Alike(u, c, p ++ type)
      /\ \A k : k \notin {type} /\ k \notin {"index"} => Blank(u, p ++ k)
  BY <1>6, <1>7, PartsAre DEF u
<1>9. FieldIs(u, p ++ type, type, x.field)
  BY <1>4, <1>8, HoldsStill, AlikeRead DEF FieldIs
<1>10. Keys(u, p) = {"index", type}
  <2>1. \A k : k \in Keys(u, p) <=> ~Blank(u, p ++ k)
    BY <1>8, KeysAre DEF Blank
  <2>2. p ++ "index" \in DOMAIN u
    BY <1>2, <1>8 DEF Holds, Get
  <2>3. ~Blank(u, p ++ "index")
    BY <2>2, Longer, BelowIs DEF Blank
  <2>4. ~Blank(u, p ++ type)
    BY <1>4, <1>8, AlikeBlank DEF Blank, Under
  <2> QED  BY <1>8, <2>1, <2>3, <2>4
<1>11. ChoiceIs(u, p, x)
  BY <1>8, <1>9, <1>10 DEF ChoiceIs, type
<1> QED  BY <1>1, <1>5, <1>8, <1>11 DEF type

\* The frame specifications of a talker and the entries of an interface.
LEMMA ChoicesWritten ==
  ASSUME NEW p, Path(p), NEW x, \A k \in DOMAIN x : IsChoice(x[k])
  PROVE  LET a == PutEntries(p, WriteConfigList, x)
             b == PutEntries(p, WriteDataFrameSpecification, x)
         IN /\ Under(a, p) /\ ChoicesAre(a, p, x)
            /\ (\A k \in DOMAIN x : x[k].field_type # "time_aware_offset") => b = a
<1> DEFINE K == DOMAIN x
           D == [k \in K |-> WriteConfigList(p ++ k, x[k])]
           docs == {WriteConfigList(p ++ k, x[k]) : k \in K}
           others == {WriteDataFrameSpecification(p ++ k, x[k]) : k \in K}
           u == Union(docs)
<1>1. PutEntries(p, WriteConfigList, x) = u /\ PutEntries(p, WriteDataFrameSpecification, x) = Union(others)
  BY DEF PutEntries
<1>2. \A k \in K : Path(p ++ k) /\ Under(D[k], p ++ k) /\ ChoiceIs(D[k], p ++ k, x[k])
  BY Longer, ChoiceWritten
<1>3. AreEntries(docs, p, K, D)
  BY <1>2 DEF AreEntries
<1>4. (\A k \in K : x[k].field_type # "time_aware_offset") => others = docs
  <2>1. ASSUME \A k \in K : x[k].field_type # "time_aware_offset"
        PROVE  \A k \in K : WriteDataFrameSpecification(p ++ k, x[k]) = WriteConfigList(p ++ k, x[k])
    BY <1>2, <2>1, ChoiceWritten
  <2> QED  BY <2>1
<1> HIDE DEF D, docs, u, others
<1>5. /\ Under(u, p) /\ Leafed(u) /\ \A k \in K : Alike(u, D[k], p ++ k)
      /\ \A k : k \notin K => Blank(u, p ++ k)
  BY <1>3, EntriesAre DEF u
<1>6. ASSUME NEW k \in K PROVE ChoiceIs(u, p ++ k, x[k])
  <2> DEFINE d == D[k]
  <2>1. Alike(u, d, p ++ k) /\ ChoiceIs(d, p ++ k, x[k])
    BY <1>2, <1>5
  <2> HIDE DEF d
  <2> QED  BY <2>1, PartsStill
<1>7. ASSUME NEW k \in K PROVE k \in Keys(u, p)
  <2>1. Get(u, p ++ k ++ "index") # Fail
    BY <1>6, <1>7 DEF ChoiceIs, Holds, IsChoice, Sound
  <2> QED  BY <1>5, <2>1, HeldKey
<1>8. \A k : k \notin K => k \notin Keys(u, p)
  BY <1>5, KeysAre DEF Blank
<1>9. Keys(u, p) = K
  BY <1>7, <1>8
<1> QED  BY <1>1, <1>4, <1>5, <1>6, <1>9 DEF ChoicesAre, u

\* The traffic specification.
LEMMA TrafficWritten ==
  ASSUME NEW p, Path(p), NEW x
  PROVE  /\ Under(WriteTrafficSpecification(p, x), p)
         /\ TrafficIs(WriteTrafficSpecification(p, x), p, x)
<1> DEFINE D == [interval |-> PutLeaves(p ++ "interval", Interval, x.interval),
                 time_aware |-> PutLeaves(p ++ "time_aware", TimeAware, x.time_aware)]
           K == {"interval", "time_aware"}
           docs == {PutLeaves(p, TrafficLeaves, x), PutLeaves(p ++ "interval", Interval, x.interval),
                    PutLeaves(p ++ "time_aware", TimeAware, x.time_aware)}
           u == Union(docs)
<1>1. WriteTrafficSpecification(p, x) = u
  BY DEF WriteTrafficSpecification
<1>2. /\ Path(p ++ "interval") /\ Path(p ++ "time_aware")
      /\ D["interval"] = PutLeaves(p ++ "interval", Interval, x.interval)
      /\ D["time_aware"] = PutLeaves(p ++ "time_aware", TimeAware, x.time_aware)
  BY Longer
<1>3. /\ Under(D["interval"], p ++ "interval") /\ Under(D["time_aware"], p ++ "time_aware")
      /\ Holds(D["interval"], p ++ "interval", Interval, x.interval)
      /\ Holds(D["time_aware"], p ++ "time_aware", TimeAware, x.time_aware)
  BY <1>2, LeavesAre DEF Holds, Get
<1>4. ArePartsOf(docs, p, TrafficLeaves, x, K, D)
  BY <1>3 DEF ArePartsOf, TrafficLeaves
<1> HIDE DEF D, docs, u
<1>5. /\ Under(u, p) /\ Holds(u, p, TrafficLeaves, x)
      /\ Alike(u, D["interval"], p ++ "interval") /\ Alike(u, D["time_aware"], p ++ "time_aware")
  BY <1>4, PartsAre DEF u
<1>6. Holds(u, p ++ "interval", Interval, x.interval)
  BY <1>3, <1>5, HoldsStill
<1>7. Holds(u, p ++ "time_aware", TimeAware, x.time_aware)
  BY <1>3, <1>5, HoldsStill
<1> QED  BY <1>1, <1>5, <1>6, <1>7 DEF TrafficIs

\* The parts that a talker and a listener have alike.
LEMMA StationWritten ==
  ASSUME NEW p, Path(p), NEW x, IsStation(x), NEW u,
         Alike(u, PutEntries(p ++ "end_station_interfaces", WriteInterface, x.end_station_interfaces),
               p ++ "end_station_interfaces"),
         Alike(u, PutLeaves(p ++ "user_to_network_requirements", UserToNetworkRequirements,
                            x.user_to_network_requirements), p ++ "user_to_network_requirements"),
         Alike(u, WriteInterfaceCapabilities(p ++ "interface_capabilities",
                            x.interface_capabilities), p ++ "interface_capabilities")
  PROVE  StationIs(u, p, x)
<1> DEFINE a == PutEntries(p ++ "end_station_interfaces", WriteInterface, x.end_station_interfaces)
           b == PutLeaves(p ++ "user_to_network_requirements", UserToNetworkRequirements,
                          x.user_to_network_requirements)
           c == WriteInterfaceCapabilities(p ++ "interface_capabilities", x.interface_capabilities)
<1>1. \A f : Path(p ++ f)
  BY Longer
<1>2. \A k \in DOMAIN x.end_station_interfaces :
         IsLeaves(x.end_station_interfaces[k], InterfaceFields)
  BY DEF IsStation, AreInterfaces
<1>3. InterfacesAre(a, p ++ "end_station_interfaces", x.end_station_interfaces)
  BY <1>1, <1>2, InterfacesWritten
<1>4. Holds(b, p ++ "user_to_network_requirements", UserToNetworkRequirements,
            x.user_to_network_requirements)
  BY <1>1, LeavesAre DEF Holds, Get
<1>5. CapabilitiesAre(c, p ++ "interface_capabilities", x.interface_capabilities)
  BY <1>1, CapabilitiesWritten
<1>6. /\ Alike(u, a, p ++ "end_station_interfaces")
      /\ Alike(u, b, p ++ "user_to_network_requirements")
      /\ Alike(u, c, p ++ "interface_capabilities")
  OBVIOUS
<1> HIDE DEF a, b, c
<1>7. InterfacesAre(u, p ++ "end_station_interfaces", x.end_station_interfaces)
  BY <1>3, <1>6, PartsStill
<1>8. Holds(u, p ++ "user_to_network_requirements", UserToNetworkRequirements,
            x.user_to_network_requirements)
  BY <1>4, <1>6, HoldsStill
<1>9. CapabilitiesAre(u, p ++ "interface_capabilities", x.interface_capabilities)
  BY <1>5, <1>6, PartsStill
<1> QED  BY <1>7, <1>8, <1>9 DEF StationIs

\* The talker.
LEMMA TalkerWritten ==
  ASSUME NEW p, Path(p), NEW x, IsTalker(x)
  PROVE  TalkerIs(WriteTalker(p, x), p, x)
<1> DEFINE rank == PutLeaves(p ++ "stream_rank", StreamRank, x.stream_rank)
           faces == PutEntries(p ++ "end_station_interfaces", WriteInterface,
                               x.end_station_interfaces)
           frames == PutEntries(p ++ "data_frame_specification", WriteDataFrameSpecification,
                                x.data_frame_specification)
           traffic == WriteTrafficSpecification(p ++ "traffic_specification",
                                                x.traffic_specification)
           needs == PutLeaves(p ++ "user_to_network_requirements", UserToNetworkRequirements,
                              x.user_to_network_requirements)
           able == WriteInterfaceCapabilities(p ++ "interface_capabilities",
                                              x.interface_capabilities)
           D == [stream_rank |-> rank, end_station_interfaces |-> faces,
                 data_frame_specification |-> frames, traffic_specification |-> traffic,
                 user_to_network_requirements |-> needs, interface_capabilities |-> able]
           docs == {rank, faces, frames, traffic, needs, able}
           u == Union(docs)
<1>1. WriteTalker(p, x) = u
  BY DEF WriteTalker
<1>2. \A f : Path(p ++ f)
  BY Longer
<1>3. /\ Under(rank, p ++ "stream_rank") /\ Holds(rank, p ++ "stream_rank", StreamRank, x.stream_rank)
      /\ Under(needs, p ++ "user_to_network_requirements")
  BY <1>2, LeavesAre DEF Holds, Get
<1>4. Under(faces, p ++ "end_station_interfaces") /\ Under(able, p ++ "interface_capabilities")
  BY <1>2, InterfacesUnder
<1>5. /\ Under(frames, p ++ "data_frame_specification")
      /\ ChoicesAre(frames, p ++ "data_frame_specification", x.data_frame_specification)
  <2>1. \A k \in DOMAIN x.data_frame_specification :
           /\ IsChoice(x.data_frame_specification[k])
           /\ x.data_frame_specification[k].field_type # "time_aware_offset"
    BY DEF IsTalker, AreFrames
  <2> DEFINE a == PutEntries(p ++ "data_frame_specification", WriteConfigList,
                             x.data_frame_specification)
  <2>2. /\ Under(a, p ++ "data_frame_specification") /\ frames = a
        /\ ChoicesAre(a, p ++ "data_frame_specification", x.data_frame_specification)
    BY <1>2, <2>1, ChoicesWritten
  <2> HIDE DEF a, frames
  <2> QED  BY <2>2
<1>6. /\ Under(traffic, p ++ "traffic_specification")
      /\ TrafficIs(traffic, p ++ "traffic_specification", x.traffic_specification)
  BY <1>2, TrafficWritten
<1> HIDE DEF rank, faces, frames, traffic, needs, able
<1>7. /\ D["stream_rank"] = rank /\ D["end_station_interfaces"] = faces
      /\ D["data_frame_specification"] = frames /\ D["traffic_specification"] = traffic
      /\ D["user_to_network_requirements"] = needs /\ D["interface_capabilities"] = able
  OBVIOUS
<1> HIDE DEF D
<1>8. AreEntries(docs, p, TalkerFields, D)
  BY <1>3, <1>4, <1>5, <1>6, <1>7 DEF AreEntries, TalkerFields
<1> HIDE DEF docs, u
<1>9. \A k \in TalkerFields : Alike(u, D[k], p ++ k)
  BY <1>2, <1>8, EntriesAre DEF u
<1>10. /\ Alike(u, rank, p ++ "stream_rank") /\ Alike(u, faces, p ++ "end_station_interfaces")
       /\ Alike(u, frames, p ++ "data_frame_specification")
       /\ Alike(u, traffic, p ++ "traffic_specification")
       /\ Alike(u, needs, p ++ "user_to_network_requirements")
       /\ Alike(u, able, p ++ "interface_capabilities")
  BY <1>7, <1>9 DEF TalkerFields
<1>11. StationIs(u, p, x)
  BY <1>10, StationWritten DEF IsTalker, faces, needs, able
<1>12. Holds(u, p ++ "stream_rank", StreamRank, x.stream_rank)
  BY <1>3, <1>10, HoldsStill
<1>13. ChoicesAre(u, p ++ "data_frame_specification", x.data_frame_specification)
  BY <1>5, <1>10, StationsStill
<1>14. TrafficIs(u, p ++ "traffic_specification", x.traffic_specification)
  BY <1>6, <1>10, PartsStill
<1> QED  BY <1>1, <1>11, <1>12, <1>13, <1>14 DEF TalkerIs

\* A listener.
LEMMA ListenerWritten ==
  ASSUME NEW p, Path(p), NEW x, IsListener(x)
  PROVE  Under(WriteListener(p, x), p) /\ ListenerIs(WriteListener(p, x), p, x)
<1> DEFINE faces == PutEntries(p ++ "end_station_interfaces", WriteInterface,
                               x.end_station_interfaces)
           needs == PutLeaves(p ++ "user_to_network_requirements", UserToNetworkRequirements,
                              x.user_to_network_requirements)
           able == WriteInterfaceCapabilities(p ++ "interface_capabilities",
                                              x.interface_capabilities)
           D == [end_station_interfaces |-> faces, user_to_network_requirements |-> needs,
                 interface_capabilities |-> able]
           K == {"end_station_interfaces", "user_to_network_requirements",
                 "interface_capabilities"}
           docs == {PutLeaves(p, {"index"}, x), faces, needs, able}
           u == Union(docs)
<1>1. WriteListener(p, x) = u
  BY DEF WriteListener
<1>2. \A f : Path(p ++ f)
  BY Longer
<1>3. /\ Under(faces, p ++ "end_station_interfaces") /\ Under(able, p ++ "interface_capabilities")
      /\ Under(needs, p ++ "user_to_network_requirements")
  BY <1>2, InterfacesUnder, LeavesAre
<1> HIDE DEF faces, needs, able
<1>4. /\ D["end_station_interfaces"] = faces /\ D["user_to_network_requirements"] = needs
      /\ D["interface_capabilities"] = able
  OBVIOUS
<1> HIDE DEF D
<1>5. ArePartsOf(docs, p, {"index"}, x, K, D)
  BY <1>3, <1>4 DEF ArePartsOf
<1> HIDE DEF docs, u
<1>6. Under(u, p) /\ Holds(u, p, {"index"}, x) /\ \A k \in K : Alike(u, D[k], p ++ k)
  BY <1>5, PartsAre DEF u
<1>7. /\ Alike(u, faces, p ++ "end_station_interfaces")
      /\ Alike(u, needs, p ++ "user_to_network_requirements")
      /\ Alike(u, able, p ++ "interface_capabilities")
  BY <1>4, <1>6
<1>8. StationIs(u, p, x)
  BY <1>7, StationWritten DEF IsListener, faces, needs, able
<1> QED  BY <1>1, <1>6, <1>8 DEF ListenerIs

\* The listeners.
LEMMA ListenersWritten ==
  ASSUME NEW p, Path(p), NEW x, AreListeners(x)
  PROVE  LET a == PutEntries(p, WriteListener, x) IN Under(a, p) /\ ListenersAre(a, p, x)
<1> DEFINE K == DOMAIN x
           D == [k \in K |-> WriteListener(p ++ k, x[k])]
           docs == {WriteListener(p ++ k, x[k]) : k \in K}
           u == Union(docs)
<1>1. PutEntries(p, WriteListener, x) = u
  BY DEF PutEntries
<1>2. \A k \in K : Path(p ++ k) /\ Under(D[k], p ++ k) /\ ListenerIs(D[k], p ++ k, x[k])
  BY Longer, ListenerWritten DEF AreListeners
<1>3. AreEntries(docs, p, K, D)
  BY <1>2 DEF AreEntries
<1> HIDE DEF D, docs, u
<1>4. /\ Under(u, p) /\ Leafed(u) /\ \A k \in K : Alike(u, D[k], p ++ k)
      /\ \A k : k \notin K => Blank(u, p ++ k)
  BY <1>3, EntriesAre DEF u
<1>5. ASSUME NEW k \in K PROVE ListenerIs(u, p ++ k, x[k])
  <2> DEFINE d == D[k]
  <2>1. Alike(u, d, p ++ k) /\ ListenerIs(d, p ++ k, x[k])
    BY <1>2, <1>4
  <2> HIDE DEF d
  <2> QED  BY <2>1, StationsStill
<1>6. ASSUME NEW k \in K PROVE k \in Keys(u, p)
  <2>1. Get(u, p ++ k ++ "index") # Fail
    BY <1>5, <1>6 DEF ListenerIs, Holds, AreListeners, IsListener, Sound
  <2> QED  BY <1>4, <2>1, HeldKey
<1>7. \A k : k \notin K => k \notin Keys(u, p)
  BY <1>4, KeysAre DEF Blank
<1>8. Keys(u, p) = K
  BY <1>6, <1>7
<1> QED  BY <1>1, <1>4, <1>5, <1>8 DEF ListenersAre, u

\* The whole request.
LEMMA RequestWritten ==
  ASSUME NEW p, Path(p), NEW x, IsRequest(x)
  PROVE  RequestIs(WriteRequest(p, x), p, x)
<1> DEFINE a == WriteTalker(p ++ "talker", x.talker)
           b == PutEntries(p ++ "listener_list", WriteListener, x.listener_list)
           D == [talker |-> a, listener_list |-> b]
           docs == {a, b}
           u == Union(docs)
<1>1. WriteRequest(p, x) = u
  BY DEF WriteRequest
<1>2. Path(p ++ "talker") /\ Path(p ++ "listener_list")
  BY Longer
<1>3. Under(a, p ++ "talker") /\ TalkerIs(a, p ++ "talker", x.talker)
  BY <1>2, TalkerUnder, TalkerWritten DEF IsRequest
<1>4. Under(b, p ++ "listener_list") /\ ListenersAre(b, p ++ "listener_list", x.listener_list)
  BY <1>2, ListenersWritten DEF IsRequest
<1> HIDE DEF a, b
<1>5. D["talker"] = a /\ D["listener_list"] = b
  OBVIOUS
<1> HIDE DEF D
<1>6. AreEntries(docs, p, RequestFields, D)
  BY <1>3, <1>4, <1>5 DEF AreEntries, RequestFields
<1> HIDE DEF docs, u
<1>7. Alike(u, a, p ++ "talker") /\ Alike(u, b, p ++ "listener_list")
  BY <1>5, <1>6, EntriesAre DEF u, RequestFields
<1>8. TalkerIs(u, p ++ "talker", x.talker)
  BY <1>3, <1>7, TalkersStill
<1>9. ListenersAre(u, p ++ "listener_list", x.listener_list)
  BY <1>4, <1>7, TalkersStill
<1> QED  BY <1>1, <1>8, <1>9 DEF RequestIs

\* The entry of an interface.
LEMMA EntryWritten ==
  ASSUME NEW p, Path(p), NEW x, IsEntry(x)
  PROVE  Under(WriteInterfaceList(p, x), p) /\ EntryIs(WriteInterfaceList(p, x), p, x)
<1> DEFINE a == PutEntries(p ++ "config_list", WriteConfigList, x.config_list)
           D == [config_list |-> a]
           docs == {PutLeaves(p, InterfaceId, x), a}
           u == Union(docs)
<1>1. WriteInterfaceList(p, x) = u
  BY DEF WriteInterfaceList
<1>2. Under(a, p ++ "config_list") /\ ChoicesAre(a, p ++ "config_list", x.config_list)
  <2>1. Path(p ++ "config_list") /\ \A k \in DOMAIN x.config_list : IsChoice(x.config_list[k])
    BY Longer DEF IsEntry
  <2> QED  BY <2>1, ChoicesWritten
<1> HIDE DEF a
<1>3. D["config_list"] = a
  OBVIOUS
<1> HIDE DEF D
<1>4. ArePartsOf(docs, p, InterfaceId, x, {"config_list"}, D)
  BY <1>2, <1>3 DEF ArePartsOf, InterfaceId
<1> HIDE DEF docs, u
<1>5. Under(u, p) /\ Holds(u, p, InterfaceId, x) /\ Alike(u, a, p ++ "config_list")
  BY <1>3, <1>4, PartsAre DEF u
<1>6. ChoicesAre(u, p ++ "config_list", x.config_list)
  BY <1>2, <1>5, StationsStill
<1> QED  BY <1>1, <1>5, <1>6 DEF EntryIs

\* The interfaces of a station.
LEMMA EntriesWritten ==
  ASSUME NEW p, Path(p), NEW x, AreEntriesOf(x)
  PROVE  LET a == PutEntries(p, WriteInterfaceList, x) IN Under(a, p) /\ EntriesKept(a, p, x)
<1> DEFINE K == DOMAIN x
           D == [k \in K |-> WriteInterfaceList(p ++ k, x[k])]
           docs == {WriteInterfaceList(p ++ k, x[k]) : k \in K}
           u == Union(docs)
<1>1. PutEntries(p, WriteInterfaceList, x) = u
  BY DEF PutEntries
<1>2. \A k \in K : Path(p ++ k) /\ Under(D[k], p ++ k) /\ EntryIs(D[k], p ++ k, x[k])
  BY Longer, EntryWritten DEF AreEntriesOf
<1>3. AreEntries(docs, p, K, D)
  BY <1>2 DEF AreEntries
<1> HIDE DEF D, docs, u
<1>4. /\ Under(u, p) /\ Leafed(u) /\ \A k \in K : Alike(u, D[k], p ++ k)
      /\ \A k : k \notin K => Blank(u, p ++ k)
  BY <1>3, EntriesAre DEF u
<1>5. ASSUME NEW k \in K PROVE EntryIs(u, p ++ k, x[k])
  <2> DEFINE d == D[k]
  <2>1. Alike(u, d, p ++ k) /\ EntryIs(d, p ++ k, x[k])
    BY <1>2, <1>4
  <2> HIDE DEF d
  <2> QED  BY <2>1, TalkersStill
<1>6. ASSUME NEW k \in K PROVE k \in Keys(u, p)
  <2>1. Get(u, p ++ k ++ "mac_address") # Fail
    BY <1>5, <1>6 DEF EntryIs, Holds, AreEntriesOf, IsEntry, Sound, InterfaceId
  <2> QED  BY <1>4, <2>1, HeldKey
<1>7. \A k : k \notin K => k \notin Keys(u, p)
  BY <1>4, KeysAre DEF Blank
<1>8. Keys(u, p) = K
  BY <1>6, <1>7
<1> QED  BY <1>1, <1>4, <1>5, <1>8 DEF EntriesKept, u

\* The status of the talker and of a listener.
LEMMA StatusWritten ==
  ASSUME NEW p, Path(p), NEW x
  PROVE  /\ IsStatus(x, TalkerStatusFields) =>
              StatusIs(WriteStatusTalker(p, x), p, x, TalkerStatusFields)
         /\ IsStatus(x, ListenerStatusFields) =>
              StatusIs(WriteStatusListener(p, x), p, x, ListenerStatusFields)
<1> DEFINE ic == p ++ "interface_configuration"
           z == x.interface_configuration.interface_list
           a == PutEntries(ic ++ "interface_list", WriteInterfaceList, z)
           Doc(leaves) == Union({PutLeaves(p, leaves, x), a})
<1>1. /\ WriteStatusTalker(p, x) = Doc({"accumulated_latency"})
      /\ WriteStatusListener(p, x) = Doc({"index", "accumulated_latency"})
  BY DEF WriteStatusTalker, WriteStatusListener, WriteInterfaceConfiguration
<1>2. ASSUME NEW fields, IsStatus(x, fields),
             NEW leaves, leaves = fields \ {"interface_configuration"}
      PROVE  StatusIs(Doc(leaves), p, x, fields)
  <2> DEFINE D == [interface_configuration |-> a]
             docs == {PutLeaves(p, leaves, x), a}
             u == Union(docs)
  <2>1. Path(ic) /\ Path(ic ++ "interface_list")
    BY Longer
  <2>2. AreEntriesOf(z)
    BY <1>2 DEF IsStatus, IsInterfaceConfiguration
  <2> HIDE DEF ic, z
  <2>3. Under(a, ic ++ "interface_list") /\ EntriesKept(a, ic ++ "interface_list", z)
    BY <2>1, <2>2, EntriesWritten
  <2>4. Under(a, ic)
    BY <2>1, <2>3, UnderFurther
  <2> HIDE DEF a
  <2>5. D["interface_configuration"] = a
    OBVIOUS
  <2> HIDE DEF D
  <2>6. ArePartsOf(docs, p, leaves, x, {"interface_configuration"}, D)
    BY <1>2, <2>4, <2>5 DEF ArePartsOf, ic
  <2> HIDE DEF docs, u
  <2>7. Holds(u, p, leaves, x) /\ Alike(u, a, ic)
    BY <2>5, <2>6, PartsAre DEF u, ic
  <2>8. Alike(u, a, ic ++ "interface_list")
    BY <2>7, AlikeFurther
  <2>9. EntriesKept(u, ic ++ "interface_list", z)
    BY <2>3, <2>8, EntriesStill
  <2>10. StatusIs(u, p, x, fields)
    BY <1>2, <2>7, <2>9 DEF StatusIs, ic, z
  <2> QED  BY <2>10 DEF u, docs
<1> HIDE DEF Doc
<1>3. /\ {"accumulated_latency"} = TalkerStatusFields \ {"interface_configuration"}
      /\ {"index", "accumulated_latency"} = ListenerStatusFields \ {"interface_configuration"}
  BY DEF TalkerStatusFields, ListenerStatusFields
<1>4. IsStatus(x, TalkerStatusFields) =>
        StatusIs(Doc({"accumulated_latency"}), p, x, TalkerStatusFields)
  BY <1>2, <1>3
<1>5. IsStatus(x, ListenerStatusFields) =>
        StatusIs(Doc({"index", "accumulated_latency"}), p, x, ListenerStatusFields)
  BY <1>2, <1>3
<1> QED  BY <1>1, <1>4, <1>5

\* The status of the listeners.
LEMMA StatusesWritten ==
  ASSUME NEW p, Path(p), NEW x, AreStatuses(x)
  PROVE  LET a == PutEntries(p, WriteStatusListener, x) IN Under(a, p) /\ StatusesAre(a, p, x)
<1> DEFINE K == DOMAIN x
           D == [k \in K |-> WriteStatusListener(p ++ k, x[k])]
           docs == {WriteStatusListener(p ++ k, x[k]) : k \in K}
           u == Union(docs)
<1>1. PutEntries(p, WriteStatusListener, x) = u
  BY DEF PutEntries
<1>2. ASSUME NEW k \in K
      PROVE  /\ Path(p ++ k) /\ Under(D[k], p ++ k)
             /\ StatusIs(D[k], p ++ k, x[k], ListenerStatusFields)
  <2>1. Path(p ++ k) /\ IsStatus(x[k], ListenerStatusFields)
    BY Longer DEF AreStatuses
  <2>2. /\ Under(WriteStatusListener(p ++ k, x[k]), p ++ k)
        /\ StatusIs(WriteStatusListener(p ++ k, x[k]), p ++ k, x[k], ListenerStatusFields)
    BY <2>1, StatusWritten, StatusUnder
  <2> QED  BY <2>1, <2>2
<1>3. AreEntries(docs, p, K, D)
  BY <1>2 DEF AreEntries
<1> HIDE DEF D, docs, u
<1>4. /\ Under(u, p) /\ Leafed(u) /\ \A k \in K : Alike(u, D[k], p ++ k)
      /\ \A k : k \notin K => Blank(u, p ++ k)
  BY <1>3, EntriesAre DEF u
<1>5. ASSUME NEW k \in K PROVE StatusIs(u, p ++ k, x[k], ListenerStatusFields)
  <2> DEFINE d == D[k]
  <2>1. Alike(u, d, p ++ k) /\ StatusIs(d, p ++ k, x[k], ListenerStatusFields)
    BY <1>2, <1>4
  <2> HIDE DEF d
  <2> QED  BY <2>1, RequestStill
<1>6. ASSUME NEW k \in K PROVE k \in Keys(u, p)
  <2>1. "index" \in ListenerStatusFields \ {"interface_configuration"}
    BY DEF ListenerStatusFields
  <2>2. Get(u, p ++ k ++ "index") # Fail
    BY <1>5, <1>6, <2>1 DEF StatusIs, Holds, AreStatuses, IsStatus, Sound
  <2> QED  BY <1>4, <2>2, HeldKey
<1>7. \A k : k \notin K => k \notin Keys(u, p)
  BY <1>4, KeysAre DEF Blank
<1>8. Keys(u, p) = K
  BY <1>6, <1>7
<1> QED  BY <1>1, <1>4, <1>5, <1>8 DEF StatusesAre, u

\* The whole configuration.
LEMMA ConfigurationWritten ==
  ASSUME NEW p, Path(p), NEW x, IsConfiguration(x)
  PROVE  ConfigurationIs(WriteConfiguration(p, x), p, x)
<1> DEFINE a == PutLeaves(p ++ "status_info", StatusInfo, x.status_info)
           b == PutEntries(p ++ "failed_interfaces", WriteInterface, x.failed_interfaces)
           c == WriteStatusTalker(p ++ "talker", x.talker)
           d == PutEntries(p ++ "listener_list", WriteStatusListener, x.listener_list)
           D == [status_info |-> a, failed_interfaces |-> b, talker |-> c, listener_list |-> d]
           docs == {a, b, c, d}
           u == Union(docs)
<1>1. WriteConfiguration(p, x) = u
  BY DEF WriteConfiguration
<1>2. \A f : Path(p ++ f)
  BY Longer
<1>3. Under(a, p ++ "status_info") /\ Holds(a, p ++ "status_info", StatusInfo, x.status_info)
  BY <1>2, LeavesAre DEF Holds, Get
<1>4. Under(b, p ++ "failed_interfaces") /\ InterfacesAre(b, p ++ "failed_interfaces", x.failed_interfaces)
  <2>1. \A k \in DOMAIN x.failed_interfaces : IsLeaves(x.failed_interfaces[k], InterfaceFields)
    BY DEF IsConfiguration, AreFailed
  <2> QED  BY <1>2, <2>1, InterfacesWritten
<1>5. Under(c, p ++ "talker") /\ StatusIs(c, p ++ "talker", x.talker, TalkerStatusFields)
  BY <1>2, StatusUnder, StatusWritten DEF IsConfiguration
<1>6. Under(d, p ++ "listener_list") /\ StatusesAre(d, p ++ "listener_list", x.listener_list)
  BY <1>2, StatusesWritten DEF IsConfiguration
<1> HIDE DEF a, b, c, d
<1>7. D["status_info"] = a /\ D["failed_interfaces"] = b /\ D["talker"] = c /\ D["listener_list"] = d
  OBVIOUS
<1> HIDE DEF D
<1>8. AreEntries(docs, p, ConfigurationFields, D)
  BY <1>3, <1>4, <1>5, <1>6, <1>7 DEF AreEntries, ConfigurationFields
<1> HIDE DEF docs, u
<1>9. /\ Alike(u, a, p ++ "status_info") /\ Alike(u, b, p ++ "failed_interfaces")
      /\ Alike(u, c, p ++ "talker") /\ Alike(u, d, p ++ "listener_list")
  BY <1>7, <1>8, EntriesAre DEF u, ConfigurationFields
<1>10. Holds(u, p ++ "status_info", StatusInfo, x.status_info)
  BY <1>3, <1>9, HoldsStill
<1>11. InterfacesAre(u, p ++ "failed_interfaces", x.failed_interfaces)
  BY <1>4, <1>9, PartsStill
<1>12. StatusIs(u, p ++ "talker", x.talker, TalkerStatusFields)
  BY <1>5, <1>9, RequestStill
<1>13. StatusesAre(u, p ++ "listener_list", x.listener_list)
  BY <1>6, <1>9, StatusesStill
<1> QED  BY <1>1, <1>10, <1>11, <1>12, <1>13 DEF ConfigurationIs

(***************************************************************************)
(* What a write leaves in the datastore: the merge of what was there and   *)
(* what is written                                                         *)
(***************************************************************************)
Merging(s, d, p) == Leafed(s) /\ Leafed(d) /\ Path(p) /\ Plain(p)

\* The same at the names that are no cases, and what a merge has of a leaf.
LEMMA MergingFurther ==
  ASSUME NEW s, NEW d, NEW p, Merging(s, d, p)
  PROVE  /\ \A f : f \notin CaseNames => Merging(s, d, p ++ f)
         /\ \A fields, x : Holds(d, p, fields, x) /\ Sound(x, fields) =>
              Holds(Merge(s, d), p, fields, x)
         /\ \A f, fields, x : Holds(d, p ++ f, fields, x) /\ Sound(x, fields) =>
              Holds(Merge(s, d), p ++ f, fields, x)
BY PlainFurther, MergedHolds DEF Merging, Sound

\* A merged list has the entries of both.
LEMMA ListsMerged ==
  ASSUME NEW a, IsList(a), NEW b, IsList(b)
  PROVE  /\ IsList(MergeLists(a, b)) /\ DOMAIN MergeLists(a, b) = DOMAIN a \cup DOMAIN b
         /\ \A k \in DOMAIN a \cup DOMAIN b :
              MergeLists(a, b)[k] = IF k \notin DOMAIN b THEN a[k] ELSE b[k]
<1> DEFINE c == MergeLists(a, b)
<1>1. c = [k \in DOMAIN a \cup DOMAIN b |->
              IF k \notin DOMAIN b THEN a[k] ELSE IF k \notin DOMAIN a THEN b[k] ELSE b[k]]
  BY DEF MergeLists, MergeEntries, Latest
<1>2. c = [k \in DOMAIN c |-> c[k]] /\ DOMAIN c = DOMAIN a \cup DOMAIN b
  BY <1>1
<1>3. \A k \in DOMAIN a \cup DOMAIN b : c[k] = IF k \notin DOMAIN b THEN a[k] ELSE b[k]
  BY <1>1
<1> HIDE DEF c
<1>4. IsList(c)
  BY <1>2 DEF IsList
<1> QED  BY <1>2, <1>3, <1>4 DEF c

\* Interfaces.
LEMMA InterfacesMerged ==
  ASSUME NEW s, NEW d, NEW p, Merging(s, d, p), NEW a, AreFailed(a), NEW b, AreFailed(b),
         InterfacesAre(s, p, a), InterfacesAre(d, p, b)
  PROVE  /\ InterfacesAre(Merge(s, d), p, MergeLists(a, b)) /\ AreFailed(MergeLists(a, b))
         /\ AreInterfaces(a) /\ AreInterfaces(b) => AreInterfaces(MergeLists(a, b))
<1> DEFINE m == Merge(s, d)
           c == MergeLists(a, b)
<1>1. /\ Keys(s, p) = DOMAIN a /\ Keys(d, p) = DOMAIN b
      /\ Keys(s, p) \cap CaseNames = {} /\ Keys(d, p) \cap CaseNames = {}
  BY DEF InterfacesAre, AreFailed, IsList
<1>2. /\ Keys(m, p) = DOMAIN a \cup DOMAIN b
      /\ \A k \in DOMAIN a \cup DOMAIN b :
            Path(p ++ k) /\ Plain(p ++ k) /\ (k \notin DOMAIN b => Alike(m, s, p ++ k))
  BY <1>1, MergedEntries DEF Merging
<1>3. /\ IsList(c) /\ DOMAIN c = DOMAIN a \cup DOMAIN b
      /\ \A k \in DOMAIN c : c[k] = IF k \notin DOMAIN b THEN a[k] ELSE b[k]
  BY ListsMerged DEF AreFailed
<1> HIDE DEF m, c
<1>4. ASSUME NEW k \in DOMAIN c PROVE Holds(m, p ++ k, InterfaceId, c[k])
  <2>1. CASE k \notin DOMAIN b
    <3>1. Holds(s, p ++ k, InterfaceId, a[k]) /\ Alike(m, s, p ++ k)
      BY <1>2, <1>3, <1>4, <2>1 DEF InterfacesAre
    <3> QED  BY <1>3, <2>1, <3>1, HoldsStill
  <2>2. CASE k \in DOMAIN b
    <3>1. Holds(d, p ++ k, InterfaceId, b[k]) /\ Sound(b[k], InterfaceId)
      BY <2>2 DEF InterfacesAre, AreFailed, IsLeaves, Sound, InterfaceFields, InterfaceId
    <3> QED  BY <1>3, <2>2, <3>1, MergingFurther DEF m
  <2> QED  BY <2>1, <2>2
<1>5. InterfacesAre(m, p, c)
  BY <1>2, <1>3, <1>4 DEF InterfacesAre
<1>6. AreFailed(c) /\ (AreInterfaces(a) /\ AreInterfaces(b) => AreInterfaces(c))
  BY <1>3 DEF AreFailed, AreInterfaces
<1> QED  BY <1>5, <1>6 DEF m, c

\* The capabilities of an interface.
LEMMA CapabilitiesMerged ==
  ASSUME NEW s, NEW d, NEW p, Merging(s, d, p), NEW a, IsCapabilities(a), NEW b, IsCapabilities(b),
         CapabilitiesAre(s, p, a), CapabilitiesAre(d, p, b)
  PROVE  /\ CapabilitiesAre(Merge(s, d), p, MergeCapabilities(a, b))
         /\ IsCapabilities(MergeCapabilities(a, b))
<1> DEFINE m == Merge(s, d)
           c == MergeCapabilities(a, b)
<1>1. Shaped(b, CapabilitiesFields) /\ CapabilitiesFields = {"vlan_tag_capable",
          "cb_stream_iden_type_list", "cb_sequence_type_list"}
      /\ Capabilities = {"cb_stream_iden_type_list", "cb_sequence_type_list"}
  BY DEF IsCapabilities, CapabilitiesFields, Capabilities
<1>2. /\ Shaped(c, CapabilitiesFields) /\ c["vlan_tag_capable"] = b["vlan_tag_capable"]
      /\ \A f \in Capabilities : c[f] = a[f] \cup b[f]
  BY <1>1 DEF Shaped, MergeCapabilities
<1> HIDE DEF c
<1>3. CbTypes \cap CaseNames = {}
  BY KindsTyped DEF CbTypes
<1>4. \A f \in Capabilities : f \notin CaseNames /\ a[f] \subseteq CbTypes /\ b[f] \subseteq CbTypes
  BY <1>1 DEF IsCapabilities, CaseNames
<1>5. ASSUME NEW f \in Capabilities PROVE Keys(m, p ++ f) = a[f] \cup b[f]
  <2>1. /\ Keys(s, p ++ f) = a[f] /\ Keys(d, p ++ f) = b[f]
        /\ Keys(s, p ++ f) \cap CaseNames = {} /\ Keys(d, p ++ f) \cap CaseNames = {}
    BY <1>3, <1>4 DEF CapabilitiesAre
  <2>2. Merging(s, d, p ++ f)
    BY <1>4, MergingFurther
  <2> QED  BY <2>1, <2>2, MergedEntries DEF Merging
<1>6. Holds(m, p, {"vlan_tag_capable"}, c)
  <2>1. Holds(m, p, {"vlan_tag_capable"}, b)
    BY MergingFurther DEF CapabilitiesAre, IsCapabilities
  <2> QED  BY <1>2, <2>1 DEF Holds
<1>7. CapabilitiesAre(m, p, c)
  BY <1>2, <1>5, <1>6 DEF CapabilitiesAre
<1>8. IsCapabilities(c)
  BY <1>2, <1>4 DEF IsCapabilities, Sound
<1> QED  BY <1>7, <1>8 DEF c

\* A choice has the case that was written last.
LEMMA ChoiceMerged ==
  ASSUME NEW s, NEW d, NEW p, Merging(s, d, p), NEW a, IsChoice(a), NEW b, IsChoice(b),
         ChoiceIs(s, p, a), ChoiceIs(d, p, b)
  PROVE  ChoiceIs(Merge(s, d), p, b)
<1> DEFINE m == Merge(s, d)
           type == b.field_type
           old == a.field_type
<1>1. /\ type \in CaseNames /\ old \in CaseNames /\ Sound(b, {"index"}) /\ IsField(type, b.field)
      /\ Keys(s, p) = {"index", old} /\ Keys(d, p) = {"index", type}
      /\ Holds(d, p, {"index"}, b) /\ FieldIs(d, p ++ type, type, b.field)
  BY DEF IsChoice, ChoiceIs
<1> HIDE DEF type, old
<1>2. Leafed(s) /\ Leafed(d) /\ Path(p) /\ Leafed(m)
  BY MergeHas DEF Merging
<1>3. Holds(m, p, {"index"}, b)
  BY <1>1, MergingFurther
<1>4. FieldIs(m, p ++ type, type, b.field)
  <2>1. CASE type = "time_aware_offset"
    <3>1. Get(d, p ++ type) # Fail
      BY <1>1, <2>1 DEF FieldIs, IsField
    <3>2. Get(m, p ++ type) = Get(d, p ++ type)
      BY <1>2, <3>1, MergeHas DEF Get
    <3> QED  BY <1>1, <2>1, <3>2 DEF FieldIs
  <2>2. CASE type # "time_aware_offset"
    <3>1. Holds(d, p ++ type, CaseLeaves[type], b.field) /\ Sound(b.field, CaseLeaves[type])
      BY <1>1, <2>2 DEF FieldIs, IsField, IsLeaves
    <3> QED  BY <2>2, <3>1, MergingFurther DEF FieldIs
  <2> QED  BY <2>1, <2>2
<1>5. ASSUME NEW k PROVE k \in Keys(d, p) => k \in Keys(m, p)
  BY <1>2, KeysAre, MergeHas
<1>6. ASSUME NEW k \in Keys(m, p), k \notin {"index", type} PROVE FALSE
  <2>1. PICK q \in DOMAIN m : Below(p ++ k, q)
    BY <1>2, <1>6, KeysAre
  <2>2. PICK r \in DOMAIN d : Below(p ++ type, r)
    BY <1>1, <1>2, KeysAre
  <2>3. q \notin DOMAIN d
    BY <1>1, <1>2, <1>6, <2>1, KeysAre
  <2>4. q \in DOMAIN s /\ ~ConflictsWith(q, r)
    BY <2>1, <2>2, <2>3 DEF Merge
  <2>5. k = old
    BY <1>1, <1>2, <1>6, <2>1, <2>4, KeysAre
  <2>6. Path(q) /\ Path(r)
    BY <1>2, <2>2, <2>4 DEF Leafed
  <2> DEFINE n == Len(p) + 1
  <2>7. /\ n \in 1..Len(q) /\ n <= Len(r) /\ q[n] = k /\ r[n] = type
        /\ \A i \in 1..(n - 1) : q[i] = p[i] /\ r[i] = p[i]
    <3>1. /\ Len(p) \in Nat /\ Len(p ++ k) = n /\ Len(p ++ type) = n
          /\ (p ++ k)[n] = k /\ (p ++ type)[n] = type
          /\ \A i \in 1..Len(p) : (p ++ k)[i] = p[i] /\ (p ++ type)[i] = p[i]
      BY <1>2, Longer
    <3>2. Len(q) \in Nat /\ Len(r) \in Nat
      BY <2>6 DEF Path
    <3> QED  BY <2>1, <2>2, <3>1, <3>2 DEF Below
  <2>8. SubSeq(q, 1, n - 1) = SubSeq(r, 1, n - 1)
    <3>1. PICK N1, N2 : q \in Seq(N1) /\ r \in Seq(N2)
      BY <2>6 DEF Path
    <3>2. n \in Nat /\ n >= 1
      BY <1>2, Longer
    <3>3. SubSeq(q, 1, n - 1) = [i \in 1..(n - 1) |-> q[i]]
      BY <2>7, <3>1, <3>2
    <3>4. SubSeq(r, 1, n - 1) = [i \in 1..(n - 1) |-> r[i]]
      BY <2>7, <3>1, <3>2
    <3> QED  BY <2>7, <3>3, <3>4
  <2>9. ConflictsWith(q, r)
    BY <1>1, <1>6, <2>5, <2>7, <2>8 DEF ConflictsWith
  <2> QED  BY <2>4, <2>9
<1>7. Keys(m, p) = {"index", type}
  BY <1>1, <1>5, <1>6
<1> QED  BY <1>3, <1>4, <1>7 DEF ChoiceIs, m, type

\* A list of choices.
AreChoices(x) == IsList(x) /\ \A k \in DOMAIN x : IsChoice(x[k])

LEMMA ChoicesMerged ==
  ASSUME NEW s, NEW d, NEW p, Merging(s, d, p), NEW a, AreChoices(a), NEW b, AreChoices(b),
         ChoicesAre(s, p, a), ChoicesAre(d, p, b)
  PROVE  /\ ChoicesAre(Merge(s, d), p, MergeLists(a, b)) /\ AreChoices(MergeLists(a, b))
         /\ AreFrames(a) /\ AreFrames(b) => AreFrames(MergeLists(a, b))
<1> DEFINE m == Merge(s, d)
           c == MergeLists(a, b)
<1>1. /\ Keys(s, p) = DOMAIN a /\ Keys(d, p) = DOMAIN b
      /\ Keys(s, p) \cap CaseNames = {} /\ Keys(d, p) \cap CaseNames = {}
  BY DEF ChoicesAre, AreChoices, IsList
<1>2. /\ Keys(m, p) = DOMAIN a \cup DOMAIN b
      /\ \A k \in DOMAIN a \cup DOMAIN b :
            /\ k \notin DOMAIN b => Alike(m, s, p ++ k)
            /\ k \notin DOMAIN a => Alike(m, d, p ++ k)
  BY <1>1, MergedEntries DEF Merging
<1>3. /\ IsList(c) /\ DOMAIN c = DOMAIN a \cup DOMAIN b
      /\ \A k \in DOMAIN c : c[k] = IF k \notin DOMAIN b THEN a[k] ELSE b[k]
  BY ListsMerged DEF AreChoices
<1> HIDE DEF m, c
<1>4. ASSUME NEW k \in DOMAIN c PROVE ChoiceIs(m, p ++ k, c[k])
  <2>1. CASE k \notin DOMAIN b
    <3>1. ChoiceIs(s, p ++ k, a[k]) /\ Alike(m, s, p ++ k)
      BY <1>2, <1>3, <1>4, <2>1 DEF ChoicesAre
    <3> QED  BY <1>3, <2>1, <3>1, PartsStill
  <2>2. CASE k \in DOMAIN b /\ k \notin DOMAIN a
    <3>1. ChoiceIs(d, p ++ k, b[k]) /\ Alike(m, d, p ++ k)
      BY <1>2, <2>2 DEF ChoicesAre
    <3> QED  BY <1>3, <2>2, <3>1, PartsStill
  <2>3. CASE k \in DOMAIN b /\ k \in DOMAIN a
    <3>1. /\ ChoiceIs(s, p ++ k, a[k]) /\ ChoiceIs(d, p ++ k, b[k])
          /\ IsChoice(a[k]) /\ IsChoice(b[k]) /\ k \notin CaseNames
      BY <2>3 DEF ChoicesAre, AreChoices, IsList
    <3>2. Merging(s, d, p ++ k)
      BY <3>1, MergingFurther
    <3> QED  BY <1>3, <2>3, <3>1, <3>2, ChoiceMerged DEF m
  <2> QED  BY <1>3, <2>1, <2>2, <2>3
<1>5. ChoicesAre(m, p, c)
  BY <1>2, <1>3, <1>4 DEF ChoicesAre
<1>6. AreChoices(c) /\ (AreFrames(a) /\ AreFrames(b) => AreFrames(c))
  BY <1>3 DEF AreChoices, AreFrames
<1> QED  BY <1>5, <1>6 DEF m, c

\* The traffic specification is that of the last request.
LEMMA TrafficMerged ==
  ASSUME NEW s, NEW d, NEW p, Merging(s, d, p), NEW b, IsTraffic(b), TrafficIs(d, p, b)
  PROVE  TrafficIs(Merge(s, d), p, b)
BY MergingFurther DEF IsTraffic, TrafficIs, IsLeaves

\* The parts that a talker and a listener have alike.
LEMMA StationMerged ==
  ASSUME NEW s, NEW d, NEW p, Merging(s, d, p), NEW a, IsStation(a), NEW b, IsStation(b),
         StationIs(s, p, a), StationIs(d, p, b), NEW c,
         c.end_station_interfaces = MergeLists(a.end_station_interfaces, b.end_station_interfaces),
         c.user_to_network_requirements = b.user_to_network_requirements,
         c.interface_capabilities = MergeCapabilities(a.interface_capabilities, b.interface_capabilities)
  PROVE  StationIs(Merge(s, d), p, c) /\ IsStation(c)
<1> DEFINE m == Merge(s, d)
<1>1. /\ Merging(s, d, p ++ "end_station_interfaces")
      /\ Merging(s, d, p ++ "interface_capabilities")
  BY MergingFurther DEF CaseNames
<1>2. /\ AreInterfaces(a.end_station_interfaces) /\ AreFailed(a.end_station_interfaces)
      /\ AreInterfaces(b.end_station_interfaces) /\ AreFailed(b.end_station_interfaces)
  BY DEF IsStation, AreInterfaces, AreFailed
<1>3. /\ InterfacesAre(m, p ++ "end_station_interfaces", c.end_station_interfaces)
      /\ AreInterfaces(c.end_station_interfaces)
  BY <1>1, <1>2, InterfacesMerged DEF StationIs
<1>4. /\ CapabilitiesAre(m, p ++ "interface_capabilities", c.interface_capabilities)
      /\ IsCapabilities(c.interface_capabilities)
  BY <1>1, CapabilitiesMerged DEF StationIs, IsStation
<1>5. Holds(m, p ++ "user_to_network_requirements", UserToNetworkRequirements,
            c.user_to_network_requirements)
  BY MergingFurther DEF StationIs, IsStation, IsLeaves
<1> QED  BY <1>3, <1>4, <1>5 DEF StationIs, IsStation

\* A listener.
LEMMA ListenerMerged ==
  ASSUME NEW s, NEW d, NEW p, Merging(s, d, p), NEW a, IsListener(a), NEW b, IsListener(b),
         ListenerIs(s, p, a), ListenerIs(d, p, b)
  PROVE  ListenerIs(Merge(s, d), p, MergeStation(a, b)) /\ IsListener(MergeStation(a, b))
<1> DEFINE c == MergeStation(a, b)
<1>1. Shaped(b, ListenerFields)
  BY DEF IsListener
<1>2. /\ Shaped(c, ListenerFields) /\ c["index"] = b["index"]
      /\ c.end_station_interfaces = MergeLists(a.end_station_interfaces, b.end_station_interfaces)
      /\ c.user_to_network_requirements = b.user_to_network_requirements
      /\ c.interface_capabilities = MergeCapabilities(a.interface_capabilities, b.interface_capabilities)
  BY <1>1 DEF Shaped, MergeStation, ListenerFields
<1> HIDE DEF c
<1>3. StationIs(Merge(s, d), p, c) /\ IsStation(c)
  BY <1>2, StationMerged DEF IsListener, ListenerIs
<1>4. Holds(Merge(s, d), p, {"index"}, c)
  <2>1. Holds(Merge(s, d), p, {"index"}, b)
    BY MergingFurther DEF ListenerIs, IsListener
  <2> QED  BY <1>2, <2>1 DEF Holds
<1>5. IsListener(c)
  BY <1>2, <1>3 DEF IsListener, Sound
<1> QED  BY <1>3, <1>4, <1>5 DEF ListenerIs, c

\* The listeners.
LEMMA ListenersMerged ==
  ASSUME NEW s, NEW d, NEW p, Merging(s, d, p), NEW a, AreListeners(a), NEW b, AreListeners(b),
         ListenersAre(s, p, a), ListenersAre(d, p, b)
  PROVE  /\ ListenersAre(Merge(s, d), p, MergeEntries(MergeStation, a, b))
         /\ AreListeners(MergeEntries(MergeStation, a, b))
<1> DEFINE m == Merge(s, d)
           c == MergeEntries(MergeStation, a, b)
<1>1. /\ Keys(s, p) = DOMAIN a /\ Keys(d, p) = DOMAIN b
      /\ Keys(s, p) \cap CaseNames = {} /\ Keys(d, p) \cap CaseNames = {}
  BY DEF ListenersAre, AreListeners, IsList
<1>2. /\ Keys(m, p) = DOMAIN a \cup DOMAIN b
      /\ \A k \in DOMAIN a \cup DOMAIN b :
            /\ k \notin DOMAIN b => Alike(m, s, p ++ k)
            /\ k \notin DOMAIN a => Alike(m, d, p ++ k)
  BY <1>1, MergedEntries DEF Merging
<1>3. /\ c = [k \in DOMAIN c |-> c[k]] /\ DOMAIN c = DOMAIN a \cup DOMAIN b
      /\ \A k \in DOMAIN c : c[k] = IF k \notin DOMAIN b THEN a[k]
                                    ELSE IF k \notin DOMAIN a THEN b[k] ELSE MergeStation(a[k], b[k])
  BY DEF MergeEntries
<1> HIDE DEF m, c
<1>4. ASSUME NEW l \in DOMAIN c PROVE ListenerIs(m, p ++ l, c[l]) /\ IsListener(c[l])
  <2>1. CASE l \notin DOMAIN b
    <3>1. ListenerIs(s, p ++ l, a[l]) /\ Alike(m, s, p ++ l) /\ IsListener(a[l])
      BY <1>2, <1>3, <1>4, <2>1 DEF ListenersAre, AreListeners
    <3> QED  BY <1>3, <2>1, <3>1, StationsStill
  <2>2. CASE l \in DOMAIN b /\ l \notin DOMAIN a
    <3>1. ListenerIs(d, p ++ l, b[l]) /\ Alike(m, d, p ++ l) /\ IsListener(b[l])
      BY <1>2, <2>2 DEF ListenersAre, AreListeners
    <3> QED  BY <1>3, <2>2, <3>1, StationsStill
  <2>3. CASE l \in DOMAIN b /\ l \in DOMAIN a
    <3>1. /\ ListenerIs(s, p ++ l, a[l]) /\ ListenerIs(d, p ++ l, b[l])
          /\ IsListener(a[l]) /\ IsListener(b[l]) /\ l \notin CaseNames
      BY <2>3 DEF ListenersAre, AreListeners, IsList
    <3>2. Merging(s, d, p ++ l)
      BY <3>1, MergingFurther
    <3> QED  BY <1>3, <2>3, <3>1, <3>2, ListenerMerged DEF m
  <2> QED  BY <1>3, <2>1, <2>2, <2>3
<1>5. ListenersAre(m, p, c)
  BY <1>2, <1>3, <1>4 DEF ListenersAre
<1>6. DOMAIN c \cap CaseNames = {}
  BY <1>3 DEF AreListeners, IsList
<1>7. AreListeners(c)
  BY <1>3, <1>4, <1>6 DEF AreListeners, IsList
<1> QED  BY <1>5, <1>7 DEF m, c

\* The talker.
MergeTalkers(a, b) ==
  [MergeStation(a, b) EXCEPT
     !.data_frame_specification = MergeLists(a.data_frame_specification, @)]

LEMMA TalkerMerged ==
  ASSUME NEW s, NEW d, NEW p, Merging(s, d, p), NEW a, IsTalker(a), NEW b, IsTalker(b),
         TalkerIs(s, p, a), TalkerIs(d, p, b)
  PROVE  TalkerIs(Merge(s, d), p, MergeTalkers(a, b)) /\ IsTalker(MergeTalkers(a, b))
<1> DEFINE m == Merge(s, d)
           c == MergeTalkers(a, b)
           e == MergeStation(a, b)
<1>1. Shaped(b, TalkerFields)
  BY DEF IsTalker
<1>2. /\ Shaped(e, TalkerFields)
      /\ e.end_station_interfaces = MergeLists(a.end_station_interfaces, b.end_station_interfaces)
      /\ e.user_to_network_requirements = b.user_to_network_requirements
      /\ e.interface_capabilities = MergeCapabilities(a.interface_capabilities, b.interface_capabilities)
      /\ e.stream_rank = b.stream_rank /\ e.traffic_specification = b.traffic_specification
      /\ e.data_frame_specification = b.data_frame_specification
  BY <1>1 DEF Shaped, MergeStation, TalkerFields
<1> HIDE DEF e
<1>3. c = [e EXCEPT !.data_frame_specification = MergeLists(a.data_frame_specification, @)]
  BY DEF MergeTalkers, e
<1> HIDE DEF c
<1>4. /\ Shaped(c, TalkerFields)
      /\ c.end_station_interfaces = e.end_station_interfaces
      /\ c.user_to_network_requirements = e.user_to_network_requirements
      /\ c.interface_capabilities = e.interface_capabilities
      /\ c.stream_rank = e.stream_rank /\ c.traffic_specification = e.traffic_specification
      /\ c.data_frame_specification = MergeLists(a.data_frame_specification, e.data_frame_specification)
  BY <1>2, <1>3 DEF Shaped, TalkerFields
<1>5. /\ Merging(s, d, p ++ "data_frame_specification")
      /\ Merging(s, d, p ++ "traffic_specification")
  BY MergingFurther DEF CaseNames
<1>6. StationIs(m, p, c) /\ IsStation(c)
  BY <1>2, <1>4, StationMerged DEF IsTalker, TalkerIs
<1>7. Holds(m, p ++ "stream_rank", StreamRank, c.stream_rank) /\ IsLeaves(c.stream_rank, StreamRank)
  BY <1>2, <1>4, MergingFurther DEF IsTalker, TalkerIs, IsLeaves
<1>8. /\ AreChoices(a.data_frame_specification) /\ AreFrames(a.data_frame_specification)
      /\ AreChoices(b.data_frame_specification) /\ AreFrames(b.data_frame_specification)
  BY DEF IsTalker, AreFrames, AreChoices
<1>9. /\ ChoicesAre(m, p ++ "data_frame_specification", c.data_frame_specification)
      /\ AreFrames(c.data_frame_specification)
  BY <1>2, <1>4, <1>5, <1>8, ChoicesMerged DEF TalkerIs
<1>10. /\ TrafficIs(m, p ++ "traffic_specification", c.traffic_specification)
       /\ IsTraffic(c.traffic_specification)
  BY <1>2, <1>4, <1>5, TrafficMerged DEF TalkerIs, IsTalker
<1>11. TalkerIs(m, p, c)
  BY <1>6, <1>7, <1>9, <1>10 DEF TalkerIs
<1>12. IsTalker(c)
  BY <1>4, <1>6, <1>7, <1>9, <1>10 DEF IsTalker
<1> QED  BY <1>11, <1>12 DEF m, c

\* The whole request.
LEMMA RequestMerged ==
  ASSUME NEW s, NEW d, NEW p, Merging(s, d, p), NEW a, IsRequest(a), NEW b, IsRequest(b),
         RequestIs(s, p, a), RequestIs(d, p, b)
  PROVE  RequestIs(Merge(s, d), p, MergeRequests(a, b)) /\ IsRequest(MergeRequests(a, b))
<1> DEFINE c == MergeRequests(a, b)
<1>1. /\ Shaped(c, RequestFields)
      /\ c.talker = MergeTalkers(a.talker, b.talker)
      /\ c.listener_list = MergeEntries(MergeStation, a.listener_list, b.listener_list)
  BY DEF MergeRequests, MergeTalkers, Shaped, RequestFields
<1> HIDE DEF c
<1>2. Merging(s, d, p ++ "talker") /\ Merging(s, d, p ++ "listener_list")
  BY MergingFurther DEF CaseNames
<1>3. TalkerIs(Merge(s, d), p ++ "talker", c.talker) /\ IsTalker(c.talker)
  BY <1>1, <1>2, TalkerMerged DEF IsRequest, RequestIs
<1>4. /\ ListenersAre(Merge(s, d), p ++ "listener_list", c.listener_list)
      /\ AreListeners(c.listener_list)
  BY <1>1, <1>2, ListenersMerged DEF IsRequest, RequestIs
<1> QED  BY <1>1, <1>3, <1>4 DEF RequestIs, IsRequest, c

\* The entry of an interface.
LEMMA EntryMerged ==
  ASSUME NEW s, NEW d, NEW p, Merging(s, d, p), NEW a, IsEntry(a), NEW b, IsEntry(b),
         EntryIs(s, p, a), EntryIs(d, p, b)
  PROVE  EntryIs(Merge(s, d), p, MergeInterface(a, b)) /\ IsEntry(MergeInterface(a, b))
<1> DEFINE c == MergeInterface(a, b)
<1>1. Shaped(b, EntryFields)
  BY DEF IsEntry
<1>2. /\ Shaped(c, EntryFields) /\ \A f \in InterfaceId : c[f] = b[f]
      /\ c.config_list = MergeLists(a.config_list, b.config_list)
  BY <1>1 DEF Shaped, MergeInterface, EntryFields, InterfaceId
<1> HIDE DEF c
<1>3. AreChoices(a.config_list) /\ AreChoices(b.config_list)
  BY DEF IsEntry, AreChoices
<1>4. Merging(s, d, p ++ "config_list")
  BY MergingFurther DEF CaseNames
<1>5. ChoicesAre(Merge(s, d), p ++ "config_list", c.config_list) /\ AreChoices(c.config_list)
  BY <1>2, <1>3, <1>4, ChoicesMerged DEF EntryIs
<1>6. Holds(Merge(s, d), p, InterfaceId, c)
  <2>1. Holds(Merge(s, d), p, InterfaceId, b)
    BY MergingFurther DEF EntryIs, IsEntry
  <2> QED  BY <1>2, <2>1 DEF Holds
<1>7. DOMAIN c.config_list = {"1"}
  <2>1. IsList(a.config_list) /\ IsList(b.config_list)
    BY <1>3 DEF AreChoices
  <2>2. DOMAIN c.config_list = DOMAIN a.config_list \cup DOMAIN b.config_list
    BY <1>2, <2>1, ListsMerged
  <2> QED  BY <2>2 DEF IsEntry
<1>8. IsEntry(c)
  BY <1>2, <1>5, <1>7 DEF IsEntry, AreChoices, Sound
<1> QED  BY <1>5, <1>6, <1>8 DEF EntryIs, c

\* The entries of a station.
LEMMA EntriesMerged ==
  ASSUME NEW s, NEW d, NEW p, Merging(s, d, p), NEW a, AreEntriesOf(a), NEW b, AreEntriesOf(b),
         EntriesKept(s, p, a), EntriesKept(d, p, b)
  PROVE  /\ EntriesKept(Merge(s, d), p, MergeEntries(MergeInterface, a, b))
         /\ AreEntriesOf(MergeEntries(MergeInterface, a, b))
<1> DEFINE m == Merge(s, d)
           c == MergeEntries(MergeInterface, a, b)
<1>1. /\ Keys(s, p) = DOMAIN a /\ Keys(d, p) = DOMAIN b
      /\ Keys(s, p) \cap CaseNames = {} /\ Keys(d, p) \cap CaseNames = {}
  BY DEF EntriesKept, AreEntriesOf, IsList
<1>2. /\ Keys(m, p) = DOMAIN a \cup DOMAIN b
      /\ \A k \in DOMAIN a \cup DOMAIN b :
            /\ k \notin DOMAIN b => Alike(m, s, p ++ k)
            /\ k \notin DOMAIN a => Alike(m, d, p ++ k)
  BY <1>1, MergedEntries DEF Merging
<1>3. /\ c = [k \in DOMAIN c |-> c[k]] /\ DOMAIN c = DOMAIN a \cup DOMAIN b
      /\ \A k \in DOMAIN c : c[k] = IF k \notin DOMAIN b THEN a[k]
                                    ELSE IF k \notin DOMAIN a THEN b[k] ELSE MergeInterface(a[k], b[k])
  BY DEF MergeEntries
<1> HIDE DEF m, c
<1>4. ASSUME NEW l \in DOMAIN c PROVE EntryIs(m, p ++ l, c[l]) /\ IsEntry(c[l])
  <2>1. CASE l \notin DOMAIN b
    <3>1. EntryIs(s, p ++ l, a[l]) /\ Alike(m, s, p ++ l) /\ IsEntry(a[l])
      BY <1>2, <1>3, <1>4, <2>1 DEF EntriesKept, AreEntriesOf
    <3> QED  BY <1>3, <2>1, <3>1, TalkersStill
  <2>2. CASE l \in DOMAIN b /\ l \notin DOMAIN a
    <3>1. EntryIs(d, p ++ l, b[l]) /\ Alike(m, d, p ++ l) /\ IsEntry(b[l])
      BY <1>2, <2>2 DEF EntriesKept, AreEntriesOf
    <3> QED  BY <1>3, <2>2, <3>1, TalkersStill
  <2>3. CASE l \in DOMAIN b /\ l \in DOMAIN a
    <3>1. /\ EntryIs(s, p ++ l, a[l]) /\ EntryIs(d, p ++ l, b[l])
          /\ IsEntry(a[l]) /\ IsEntry(b[l]) /\ l \notin CaseNames
      BY <2>3 DEF EntriesKept, AreEntriesOf, IsList
    <3>2. Merging(s, d, p ++ l)
      BY <3>1, MergingFurther
    <3> QED  BY <1>3, <2>3, <3>1, <3>2, EntryMerged DEF m
  <2> QED  BY <1>3, <2>1, <2>2, <2>3
<1>5. EntriesKept(m, p, c)
  BY <1>2, <1>3, <1>4 DEF EntriesKept
<1>6. DOMAIN c \cap CaseNames = {}
  BY <1>3 DEF AreEntriesOf, IsList
<1>7. AreEntriesOf(c)
  BY <1>3, <1>4, <1>6 DEF AreEntriesOf, IsList
<1> QED  BY <1>5, <1>7 DEF m, c

\* The status of a station.
LEMMA StatusMerged ==
  ASSUME NEW s, NEW d, NEW p, Merging(s, d, p), NEW fields, "interface_configuration" \in fields,
         NEW a, IsStatus(a, fields), NEW b, IsStatus(b, fields),
         StatusIs(s, p, a, fields), StatusIs(d, p, b, fields)
  PROVE  StatusIs(Merge(s, d), p, MergeStatus(a, b), fields) /\ IsStatus(MergeStatus(a, b), fields)
<1> DEFINE c == MergeStatus(a, b)
           ic == "interface_configuration"
           leaves == fields \ {ic}
           old == a.interface_configuration.interface_list
           new == b.interface_configuration.interface_list
           list == MergeEntries(MergeInterface, old, new)
           q == p ++ "interface_configuration" ++ "interface_list"
<1>1. Shaped(b, fields) /\ Shaped(b.interface_configuration, {"interface_list"})
  BY DEF IsStatus, IsInterfaceConfiguration
<1>2. c = [b EXCEPT !.interface_configuration =
             [b.interface_configuration EXCEPT !.interface_list = list]]
  BY <1>1 DEF MergeStatus, Shaped
<1>3. /\ AreEntriesOf(old) /\ AreEntriesOf(new)
      /\ EntriesKept(s, q, old) /\ EntriesKept(d, q, new)
  BY DEF IsStatus, IsInterfaceConfiguration, StatusIs
<1>4. Merging(s, d, q)
  BY MergingFurther DEF CaseNames
<1> HIDE DEF q, old, new
<1>5. EntriesKept(Merge(s, d), q, list) /\ AreEntriesOf(list)
  BY <1>3, <1>4, EntriesMerged
<1> HIDE DEF c, list
<1>6. /\ Shaped(c, fields) /\ Shaped(c.interface_configuration, {"interface_list"})
      /\ c.interface_configuration.interface_list = list
      /\ \A f \in leaves : c[f] = b[f]
  BY <1>1, <1>2 DEF Shaped
<1>7. Holds(Merge(s, d), p, leaves, c)
  <2>1. Holds(Merge(s, d), p, leaves, b)
    BY MergingFurther DEF StatusIs, IsStatus
  <2> QED  BY <1>6, <2>1 DEF Holds
<1>8. Sound(c, leaves)
  BY <1>6 DEF Sound, IsStatus
<1> QED  BY <1>5, <1>6, <1>7, <1>8 DEF StatusIs, IsStatus, IsInterfaceConfiguration, c, q

\* The status of the listeners.
LEMMA StatusesMerged ==
  ASSUME NEW s, NEW d, NEW p, Merging(s, d, p), NEW a, AreStatuses(a), NEW b, AreStatuses(b),
         StatusesAre(s, p, a), StatusesAre(d, p, b)
  PROVE  /\ StatusesAre(Merge(s, d), p, MergeEntries(MergeStatus, a, b))
         /\ AreStatuses(MergeEntries(MergeStatus, a, b))
<1> DEFINE m == Merge(s, d)
           c == MergeEntries(MergeStatus, a, b)
           F == ListenerStatusFields
<1>1. /\ Keys(s, p) = DOMAIN a /\ Keys(d, p) = DOMAIN b
      /\ Keys(s, p) \cap CaseNames = {} /\ Keys(d, p) \cap CaseNames = {}
  BY DEF StatusesAre, AreStatuses, IsList
<1>2. /\ Keys(m, p) = DOMAIN a \cup DOMAIN b
      /\ \A k \in DOMAIN a \cup DOMAIN b :
            /\ k \notin DOMAIN b => Alike(m, s, p ++ k)
            /\ k \notin DOMAIN a => Alike(m, d, p ++ k)
  BY <1>1, MergedEntries DEF Merging
<1>3. /\ c = [k \in DOMAIN c |-> c[k]] /\ DOMAIN c = DOMAIN a \cup DOMAIN b
      /\ \A k \in DOMAIN c : c[k] = IF k \notin DOMAIN b THEN a[k]
                                    ELSE IF k \notin DOMAIN a THEN b[k] ELSE MergeStatus(a[k], b[k])
  BY DEF MergeEntries
<1>4. "interface_configuration" \in F
  BY DEF ListenerStatusFields
<1> HIDE DEF m, c, F
<1>5. ASSUME NEW l \in DOMAIN c PROVE StatusIs(m, p ++ l, c[l], F) /\ IsStatus(c[l], F)
  <2>1. CASE l \notin DOMAIN b
    <3>1. StatusIs(s, p ++ l, a[l], F) /\ Alike(m, s, p ++ l) /\ IsStatus(a[l], F)
      BY <1>2, <1>3, <1>5, <2>1 DEF StatusesAre, AreStatuses, F
    <3> QED  BY <1>3, <2>1, <3>1, RequestStill
  <2>2. CASE l \in DOMAIN b /\ l \notin DOMAIN a
    <3>1. StatusIs(d, p ++ l, b[l], F) /\ Alike(m, d, p ++ l) /\ IsStatus(b[l], F)
      BY <1>2, <2>2 DEF StatusesAre, AreStatuses, F
    <3> QED  BY <1>3, <2>2, <3>1, RequestStill
  <2>3. CASE l \in DOMAIN b /\ l \in DOMAIN a
    <3>1. /\ StatusIs(s, p ++ l, a[l], F) /\ StatusIs(d, p ++ l, b[l], F)
          /\ IsStatus(a[l], F) /\ IsStatus(b[l], F) /\ l \notin CaseNames
      BY <2>3 DEF StatusesAre, AreStatuses, IsList, F
    <3>2. Merging(s, d, p ++ l)
      BY <3>1, MergingFurther
    <3> QED  BY <1>3, <1>4, <2>3, <3>1, <3>2, StatusMerged DEF m
  <2> QED  BY <1>3, <2>1, <2>2, <2>3
<1>6. StatusesAre(m, p, c)
  BY <1>2, <1>3, <1>5 DEF StatusesAre, F
<1>7. DOMAIN c \cap CaseNames = {}
  BY <1>3 DEF AreStatuses, IsList
<1>8. AreStatuses(c)
  BY <1>3, <1>5, <1>7 DEF AreStatuses, IsList, F
<1> QED  BY <1>6, <1>8 DEF m, c

\* The whole configuration.
LEMMA ConfigurationMerged ==
  ASSUME NEW s, NEW d, NEW p, Merging(s, d, p), NEW a, IsConfiguration(a), NEW b, IsConfiguration(b),
         ConfigurationIs(s, p, a), ConfigurationIs(d, p, b)
  PROVE  /\ ConfigurationIs(Merge(s, d), p, MergeConfigurations(a, b))
         /\ IsConfiguration(MergeConfigurations(a, b))
<1> DEFINE c == MergeConfigurations(a, b)
<1>1. Shaped(b, ConfigurationFields)
  BY DEF IsConfiguration
<1>2. /\ Shaped(c, ConfigurationFields) /\ c.status_info = b.status_info
      /\ c.failed_interfaces = MergeLists(a.failed_interfaces, b.failed_interfaces)
      /\ c.talker = MergeStatus(a.talker, b.talker)
      /\ c.listener_list = MergeEntries(MergeStatus, a.listener_list, b.listener_list)
  BY <1>1 DEF Shaped, MergeConfigurations, ConfigurationFields
<1> HIDE DEF c
<1>3. \A f \in {"failed_interfaces", "talker", "listener_list"} : Merging(s, d, p ++ f)
  BY MergingFurther DEF CaseNames
<1>4. Holds(Merge(s, d), p ++ "status_info", StatusInfo, c.status_info)
  BY <1>2, MergingFurther DEF ConfigurationIs, IsConfiguration, IsLeaves
<1>5. /\ InterfacesAre(Merge(s, d), p ++ "failed_interfaces", c.failed_interfaces)
      /\ AreFailed(c.failed_interfaces)
  BY <1>2, <1>3, InterfacesMerged DEF ConfigurationIs, IsConfiguration
<1>6. /\ StatusIs(Merge(s, d), p ++ "talker", c.talker, TalkerStatusFields)
      /\ IsStatus(c.talker, TalkerStatusFields)
  <2>1. "interface_configuration" \in TalkerStatusFields
    BY DEF TalkerStatusFields
  <2> QED  BY <1>2, <1>3, <2>1, StatusMerged DEF ConfigurationIs, IsConfiguration
<1>7. /\ StatusesAre(Merge(s, d), p ++ "listener_list", c.listener_list)
      /\ AreStatuses(c.listener_list)
  BY <1>2, <1>3, StatusesMerged DEF ConfigurationIs, IsConfiguration
<1>8. ConfigurationIs(Merge(s, d), p, c)
  BY <1>4, <1>5, <1>6, <1>7 DEF ConfigurationIs
<1>9. IsConfiguration(c)
  BY <1>2, <1>5, <1>6, <1>7 DEF IsConfiguration
<1> QED  BY <1>8, <1>9 DEF c

(***************************************************************************)
(* What is read of a stream                                                *)
(***************************************************************************)
\* Leaves that are held are read as they are.
LEMMA LeavesRead ==
  ASSUME NEW s, NEW p, NEW fields, NEW x, Shaped(x, fields), Sound(x, fields), Holds(s, p, fields, x)
  PROVE  Leaves(s, p, fields) = x
<1> DEFINE y == [f \in fields \cup DOMAIN << >> |-> IF f \in fields THEN Get(s, p ++ f) ELSE << >>[f]]
<1>1. Leaves(s, p, fields) = Whole(y)
  BY DEF Leaves, Struct
<1>2. y = [f \in fields |-> x[f]]
  BY DEF Holds
<1>3. y = x
  BY <1>2 DEF Shaped
<1> HIDE DEF y
<1>4. DOMAIN x = fields
  BY DEF Shaped
<1>5. Whole(x) = x
  BY <1>4, WholeIs DEF Sound
<1> QED  BY <1>1, <1>3, <1>5

\* A structure is read as it is, or not at all if a part of it is not.
LEMMA StructAs ==
  ASSUME NEW s, NEW p, NEW leaves, NEW parts, NEW x, Shaped(x, leaves \cup DOMAIN parts),
         leaves \cap DOMAIN parts = {}, Sound(x, leaves), Holds(s, p, leaves, x)
  PROVE  /\ (\A f \in DOMAIN parts : parts[f] = x[f] /\ x[f] \notin {Fail, Crash}) =>
              Struct(s, p, leaves, parts) = x
         /\ (\E f \in DOMAIN parts : parts[f] = Fail) => Struct(s, p, leaves, parts) = Fail
<1> DEFINE F == leaves \cup DOMAIN parts
           y == [f \in F |-> IF f \in leaves THEN Get(s, p ++ f) ELSE parts[f]]
<1>1. Struct(s, p, leaves, parts) = Whole(y)
  BY DEF Struct
<1>2. /\ DOMAIN y = F /\ y = [f \in F |-> y[f]]
      /\ \A f \in leaves : y[f] = x[f]
      /\ \A f \in DOMAIN parts : y[f] = parts[f]
  BY DEF Holds
<1> HIDE DEF y
<1>3. ASSUME \A f \in DOMAIN parts : parts[f] = x[f] /\ x[f] \notin {Fail, Crash}
      PROVE  Struct(s, p, leaves, parts) = x
  <2>1. \A f \in F : y[f] = x[f] /\ x[f] \notin {Fail, Crash}
    BY <1>2, <1>3 DEF Sound
  <2>2. y = x
    BY <1>2, <2>1 DEF Shaped
  <2> QED  BY <1>1, <1>2, <2>1, <2>2, WholeIs
<1>4. ASSUME NEW f \in DOMAIN parts, parts[f] = Fail PROVE Struct(s, p, leaves, parts) = Fail
  <2>1. f \in DOMAIN y /\ y[f] = Fail
    BY <1>2, <1>4
  <2> QED  BY <1>1, <2>1, WholeIs
<1> QED  BY <1>3, <1>4

\* The interfaces of a station.
LEMMA InterfacesRead ==
  ASSUME MarksApart, NEW s, NEW p, NEW x, AreFailed(x), InterfacesAre(s, p, x)
  PROVE  /\ AreInterfaces(x) => Entries(s, p, ReadInterface) = x
         /\ Entries(s, p, ReadFailedInterface) =
              [k \in DOMAIN x |-> [x[k] EXCEPT !.index = Undefined]]
<1> DEFINE K == DOMAIN x
           Id(k) == [f \in InterfaceId |-> x[k][f]]
           With(i, k) == [f \in InterfaceFields |-> IF f = "index" THEN i ELSE x[k][f]]
<1>1. ASSUME NEW k \in K
      PROVE  /\ IsLeaves(x[k], InterfaceFields)
             /\ Leaves(s, p ++ k, InterfaceId) = Id(k) /\ Id(k) # Fail
             /\ \A i : Beside([index |-> i], Id(k)) = With(i, k)
  <2>1. IsLeaves(x[k], InterfaceFields) /\ Holds(s, p ++ k, InterfaceId, x[k])
    BY <1>1 DEF AreFailed, InterfacesAre
  <2>2. /\ Shaped(Id(k), InterfaceId) /\ Sound(Id(k), InterfaceId)
        /\ Holds(s, p ++ k, InterfaceId, Id(k))
    BY <2>1 DEF Shaped, Sound, IsLeaves, InterfaceFields, InterfaceId, Holds
  <2>3. \A i : Beside([index |-> i], Id(k)) = With(i, k)
    BY DEF Beside, InterfaceId, InterfaceFields
  <2> HIDE DEF Id
  <2>4. Leaves(s, p ++ k, InterfaceId) = Id(k) /\ Id(k) # Fail
    BY <2>2, LeavesRead, NoMarks
  <2> QED  BY <2>1, <2>3, <2>4
<1>2. ASSUME NEW k \in K
      PROVE  /\ ReadInterface(s, p ++ k) = With("position", k)
             /\ ReadFailedInterface(s, p ++ k) = With(Undefined, k)
             /\ With("position", k) \notin {Fail, Crash} /\ With(Undefined, k) \notin {Fail, Crash}
             /\ AreInterfaces(x) => With("position", k) = x[k]
             /\ With(Undefined, k) = [x[k] EXCEPT !.index = Undefined]
  <2>1. Shaped(x[k], InterfaceFields)
    BY <1>1, <1>2 DEF IsLeaves
  <2>2. With(Undefined, k) = [x[k] EXCEPT !.index = Undefined]
    BY <2>1 DEF Shaped, InterfaceFields
  <2>3. AreInterfaces(x) => With("position", k) = x[k]
    BY <1>2, <2>1 DEF Shaped, InterfaceFields, AreInterfaces
  <2>4. Shaped(With("position", k), InterfaceFields) /\ Shaped(With(Undefined, k), InterfaceFields)
    BY DEF Shaped
  <2> HIDE DEF Id, With
  <2>5. With("position", k) \notin {Fail, Crash} /\ With(Undefined, k) \notin {Fail, Crash}
    BY <2>4, NoMarks
  <2>6. ReadInterface(s, p ++ k) = With("position", k)
    BY <1>1, <1>2 DEF ReadInterface, Placed
  <2>7. ReadFailedInterface(s, p ++ k) = With(Undefined, k)
    BY <1>1, <1>2 DEF ReadFailedInterface
  <2> QED  BY <2>2, <2>3, <2>5, <2>6, <2>7
<1> HIDE DEF With
<1>3. Keys(s, p) = K
  BY DEF InterfacesAre
<1>4. ASSUME AreInterfaces(x) PROVE Entries(s, p, ReadInterface) = x
  <2> DEFINE y == [k \in Keys(s, p) |-> ReadInterface(s, p ++ k)]
  <2>1. Entries(s, p, ReadInterface) = Whole(y)
    BY DEF Entries
  <2>2. y = x /\ \A k \in DOMAIN y : y[k] \notin {Fail, Crash}
    BY <1>2, <1>3, <1>4 DEF AreInterfaces, IsList
  <2> HIDE DEF y
  <2> QED  BY <2>1, <2>2, WholeIs
<1>5. Entries(s, p, ReadFailedInterface) = [k \in DOMAIN x |-> [x[k] EXCEPT !.index = Undefined]]
  <2> DEFINE y == [k \in Keys(s, p) |-> ReadFailedInterface(s, p ++ k)]
             z == [k \in DOMAIN x |-> [x[k] EXCEPT !.index = Undefined]]
  <2>1. Entries(s, p, ReadFailedInterface) = Whole(y)
    BY DEF Entries
  <2>2. \A k \in K : ReadFailedInterface(s, p ++ k) = [x[k] EXCEPT !.index = Undefined]
                     /\ ReadFailedInterface(s, p ++ k) \notin {Fail, Crash}
    BY <1>2
  <2>3. y = z /\ \A k \in DOMAIN y : y[k] \notin {Fail, Crash}
    BY <1>3, <2>2
  <2> HIDE DEF y, z
  <2> QED  BY <2>1, <2>3, WholeIs DEF z
<1> QED  BY <1>4, <1>5

\* The capabilities of an interface.
LEMMA CapabilitiesRead ==
  ASSUME MarksApart, NEW s, NEW p, NEW x, IsCapabilities(x), CapabilitiesAre(s, p, x)
  PROVE  ReadInterfaceCapabilities(s, p) = x /\ x \notin {Fail, Crash}
<1> DEFINE parts == [cb_stream_iden_type_list |-> Keys(s, p ++ "cb_stream_iden_type_list"),
                     cb_sequence_type_list    |-> Keys(s, p ++ "cb_sequence_type_list")]
<1>1. ReadInterfaceCapabilities(s, p) = Struct(s, p, {"vlan_tag_capable"}, parts)
  BY DEF ReadInterfaceCapabilities
<1>2. /\ DOMAIN parts = Capabilities
      /\ \A f \in Capabilities : parts[f] = x[f] /\ x[f] \notin {Fail, Crash}
  <2>1. DOMAIN parts = Capabilities /\ \A f \in Capabilities : parts[f] = Keys(s, p ++ f)
    BY DEF Capabilities
  <2>2. \A f \in Capabilities : Keys(s, p ++ f) = x[f] /\ x[f] \in SUBSET CbTypes
    BY DEF CapabilitiesAre, IsCapabilities
  <2> HIDE DEF parts
  <2> QED  BY <2>1, <2>2, NoMarks
<1> HIDE DEF parts
<1>3. /\ Shaped(x, {"vlan_tag_capable"} \cup DOMAIN parts)
      /\ {"vlan_tag_capable"} \cap DOMAIN parts = {}
      /\ Sound(x, {"vlan_tag_capable"}) /\ Holds(s, p, {"vlan_tag_capable"}, x)
  BY <1>2 DEF IsCapabilities, CapabilitiesAre, CapabilitiesFields, Capabilities
<1> QED  BY <1>1, <1>2, <1>3, StructAs, NoMarks

\* A choice is not read if it has an IPv6 tuple.
LEMMA ChoiceRead ==
  ASSUME MarksApart, NEW s, Leafed(s), NEW p, Path(p), NEW x, IsChoice(x), ChoiceIs(s, p, x)
  PROVE  /\ ReadConfigList(s, p) = IF x.field_type = "ipv6_tuple" THEN Fail ELSE x
         /\ x.field_type # "time_aware_offset" =>
              ReadDataFrameSpecification(s, p) = IF x.field_type = "ipv6_tuple" THEN Fail ELSE x
<1> DEFINE type == x.field_type
           mac == "ieee802_mac_addresses"
           seen == IF type = "ipv6_tuple" \/ type = "time_aware_offset" THEN mac ELSE type
           leaves(t) == Leaves(s, p ++ t, CaseLeaves[t])
           parts(t, v) == [field_type |-> t, field |-> v]
           field == IF type = "time_aware_offset" THEN Get(s, p ++ type) ELSE leaves(type)
<1>1. /\ type \in CaseNames /\ IsField(type, x.field) /\ Keys(s, p) = {"index", type}
      /\ Holds(s, p, {"index"}, x) /\ FieldIs(s, p ++ type, type, x.field)
      /\ Shaped(x, ChoiceFields) /\ Sound(x, {"index"})
  BY DEF IsChoice, ChoiceIs
<1>2. FrameType(s, p) = seen
  <2> DEFINE found == Keys(s, p) \cap {"ieee802_mac_addresses", "ieee802_vlan_tag", "ipv4_tuple"}
  <2>1. FrameType(s, p) = IF found = {} THEN mac ELSE CHOOSE t \in found : TRUE
    BY DEF FrameType
  <2>2. CASE type = "ipv6_tuple" \/ type = "time_aware_offset"
    <3>1. found = {}
      BY <1>1, <2>2
    <3> QED  BY <2>1, <2>2, <3>1
  <2>3. CASE type \notin {"ipv6_tuple", "time_aware_offset"}
    <3>1. found = {type}
      BY <1>1, <2>3 DEF CaseNames
    <3> HIDE DEF found, type
    <3>2. (CHOOSE t \in found : TRUE) = type
      BY <3>1
    <3> QED  BY <2>1, <2>3, <3>1, <3>2
  <2> QED  BY <2>2, <2>3
<1>3. ConfigType(s, p) = IF type = "time_aware_offset" THEN type ELSE seen
  BY <1>1, <1>2 DEF ConfigType
<1>4. /\ ReadDataFrameSpecification(s, p) = Struct(s, p, {"index"}, parts(seen, leaves(seen)))
      /\ type = "time_aware_offset" =>
           ReadConfigList(s, p) = Struct(s, p, {"index"}, parts(type, Get(s, p ++ type)))
      /\ type # "time_aware_offset" =>
           ReadConfigList(s, p) = Struct(s, p, {"index"}, parts(seen, leaves(seen)))
  <2>1. ReadDataFrameSpecification(s, p) = Struct(s, p, {"index"}, parts(seen, leaves(seen)))
    BY <1>2 DEF ReadDataFrameSpecification
  <2>2. /\ type = "time_aware_offset" =>
             ReadConfigList(s, p) = Struct(s, p, {"index"}, parts(type, Get(s, p ++ type)))
        /\ type # "time_aware_offset" =>
             ReadConfigList(s, p) = Struct(s, p, {"index"}, parts(seen, leaves(seen)))
    BY <1>3 DEF ReadConfigList
  <2> QED  BY <2>1, <2>2
<1>5. ASSUME NEW t, NEW v
      PROVE  /\ t = type /\ v = x.field /\ x.field \notin {Fail, Crash} =>
                  Struct(s, p, {"index"}, parts(t, v)) = x
             /\ v = Fail => Struct(s, p, {"index"}, parts(t, v)) = Fail
  <2> DEFINE q == parts(t, v)
  <2>1. DOMAIN q = {"field_type", "field"} /\ q["field_type"] = t /\ q["field"] = v
    OBVIOUS
  <2>2. type \notin {Fail, Crash}
    BY <1>1, NoMarks DEF OwnTexts
  <2> HIDE DEF q, type
  <2>3. /\ Shaped(x, {"index"} \cup DOMAIN q) /\ {"index"} \cap DOMAIN q = {}
    BY <1>1, <2>1 DEF ChoiceFields, Shaped
  <2>4. /\ (\A f \in DOMAIN q : q[f] = x[f] /\ x[f] \notin {Fail, Crash}) =>
             Struct(s, p, {"index"}, q) = x
        /\ (\E f \in DOMAIN q : q[f] = Fail) => Struct(s, p, {"index"}, q) = Fail
    BY <1>1, <2>3, StructAs
  <2>5. t = type /\ v = x.field /\ x.field \notin {Fail, Crash} => Struct(s, p, {"index"}, q) = x
    BY <2>1, <2>2, <2>4 DEF type
  <2>6. v = Fail => Struct(s, p, {"index"}, q) = Fail
    BY <2>1, <2>4
  <2> QED  BY <2>5, <2>6 DEF q
<1>6. type \notin {"ipv6_tuple", "time_aware_offset"} => leaves(seen) = x.field /\ x.field \notin {Fail, Crash}
  BY <1>1, LeavesRead, NoMarks DEF IsField, FieldIs, IsLeaves
<1>7. type = "time_aware_offset" => Get(s, p ++ type) = x.field /\ x.field \notin {Fail, Crash}
  BY <1>1 DEF IsField, FieldIs
<1>8. type = "ipv6_tuple" => leaves(seen) = Fail
  <2> SUFFICES ASSUME type = "ipv6_tuple" PROVE leaves(mac) = Fail
    OBVIOUS
  <2> DEFINE f == "source_mac_address"
             y == [g \in MacAddresses \cup DOMAIN << >> |->
                     IF g \in MacAddresses THEN Get(s, p ++ mac ++ g) ELSE << >>[g]]
  <2>1. mac \notin Keys(s, p)
    BY <1>1
  <2>2. Get(s, p ++ mac ++ f) = Fail
    BY <2>1, HeldKey
  <2>3. leaves(mac) = Whole(y)
    BY CasesAre DEF Leaves, Struct
  <2>4. f \in DOMAIN y /\ y[f] = Fail
    BY <2>2 DEF MacAddresses
  <2> HIDE DEF y
  <2> QED  BY <2>3, <2>4, WholeIs
<1> HIDE DEF leaves, parts, type
<1>9. CASE type = "ipv6_tuple"
  BY <1>4, <1>5, <1>8, <1>9 DEF type
<1>10. CASE type = "time_aware_offset"
  BY <1>4, <1>5, <1>7, <1>10 DEF type
<1>11. CASE type \notin {"ipv6_tuple", "time_aware_offset"}
  BY <1>4, <1>5, <1>6, <1>11 DEF type
<1> QED  BY <1>9, <1>10, <1>11

\* The same for members that are all read by operations of their own.
LEMMA WholeAs ==
  ASSUME NEW y, NEW F, y = [f \in F |-> y[f]], NEW x, Shaped(x, F)
  PROVE  /\ (\A f \in F : y[f] = x[f] /\ x[f] \notin {Fail, Crash}) => Whole(y) = x
         /\ (\E f \in F : y[f] = Fail) => Whole(y) = Fail
<1>1. DOMAIN y = F
  OBVIOUS
<1>2. (\A f \in F : y[f] = x[f]) => y = x
  BY DEF Shaped
<1> QED  BY <1>1, <1>2, WholeIs

\* The frame specifications of a talker and the entry of an interface.
LEMMA ChoicesRead ==
  ASSUME MarksApart, NEW s, Leafed(s), NEW p, Path(p), NEW x, AreChoices(x), ChoicesAre(s, p, x)
  PROVE  LET read == IF \E k \in DOMAIN x : x[k].field_type = "ipv6_tuple" THEN Fail ELSE x
         IN /\ Entries(s, p, ReadConfigList) = read
            /\ AreFrames(x) => Entries(s, p, ReadDataFrameSpecification) = read
            /\ x \notin {Fail, Crash}
<1> DEFINE K == DOMAIN x
           bad == \E k \in K : x[k].field_type = "ipv6_tuple"
           a == [k \in Keys(s, p) |-> ReadConfigList(s, p ++ k)]
           b == [k \in Keys(s, p) |-> ReadDataFrameSpecification(s, p ++ k)]
<1>1. /\ Entries(s, p, ReadConfigList) = Whole(a)
      /\ Entries(s, p, ReadDataFrameSpecification) = Whole(b)
  BY DEF Entries
<1>2. Keys(s, p) = K /\ Shaped(x, K)
  BY DEF ChoicesAre, AreChoices, IsList, Shaped
<1>3. /\ a = [k \in K |-> a[k]] /\ \A k \in K : a[k] = ReadConfigList(s, p ++ k)
      /\ b = [k \in K |-> b[k]] /\ \A k \in K : b[k] = ReadDataFrameSpecification(s, p ++ k)
  BY <1>2
<1> HIDE DEF a, b
<1>4. ASSUME NEW k \in K
      PROVE  /\ a[k] = IF x[k].field_type = "ipv6_tuple" THEN Fail ELSE x[k]
             /\ AreFrames(x) => b[k] = IF x[k].field_type = "ipv6_tuple" THEN Fail ELSE x[k]
             /\ x[k] \notin {Fail, Crash}
  <2>1. IsChoice(x[k]) /\ ChoiceIs(s, p ++ k, x[k]) /\ Path(p ++ k)
    BY Longer DEF AreChoices, ChoicesAre
  <2>2. AreFrames(x) => x[k].field_type # "time_aware_offset"
    BY DEF AreFrames
  <2>3. x[k] \notin {Fail, Crash}
    BY <2>1, NoMarks DEF IsChoice
  <2> QED  BY <1>3, <2>1, <2>2, <2>3, ChoiceRead
<1>5. Whole(a) = IF bad THEN Fail ELSE x
  BY <1>2, <1>3, <1>4, WholeAs
<1>6. AreFrames(x) => Whole(b) = IF bad THEN Fail ELSE x
  BY <1>2, <1>3, <1>4, WholeAs
<1>7. x \notin {Fail, Crash}
  BY <1>2, NoMarks
<1> QED  BY <1>1, <1>5, <1>6, <1>7

\* The traffic specification.
LEMMA TrafficRead ==
  ASSUME MarksApart, NEW s, NEW p, NEW x, IsTraffic(x), TrafficIs(s, p, x)
  PROVE  ReadTrafficSpecification(s, p) = x /\ x \notin {Fail, Crash}
<1> DEFINE parts == [interval   |-> Leaves(s, p ++ "interval", Interval),
                     time_aware |-> Leaves(s, p ++ "time_aware", TimeAware)]
<1>1. ReadTrafficSpecification(s, p) = Struct(s, p, TrafficLeaves, parts)
  BY DEF ReadTrafficSpecification
<1>2. /\ Leaves(s, p ++ "interval", Interval) = x.interval
      /\ Leaves(s, p ++ "time_aware", TimeAware) = x.time_aware
      /\ x.interval \notin {Fail, Crash} /\ x.time_aware \notin {Fail, Crash}
  BY LeavesRead, NoMarks DEF IsTraffic, TrafficIs, IsLeaves
<1>3. /\ DOMAIN parts = {"interval", "time_aware"}
      /\ \A f \in DOMAIN parts : parts[f] = x[f] /\ x[f] \notin {Fail, Crash}
  BY <1>2
<1> HIDE DEF parts
<1>4. /\ Shaped(x, TrafficLeaves \cup DOMAIN parts) /\ TrafficLeaves \cap DOMAIN parts = {}
      /\ Sound(x, TrafficLeaves) /\ Holds(s, p, TrafficLeaves, x)
  <2>1. TrafficFields = TrafficLeaves \cup DOMAIN parts /\ TrafficLeaves \cap DOMAIN parts = {}
    BY <1>3 DEF TrafficFields, TrafficLeaves
  <2> QED  BY <2>1 DEF IsTraffic, TrafficIs
<1>5. x \notin {Fail, Crash}
  BY <1>4, NoMarks
<1> QED  BY <1>1, <1>3, <1>4, <1>5, StructAs

\* The parts that a talker and a listener have alike.
LEMMA StationRead ==
  ASSUME MarksApart, NEW s, NEW p, NEW x, IsStation(x), StationIs(s, p, x)
  PROVE  /\ Entries(s, p ++ "end_station_interfaces", ReadInterface) = x.end_station_interfaces
         /\ Leaves(s, p ++ "user_to_network_requirements", UserToNetworkRequirements)
              = x.user_to_network_requirements
         /\ ReadInterfaceCapabilities(s, p ++ "interface_capabilities") = x.interface_capabilities
         /\ x.end_station_interfaces \notin {Fail, Crash}
         /\ x.user_to_network_requirements \notin {Fail, Crash}
         /\ x.interface_capabilities \notin {Fail, Crash}
<1> DEFINE l == x.end_station_interfaces
<1>1. AreInterfaces(l) /\ InterfacesAre(s, p ++ "end_station_interfaces", l)
  BY DEF IsStation, StationIs
<1> HIDE DEF l
<1>2. AreFailed(l) /\ Shaped(l, DOMAIN l)
  BY <1>1 DEF AreInterfaces, AreFailed, IsList, Shaped
<1>3. Entries(s, p ++ "end_station_interfaces", ReadInterface) = l /\ l \notin {Fail, Crash}
  BY <1>1, <1>2, InterfacesRead, NoMarks
<1>4. /\ Leaves(s, p ++ "user_to_network_requirements", UserToNetworkRequirements)
           = x.user_to_network_requirements
      /\ x.user_to_network_requirements \notin {Fail, Crash}
  BY LeavesRead, NoMarks DEF IsStation, StationIs, IsLeaves
<1>5. /\ ReadInterfaceCapabilities(s, p ++ "interface_capabilities") = x.interface_capabilities
      /\ x.interface_capabilities \notin {Fail, Crash}
  BY CapabilitiesRead DEF IsStation, StationIs
<1> QED  BY <1>3, <1>4, <1>5 DEF l

\* The talker is not read if one of its frames has an IPv6 tuple.
LEMMA TalkerRead ==
  ASSUME MarksApart, NEW s, Leafed(s), NEW p, Path(p), NEW x, IsTalker(x), TalkerIs(s, p, x)
  PROVE  LET frames == x.data_frame_specification
         IN ReadTalker(s, p) = IF \E k \in DOMAIN frames : frames[k].field_type = "ipv6_tuple"
                               THEN Fail ELSE x
<1> DEFINE frames == x.data_frame_specification
           bad == \E k \in DOMAIN frames : frames[k].field_type = "ipv6_tuple"
           y == [stream_rank |-> Leaves(s, p ++ "stream_rank", StreamRank),
                 end_station_interfaces |-> Entries(s, p ++ "end_station_interfaces", ReadInterface),
                 data_frame_specification |->
                     Entries(s, p ++ "data_frame_specification", ReadDataFrameSpecification),
                 traffic_specification |-> ReadTrafficSpecification(s, p ++ "traffic_specification"),
                 user_to_network_requirements |->
                     Leaves(s, p ++ "user_to_network_requirements", UserToNetworkRequirements),
                 interface_capabilities |->
                     ReadInterfaceCapabilities(s, p ++ "interface_capabilities")]
<1>1. ReadTalker(s, p) = Whole(y)
  BY DEF ReadTalker
<1>2. /\ y = [f \in TalkerFields |-> y[f]]
      /\ y["stream_rank"] = Leaves(s, p ++ "stream_rank", StreamRank)
      /\ y["end_station_interfaces"] = Entries(s, p ++ "end_station_interfaces", ReadInterface)
      /\ y["data_frame_specification"] =
           Entries(s, p ++ "data_frame_specification", ReadDataFrameSpecification)
      /\ y["traffic_specification"] = ReadTrafficSpecification(s, p ++ "traffic_specification")
      /\ y["user_to_network_requirements"] =
           Leaves(s, p ++ "user_to_network_requirements", UserToNetworkRequirements)
      /\ y["interface_capabilities"] = ReadInterfaceCapabilities(s, p ++ "interface_capabilities")
  BY DEF TalkerFields
<1> HIDE DEF y
<1>3. IsStation(x) /\ StationIs(s, p, x) /\ Shaped(x, TalkerFields)
  BY DEF IsTalker, TalkerIs
<1>4. y["stream_rank"] = x.stream_rank /\ x.stream_rank \notin {Fail, Crash}
  BY <1>2, LeavesRead, NoMarks DEF IsTalker, TalkerIs, IsLeaves
<1>5. y["traffic_specification"] = x.traffic_specification /\ x.traffic_specification \notin {Fail, Crash}
  BY <1>2, TrafficRead DEF IsTalker, TalkerIs
<1>6. y["data_frame_specification"] = (IF bad THEN Fail ELSE frames) /\ frames \notin {Fail, Crash}
  <2>1. AreChoices(frames) /\ AreFrames(frames)
    BY DEF IsTalker, AreFrames, AreChoices
  <2>2. Path(p ++ "data_frame_specification") /\ ChoicesAre(s, p ++ "data_frame_specification", frames)
    BY Longer DEF TalkerIs
  <2> HIDE DEF frames
  <2> QED  BY <1>2, <2>1, <2>2, ChoicesRead
<1>7. /\ y["end_station_interfaces"] = x.end_station_interfaces
      /\ y["user_to_network_requirements"] = x.user_to_network_requirements
      /\ y["interface_capabilities"] = x.interface_capabilities
      /\ x.end_station_interfaces \notin {Fail, Crash}
      /\ x.user_to_network_requirements \notin {Fail, Crash}
      /\ x.interface_capabilities \notin {Fail, Crash}
  BY <1>2, <1>3, StationRead
<1>8. CASE bad
  <2>1. "data_frame_specification" \in TalkerFields /\ y["data_frame_specification"] = Fail
    BY <1>6, <1>8 DEF TalkerFields
  <2> QED  BY <1>1, <1>2, <1>3, <1>8, <2>1, WholeAs
<1>9. CASE ~bad
  <2>1. \A f \in TalkerFields : y[f] = x[f] /\ x[f] \notin {Fail, Crash}
    BY <1>4, <1>5, <1>6, <1>7, <1>9 DEF TalkerFields
  <2> QED  BY <1>1, <1>2, <1>3, <1>9, <2>1, WholeAs
<1> QED  BY <1>8, <1>9

\* A listener.
LEMMA ListenerRead ==
  ASSUME MarksApart, NEW s, NEW p, NEW x, IsListener(x), ListenerIs(s, p, x)
  PROVE  ReadListener(s, p) = x /\ x \notin {Fail, Crash}
<1> DEFINE parts ==
        [end_station_interfaces |-> Entries(s, p ++ "end_station_interfaces", ReadInterface),
         user_to_network_requirements |->
             Leaves(s, p ++ "user_to_network_requirements", UserToNetworkRequirements),
         interface_capabilities |-> ReadInterfaceCapabilities(s, p ++ "interface_capabilities")]
<1>1. ReadListener(s, p) = Struct(s, p, {"index"}, parts)
  BY DEF ReadListener
<1>2. IsStation(x) /\ StationIs(s, p, x)
  BY DEF IsListener, ListenerIs
<1>3. /\ DOMAIN parts = {"end_station_interfaces", "user_to_network_requirements",
                         "interface_capabilities"}
      /\ \A f \in DOMAIN parts : parts[f] = x[f] /\ x[f] \notin {Fail, Crash}
  BY <1>2, StationRead
<1> HIDE DEF parts
<1>4. /\ Shaped(x, {"index"} \cup DOMAIN parts) /\ {"index"} \cap DOMAIN parts = {}
      /\ Sound(x, {"index"}) /\ Holds(s, p, {"index"}, x)
  <2>1. ListenerFields = {"index"} \cup DOMAIN parts /\ {"index"} \cap DOMAIN parts = {}
    BY <1>3 DEF ListenerFields
  <2> QED  BY <2>1 DEF IsListener, ListenerIs
<1>5. x \notin {Fail, Crash}
  BY <1>4, NoMarks
<1> QED  BY <1>1, <1>3, <1>4, <1>5, StructAs

\* The request of a stream.
LEMMA RequestRead ==
  ASSUME MarksApart, NEW s, Leafed(s), NEW p, Path(p), NEW x, IsRequest(x), RequestIs(s, p, x)
  PROVE  LET frames == x.talker.data_frame_specification
         IN /\ ReadRequest(s, p) = IF \E k \in DOMAIN frames : frames[k].field_type = "ipv6_tuple"
                                   THEN Fail ELSE x
            /\ x \notin {Fail, Crash}
<1> DEFINE frames == x.talker.data_frame_specification
           bad == \E k \in DOMAIN frames : frames[k].field_type = "ipv6_tuple"
           l == x.listener_list
           q == p ++ "listener_list"
           z == [k \in Keys(s, q) |-> ReadListener(s, q ++ k)]
           y == [talker        |-> ReadTalker(s, p ++ "talker"),
                 listener_list |-> Entries(s, p ++ "listener_list", ReadListener)]
<1>1. ReadRequest(s, p) = Whole(y)
  BY DEF ReadRequest
<1>2. y = [f \in RequestFields |-> y[f]] /\ y["talker"] = ReadTalker(s, p ++ "talker")
      /\ y["listener_list"] = Entries(s, q, ReadListener)
  BY DEF RequestFields
<1> HIDE DEF y
<1>3. Shaped(x, RequestFields) /\ x \notin {Fail, Crash}
  BY NoMarks DEF IsRequest
<1>4. /\ ReadTalker(s, p ++ "talker") = IF bad THEN Fail ELSE x.talker
      /\ x.talker \notin {Fail, Crash}
  BY Longer, TalkerRead, NoMarks DEF IsRequest, RequestIs, IsTalker
<1>5. Entries(s, q, ReadListener) = l /\ l \notin {Fail, Crash}
  <2>1. Entries(s, q, ReadListener) = Whole(z)
    BY DEF Entries
  <2>2. /\ Keys(s, q) = DOMAIN l /\ Shaped(l, DOMAIN l)
        /\ \A k \in DOMAIN l : IsListener(l[k]) /\ ListenerIs(s, q ++ k, l[k])
    BY DEF IsRequest, AreListeners, IsList, Shaped, RequestIs, ListenersAre
  <2> HIDE DEF l, q
  <2>3. z = [k \in DOMAIN l |-> z[k]] /\ \A k \in DOMAIN l : z[k] = l[k] /\ l[k] \notin {Fail, Crash}
    BY <2>2, ListenerRead
  <2> HIDE DEF z
  <2> QED  BY <2>1, <2>2, <2>3, WholeAs, NoMarks
<1> HIDE DEF q, l
<1>6. CASE bad
  <2>1. "talker" \in RequestFields /\ y["talker"] = Fail
    BY <1>2, <1>4, <1>6 DEF RequestFields
  <2> QED  BY <1>1, <1>2, <1>3, <1>6, <2>1, WholeAs
<1>7. CASE ~bad
  <2>1. \A f \in RequestFields : y[f] = x[f] /\ x[f] \notin {Fail, Crash}
    BY <1>2, <1>4, <1>5, <1>7 DEF RequestFields, l
  <2> QED  BY <1>1, <1>2, <1>3, <1>7, <2>1, WholeAs
<1> QED  BY <1>3, <1>6, <1>7

\* The entry of an interface is not read if it has an IPv6 tuple.
LEMMA EntryRead ==
  ASSUME MarksApart, NEW s, Leafed(s), NEW p, Path(p), NEW x, IsEntry(x), EntryIs(s, p, x)
  PROVE  /\ ReadInterfaceList(s, p) =
              IF x.config_list["1"].field_type = "ipv6_tuple" THEN Fail ELSE x
         /\ x \notin {Fail, Crash}
<1> DEFINE l == x.config_list
           bad == l["1"].field_type = "ipv6_tuple"
           parts == [config_list |-> Entries(s, p ++ "config_list", ReadConfigList)]
<1>1. ReadInterfaceList(s, p) = Struct(s, p, InterfaceId, parts)
  BY DEF ReadInterfaceList
<1>2. DOMAIN parts = {"config_list"} /\ parts["config_list"] = Entries(s, p ++ "config_list", ReadConfigList)
  OBVIOUS
<1> HIDE DEF parts
<1>3. parts["config_list"] = (IF bad THEN Fail ELSE l) /\ l \notin {Fail, Crash}
  <2>1. AreChoices(l) /\ DOMAIN l = {"1"}
    BY DEF IsEntry, AreChoices
  <2>2. Path(p ++ "config_list") /\ ChoicesAre(s, p ++ "config_list", l)
    BY Longer DEF EntryIs
  <2> HIDE DEF l
  <2>3. bad <=> \E k \in DOMAIN l : l[k].field_type = "ipv6_tuple"
    BY <2>1
  <2> HIDE DEF bad
  <2> QED  BY <1>2, <2>1, <2>2, <2>3, ChoicesRead
<1>4. /\ Shaped(x, InterfaceId \cup DOMAIN parts) /\ InterfaceId \cap DOMAIN parts = {}
      /\ Sound(x, InterfaceId) /\ Holds(s, p, InterfaceId, x)
  <2>1. EntryFields = InterfaceId \cup DOMAIN parts /\ InterfaceId \cap DOMAIN parts = {}
    BY <1>2 DEF EntryFields, InterfaceId
  <2> QED  BY <2>1 DEF IsEntry, EntryIs
<1>5. x \notin {Fail, Crash}
  BY <1>4, NoMarks
<1> QED  BY <1>1, <1>2, <1>3, <1>4, <1>5, StructAs

\* The interfaces of a station are not read if there are two, or one with an
\* IPv6 tuple.
LEMMA EntriesRead ==
  ASSUME MarksApart, NEW s, Leafed(s), NEW p, Path(p), NEW x, IsInterfaceConfiguration(x),
         EntriesKept(s, p ++ "interface_list", x.interface_list)
  PROVE  LET list == x.interface_list
         IN /\ ReadInterfaceConfiguration(s, p) =
                 IF \/ Cardinality(DOMAIN list) > 1
                    \/ \E i \in DOMAIN list, c \in {"1"} :
                         list[i].config_list[c].field_type = "ipv6_tuple"
                 THEN Fail ELSE x
            /\ x \notin {Fail, Crash}
<1> DEFINE list == x.interface_list
           q == p ++ "interface_list"
           two == Cardinality(DOMAIN list) > 1
           bad == \E i \in DOMAIN list : list[i].config_list["1"].field_type = "ipv6_tuple"
           z == [k \in Keys(s, q) |-> ReadInterfaceList(s, q ++ k)]
           y == [interface_list |-> IF two THEN Fail ELSE Entries(s, q, ReadInterfaceList)]
<1>1. Keys(s, q) = DOMAIN list
  BY DEF EntriesKept
<1>2. ReadInterfaceConfiguration(s, p) = Whole(y)
  BY <1>1 DEF ReadInterfaceConfiguration
<1>3. Shaped(x, {"interface_list"}) /\ x \notin {Fail, Crash}
  BY NoMarks DEF IsInterfaceConfiguration
<1>4. Entries(s, q, ReadInterfaceList) = (IF bad THEN Fail ELSE list) /\ list \notin {Fail, Crash}
  <2>1. Entries(s, q, ReadInterfaceList) = Whole(z)
    BY DEF Entries
  <2>2. /\ Shaped(list, DOMAIN list)
        /\ \A k \in DOMAIN list : IsEntry(list[k]) /\ EntryIs(s, q ++ k, list[k]) /\ Path(q ++ k)
    BY Longer DEF IsInterfaceConfiguration, AreEntriesOf, IsList, Shaped, EntriesKept
  <2> HIDE DEF list, q
  <2>3. /\ z = [k \in DOMAIN list |-> z[k]]
        /\ \A k \in DOMAIN list :
             /\ z[k] = IF list[k].config_list["1"].field_type = "ipv6_tuple" THEN Fail ELSE list[k]
             /\ list[k] \notin {Fail, Crash}
    BY <1>1, <2>2, EntryRead
  <2> HIDE DEF z
  <2>4. Whole(z) = IF bad THEN Fail ELSE list
    BY <2>2, <2>3, WholeAs
  <2> QED  BY <2>1, <2>2, <2>4, NoMarks
<1>5. /\ y = [f \in {"interface_list"} |-> y[f]]
      /\ y["interface_list"] = IF two \/ bad THEN Fail ELSE x["interface_list"]
  BY <1>4
<1> HIDE DEF y
<1>6. Whole(y) = IF two \/ bad THEN Fail ELSE x
  BY <1>3, <1>4, <1>5, WholeAs
<1> QED  BY <1>2, <1>3, <1>6

\* The status of the talker and of a listener.
LEMMA StatusRead ==
  ASSUME MarksApart, NEW s, Leafed(s), NEW p, Path(p), NEW x
  PROVE  /\ IsStatus(x, TalkerStatusFields) /\ StatusIs(s, p, x, TalkerStatusFields) =>
              /\ ReadStatusTalker(s, p) = IF SpoiledPart(x) THEN Fail ELSE x
              /\ x \notin {Fail, Crash}
         /\ IsStatus(x, ListenerStatusFields) /\ StatusIs(s, p, x, ListenerStatusFields) =>
              /\ ReadStatusListener(s, p) = IF SpoiledPart(x) THEN Fail ELSE x
              /\ x \notin {Fail, Crash}
<1> DEFINE ic == p ++ "interface_configuration"
           parts == [interface_configuration |-> ReadInterfaceConfiguration(s, ic)]
<1>1. /\ ReadStatusTalker(s, p) = Struct(s, p, {"accumulated_latency"}, parts)
      /\ ReadStatusListener(s, p) = Struct(s, p, {"index", "accumulated_latency"}, parts)
  BY DEF ReadStatusTalker, ReadStatusListener
<1>2. DOMAIN parts = {"interface_configuration"}
      /\ parts["interface_configuration"] = ReadInterfaceConfiguration(s, ic)
  OBVIOUS
<1> HIDE DEF parts
<1>3. ASSUME NEW fields, IsStatus(x, fields), StatusIs(s, p, x, fields),
             NEW leaves, fields = leaves \cup {"interface_configuration"},
             leaves = fields \ {"interface_configuration"}
      PROVE  /\ Struct(s, p, leaves, parts) = IF SpoiledPart(x) THEN Fail ELSE x
             /\ x \notin {Fail, Crash}
  <2> DEFINE y == x.interface_configuration
  <2>1. IsInterfaceConfiguration(y) /\ EntriesKept(s, ic ++ "interface_list", y.interface_list)
    BY <1>3 DEF IsStatus, StatusIs
  <2>2. Path(ic)
    BY Longer
  <2>3. SpoiledPart(x) <=>
          \/ Cardinality(DOMAIN y.interface_list) > 1
          \/ \E i \in DOMAIN y.interface_list, c \in {"1"} :
               y.interface_list[i].config_list[c].field_type = "ipv6_tuple"
    BY DEF SpoiledPart
  <2> HIDE DEF y, ic
  <2>4. ReadInterfaceConfiguration(s, ic) = (IF SpoiledPart(x) THEN Fail ELSE y)
        /\ y \notin {Fail, Crash}
    BY <2>1, <2>2, <2>3, EntriesRead
  <2>5. /\ Shaped(x, leaves \cup DOMAIN parts) /\ leaves \cap DOMAIN parts = {}
        /\ Sound(x, leaves) /\ Holds(s, p, leaves, x)
    BY <1>2, <1>3 DEF IsStatus, StatusIs
  <2>6. x \notin {Fail, Crash}
    BY <2>5, NoMarks
  <2>7. x["interface_configuration"] = y
    BY DEF y
  <2> QED  BY <1>2, <2>4, <2>5, <2>6, <2>7, StructAs
<1>4. /\ TalkerStatusFields = {"accumulated_latency"} \cup {"interface_configuration"}
      /\ {"accumulated_latency"} = TalkerStatusFields \ {"interface_configuration"}
      /\ ListenerStatusFields = {"index", "accumulated_latency"} \cup {"interface_configuration"}
      /\ {"index", "accumulated_latency"} = ListenerStatusFields \ {"interface_configuration"}
  BY DEF TalkerStatusFields, ListenerStatusFields
<1>5. IsStatus(x, TalkerStatusFields) /\ StatusIs(s, p, x, TalkerStatusFields) =>
        /\ ReadStatusTalker(s, p) = IF SpoiledPart(x) THEN Fail ELSE x
        /\ x \notin {Fail, Crash}
  BY <1>1, <1>3, <1>4
<1>6. IsStatus(x, ListenerStatusFields) /\ StatusIs(s, p, x, ListenerStatusFields) =>
        /\ ReadStatusListener(s, p) = IF SpoiledPart(x) THEN Fail ELSE x
        /\ x \notin {Fail, Crash}
  BY <1>1, <1>3, <1>4
<1> QED  BY <1>5, <1>6

\* The whole configuration; nobody sets the index of a failed interface.
AsRead(c) ==
  [c EXCEPT !.failed_interfaces = [i \in DOMAIN @ |-> [@[i] EXCEPT !.index = Undefined]]]

LEMMA ConfigurationRead ==
  ASSUME MarksApart, NEW s, Leafed(s), NEW p, Path(p), NEW x, IsConfiguration(x),
         ConfigurationIs(s, p, x)
  PROVE  LET bad == \/ SpoiledPart(x.talker)
                    \/ \E l \in DOMAIN x.listener_list : SpoiledPart(x.listener_list[l])
         IN /\ ReadConfiguration(s, p) = IF bad THEN Fail ELSE AsRead(x)
            /\ AsRead(x) \notin {Fail, Crash} /\ IsConfiguration(AsRead(x))
<1> DEFINE bad == \/ SpoiledPart(x.talker)
                  \/ \E l \in DOMAIN x.listener_list : SpoiledPart(x.listener_list[l])
           failed == [i \in DOMAIN x.failed_interfaces |->
                        [x.failed_interfaces[i] EXCEPT !.index = Undefined]]
           list == x.listener_list
           q == p ++ "listener_list"
           w == AsRead(x)
           z == [k \in Keys(s, q) |-> ReadStatusListener(s, q ++ k)]
           y == [status_info |-> Leaves(s, p ++ "status_info", StatusInfo),
                 failed_interfaces |-> Entries(s, p ++ "failed_interfaces", ReadFailedInterface),
                 talker |-> ReadStatusTalker(s, p ++ "talker"),
                 listener_list |-> Entries(s, q, ReadStatusListener)]
<1>1. ReadConfiguration(s, p) = Whole(y)
  BY DEF ReadConfiguration
<1>2. /\ y = [f \in ConfigurationFields |-> y[f]]
      /\ y["status_info"] = Leaves(s, p ++ "status_info", StatusInfo)
      /\ y["failed_interfaces"] = Entries(s, p ++ "failed_interfaces", ReadFailedInterface)
      /\ y["talker"] = ReadStatusTalker(s, p ++ "talker")
      /\ y["listener_list"] = Entries(s, q, ReadStatusListener)
  BY DEF ConfigurationFields
<1> HIDE DEF y
<1>3. Shaped(x, ConfigurationFields)
  BY DEF IsConfiguration
<1>4. /\ Shaped(w, ConfigurationFields) /\ w.failed_interfaces = failed
      /\ w.status_info = x.status_info /\ w.talker = x.talker /\ w.listener_list = list
  BY <1>3 DEF AsRead, Shaped, ConfigurationFields
<1>5. IsList(failed) /\ \A k \in DOMAIN failed : IsLeaves(failed[k], InterfaceFields)
  <2>1. IsList(x.failed_interfaces)
        /\ \A k \in DOMAIN x.failed_interfaces : IsLeaves(x.failed_interfaces[k], InterfaceFields)
    BY DEF IsConfiguration, AreFailed
  <2>2. DOMAIN failed = DOMAIN x.failed_interfaces
    OBVIOUS
  <2>3. ASSUME NEW k \in DOMAIN failed PROVE IsLeaves(failed[k], InterfaceFields)
    <3> DEFINE i == x.failed_interfaces[k]
    <3>1. failed[k] = [i EXCEPT !.index = Undefined] /\ Shaped(i, InterfaceFields) /\ Sound(i, InterfaceFields)
      BY <2>1, <2>2, <2>3 DEF IsLeaves
    <3> HIDE DEF i, failed
    <3>2. /\ failed[k] = [f \in InterfaceFields |-> IF f = "index" THEN Undefined ELSE i[f]]
      BY <3>1 DEF Shaped, InterfaceFields
    <3>3. Undefined \notin {Fail, Crash}
      BY NoMarks
    <3> QED  BY <3>1, <3>2, <3>3 DEF IsLeaves, Shaped, Sound
  <2> QED  BY <2>1, <2>2, <2>3 DEF IsList
<1> HIDE DEF w
<1>6. w \notin {Fail, Crash} /\ failed \notin {Fail, Crash}
  <2>1. Shaped(failed, DOMAIN failed)
    BY DEF Shaped
  <2> HIDE DEF failed
  <2> QED  BY <1>4, <2>1, NoMarks
<1>7. y["status_info"] = x.status_info /\ x.status_info \notin {Fail, Crash}
  BY <1>2, LeavesRead, NoMarks DEF IsConfiguration, ConfigurationIs, IsLeaves
<1>8. y["failed_interfaces"] = failed
  BY <1>2, InterfacesRead DEF IsConfiguration, ConfigurationIs
<1>9. y["talker"] = (IF SpoiledPart(x.talker) THEN Fail ELSE x.talker) /\ x.talker \notin {Fail, Crash}
  BY <1>2, Longer, StatusRead DEF IsConfiguration, ConfigurationIs
<1>10. /\ y["listener_list"] = IF \E l \in DOMAIN list : SpoiledPart(list[l]) THEN Fail ELSE list
       /\ list \notin {Fail, Crash}
  <2>1. Entries(s, q, ReadStatusListener) = Whole(z)
    BY DEF Entries
  <2>2. /\ Keys(s, q) = DOMAIN list /\ Shaped(list, DOMAIN list)
        /\ \A k \in DOMAIN list : /\ IsStatus(list[k], ListenerStatusFields)
                                  /\ StatusIs(s, q ++ k, list[k], ListenerStatusFields)
                                  /\ Path(q ++ k)
    BY Longer DEF IsConfiguration, ConfigurationIs, AreStatuses, StatusesAre, IsList, Shaped
  <2> HIDE DEF list, q
  <2>3. /\ z = [k \in DOMAIN list |-> z[k]]
        /\ \A k \in DOMAIN list : /\ z[k] = IF SpoiledPart(list[k]) THEN Fail ELSE list[k]
                                  /\ list[k] \notin {Fail, Crash}
    BY <2>2, StatusRead
  <2> HIDE DEF z
  <2> QED  BY <1>2, <2>1, <2>2, <2>3, WholeAs, NoMarks
<1> HIDE DEF failed
<1>11. IsConfiguration(w)
  BY <1>4, <1>5 DEF IsConfiguration, AreFailed, list
<1>12. CASE bad
  <2>1. \E f \in ConfigurationFields : y[f] = Fail
    BY <1>9, <1>10, <1>12 DEF ConfigurationFields
  <2>2. Whole(y) = Fail
    BY <1>2, <1>3, <2>1, WholeAs
  <2> QED  BY <1>1, <1>6, <1>11, <1>12, <2>2 DEF w
<1>13. CASE ~bad
  <2>1. \A f \in ConfigurationFields : y[f] = w[f] /\ w[f] \notin {Fail, Crash}
    BY <1>4, <1>6, <1>7, <1>8, <1>9, <1>10, <1>13 DEF ConfigurationFields
  <2>2. Whole(y) = w
    BY <1>2, <1>4, <2>1, WholeAs
  <2> QED  BY <1>1, <1>6, <1>11, <1>13, <2>2 DEF w
<1> QED  BY <1>12, <1>13

(***************************************************************************)
(* A stream in the datastore and in the book                               *)
(***************************************************************************)
IsBooked(b) ==
  /\ Shaped(b, {"request", "configured", "configuration"})
  /\ IsRequest(b.request) /\ b.configured \in {0, 1}
  /\ b.configuration # Null => IsConfiguration(b.configuration)
  /\ b.configured = 1 => b.configuration # Null

StreamIs(s, p, id, b) ==
  /\ Get(s, p ++ "stream_id") = id /\ Get(s, p ++ "configured") = b.configured
  /\ RequestIs(s, p ++ "request", b.request)
  /\ b.configuration = Null => Blank(s, p ++ "configuration")
  /\ b.configuration # Null => ConfigurationIs(s, p ++ "configuration", b.configuration)

\* This, too, depends on what is below the path only.
LEMMA StreamStill ==
  ASSUME NEW s, NEW t, NEW p, Alike(s, t, p), NEW id, NEW b, StreamIs(t, p, id, b)
  PROVE  StreamIs(s, p, id, b)
<1>1. \A f : Alike(s, t, p ++ f)
  BY AlikeFurther
<1>2. \A f : Get(s, p ++ f) = Get(t, p ++ f) /\ (Blank(s, p ++ f) <=> Blank(t, p ++ f))
  BY <1>1, AlikeRead, AlikeBlank
<1>3. RequestIs(s, p ++ "request", b.request)
  BY <1>1, RequestStill DEF StreamIs
<1>4. b.configuration # Null => ConfigurationIs(s, p ++ "configuration", b.configuration)
  BY <1>1, ConfigurationStill DEF StreamIs
<1> QED  BY <1>2, <1>3, <1>4 DEF StreamIs

\* The three leaves and parts that a request sets, and the two of a configuration.
LEMMA DocumentsAre ==
  ASSUME NEW id
  PROVE  LET p == StreamPath(id)
         IN /\ \A x : IsRequest(x) =>
                 LET d == RequestDocument(id, x)
                 IN /\ Leafed(d) /\ Get(d, p ++ "stream_id") = id /\ Get(d, p ++ "configured") = 0
                    /\ RequestIs(d, p ++ "request", x) /\ Blank(d, p ++ "configuration")
            /\ \A x : IsConfiguration(x) =>
                 LET d == ConfigurationDocument(id, x)
                 IN /\ Leafed(d) /\ Get(d, p ++ "configured") = 1
                    /\ ConfigurationIs(d, p ++ "configuration", x)
                    /\ Blank(d, p ++ "request") /\ Blank(d, p ++ "stream_id")
<1> DEFINE p == StreamPath(id)
<1>1. Path(p) /\ \A f : Path(p ++ f) /\ Below(p ++ f, p ++ f)
  BY StreamPathIs, Longer, BelowIs
<1> HIDE DEF p
<1>2. \A f, v : LET l == PutLeaf(p ++ f, v) IN Under(l, p ++ f) /\ Get(l, p ++ f) = v
  BY <1>1 DEF PutLeaf, Under, Get
<1>3. ASSUME NEW x, IsRequest(x)
      PROVE  LET d == RequestDocument(id, x)
             IN /\ Leafed(d) /\ Get(d, p ++ "stream_id") = id /\ Get(d, p ++ "configured") = 0
                /\ RequestIs(d, p ++ "request", x) /\ Blank(d, p ++ "configuration")
  <2> DEFINE a == PutLeaf(p ++ "stream_id", id)
             b == WriteRequest(p ++ "request", x)
             c == PutLeaf(p ++ "configured", 0)
             D == [stream_id |-> a, request |-> b, configured |-> c]
             K == {"stream_id", "request", "configured"}
             docs == {a, b, c}
             u == Union(docs)
  <2>1. RequestDocument(id, x) = u
    BY DEF RequestDocument, p
  <2>2. /\ Under(a, p ++ "stream_id") /\ Get(a, p ++ "stream_id") = id
        /\ Under(c, p ++ "configured") /\ Get(c, p ++ "configured") = 0
    BY <1>2
  <2>3. Under(b, p ++ "request") /\ RequestIs(b, p ++ "request", x)
    BY <1>1, <1>3, RequestUnder, RequestWritten
  <2> HIDE DEF a, b, c
  <2>4. D["stream_id"] = a /\ D["request"] = b /\ D["configured"] = c
    OBVIOUS
  <2> HIDE DEF D
  <2>5. AreEntries(docs, p, K, D)
    BY <2>2, <2>3, <2>4 DEF AreEntries
  <2> HIDE DEF docs, u
  <2>6. /\ Leafed(u) /\ Alike(u, a, p ++ "stream_id") /\ Alike(u, b, p ++ "request")
        /\ Alike(u, c, p ++ "configured") /\ Blank(u, p ++ "configuration")
    BY <1>1, <2>4, <2>5, EntriesAre DEF u
  <2>7. Get(u, p ++ "stream_id") = id /\ Get(u, p ++ "configured") = 0
    BY <2>2, <2>6, AlikeRead
  <2>8. RequestIs(u, p ++ "request", x)
    BY <2>3, <2>6, RequestStill
  <2> QED  BY <2>1, <2>6, <2>7, <2>8
<1>4. ASSUME NEW x, IsConfiguration(x)
      PROVE  LET d == ConfigurationDocument(id, x)
             IN /\ Leafed(d) /\ Get(d, p ++ "configured") = 1
                /\ ConfigurationIs(d, p ++ "configuration", x)
                /\ Blank(d, p ++ "request") /\ Blank(d, p ++ "stream_id")
  <2> DEFINE b == WriteConfiguration(p ++ "configuration", x)
             c == PutLeaf(p ++ "configured", 1)
             D == [configuration |-> b, configured |-> c]
             K == {"configuration", "configured"}
             docs == {b, c}
             u == Union(docs)
  <2>1. ConfigurationDocument(id, x) = u
    BY DEF ConfigurationDocument, p
  <2>2. Under(c, p ++ "configured") /\ Get(c, p ++ "configured") = 1
    BY <1>2
  <2>3. Under(b, p ++ "configuration") /\ ConfigurationIs(b, p ++ "configuration", x)
    BY <1>1, <1>4, ConfigurationUnder, ConfigurationWritten
  <2> HIDE DEF b, c
  <2>4. D["configuration"] = b /\ D["configured"] = c
    OBVIOUS
  <2> HIDE DEF D
  <2>5. AreEntries(docs, p, K, D)
    BY <2>2, <2>3, <2>4 DEF AreEntries
  <2> HIDE DEF docs, u
  <2>6. /\ Leafed(u) /\ Alike(u, b, p ++ "configuration") /\ Alike(u, c, p ++ "configured")
        /\ Blank(u, p ++ "request") /\ Blank(u, p ++ "stream_id")
    BY <1>1, <2>4, <2>5, EntriesAre DEF u
  <2>7. Get(u, p ++ "configured") = 1
    BY <2>2, <2>6, AlikeRead
  <2>8. ConfigurationIs(u, p ++ "configuration", x)
    BY <2>3, <2>6, ConfigurationStill
  <2> QED  BY <2>1, <2>6, <2>7, <2>8
<1> QED  BY <1>3, <1>4 DEF p

\* The path of a stream has no case on it.
LEMMA StreamsMerge ==
  ASSUME NEW s, Leafed(s), NEW d, Leafed(d), NEW id \in Ids
  PROVE  /\ Merging(s, d, StreamPath(id))
         /\ \A f \in {"stream_id", "request", "configured", "configuration"} :
              Merging(s, d, StreamPath(id) ++ f)
<1>1. Plain(StreamPath(id)) /\ Path(StreamPath(id))
  <2>1. id \notin CaseNames
    BY IdsAreNoCases
  <2>2. 1..2 = {1, 2}
    OBVIOUS
  <2> QED  BY <2>1, <2>2, StreamPathIs DEF Plain, CaseNames
<1> QED  BY <1>1, MergingFurther DEF Merging, CaseNames

\* A stream that is written first is as the request says.
LEMMA FirstRequest ==
  ASSUME MarksApart, NEW s, Leafed(s), NEW id \in Ids, Blank(s, StreamPath(id)),
         NEW x, IsRequest(x)
  PROVE  LET b == [request |-> x, configured |-> 0, configuration |-> Null]
         IN StreamIs(WriteStreamRequest(s, id, x), StreamPath(id), id, b) /\ IsBooked(b)
<1> DEFINE p == StreamPath(id)
           d == RequestDocument(id, x)
           b == [request |-> x, configured |-> 0, configuration |-> Null]
<1>1. WriteStreamRequest(s, id, x) = Merge(s, d)
  BY WritesAreMerges
<1>2. /\ b.request = x /\ b.configured = 0 /\ b.configuration = Null
      /\ Shaped(b, {"request", "configured", "configuration"})
  BY DEF Shaped
<1> HIDE DEF b
<1>3. StreamIs(d, p, id, b) /\ Leafed(d) /\ Path(p)
  BY <1>2, DocumentsAre, StreamPathIs DEF StreamIs
<1> HIDE DEF d, p
<1>4. Alike(Merge(s, d), d, p)
  BY <1>3, MergeBlank DEF p
<1>5. StreamIs(Merge(s, d), p, id, b)
  BY <1>3, <1>4, StreamStill
<1>6. IsBooked(b)
  BY <1>2 DEF IsBooked
<1> QED  BY <1>1, <1>5, <1>6 DEF b, p

\* A further request is merged into the one that is there, and what the CNC
\* computed stays, but does not count.
LEMMA NextRequest ==
  ASSUME MarksApart, NEW s, Leafed(s), NEW id \in Ids, NEW old, IsBooked(old),
         StreamIs(s, StreamPath(id), id, old), NEW x, IsRequest(x)
  PROVE  LET b == [old EXCEPT !.request = MergeRequests(@, x), !.configured = 0]
         IN StreamIs(WriteStreamRequest(s, id, x), StreamPath(id), id, b) /\ IsBooked(b)
<1> DEFINE p == StreamPath(id)
           d == RequestDocument(id, x)
           m == Merge(s, d)
           b == [old EXCEPT !.request = MergeRequests(@, x), !.configured = 0]
<1>1. WriteStreamRequest(s, id, x) = m
  BY WritesAreMerges
<1>2. /\ b.request = MergeRequests(old.request, x) /\ b.configured = 0
      /\ b.configuration = old.configuration
      /\ Shaped(b, {"request", "configured", "configuration"})
  BY DEF Shaped, IsBooked
<1> HIDE DEF b
<1>3. /\ Leafed(d) /\ Get(d, p ++ "stream_id") = id /\ Get(d, p ++ "configured") = 0
      /\ RequestIs(d, p ++ "request", x) /\ Blank(d, p ++ "configuration")
  BY DocumentsAre
<1> HIDE DEF d, p
<1>4. \A f \in {"stream_id", "request", "configured", "configuration"} : Merging(s, d, p ++ f)
  BY <1>3, StreamsMerge DEF p
<1>5. Get(m, p ++ "stream_id") = id /\ Get(m, p ++ "configured") = 0
  <2>1. id # Fail /\ 0 # Fail
    BY NoMarks, IdsAre DEF OwnTexts
  <2> QED  BY <1>3, <2>1, MergeHas DEF Get
<1>6. RequestIs(m, p ++ "request", b.request) /\ IsRequest(b.request)
  BY <1>2, <1>3, <1>4, RequestMerged DEF IsBooked, StreamIs, p
<1>7. Alike(m, s, p ++ "configuration")
  BY <1>3, <1>4, MergeKeeps DEF Merging
<1>8. /\ b.configuration = Null => Blank(m, p ++ "configuration")
      /\ b.configuration # Null => ConfigurationIs(m, p ++ "configuration", b.configuration)
  BY <1>2, <1>7, AlikeBlank, ConfigurationStill DEF StreamIs, p
<1>9. StreamIs(m, p, id, b)
  BY <1>2, <1>5, <1>6, <1>8 DEF StreamIs
<1>10. IsBooked(b)
  BY <1>2, <1>6 DEF IsBooked
<1> QED  BY <1>1, <1>9, <1>10 DEF b, p

\* A configuration is merged into the one that is there, if there is one.
LEMMA NextConfiguration ==
  ASSUME MarksApart, NEW s, Leafed(s), NEW id \in Ids, NEW old, IsBooked(old),
         StreamIs(s, StreamPath(id), id, old), NEW x, IsConfiguration(x)
  PROVE  LET b == [old EXCEPT !.configured = 1,
                              !.configuration = IF @ = Null THEN x ELSE MergeConfigurations(@, x)]
         IN StreamIs(WriteStreamConfiguration(s, id, x), StreamPath(id), id, b) /\ IsBooked(b)
<1> DEFINE p == StreamPath(id)
           d == ConfigurationDocument(id, x)
           m == Merge(s, d)
           b == [old EXCEPT !.configured = 1,
                            !.configuration = IF @ = Null THEN x ELSE MergeConfigurations(@, x)]
<1>1. WriteStreamConfiguration(s, id, x) = m
  BY WritesAreMerges
<1>2. /\ b.request = old.request /\ b.configured = 1
      /\ b.configuration = IF old.configuration = Null THEN x
                           ELSE MergeConfigurations(old.configuration, x)
      /\ Shaped(b, {"request", "configured", "configuration"})
  BY DEF Shaped, IsBooked
<1> HIDE DEF b
<1>3. /\ Leafed(d) /\ Get(d, p ++ "configured") = 1
      /\ ConfigurationIs(d, p ++ "configuration", x)
      /\ Blank(d, p ++ "request") /\ Blank(d, p ++ "stream_id")
  BY DocumentsAre
<1> HIDE DEF d, p
<1>4. \A f \in {"stream_id", "request", "configured", "configuration"} : Merging(s, d, p ++ f)
  BY <1>3, StreamsMerge DEF p
<1>5. Get(m, p ++ "configured") = 1
  <2>1. 1 # Fail
    BY NoMarks
  <2> QED  BY <1>3, <2>1, MergeHas DEF Get
<1>6. Alike(m, s, p ++ "request") /\ Alike(m, s, p ++ "stream_id")
  BY <1>3, <1>4, MergeKeeps DEF Merging
<1>7. Get(m, p ++ "stream_id") = id /\ RequestIs(m, p ++ "request", b.request)
  BY <1>2, <1>6, AlikeRead, RequestStill DEF StreamIs, p
<1>8. /\ ConfigurationIs(m, p ++ "configuration", b.configuration)
      /\ IsConfiguration(b.configuration)
  <2>1. CASE old.configuration = Null
    <3>1. Blank(s, p ++ "configuration")
      BY <2>1 DEF StreamIs, p
    <3>2. Alike(m, d, p ++ "configuration")
      BY <1>3, <1>4, <3>1, MergeBlank DEF Merging
    <3> QED  BY <1>2, <1>3, <2>1, <3>2, ConfigurationStill
  <2>2. CASE old.configuration # Null
    <3>1. IsConfiguration(old.configuration) /\ ConfigurationIs(s, p ++ "configuration", old.configuration)
      BY <2>2 DEF StreamIs, IsBooked, p
    <3> QED  BY <1>2, <1>3, <1>4, <2>2, <3>1, ConfigurationMerged
  <2> QED  BY <2>1, <2>2
<1>9. b.configuration # Null
  BY <1>8, NoMarks DEF IsConfiguration
<1>10. StreamIs(m, p, id, b)
  BY <1>2, <1>5, <1>7, <1>8, <1>9 DEF StreamIs
<1>11. IsBooked(b)
  BY <1>2, <1>8, <1>9 DEF IsBooked
<1> QED  BY <1>1, <1>10, <1>11 DEF b, p

\* A stream is read as it is in the book, or not at all if that is spoiled.
LEMMA StreamRead ==
  ASSUME MarksApart, NEW s, Leafed(s), NEW id \in Ids, NEW b, IsBooked(b),
         StreamIs(s, StreamPath(id), id, b)
  PROVE  /\ ReadStream(s, StreamPath(id)) = IF Spoiled(b) THEN Fail ELSE Expected(id, b)
         /\ Expected(id, b) \notin {Fail, Crash} /\ IsStream(Expected(id, b))
<1> DEFINE p == StreamPath(id)
           e == Expected(id, b)
           parts == [request       |-> ReadRequest(s, p ++ "request"),
                     configuration |-> IF Get(s, p ++ "configured") = 1
                                       THEN ReadConfiguration(s, p ++ "configuration") ELSE Null]
           leaves == {"stream_id", "configured"}
<1>1. ReadStream(s, p) = Struct(s, p, leaves, parts)
  BY DEF ReadStream
<1>2. /\ DOMAIN parts = {"request", "configuration"}
      /\ parts["request"] = ReadRequest(s, p ++ "request")
      /\ parts["configuration"] = IF b.configured = 1
                                  THEN ReadConfiguration(s, p ++ "configuration") ELSE Null
  BY DEF StreamIs
<1> HIDE DEF parts
<1>3. /\ Shaped(e, StreamFields) /\ e.stream_id = id /\ e.configured = b.configured
      /\ e.request = b.request
      /\ e.configuration = IF b.configured = 0 THEN Null ELSE AsRead(b.configuration)
  BY DEF Expected, Shaped, StreamFields, AsRead
<1> HIDE DEF e
<1>4. Path(p) /\ \A f : Path(p ++ f)
  BY StreamPathIs, Longer
<1>5. /\ ReadRequest(s, p ++ "request") = IF SpoiledFrame(b) THEN Fail ELSE b.request
      /\ b.request \notin {Fail, Crash}
  BY <1>4, RequestRead DEF IsBooked, StreamIs, SpoiledFrame
<1>6. b.configured \in {0, 1} /\ IsRequest(b.request)
  BY DEF IsBooked
<1>7. /\ parts["configuration"] = IF SpoiledConfiguration(b) THEN Fail ELSE e.configuration
      /\ e.configuration \notin {Fail, Crash}
      /\ IF b.configured = 1 THEN IsConfiguration(e.configuration) ELSE e.configuration = Null
  <2>1. CASE b.configured = 0
    <3>1. Null \notin {Fail, Crash}
      BY NoMarks
    <3> QED  BY <1>2, <1>3, <2>1, <3>1 DEF SpoiledConfiguration
  <2>2. CASE b.configured = 1
    <3>1. IsConfiguration(b.configuration) /\ ConfigurationIs(s, p ++ "configuration", b.configuration)
      BY <2>2 DEF IsBooked, StreamIs
    <3> QED  BY <1>2, <1>3, <1>4, <2>2, <3>1, ConfigurationRead DEF SpoiledConfiguration
  <2> QED  BY <1>6, <2>1, <2>2
<1>8. /\ Shaped(e, leaves \cup DOMAIN parts) /\ leaves \cap DOMAIN parts = {}
      /\ Sound(e, leaves) /\ Holds(s, p, leaves, e)
  <2>1. StreamFields = leaves \cup DOMAIN parts
    BY <1>2 DEF StreamFields
  <2>2. id \notin {Fail, Crash} /\ b.configured \notin {Fail, Crash}
    BY <1>6, NoMarks, IdsAre DEF OwnTexts
  <2> QED  BY <1>2, <1>3, <2>1, <2>2 DEF Sound, Holds, StreamIs
<1>9. e \notin {Fail, Crash} /\ IsStream(e)
  BY <1>3, <1>6, <1>7, NoMarks DEF IsStream
<1>10. Struct(s, p, leaves, parts) = IF Spoiled(b) THEN Fail ELSE e
  <2>1. CASE Spoiled(b)
    <3>1. \E f \in DOMAIN parts : parts[f] = Fail
      BY <1>2, <1>5, <1>7, <2>1 DEF Spoiled
    <3> QED  BY <1>8, <2>1, <3>1, StructAs
  <2>2. CASE ~Spoiled(b)
    <3>1. \A f \in DOMAIN parts : parts[f] = e[f] /\ e[f] \notin {Fail, Crash}
      BY <1>2, <1>3, <1>5, <1>7, <2>2 DEF Spoiled
    <3> QED  BY <1>8, <2>2, <3>1, StructAs
  <2> QED  BY <2>1, <2>2
<1> QED  BY <1>1, <1>9, <1>10 DEF e

\* Writing to one stream and deleting it leaves each other one as it was.
LEMMA OthersStay ==
  ASSUME NEW s, Leafed(s), NEW id, NEW other \in Ids, other # id, NEW b,
         StreamIs(s, StreamPath(other), other, b)
  PROVE  /\ \A x : /\ StreamIs(WriteStreamRequest(s, id, x), StreamPath(other), other, b)
                   /\ StreamIs(WriteStreamConfiguration(s, id, x), StreamPath(other), other, b)
         /\ StreamIs(Delete(s, {StreamPath(id)}), StreamPath(other), other, b)
<1>1. other \notin CaseNames
  BY IdsAreNoCases
<1>2. ASSUME NEW x
      PROVE  /\ Alike(WriteStreamRequest(s, id, x), s, StreamPath(other))
             /\ Alike(WriteStreamConfiguration(s, id, x), s, StreamPath(other))
  BY <1>1, StreamsElsewhere, DocumentsUnder, WritesAreMerges
<1>3. Alike(Delete(s, {StreamPath(id)}), s, StreamPath(other))
  BY DeleteElsewhere
<1> QED  BY <1>2, <1>3, StreamStill

(***************************************************************************)
(* The datastore agrees with the book                                      *)
(***************************************************************************)
DataInv ==
  /\ StreamsInv /\ AskedSound
  /\ \A id \in Streams : IsBooked(book[id]) /\ StreamIs(store, StreamPath(id), id, book[id])

\* What is listed: all streams, or none if one is spoiled.
LEMMA ListingIs ==
  ASSUME MarksApart, DataInv
  PROVE  /\ ReadStreams(store) =
              IF \E id \in Streams : Spoiled(book[id]) THEN Fail
              ELSE [id \in Streams |-> Expected(id, book[id])]
         /\ [id \in Streams |-> Expected(id, book[id])] # Fail
         /\ \A id \in Streams : Expected(id, book[id]) # Undefined
<1> DEFINE bad == \E id \in Streams : Spoiled(book[id])
           x == [id \in Streams |-> Expected(id, book[id])]
           y == [k \in Keys(store, StreamsPath) |-> ReadStream(store, StreamsPath ++ k)]
<1>1. ReadStreams(store) = Whole(y)
  BY DEF Entries, ReadStreams
<1>2. Keys(store, StreamsPath) = Streams /\ Leafed(store) /\ Streams \subseteq Ids
  BY DEF DataInv, StreamsInv, NothingElseStored
<1>3. ASSUME NEW id \in Streams
      PROVE  /\ ReadStream(store, StreamsPath ++ id) =
                  IF Spoiled(book[id]) THEN Fail ELSE Expected(id, book[id])
             /\ Expected(id, book[id]) \notin {Fail, Crash}
  <2>1. StreamPath(id) = StreamsPath ++ id
    BY DEF StreamPath
  <2> QED  BY <1>2, <2>1, StreamRead DEF DataInv
<1>4. /\ y = [id \in Streams |-> y[id]]
      /\ \A id \in Streams : y[id] = IF Spoiled(book[id]) THEN Fail ELSE x[id]
      /\ \A id \in Streams : x[id] \notin {Fail, Crash}
      /\ Shaped(x, Streams)
  BY <1>2, <1>3 DEF Shaped
<1>5. ASSUME NEW id \in Streams PROVE Expected(id, book[id]) # Undefined
  <2>1. Shaped(Expected(id, book[id]), {"stream_id", "request", "configured", "configuration"})
    BY DEF Expected, Shaped
  <2> QED  BY <2>1, NoMarks
<1> HIDE DEF x, y
<1>6. ReadStreams(store) = (IF bad THEN Fail ELSE x) /\ x # Fail
  <2>1. (\A id \in Streams : y[id] = x[id] /\ x[id] \notin {Fail, Crash}) => Whole(y) = x
    BY <1>4, WholeAs
  <2>2. (\E id \in Streams : y[id] = Fail) => Whole(y) = Fail
    BY <1>4, WholeAs
  <2> QED  BY <1>1, <1>4, <2>1, <2>2, NoMarks
<1> QED  BY <1>5, <1>6 DEF x

\* A client is given each stream as it was written, unless it is spoiled.
LEMMA AnswersAre ==
  ASSUME MarksApart, DataInv
  PROVE  ListingFailsIffSpoiled /\ AnswersAsWritten
<1>1. ListingFailsIffSpoiled
  BY ListingIs DEF ListingFailsIffSpoiled
<1>2. ASSUME NEW id \in Streams, ~Spoiled(book[id])
      PROVE  DeserializeStream(SerializeStream(ReadStream(store, StreamPath(id))))
               = Expected(id, book[id])
  <2>1. id \in Ids /\ Leafed(store)
    BY DEF DataInv, StreamsInv
  <2>2. /\ ReadStream(store, StreamPath(id)) = Expected(id, book[id])
        /\ IsStream(Expected(id, book[id]))
    BY <1>2, <2>1, StreamRead DEF DataInv
  <2> QED  BY <2>2, StreamReturns
<1> QED  BY <1>1, <1>2 DEF AnswersAsWritten

\* At the start there is nothing, or the one stream that was kept.
LEMMA InitData == MarksApart /\ Init => DataInv
<1> SUFFICES ASSUME MarksApart, Init PROVE DataInv
  OBVIOUS
<1>1. StreamsInv
  BY InitStreams
<1>2. AskedSound
  <2>1. DOMAIN asked = {}
    BY DEF Init
  <2> QED  BY <2>1 DEF AskedSound
<1>3. CASE store = << >> /\ place = << >> /\ book = << >>
  BY <1>1, <1>2, <1>3 DEF DataInv, Streams
<1>4. ASSUME NEW n \in 1..2, NEW kind \in Requests, NEW computed \in Configurations,
             Kept(IdNumber[n], kind, computed)
      PROVE  DataInv
  <2> DEFINE id == IdNumber[n]
             r == RequestOf(kind, MaxWrites)
             c == ConfigurationOf(computed, MaxWrites)
             s == WriteStreamRequest(<< >>, id, r)
             b == [request |-> r, configured |-> 0, configuration |-> Null]
             d == [request |-> r, configured |-> 1, configuration |-> c]
  <2>1. /\ store = WriteStreamConfiguration(s, id, c)
        /\ Streams = {id} /\ book[id] = d
    BY <1>4 DEF Kept, Streams
  <2>2. IsRequest(r) /\ IsConfiguration(c)
    BY RequestSound, ConfigurationSound
  <2>3. id \in Ids
    <3>1. n \in 1..5
      OBVIOUS
    <3> QED  BY <3>1 DEF Ids
  <2> DEFINE e == [b EXCEPT !.configured = 1,
                      !.configuration = IF @ = Null THEN c ELSE MergeConfigurations(@, c)]
  <2> HIDE DEF id, r, c
  <2>4. d = e
    <3>1. e = [b EXCEPT !.configured = 1, !.configuration = c]
      OBVIOUS
    <3> HIDE DEF e
    <3> QED  BY <3>1
  <2> HIDE DEF b, d
  <2>5. Leafed(<< >>) /\ Blank(<< >>, StreamPath(id)) /\ Keys(<< >>, StreamsPath) \cap CaseNames = {}
    BY DEF Leafed, Blank, Keys
  <2>6. StreamIs(s, StreamPath(id), id, b) /\ IsBooked(b)
    BY <2>2, <2>3, <2>5, FirstRequest DEF b
  <2>7. Leafed(s)
    BY <2>5, ListedAfterWrite
  <2> HIDE DEF s
  <2>8. StreamIs(store, StreamPath(id), id, e) /\ IsBooked(e)
    BY <2>1, <2>2, <2>3, <2>6, <2>7, NextConfiguration
  <2> QED  BY <1>1, <1>2, <2>1, <2>4, <2>8 DEF DataInv
<1> QED  BY <1>3, <1>4 DEF Init

\* A request is stored with the stream it is for.
LEMMA RequestData ==
  ASSUME MarksApart, DataInv, NEW request, IsRequest(request), StreamRequest(request)
  PROVE  DataInv'
<1> DEFINE id == IdNumber[Cardinality(Keys(store, StreamsPath)) + 1]
<1>1. /\ store' = WriteStreamRequest(store, id, request) /\ book' = Posted(id, request)
      /\ UNCHANGED <<emulate_opencnc, asked>>
  BY DEF StreamRequest, Store
<1>2. StreamsInv' /\ StreamsInv
  BY RequestKeeps DEF DataInv
<1> HIDE DEF id
<1>3. AskedSound'
  BY <1>1 DEF DataInv, AskedSound
<1>4. /\ Streams' = Streams \cup {id} /\ Streams' \subseteq Ids /\ Leafed(store)
      /\ Keys(store, StreamsPath) = Streams
      /\ \A other \in Streams \ {id} : book'[other] = book[other]
      /\ id \in Streams => book'[id] = [book[id] EXCEPT !.request = MergeRequests(@, request),
                                                         !.configured = 0]
      /\ id \notin Streams =>
           book'[id] = [request |-> request, configured |-> 0, configuration |-> Null]
  BY <1>1, <1>2 DEF Posted, Streams, StreamsInv, NothingElseStored
<1>5. ASSUME NEW other \in Streams', other # id
      PROVE  IsBooked(book'[other]) /\ StreamIs(store', StreamPath(other), other, book'[other])
  <2>1. other \in Streams /\ other \in Ids
    BY <1>4, <1>5
  <2>2. IsBooked(book[other]) /\ StreamIs(store, StreamPath(other), other, book[other])
    BY <2>1 DEF DataInv
  <2> QED  BY <1>1, <1>4, <1>5, <2>1, <2>2, OthersStay
<1>6. IsBooked(book'[id]) /\ StreamIs(store', StreamPath(id), id, book'[id])
  <2>1. CASE id \in Streams
    <3>1. IsBooked(book[id]) /\ StreamIs(store, StreamPath(id), id, book[id]) /\ id \in Ids
      BY <1>4, <2>1 DEF DataInv
    <3> DEFINE b == [book[id] EXCEPT !.request = MergeRequests(@, request), !.configured = 0]
    <3>2. StreamIs(WriteStreamRequest(store, id, request), StreamPath(id), id, b) /\ IsBooked(b)
      BY <1>4, <3>1, NextRequest
    <3>3. book'[id] = b
      BY <1>4, <2>1
    <3> HIDE DEF b
    <3> QED  BY <1>1, <3>2, <3>3
  <2>2. CASE id \notin Streams
    <3>1. Blank(store, StreamPath(id)) /\ id \in Ids
      BY <1>4, <2>2, ListedAre DEF Blank
    <3> DEFINE b == [request |-> request, configured |-> 0, configuration |-> Null]
    <3>2. StreamIs(WriteStreamRequest(store, id, request), StreamPath(id), id, b) /\ IsBooked(b)
      BY <1>4, <3>1, FirstRequest
    <3>3. book'[id] = b
      BY <1>4, <2>2
    <3> HIDE DEF b
    <3> QED  BY <1>1, <3>2, <3>3
  <2> QED  BY <2>1, <2>2
<1> QED  BY <1>2, <1>3, <1>4, <1>5, <1>6 DEF DataInv

\* A bounded set of numbers has a highest one.
LEMMA HighestExists ==
  ASSUME NEW S \in SUBSET Nat, S # {}, NEW b \in Nat, \A i \in S : i <= b
  PROVE  \E h \in S : \A i \in S : i <= h
<1> DEFINE T == {n \in Nat : \A i \in S : i <= n}
<1>1. T \subseteq Nat /\ T # {}
  OBVIOUS
<1>2. \E x \in T : \A y \in T : ~(<<y, x>> \in OpToRel(<, Nat))
  BY <1>1, NatLessThanWellFounded, WFMin
<1>3. PICK x \in T : \A y \in T : ~(y < x)
  BY <1>2 DEF OpToRel
<1>4. \E i \in S : i >= x
  <2>1. CASE x = 0
    <3>1. PICK i \in S : i \in Nat
      OBVIOUS
    <3> QED  BY <2>1, <3>1
  <2>2. CASE x # 0
    <3>1. x - 1 \in Nat /\ x - 1 < x
      BY <2>2
    <3>2. x - 1 \notin T
      BY <3>1, <1>3
    <3> QED  BY <3>1, <3>2
  <2> QED  BY <2>1, <2>2
<1> QED  BY <1>3, <1>4

\* How many streams stand before one in the list.
Earlier(at, id) == Cardinality({i \in DOMAIN at : at[i] < at[id]})

\* The array ends at the number of the unconfigured streams: each of them is in
\* it just if no configured one stands before one of them.
LEMMA CountedFirst ==
  ASSUME NEW at, NEW un \in SUBSET DOMAIN at, IsFiniteSet(DOMAIN at),
         NEW b \in Nat, \A i \in DOMAIN at : at[i] \in 0..b,
         \A i \in un, j \in DOMAIN at : at[i] = at[j] => i = j
  PROVE  (\A i \in un : Earlier(at, i) < Cardinality(un))
           <=> \A i \in un, j \in DOMAIN at \ un : at[i] < at[j]
<1> DEFINE Before(id) == {i \in DOMAIN at : at[i] < at[id]}
<1>1. IsFiniteSet(un) /\ Cardinality(un) \in Nat
  BY FS_Subset, FS_CardinalityType
<1>2. \A id : IsFiniteSet(Before(id)) /\ Cardinality(Before(id)) \in Nat
  BY FS_Subset, FS_CardinalityType
<1>3. ASSUME \A i \in un, j \in DOMAIN at \ un : at[i] < at[j], NEW id \in un
      PROVE  Earlier(at, id) < Cardinality(un)
  <2>1. Before(id) \subseteq un \ {id}
    BY <1>3
  <2>2. /\ IsFiniteSet(un \ {id})
        /\ Cardinality(un \ {id}) = Cardinality(un) - 1
    BY <1>1, <1>3, FS_RemoveElement
  <2>3. Cardinality(Before(id)) <= Cardinality(un \ {id})
    BY <2>1, <2>2, FS_Subset
  <2>4. Earlier(at, id) = Cardinality(Before(id))
    BY DEF Earlier
  <2> HIDE DEF Before
  <2> QED  BY <1>1, <1>2, <2>2, <2>3, <2>4
<1>4. ASSUME \A i \in un : Earlier(at, i) < Cardinality(un),
             NEW i \in un, NEW j \in DOMAIN at \ un, ~(at[i] < at[j])
      PROVE  FALSE
  <2>1. at[j] < at[i]
    <3>1. at[i] \in 0..b /\ at[j] \in 0..b /\ at[i] # at[j]
      BY <1>4
    <3> QED  BY <3>1, <1>4
  <2>2. \E h \in {at[k] : k \in un} : \A x \in {at[k] : k \in un} : x <= h
    <3>1. {at[k] : k \in un} \in SUBSET Nat /\ {at[k] : k \in un} # {}
      BY <1>4
    <3>2. \A x \in {at[k] : k \in un} : x <= b
      OBVIOUS
    <3> QED  BY <3>1, <3>2, HighestExists
  <2>3. PICK m \in un : \A k \in un : at[k] <= at[m]
    BY <2>2
  <2>4. \A k \in un \ {m} : at[k] < at[m]
    BY <2>3
  <2>5. at[j] < at[m]
    <3>1. at[i] \in 0..b /\ at[j] \in 0..b /\ at[m] \in 0..b /\ at[i] <= at[m]
      BY <1>4, <2>3
    <3> QED  BY <2>1, <3>1
  <2>6. (un \ {m}) \cup {j} \subseteq Before(m)
    BY <2>4, <2>5
  <2>7. Cardinality((un \ {m}) \cup {j}) = Cardinality(un)
    <3>1. IsFiniteSet(un \ {m}) /\ Cardinality(un \ {m}) = Cardinality(un) - 1
      BY <1>1, FS_RemoveElement
    <3>2. j \notin un \ {m}
      BY <1>4
    <3>3. Cardinality((un \ {m}) \cup {j}) = Cardinality(un) - 1 + 1
      BY <3>1, <3>2, FS_AddElement
    <3> QED  BY <1>1, <3>3
  <2>8. Cardinality(un) <= Cardinality(Before(m))
    <3>1. (un \ {m}) \cup {j} \in SUBSET Before(m)
      BY <2>6
    <3> HIDE DEF Before
    <3>2. Cardinality((un \ {m}) \cup {j}) <= Cardinality(Before(m))
      BY <1>2, <3>1, FS_Subset
    <3> QED  BY <2>7, <3>2
  <2>9. Earlier(at, m) = Cardinality(Before(m))
    BY DEF Earlier
  <2>10. Earlier(at, m) < Cardinality(un)
    BY <1>4
  <2> HIDE DEF Before
  <2> QED  BY <1>1, <1>2, <2>8, <2>9, <2>10
<1> QED  BY <1>3, <1>4

\* The CNC is asked for the streams without a configuration.
LEMMA AskedAre ==
  ASSUME MarksApart, DataInv, ComputeRequests
  PROVE  /\ DOMAIN asked' = {id \in Open : Earlier(place, id) < Cardinality(Open)}
         /\ \A id \in DOMAIN asked' :
              /\ DeserializeStreamRequest(RequestIn(asked'[id])) = book[id].request
              /\ ~emulate_opencnc =>
                   /\ asked'[id] = [n \in DOMAIN asked'[id] |-> asked'[id][n]]
                   /\ "configured" \in DOMAIN asked'[id]
                   /\ "configuration" \notin DOMAIN asked'[id]
<1> DEFINE array == ReadUnconfigured(store, place)
           open == {id \in Open : Earlier(place, id) < Cardinality(Open)}
           x == [id \in open |-> Expected(id, book[id])]
<1>1. [id \in {i \in DOMAIN array : array[i] # Undefined} |-> array[id]] = x
  <2> DEFINE all == [id \in Streams |-> Expected(id, book[id])]
             read == ReadStreams(store)
             unread == {id \in DOMAIN all : all[id].configured = 0}
             counted == {id \in DOMAIN all :
                           Cardinality({i \in DOMAIN all : place[i] < place[id]}) < Cardinality(unread)}
  <2>1. array # Fail
    BY DEF ComputeRequests
  <2>2. read = all
    <3>1. read = Fail => array = Fail
      BY DEF ReadUnconfigured
    <3> HIDE DEF array
    <3> QED  BY <2>1, <3>1, ListingIs
  <2>3. all # Fail
    BY ListingIs
  <2>4. array = [id \in counted |-> IF id \in unread THEN all[id] ELSE Undefined]
    BY <2>2, <2>3 DEF ReadUnconfigured
  <2> HIDE DEF array
  <2>5. /\ DOMAIN all = Streams /\ DOMAIN place = Streams
        /\ \A id \in Streams : all[id] = Expected(id, book[id]) /\ all[id] # Undefined
    BY ListingIs DEF DataInv, StreamsInv
  <2>6. unread = Open
    BY <2>5 DEF Open, Expected
  <2>7. counted = {id \in Streams : Earlier(place, id) < Cardinality(Open)}
    BY <2>5, <2>6 DEF Earlier
  <2> HIDE DEF all, counted, unread
  <2>8. Open \subseteq Streams
    BY DEF Open
  <2>9. {i \in DOMAIN array : array[i] # Undefined} = open
    BY <2>4, <2>5, <2>6, <2>7, <2>8
  <2>10. \A id \in open : array[id] = Expected(id, book[id])
    BY <2>4, <2>5, <2>6, <2>7, <2>8
  <2> QED  BY <2>9, <2>10
<1>2. asked' = IF emulate_opencnc THEN SerializeCncRequest(x)["requests"]
               ELSE SerializeStreams(x)["streams"]
  <2> HIDE DEF x
  <2> QED  BY <1>1, Zenon DEF ComputeRequests
<1> HIDE DEF array
<1>3. /\ DOMAIN x = open /\ open \subseteq Streams
      /\ \A id \in open : /\ x[id].request = book[id].request /\ x[id].configured = 0
                          /\ x[id].stream_id = id
  BY DEF Expected, Open
<1>4. ASSUME NEW id \in open PROVE IsStream(x[id]) /\ IsRequest(book[id].request)
  <2>1. id \in Ids /\ Leafed(store) /\ IsBooked(book[id])
        /\ StreamIs(store, StreamPath(id), id, book[id]) /\ book[id].configured = 0
    BY DEF DataInv, StreamsInv, Open
  <2>2. x[id] = Expected(id, book[id])
    OBVIOUS
  <2> HIDE DEF x
  <2> QED  BY <2>1, <2>2, StreamRead DEF IsBooked
<1> HIDE DEF x, open
<1>5. CASE emulate_opencnc
  <2>1. asked' = [id \in open |-> CncRequest(x[id].request, x[id].stream_id)]
    BY <1>2, <1>3, <1>5 DEF SerializeCncRequest, Array, CncRequest
  <2>2. ASSUME NEW id \in open PROVE DeserializeStreamRequest(RequestIn(asked'[id])) = book[id].request
    <3>1. asked'[id] = CncRequest(book[id].request, id)
      BY <1>3, <2>1
    <3>2. RequestIn(asked'[id]) = MovedBack(CncRequest(book[id].request, id))
      BY <1>5, <3>1 DEF RequestIn, MovedBack
    <3> QED  BY <1>4, <3>2, RequestTogether
  <2> QED  BY <1>5, <2>1, <2>2 DEF open
<1>6. CASE ~emulate_opencnc
  <2>1. asked' = [id \in open |-> SerializeStream(x[id])]
    <3> DEFINE y == Array(SerializeStream, x)
               o == [streams |-> y]
    <3>1. Shaped(o, {"streams"})
      BY DEF Shaped
    <3>2. o["streams"] = y
      OBVIOUS
    <3>3. SerializeStreams(x) = Object(o)
      BY DEF SerializeStreams
    <3> HIDE DEF y, o
    <3>4. Object(o)["streams"] = y
      <4>1. {"streams"} \subseteq Named
        BY DEF Named
      <4>2. \A f \in {"streams"} : Object(o)[Name(f)] = o[f]
        BY <3>1, <4>1, RecordReturns
      <4>3. Object(o)[Name("streams")] = o["streams"]
        BY <4>2
      <4> QED  BY <3>2, <4>3, NamesAre
    <3>5. asked' = y
      BY <1>2, <1>6, <3>3, <3>4
    <3> QED  BY <1>3, <3>5 DEF y, Array
  <2>2. ASSUME NEW id \in open
        PROVE  /\ DeserializeStreamRequest(RequestIn(asked'[id])) = book[id].request
               /\ asked'[id] = [n \in DOMAIN asked'[id] |-> asked'[id][n]]
               /\ "configured" \in DOMAIN asked'[id]
               /\ "configuration" \notin DOMAIN asked'[id]
    <3> DEFINE o == SerializeStream(x[id])
    <3>1. /\ o = [n \in DOMAIN o |-> o[n]]
          /\ "configured" \in DOMAIN o /\ "configuration" \notin DOMAIN o
          /\ o["request"] = SerializeStreamRequest(book[id].request)
      BY <1>3, <1>4, StreamReturns
    <3>2. asked'[id] = o
      BY <2>1
    <3> HIDE DEF o
    <3>3. RequestIn(asked'[id]) = SerializeStreamRequest(book[id].request)
      BY <1>6, <3>1, <3>2 DEF RequestIn
    <3> QED  BY <1>4, <3>1, <3>2, <3>3, RequestReturns
  <2> QED  BY <2>1, <2>2 DEF open
<1> QED  BY <1>5, <1>6

\* A configuration is stored as the CNC computed it.
LEMMA ComputedData ==
  ASSUME MarksApart, DataInv, NEW id \in DOMAIN asked \cap Streams, NEW kind \in Configurations,
         SetComputed(id, kind)
  PROVE  DataInv'
<1> DEFINE c == ConfigurationOf(kind, writes)
<1>1. IsConfiguration(c)
  BY ConfigurationSound
<1>2. Answer(id, kind)[id].configuration = c
  BY <1>1, AnswerIs DEF DataInv
<1> HIDE DEF c
<1>3. /\ store' = WriteStreamConfiguration(store, id, c) /\ book' = Computed(id, c)
      /\ asked' = [i \in DOMAIN asked \ {id} |-> asked[i]] /\ emulate_opencnc' = emulate_opencnc
  BY <1>2 DEF SetComputed
<1>4. StreamsInv' /\ StreamsInv
  BY NextStreams DEF DataInv, Next
<1>5. AskedSound'
  BY <1>3 DEF DataInv, AskedSound
<1> DEFINE b == [book[id] EXCEPT !.configured = 1,
                   !.configuration = IF @ = Null THEN c ELSE MergeConfigurations(@, c)]
<1>6. IsBooked(book[id]) /\ StreamIs(store, StreamPath(id), id, book[id])
  BY DEF DataInv
<1>7. Streams' = Streams /\ \A other \in Streams \ {id} : book'[other] = book[other]
  BY <1>3 DEF Computed, Streams
<1>8. book'[id] = b
  BY <1>3, <1>6 DEF Computed, Streams, IsBooked, Shaped
<1> HIDE DEF b
<1>9. Streams \subseteq Ids /\ Leafed(store)
  BY <1>4 DEF StreamsInv
<1>10. ASSUME NEW other \in Streams, other # id
       PROVE  IsBooked(book'[other]) /\ StreamIs(store', StreamPath(other), other, book'[other])
  <2>1. IsBooked(book[other]) /\ StreamIs(store, StreamPath(other), other, book[other])
    BY DEF DataInv
  <2> QED  BY <1>3, <1>7, <1>9, <1>10, <2>1, OthersStay
<1>11. IsBooked(b) /\ StreamIs(store', StreamPath(id), id, b)
  BY <1>1, <1>3, <1>6, <1>9, NextConfiguration DEF b
<1> QED  BY <1>4, <1>5, <1>7, <1>8, <1>10, <1>11 DEF DataInv

\* Every step keeps the datastore and the book in agreement.
LEMMA NextData == MarksApart /\ DataInv /\ [Next]_vars => DataInv'
<1> SUFFICES ASSUME MarksApart, DataInv, [Next]_vars PROVE DataInv'
  OBVIOUS
<1>1. StreamsInv' /\ StreamsInv
  BY NextStreams DEF DataInv
<1>2. ASSUME NEW kind \in Requests, PostRequest(kind) PROVE DataInv'
  <2> DEFINE r == RequestOf(kind, writes)
  <2>1. IsRequest(r) /\ DeserializeStreamRequest(SerializeStreamRequest(r)) = r
    BY RequestSound, RequestReturns
  <2>2. StreamRequest(r)
    BY <1>2, <2>1 DEF PostRequest
  <2> HIDE DEF r
  <2> QED  BY <2>1, <2>2, RequestData
<1>3. ASSUME NEW kind \in Simplified, PostSimplified(kind) PROVE DataInv'
  BY <1>3, SimplifiedSound, RequestData DEF PostSimplified
<1>4. ASSUME NEW id \in Streams, DeleteStream(id) PROVE DataInv'
  <2>1. /\ store' = Delete(store, {StreamPath(id)}) /\ Streams' = Streams \ {id}
        /\ \A other \in Streams' : book'[other] = book[other]
        /\ UNCHANGED <<emulate_opencnc, asked>>
    BY <1>4 DEF DeleteStream, Streams
  <2>2. AskedSound'
    BY <2>1 DEF DataInv, AskedSound
  <2>3. ASSUME NEW other \in Streams'
        PROVE  IsBooked(book'[other]) /\ StreamIs(store', StreamPath(other), other, book'[other])
    <3>1. other \in Streams /\ other # id /\ other \in Ids /\ Leafed(store)
      BY <1>1, <2>1, <2>3 DEF StreamsInv
    <3>2. IsBooked(book[other]) /\ StreamIs(store, StreamPath(other), other, book[other])
      BY <3>1 DEF DataInv
    <3> QED  BY <2>1, <3>1, <3>2, OthersStay
  <2> QED  BY <1>1, <2>2, <2>3 DEF DataInv
<1>5. CASE ComputeRequests
  <2>1. UNCHANGED <<emulate_opencnc, store, writes, book>>
    BY <1>5 DEF ComputeRequests
  <2>2. AskedSound'
    BY <1>5, <2>1, AskedAre DEF AskedSound
  <2> QED  BY <1>1, <2>1, <2>2 DEF DataInv, Streams
<1>6. ASSUME NEW id \in DOMAIN asked \cap Streams, NEW kind \in Configurations,
             SetComputed(id, kind)
      PROVE  DataInv'
  BY <1>6, ComputedData
<1>7. CASE Unanswered
  <2>1. UNCHANGED <<emulate_opencnc, store, writes, book>> /\ DOMAIN asked' = {}
    BY <1>7 DEF Unanswered
  <2>2. AskedSound'
    BY <2>1 DEF AskedSound
  <2> QED  BY <1>1, <2>1, <2>2 DEF DataInv, Streams
<1>8. CASE UNCHANGED vars
  BY <1>8, <1>1 DEF vars, DataInv, AskedSound, Streams
<1> QED  BY <1>2, <1>3, <1>4, <1>5, <1>6, <1>7, <1>8 DEF Next

\* Whatever requests and configurations are merged into whichever streams, the
\* listing fails just as long as one of them is spoiled.
THEOREM ListingFailsOnlyIfSpoiled == ASSUME MarksApart PROVE Spec => []ListingFailsIffSpoiled
<1>1. Init => DataInv
  BY InitData
<1>2. DataInv /\ [Next]_vars => DataInv'
  BY NextData
<1>3. DataInv => ListingFailsIffSpoiled
  BY AnswersAre
<1> QED  BY <1>1, <1>2, <1>3, PTL DEF Spec

\* A client gets for a stream the merge of all that was written to it, through
\* the datastore and the JSON, in either format of the CNC.
THEOREM AnswersAreAsWritten == ASSUME MarksApart PROVE Spec => []AnswersAsWritten
<1>1. Init => DataInv
  BY InitData
<1>2. DataInv /\ [Next]_vars => DataInv'
  BY NextData
<1>3. DataInv => AnswersAsWritten
  BY AnswersAre
<1> QED  BY <1>1, <1>2, <1>3, PTL DEF Spec

\* The CNC is asked for streams without a configuration only, each with its
\* whole request in either format, and for all of them just if no configured
\* stream stands before one of them in the list.
THEOREM CncIsAskedForTheUnconfigured == ASSUME MarksApart PROVE Spec => AskedForTheUnconfigured
<1> DEFINE A == ComputeRequests =>
                  /\ DOMAIN asked' \subseteq Open
                  /\ DOMAIN asked' = Open <=>
                        \A i \in Open, j \in Streams \ Open : place[i] < place[j]
                  /\ \A id \in DOMAIN asked' :
                       DeserializeStreamRequest(RequestIn(asked'[id])) = book[id].request
<1>1. Init => DataInv
  BY InitData
<1>2. DataInv /\ [Next]_vars => DataInv'
  BY NextData
<1>3. DataInv => A
  <2> SUFFICES ASSUME DataInv, ComputeRequests PROVE A
    OBVIOUS
  <2> DEFINE told == {id \in Open : Earlier(place, id) < Cardinality(Open)}
             first == \A i \in Open, j \in Streams \ Open : place[i] < place[j]
  <2>1. /\ DOMAIN asked' = told
        /\ \A id \in DOMAIN asked' :
             DeserializeStreamRequest(RequestIn(asked'[id])) = book[id].request
    BY AskedAre
  <2>2. told = Open <=> \A i \in Open : Earlier(place, i) < Cardinality(Open)
    OBVIOUS
  <2>3. (\A i \in Open : Earlier(place, i) < Cardinality(Open)) <=> first
    <3>1. /\ IsFiniteSet(DOMAIN place) /\ DOMAIN place = Streams /\ writes \in Nat
          /\ \A i \in DOMAIN place : place[i] \in 0..writes
          /\ \A i, j \in DOMAIN place : place[i] = place[j] => i = j
      BY WritesAssumption DEF DataInv, StreamsInv
    <3>2. Open \in SUBSET DOMAIN place
      BY <3>1 DEF Open
    <3> QED  BY <3>1, <3>2, CountedFirst
  <2> HIDE DEF told
  <2>4. told \subseteq Open
    BY DEF told
  <2> QED  BY <2>1, <2>2, <2>3, <2>4
<1>4. DataInv /\ [Next]_vars => [A]_vars
  BY <1>3
<1> QED  BY <1>1, <1>2, <1>4, PTL DEF Spec, AskedForTheUnconfigured
=============================================================================
