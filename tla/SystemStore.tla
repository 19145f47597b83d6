---------------------------- MODULE SystemStore ----------------------------
(***************************************************************************)
(* How sysrepo_client.c keeps modules, the topology, images and            *)
(* applications in the datastore (lines 2729-4710), and the operations it  *)
(* offers on them: an operator that gives a datastore is one commit of a   *)
(* call, the others what a reading call answers.                           *)
(***************************************************************************)
EXTENDS StreamStore, DataValues

----------------------------------------------------------------------------
(* Modules *)

ModulesPath == <<"modules">>
ModulePath(id) == ModulesPath ++ id

DataLeaves == {"name", "type"}

ReadModuleDataEntry(s, p) ==
    LET type == Get(s, p ++ "type")
        text == Get(s, p ++ "value")
    IN Struct(s, p, DataLeaves,
              [value |-> IF type = Fail \/ text = Fail THEN Fail ELSE ReadItemValue(type, text)])

WriteModuleDataEntry(p, x) ==
    Union({PutLeaves(p, DataLeaves, x), PutLeaf(p ++ "value", TextOf(x.type, x.value))})

ReadModuleData(s, p) == Entries(s, p, ReadModuleDataEntry)
WriteModuleData(p, x) == PutEntries(p, WriteModuleDataEntry, x)

ModuleLeaves == {"id", "name", "description", "path", "subscribed_events_mask",
                 "registered", "p_id"}

ReadModule(s, p) == Struct(s, p, ModuleLeaves, [data |-> ReadModuleData(s, p ++ "data")])

WriteModule(p, x) ==
    Union({PutLeaves(p, ModuleLeaves, x), WriteModuleData(p ++ "data", x.data)})

ReadModules(s) == Entries(s, ModulesPath, ReadModule)

\* Mutant of DataCleared: the new entries are merged with the old ones.
DataClearedNot(s, id) == s

\* sysrepo_update_module_data: the old entries are deleted and the deletion
\* committed before the new ones are written (and committed).
DataCleared(s, id) == Delete(s, {ModulePath(id) ++ "data"})
DataWritten(s, id, data) == Merge(s, WriteModuleData(ModulePath(id) ++ "data", data))

----------------------------------------------------------------------------
(* The topology *)

TopologyPath  == <<"topology">>
GraphPath     == TopologyPath ++ "graph"
EnddevicesPath == TopologyPath ++ "devices" ++ "enddevices"
EnddevicePath(mac) == EnddevicesPath ++ mac
SwitchesPath  == TopologyPath ++ "devices" ++ "switches"

EnddeviceLeaves == {"name", "mac", "iface", "num_cores", "interface_uri", "has_app"}

\* Without applications the array and its count are what malloc left.
ReadEnddevice(s, p) ==
    Struct(s, p, EnddeviceLeaves,
           [apps |-> IF Get(s, p ++ "has_app") = 1 THEN Keys(s, p ++ "apps") ELSE Undefined])

WriteEnddevice(p, x) ==
    Union({PutLeaves(p, EnddeviceLeaves, x),
           IF x.has_app = 1 THEN PutValues(p ++ "apps", x.apps) ELSE << >>})

\* Mutant of UpdateEnddevice: the references are only added to.
UpdateEnddeviceMerged(s, x) == Merge(s, WriteEnddevice(EnddevicePath(x.mac), x))

\* Writing an end device removes its references to applications first.
UpdateEnddevice(s, x) ==
    Merge(Delete(s, {EnddevicePath(x.mac) ++ "apps"}), WriteEnddevice(EnddevicePath(x.mac), x))

Switch == {"name", "mac", "ports_count"}
ReadSwitch(s, p) == Leaves(s, p, Switch)
WriteSwitch(p, x) == PutLeaves(p, Switch, x)

ReadDevices(s) ==
    Whole([enddevices |-> Entries(s, EnddevicesPath, ReadEnddevice),
           switches   |-> Entries(s, SwitchesPath, ReadSwitch)])

WriteDevices(x) ==
    Union({PutEntries(EnddevicesPath, WriteEnddevice, x.enddevices),
           PutEntries(SwitchesPath, WriteSwitch, x.switches)})

\* The number of a connection is stored with 16 bits and read with 8.
Connection == {"from_mac", "from_port", "to_mac", "to_port"}

ReadConnection(s, p) ==
    LET id == Get(s, p ++ "id")
    IN Struct(s, p, Connection, [id |-> IF id = Fail THEN Fail ELSE id % 2^8])

WriteConnection(p, x) == Union({PutLeaves(p, Connection, x), PutLeaf(p ++ "id", x.id)})

ReadGraph(s)  == Entries(s, GraphPath, ReadConnection)
WriteGraph(x) == PutEntries(GraphPath, WriteConnection, x)

ReadTopology(s)  == Whole([devices |-> ReadDevices(s), graph |-> ReadGraph(s)])
WriteTopology(x) == Union({WriteDevices(x.devices), WriteGraph(x.graph)})

TopologyRemoved(s) == Delete(s, {TopologyPath})
GraphRemoved(s)    == Delete(s, {GraphPath})

SetTopology(s, x)      == Merge(TopologyRemoved(s), WriteTopology(x))
SetTopologyGraph(s, x) == Merge(GraphRemoved(s), WriteGraph(x))

----------------------------------------------------------------------------
(* Images and applications *)

ImagesPath == <<"application", "images">>
AppsPath   == <<"application", "apps">>
AppPath(id) == AppsPath ++ id

Image == {"id", "name", "description", "version"}
WriteImage(p, x) == PutLeaves(p, Image, x)
ReadImage(s, p)  == Leaves(s, p, Image)

WriteImages(x) == PutEntries(ImagesPath, WriteImage, x)
ReadImages(s)  == Entries(s, ImagesPath, ReadImage)

ParameterLeaves == {"name", "type", "description"}

\* Mutant of WriteParameter: the description is forgotten.
WriteParameterBare(p, x) ==
    Union({PutLeaves(p, {"name", "type"}, x), PutLeaf(p ++ "value", TextOf(x.type, x.value))})

WriteParameter(p, x) ==
    Union({PutLeaves(p, ParameterLeaves, x), PutLeaf(p ++ "value", TextOf(x.type, x.value))})

ReadAppParameter(s, p) ==
    LET type == Get(s, p ++ "type")
        text == Get(s, p ++ "value")
    IN Struct(s, p, ParameterLeaves,
              [value |-> IF type = Fail \/ text = Fail THEN Fail
                         ELSE ReadSubtreeValue(type, text)])

\* The lists of streams are only added to.
WriteAppStreamMapping(p, x) ==
    Union({PutValues(p ++ "egress", x.egress), PutValues(p ++ "ingress", x.ingress)})

ReadAppStreamMapping(s, p) ==
    [egress |-> Keys(s, p ++ "egress"), ingress |-> Keys(s, p ++ "ingress")]

AppLeaves == {"id", "name", "description", "version", "has_mac", "iface", "has_image"}

AppHeader(x) ==
    Union({PutLeaves(AppPath(x.id), AppLeaves, x),
           IF x.has_mac = 1 THEN PutLeaf(AppPath(x.id) ++ "mac", x.mac) ELSE << >>,
           IF x.has_image = 1 THEN PutLeaf(AppPath(x.id) ++ "image_ref", x.image_ref) ELSE << >>})

\* Mutant of AppHeaderWritten: the parameters stay.
AppHeaderMerged(s, x) == Merge(s, AppHeader(x))

\* The first commit: the leaves of the application are written and its
\* parameters removed.
AppHeaderWritten(s, x) ==
    Merge(Delete(s, {AppPath(x.id) ++ "parameters"}), AppHeader(x))

\* The second one, of the caller: the parameters and the mapping.  An entry
\* that is gone by then is made again, with nothing but its key.
AppWritten(s, x) ==
    LET doc == Union({PutEntries(AppPath(x.id) ++ "parameters", WriteParameter, x.parameters),
                      WriteAppStreamMapping(AppPath(x.id) ++ "stream_mapping", x.stream_mapping)})
    IN IF doc = << >> THEN s ELSE Merge(s, Union({doc, PutLeaf(AppPath(x.id) ++ "id", x.id)}))

ReadApp(s, p) ==
    Struct(s, p, AppLeaves,
        [mac        |-> IF Get(s, p ++ "has_mac") = 1 THEN Get(s, p ++ "mac") ELSE Null,
         image_ref  |-> IF Get(s, p ++ "has_image") = 1 THEN Get(s, p ++ "image_ref") ELSE Null,
         parameters |-> Entries(s, p ++ "parameters", ReadAppParameter),
         stream_mapping |-> ReadAppStreamMapping(s, p ++ "stream_mapping")])

ReadApps(s) == Entries(s, AppsPath, ReadApp)

ReadApplication(s) == Whole([apps |-> ReadApps(s), images |-> ReadImages(s)])

SetApplicationImages(s, x) == Merge(Delete(s, {ImagesPath}), WriteImages(x))
RemoveApplicationApp(s, id) == Delete(s, {AppPath(id)})

\* Sysrepo refuses to commit a reference that has no target: an image of an
\* application, a stream of a mapping.  (The reference of an end device to
\* an application need not have one.)
Valid(s) ==
    \A a \in Keys(s, AppsPath) :
        /\ AppPath(a) ++ "image_ref" \in DOMAIN s =>
              s[AppPath(a) ++ "image_ref"] \in Keys(s, ImagesPath)
        /\ \A role \in {"egress", "ingress"} :
              Keys(s, AppPath(a) ++ "stream_mapping" ++ role) \subseteq Keys(s, StreamsPath)

----------------------------------------------------------------------------
(* Deleting a stream: the applications are read and the stream is taken    *)
(* out of their mappings; then the stream itself goes.                     *)

\* What _read_apps leaves in the array of sysrepo_delete_stream, which does not
\* look at its result: the applications before the first one that cannot be
\* read, in the order of the list, which is sysrepo's.  An entry that was never
\* written is undefined: it is skipped here, or ends the process like an
\* application whose reading crashes.
AppsLeft(s) ==
    LET apps == [a \in Keys(s, AppsPath) |-> ReadApp(s, AppPath(a))]
        fine == {a \in DOMAIN apps : apps[a] \notin {Fail, Crash}}
    IN CASE ReadApps(s) = Fail  -> {[a \in read |-> apps[a]] : read \in SUBSET fine}
         [] ReadApps(s) = Crash -> {}
         [] OTHER               -> {ReadApps(s)}

\* Mutant of MappingEntries: the other list is forgotten.
MappingEntriesEgress(apps, id) ==
    {AppPath(a) ++ "stream_mapping" ++ "egress" ++ id :
        a \in {b \in DOMAIN apps : id \in apps[b].stream_mapping.egress}}

MappingEntries(apps, id) ==
    UNION {{AppPath(a) ++ "stream_mapping" ++ role ++ id :
               role \in {r \in {"egress", "ingress"} : id \in apps[a].stream_mapping[r]}} :
           a \in DOMAIN apps}

DeleteStream(s, apps, id) == Delete(s, MappingEntries(apps, id) \cup {StreamPath(id)})

----------------------------------------------------------------------------
(* The whole tree, for GET /uni and for the export *)

ReadUni(s) ==
    Whole([streams     |-> ReadStreams(s),
           modules     |-> ReadModules(s),
           topology    |-> ReadTopology(s),
           application |-> ReadApplication(s)])
=============================================================================
