----------------------------- MODULE SystemData -----------------------------
(***************************************************************************)
(* What becomes of the contents of modules, the topology, images and       *)
(* applications: documents come in through the REST interface, from the    *)
(* CNC and from the registry, the datastore keeps them, and clients and    *)
(* the other processes read them back.                                     *)
(*                                                                         *)
(* A call is one step, but for the two that commit twice: the update of    *)
(* the data of a module and the writing of an application are two steps,   *)
(* between which the others act and the RESTModule may end.  A commit that *)
(* sysrepo refuses changes nothing here; what it leaves in the session is  *)
(* the subject of SharedSession.                                           *)
(***************************************************************************)
EXTENDS SystemStore, Json

CONSTANTS
  AppDocuments,    \* applications clients send
  DataDocuments,   \* data of a module clients send
  Topologies,      \* topologies the CNC discovers
  Enddevices,      \* end devices clients send
  Graphs,          \* graphs clients send
  Registries,      \* contents of the registry: sets of image names
  StreamIds,       \* streams
  InitialData,     \* the data of the one module at start-up
  MaxWrites        \* bound: documents sent

VARIABLES
  store,   \* the datastore
  half,    \* the call between its two commits, or Idle
  writes,  \* documents sent so far
  book     \* history: what was sent last and the mappings so far; cut: what
           \* lacks the second commit; torn: what got only the second one

vars == <<store, half, writes, book>>

Module == "0"
Idle == [call |-> "none"]

\* The streams are only looked at as targets of the mappings.
StreamLeaf(id) == StreamPath(id) ++ "stream_id"

NoMapping == [egress |-> {}, ingress |-> {}]
Mapping(id) == IF id \in DOMAIN book.mappings THEN book.mappings[id] ELSE NoMapping
MergeMappings(a, b) == [role \in DOMAIN a |-> a[role] \cup b[role]]

\* The function f with the value v for k.
With(f, k, v) == [x \in DOMAIN f \cup {k} |-> IF x = k THEN v ELSE f[x]]

----------------------------------------------------------------------------
(* What is assumed of the constants: the marks are told apart from what    *)
(* the members of a structure hold, and what is sent has a type.  A number *)
(* has less than eight digits (MemberOf), and what is written under a key  *)
(* is no case of a choice.                                                 *)

Filled(x, fields) == \A f \in fields : x[f] \notin {Fail, Crash}

Kinds == {"true", "false", "base64", "plain", "decimal", "number"}
MaxNumber == 9999999
Between(n, low, high) == n \in Int /\ low <= n /\ n <= high
IsNumber(n, type) ==
    /\ Between(n, -MaxNumber, MaxNumber)
    /\ type = "INT8"   => Between(n, -128, 127)
    /\ type = "INT16"  => Between(n, -32768, 32767)
    /\ type = "UINT8"  => Between(n, 0, 255)
    /\ type = "UINT16" => Between(n, 0, 65535)
    /\ type \in {"UINT32", "UINT64"} => n >= 0

\* A text that is a word has the number 0.
IsText(x) ==
    /\ x = [kind |-> x.kind, n |-> x.n] /\ x.kind \in Kinds
    /\ IF x.kind = "number" THEN Between(x.n, -MaxNumber, MaxNumber) ELSE x.n = 0
HasType(value, type) ==
    \/ type \in Pointers \cup {"DECIMAL64"} /\ IsText(value)
    \/ type = "BOOLEAN" /\ value \in BOOLEAN
    \/ type \in DOMAIN Bits /\ IsNumber(value, type)

AreValues(x, fields) ==
    \A k \in DOMAIN x : Filled(x[k], fields) /\ HasType(x[k].value, x[k].type)
IsApp(x) ==
    /\ Filled(x, AppLeaves \cup {"mac", "image_ref"})
    /\ AreValues(x.parameters, ParameterLeaves)
    /\ x.id \notin CaseNames
IsDevice(x) == Filled(x, EnddeviceLeaves \cup {"apps"})
IsGraph(x)  == \A c \in DOMAIN x : Filled(x[c], Connection) /\ x[c].id \in Nat

\* The texts that the processes write of themselves.
OwnTexts == {Module, "CUC", "", "latest", "N/A"}

ASSUME MarksDiffer ==
    \A m \in {Fail, Crash, Undefined, Null} : m \notin Int /\ m \notin BOOLEAN /\ m \notin OwnTexts

ASSUME DocumentsTyped ==
    /\ \A d \in AppDocuments : DeserializeApp(d) # Null => IsApp(DeserializeApp(d))
    /\ \A d \in DataDocuments : AreValues(DeserializeModuleData(d), DataLeaves)
    /\ AreValues(InitialData, DataLeaves)
    /\ \A d \in Enddevices :
          LET device == DeserializeEnddevice(d) IN IsDevice(device) /\ device.mac \notin CaseNames
    /\ \A d \in Graphs : IsGraph(DeserializeGraph(d))
    /\ \A d \in Topologies :
          LET devices == DeserializeTopology(d).devices
          IN /\ \A m \in DOMAIN devices.enddevices : IsDevice(devices.enddevices[m])
             /\ \A w \in DOMAIN devices.switches : Filled(devices.switches[w], Switch)
             /\ IsGraph(DeserializeTopology(d).graph)
    /\ \A r \in Registries : r \cap {Fail, Crash} = {}
    /\ StreamIds \cap CaseNames = {}

----------------------------------------------------------------------------
(* REST interface: applications *)

Begins == writes < MaxWrites /\ writes' = writes + 1

\* _api_application_app_create and _api_application_app_update: the id is
\* that of the body.  A body that is not understood changes nothing.
AppBegin(document) ==
    LET app == DeserializeApp(document)
        written == AppHeaderWritten(store, app)
    IN /\ Begins
       /\ half = Idle
       /\ app # Null
       /\ Valid(written)
       /\ store' = written
       /\ half' = [call |-> "app", app |-> app]
       /\ book' = [book EXCEPT !.apps = With(@, app.id, app),
                               !.cut = @ \cup {<<"app", app.id>>},
                               !.torn = @ \ {app.id}]

\* The mapping may name a stream that is gone by now, and the application
\* itself may have been deleted.
AppEnd ==
    LET app == half.app
        written == AppWritten(store, app)
    IN /\ half.call = "app"
       /\ half' = Idle
       /\ IF Valid(written)
          THEN /\ store' = written
               /\ book' = [book EXCEPT
                    !.mappings = With(@, app.id, MergeMappings(Mapping(app.id), app.stream_mapping)),
                    !.cut = @ \ {<<"app", app.id>>},
                    !.torn = IF app.id \in DOMAIN book.apps \/ written = store THEN @
                             ELSE @ \cup {app.id}]
          ELSE UNCHANGED <<store, book>>
       /\ UNCHANGED writes

\* DELETE of an application.  End devices keep their references to it.
AppDelete(id) ==
    /\ store' = RemoveApplicationApp(store, id)
    /\ book' = [book EXCEPT !.apps = [a \in DOMAIN @ \ {id} |-> @[a]],
                            !.mappings = [a \in DOMAIN @ \ {id} |-> @[a]],
                            !.cut = @ \ {<<"app", id>>},
                            !.torn = @ \ {id}]
    /\ UNCHANGED <<half, writes>>

----------------------------------------------------------------------------
(* REST interface: module data, topology, streams *)

DataBegin(document) ==
    /\ Begins
    /\ half = Idle
    /\ store' = DataCleared(store, Module)
    /\ half' = [call |-> "data", data |-> DeserializeModuleData(document)]
    /\ book' = [book EXCEPT !.data = half'.data, !.cut = @ \cup {<<"data">>}]

DataEnd ==
    /\ half.call = "data"
    /\ store' = DataWritten(store, Module, half.data)
    /\ half' = Idle
    /\ book' = [book EXCEPT !.cut = @ \ {<<"data">>}]
    /\ UNCHANGED writes

\* _api_topology_devices_update.
UpdateDevice(document) ==
    LET device == DeserializeEnddevice(document)
    IN /\ Begins
       /\ store' = UpdateEnddevice(store, device)
       /\ book' = [book EXCEPT !.devices = With(@, device.mac, device)]
       /\ UNCHANGED half

UpdateGraph(document) ==
    LET graph == DeserializeGraph(document)
    IN /\ Begins
       /\ store' = SetTopologyGraph(store, graph)
       /\ book' = [book EXCEPT !.graph = graph]
       /\ UNCHANGED half

AddStream(id) ==
    /\ Begins
    /\ store' = Merge(store, PutLeaf(StreamLeaf(id), id))
    /\ UNCHANGED <<half, book>>

\* Sysrepo refuses the deletion if an application that was not read is still
\* mapped to the stream.
RemoveStream(id) ==
    \E apps \in AppsLeft(store) :
        LET written == DeleteStream(store, apps, id)
        IN /\ Valid(written)
           /\ store' = written
           /\ book' = [book EXCEPT !.mappings =
                        [a \in DOMAIN @ |-> [role \in DOMAIN @[a] |-> @[a][role] \ {id}]]]
           /\ UNCHANGED <<half, writes>>

\* The RESTModule ends; the first commit of a call stays.
Stop ==
    /\ half # Idle
    /\ half' = Idle
    /\ UNCHANGED <<store, writes, book>>

----------------------------------------------------------------------------
(* CUC and ContainerModule *)

\* The CNC answers EVENT_TOPOLOGY_DISCOVERY_REQUESTED.
DiscoverTopology(document) ==
    LET topology == DeserializeTopology(document)
    IN /\ Begins
       /\ store' = SetTopology(store, topology)
       /\ book' = [book EXCEPT !.devices = topology.devices.enddevices, !.graph = topology.graph]
       /\ UNCHANGED half

\* container_discover_images: an empty registry is treated like an error.
DiscoverImages(registry) ==
    LET images == DeserializeImages([repositories |-> registry])
        written == SetApplicationImages(store, images)
    IN /\ Begins
       /\ images # Null
       /\ Valid(written)
       /\ store' = written
       /\ book' = [book EXCEPT !.images = registry]
       /\ UNCHANGED half

----------------------------------------------------------------------------
Registered ==
    [id |-> Module, name |-> "CUC", description |-> "", path |-> "", registered |-> 0,
     subscribed_events_mask |-> 0, p_id |-> 0, data |-> InitialData]

Init ==
    /\ store = WriteModule(ModulePath(Module), Registered)
    /\ half = Idle
    /\ writes = 0
    /\ book = [apps |-> << >>, mappings |-> << >>, data |-> InitialData, devices |-> << >>,
               graph |-> << >>, images |-> {}, cut |-> {}, torn |-> {}]

Next ==
    \/ \E d \in AppDocuments : AppBegin(d)
    \/ AppEnd
    \/ \E id \in Keys(store, AppsPath) : AppDelete(id)
    \/ \E d \in DataDocuments : DataBegin(d)
    \/ DataEnd
    \/ \E d \in Enddevices : UpdateDevice(d)
    \/ \E d \in Graphs : UpdateGraph(d)
    \/ \E id \in StreamIds \ Keys(store, StreamsPath) : AddStream(id)
    \/ \E id \in Keys(store, StreamsPath) : RemoveStream(id)
    \/ Stop
    \/ \E d \in Topologies : DiscoverTopology(d)
    \/ \E r \in Registries : DiscoverImages(r)

Spec == Init /\ [][Next]_vars

----------------------------------------------------------------------------
(* Properties *)

\* Whether an integer is the same after the smallest signed type that holds
\* it was read as another type.  Four digits are base64 for the union.
IsBase64(n) == 1000 <= n /\ n <= 9999
NaturalBits(n) == IF -128 <= n /\ n < 128 THEN 8 ELSE IF -32768 <= n /\ n < 32768 THEN 16 ELSE 32

\* The texts that the union leaves alone.
TextSurvives(text) ==
    \/ text.kind \in {"true", "base64", "plain", "decimal"}
    \/ text.kind = "number" /\ IsBase64(text.n)

ParameterSurvives(type, value) ==
    CASE type \in {"BINARY", "STRING", "DECIMAL64"} -> TextSurvives(value)
      [] type = "INSTANCE_IDENTIFIER" -> FALSE
      [] type = "BOOLEAN" -> ~value
      [] OTHER -> ~IsBase64(value) /\ (value >= 0 \/ NaturalBits(value) = Bits[type])

DataSurvives(type, value) ==
    CASE type \in Pointers \cup {"DECIMAL64"} -> TextSurvives(value)
      [] type = "BOOLEAN" -> ~value
      [] OTHER -> ~IsBase64(value) /\ NaturalBits(value) >= Bits[type]

\* A text that is not read as a text is an address that strdup or strtod
\* follows; an instance identifier is read of the data of a module only.
Texts == {"BINARY", "STRING", "DECIMAL64"}
Harmful(x, types) == \E k \in DOMAIN x : x[k].type \in types /\ ~TextSurvives(x[k].value)
HarmfulApp(id) == Harmful(book.apps[id].parameters, Texts)

SameValues(read, sent, Survives(_, _)) ==
    /\ DOMAIN read = DOMAIN sent
    /\ \A k \in DOMAIN sent :
          /\ read[k].name = sent[k].name /\ read[k].type = sent[k].type
          /\ read[k].value = sent[k].value <=> Survives(sent[k].type, sent[k].value)

Cut(id) == <<"app", id>> \in book.cut

\* An application is read as it was sent last, mapped to every stream it was
\* ever mapped to that still exists, and without any parameter while the
\* second commit of its last writing is missing.  Of the parameters exactly
\* those come back that the union of the schema stores as their own type or
\* as a type whose bytes read alike (_write_app, lyd_data_to_data_value).
AppAsSent ==
    \A id \in DOMAIN book.apps :
        LET sent == book.apps[id]
            read == ReadApp(store, AppPath(id))
        IN IF ~Cut(id) /\ HarmfulApp(id) THEN read = Crash
           ELSE /\ read \notin {Fail, Crash}
                /\ \A f \in DOMAIN sent \ {"parameters", "stream_mapping"} : read[f] = sent[f]
                /\ read.stream_mapping = Mapping(id)
                /\ IF Cut(id) THEN read.parameters = << >>
                   ELSE SameValues(read.parameters, sent.parameters, ParameterSurvives)

\* The data of a module is what was sent last, or nothing at all while the
\* second commit of sysrepo_update_module_data is missing, for whoever reads
\* it and for good if the process ended there.  Here a value must be stored
\* as a type as wide as its own (sysrepo_data_to_data_value).
DataAsSent ==
    LET read == ReadModuleData(store, ModulePath(Module) ++ "data")
    IN IF <<"data">> \in book.cut THEN read = << >>
       ELSE IF Harmful(book.data, Pointers \cup {"DECIMAL64"}) THEN read = Crash
       ELSE SameValues(read, book.data, DataSurvives)

\* The applications can be listed, and the whole tree be served, with the
\* images of the last registry that was not empty, unless a text of some
\* parameter is stored as a number or as false, or an application was deleted
\* between the two commits of its writing: then an entry without a name stays,
\* and no application can be listed any more (_write_app, _read_apps,
\* _read_uni).  The data of the module ruins the tree alike.
Listable == ReadApps(store) \notin {Fail, Crash}
TreeServed ==
    LET uni == ReadUni(store)
    IN /\ uni \notin {Fail, Crash} <=> Listable /\ ReadModules(store) # Crash
       /\ uni \notin {Fail, Crash} =>
             LET images == SerializeUni(uni)["application"]["images"]["images"]
             IN {images[i]["name"] : i \in DOMAIN images} = book.images
ListedUnlessTorn ==
    LET harmful == {id \in DOMAIN book.apps : ~Cut(id) /\ HarmfulApp(id)}
    IN /\ Listable <=> book.torn \cup harmful = {}
       /\ harmful = {} => ReadApps(store) # Crash
       /\ Keys(store, StreamsPath) = {} => TreeServed

\* A stream can be deleted exactly if every application it was mapped to has
\* been read, although nobody looks whether they could be.  As long as no
\* application is torn, all are read, and no deletion is refused, not even
\* between the two commits of an application; a torn one is never read, so
\* that a stream it is mapped to can not be deleted any more
\* (sysrepo_delete_stream).
Mapped(id) ==
    {a \in DOMAIN book.mappings :
        \E role \in DOMAIN book.mappings[a] : id \in book.mappings[a][role]}
RefusedIffMissed ==
    \A id \in Keys(store, StreamsPath) : \A apps \in AppsLeft(store) :
        /\ Valid(DeleteStream(store, apps, id)) <=> Mapped(id) \subseteq DOMAIN apps
        /\ book.torn = {} => Mapped(id) \subseteq DOMAIN apps
        /\ book.torn \cap DOMAIN apps = {}

\* End devices and the graph are read as they were sent last, a device with
\* no other references to applications than those, but of the number of a
\* connection only its lowest byte (_remove_app_refs, _read_connection).
Modulo256(graph) == [c \in DOMAIN graph |-> [graph[c] EXCEPT !.id = @ % 256]]
TopologyAsSent ==
    LET read == ReadTopology(store)
    IN read.devices.enddevices = book.devices /\ read.graph = Modulo256(book.graph)

\* An application as a client got it can be sent back, and means the same,
\* exactly if it has an image (serialize_app, deserialize_app).  One with an
\* instance identifier, which is not read, cannot be sent at all.
SentBackIffImage ==
    \A id \in DOMAIN book.apps :
        LET read == ReadApp(store, AppPath(id))
            types == {read.parameters[k].type : k \in DOMAIN read.parameters}
        IN read # Crash /\ "INSTANCE_IDENTIFIER" \notin types =>
             DeserializeApp(SerializeApp(read)) = IF read.has_image = 1 THEN read ELSE Null
=============================================================================
