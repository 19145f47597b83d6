---------------------------- MODULE MCSystemData ----------------------------
(***************************************************************************)
(* Instance of SystemData for TLC.  The numbers stand on either side of    *)
(* the boundaries of the types and of the base64 texts.                    *)
(***************************************************************************)
EXTENDS SystemData

Parameter(type, value) ==
    [name |-> type, type |-> type, description |-> "", value |-> value]
Parameters(values) == [t \in DOMAIN values |-> Parameter(t, values[t])]

App(id, image, parameters, egress, ingress) ==
    [id |-> id, name |-> id, description |-> "", version |-> "1", iface |-> "",
     has_mac |-> IF egress = {} THEN 0 ELSE 1, mac |-> "mac",
     has_image |-> IF image = "" THEN 0 ELSE 1, image_ref |-> image,
     parameters |-> parameters, stream_mapping |-> [egress |-> egress, ingress |-> ingress]]

\* Clients send the member image-ref always, and may leave out the id.
Document(app) == SerializeApp(app) @@ ("image-ref" :> app.image_ref)
WithoutId(o) == [n \in DOMAIN o \ {"id"} |-> o[n]]

MCAppDocuments ==
    {Document(App("a", "i", Parameters([INT16 |-> 200, UINT16 |-> 1234, INT32 |-> -5, INT8 |-> -5,
                                        BOOLEAN |-> TRUE, STRING |-> Word("plain")]),
                  {"s"}, {})),
     Document(App("a", "", Parameters([UINT8 |-> 200, BOOLEAN |-> FALSE, DECIMAL64 |-> Word("decimal"),
                                       BINARY |-> Word("base64"), INSTANCE_IDENTIFIER |-> Word("plain")]),
                  {}, {"s"})),
     WithoutId(Document(App("b", "", Parameters([STRING |-> Number(12)]), {}, {})))}

Entry(type, value) == [name |-> type, type |-> type, value |-> value]
Data(values) == [t \in DOMAIN values |-> Entry(t, values[t])]

MCInitialData == Data([STRING |-> Word("plain"), INT32 |-> 70000])
MCDataDocuments ==
    {SerializeModuleData(Data([INT16 |-> -200, UINT16 |-> 5, UINT8 |-> 200, STRING |-> Number(1234),
                               INSTANCE_IDENTIFIER |-> Word("plain")])),
     SerializeModuleData(Data([STRING |-> Word("false"), INT8 |-> -5]))}

Device(mac, apps) ==
    [name |-> mac, mac |-> mac, iface |-> "eth", num_cores |-> 1, interface_uri |-> "opc",
     has_app |-> IF apps = {} THEN 0 ELSE 1, apps |-> apps]
Link(id) == [id |-> id, from_mac |-> "m", from_port |-> 1, to_mac |-> "n", to_port |-> 1]
Graph(ids) == [c \in {ToString(i) : i \in ids} |-> Link(CHOOSE i \in ids : ToString(i) = c)]

MCEnddevices == {SerializeEnddevice(Device("m", apps)) : apps \in {{"a"}, {"b_1"}, {}}}
MCGraphs == {SerializeGraph(Graph({1, 257}))}
MCTopologies ==
    {SerializeTopology([devices |-> [enddevices |-> [m \in {"m", "n"} |-> Device(m, {"a", "b_1"})],
                                     switches |-> [w \in {"w"} |->
                                         [name |-> "w", mac |-> "w", ports_count |-> 4]]],
                        graph |-> Graph({2})])}

MCRegistries == {{}, {"i"}, {"j"}}
=============================================================================
