------------------------- MODULE Deployment_proofs -------------------------
(***************************************************************************)
(* That a device only applies whole configurations, and what the switches  *)
(* and the parameters on the devices have to do with what clients asked    *)
(* for: for any number of streams, applications, devices, requests and     *)
(* failures.                                                               *)
(***************************************************************************)
EXTENDS Deployment, SequenceTheorems, WellFoundedInduction, TLAPS

(***************************************************************************)
(* The CUC                                                                 *)
(***************************************************************************)
\* The states of the CUC before it is connected, before it writes, while it
\* writes the nodes and after it has.
Before == [pc : {"device"}, stream : Streams, version : Nat, place : Nat \ {0},
           before : SUBSET Devices]
Opened == [pc : {"apps"}, stream : Streams, version : Nat, place : Nat \ {0},
           before : SUBSET Devices, target : Devices]
Underway == [pc : {"nodes"}, stream : Streams, version : Nat, place : Nat \ {0},
             before : SUBSET Devices, target : Devices, node : Nat \ {0},
             app : BOOLEAN, lost : BOOLEAN]
After  == [pc : {"silence", "trigger"}, stream : Streams, version : Nat,
           place : Nat \ {0}, before : SUBSET Devices, target : Devices,
           node : Nat \ {0}, app : BOOLEAN, lost : BOOLEAN]

VersionType == version \in [Streams -> Nat] /\ edits \in Nat
NodesType ==
  /\ DOMAIN nodes = Devices /\ \A d \in Devices : DOMAIN nodes[d] = AllNodes
  /\ DOMAIN applied = Devices
CucType ==
  /\ cuc \in {Idle, Down} \cup Before \cup Opened \cup Underway \cup After
  /\ cuc \in Before => cuc.place <= Len(Planned[cuc.stream])
  /\ cuc \in Underway => cuc.node <= Len(NodeOrder(Role(cuc.place)))

\* While the CUC is busy with a device, the nodes that it has come by hold what
\* it has written, for nobody else writes them; in the end these are all nodes
\* of the role.  What was applied before is whole.
NodesWritten ==
  /\ cuc \in Underway /\ ~cuc.lost =>
       \A i \in 1..(cuc.node - 1) :
         nodes[cuc.target][NodeOrder(Role(cuc.place))[i]]
           = ValueOf(cuc, NodeOrder(Role(cuc.place))[i])
  /\ cuc \in After /\ ~cuc.lost =>
       \A n \in NodesOf(Role(cuc.place)) : nodes[cuc.target][n] = ValueOf(cuc, n)

WholeInv == VersionType /\ NodesType /\ CucType /\ NodesWritten /\ AppliedWhole

cucVars == <<version, edits, nodes, applied, cuc>>

\* What the others do leaves the devices' nodes and the CUC alone.
LEMMA OthersKeepWhole ==
  ASSUME WholeInv, UNCHANGED cucVars
  PROVE  WholeInv'
  BY DEF WholeInv, VersionType, NodesType, CucType, NodesWritten, AppliedWhole,
         cucVars

\* The nodes are numbered from one, and there are at least four of them.
LEMMA OrderIs ==
  ASSUME NEW role
  PROVE  /\ Len(NodeOrder(role)) \in Nat /\ 4 <= Len(NodeOrder(role))
         /\ DOMAIN NodeOrder(role) = 1..Len(NodeOrder(role))
         /\ \A i \in 1..Len(NodeOrder(role)) : NodeOrder(role)[i] \in AllNodes
  <1>1. CASE role = "talker"
    BY <1>1 DEF NodeOrder, NodesOf, AllNodes
  <1>2. CASE role # "talker"
    BY <1>2 DEF NodeOrder, NodesOf, AllNodes
  <1> QED  BY <1>1, <1>2

\* What is written depends on the version and the place only.
LEMMA SameValue ==
  ASSUME NEW r, NEW q, NEW n, r.stream = q.stream, r.version = q.version, r.place = q.place
  PROVE  ValueOf(r, n) = ValueOf(q, n)
  BY DEF ValueOf

\* The next place in the configuration, or the end of the deployment.
LEMMA PlaceType ==
  ASSUME NEW r, NEW k \in Nat \ {0}, r.stream \in Streams, r.version \in Nat,
         r.before \in SUBSET Devices
  PROVE  /\ CucAt(r, k) \in {Idle} \cup Before
         /\ CucAt(r, k) \in Before => CucAt(r, k).place <= Len(Planned[CucAt(r, k).stream])
         /\ CucAt(r, k) \notin After /\ CucAt(r, k) \notin Opened
         /\ CucAt(r, k) \notin Underway
  <1>1. Planned[r.stream] \in Seq(Devices)
    BY PlannedAssumption
  <1>2. Len(Planned[r.stream]) \in Nat
    BY <1>1
  <1>3. CASE k > Len(Planned[r.stream])
    <2>1. CucAt(r, k) = Idle
      BY <1>3 DEF CucAt
    <2> QED
      BY <2>1 DEF Idle, Before, After, Opened, Underway
  <1>4. CASE ~(k > Len(Planned[r.stream]))
    <2>1. CucAt(r, k) = [pc |-> "device", stream |-> r.stream, version |-> r.version,
                         place |-> k, before |-> r.before]
      BY <1>4 DEF CucAt
    <2>2. k <= Len(Planned[r.stream])
      BY <1>2, <1>4
    <2> QED
      BY <2>1, <2>2 DEF Before, After, Opened, Underway
  <1> QED
    BY <1>3, <1>4

\* A state of the CUC in which it is not connected asks nothing of the nodes.
LEMMA NotConnected ==
  ASSUME WholeInv, VersionType', NodesType', AppliedWhole',
         cuc' \in {Idle, Down} \cup Before,
         cuc' \in Before => cuc'.place <= Len(Planned[cuc'.stream])
  PROVE  WholeInv'
  <1>1. cuc' \notin After /\ cuc' \notin Underway
    BY DEF Idle, Down, Before, Underway, After
  <1> QED
    BY <1>1 DEF WholeInv, CucType, NodesWritten

\* Nothing is written or applied at first, and the CUC is idle.
THEOREM WholeInitially == Init => WholeInv
  BY DEF Init, WholeInv, VersionType, NodesType, CucType, NodesWritten,
         AppliedWhole, Idle, Before, After, Down, Opened, Underway

\* Reading the stream gives the CUC a version of it and its first device.
LEMMA TakeKeeps == ASSUME WholeInv, CucTake PROVE WholeInv'
  <1>1. VersionType' /\ NodesType' /\ AppliedWhole'
    BY DEF WholeInv, VersionType, NodesType, AppliedWhole, CucTake, store, device
  <1>2. cuc' \in {Idle, Down} \cup Before
        /\ (cuc' \in Before => cuc'.place <= Len(Planned[cuc'.stream]))
    <2> DEFINE s == Head(inbox["cuc"]).stream
               r == [stream |-> s, version |-> version[s], before |-> {}]
    <2>1. CASE s \in Streams /\ version[s] = 0
      <3>1. cuc' = Down
        BY <2>1 DEF CucTake
      <3> QED BY <3>1 DEF Down, Before
    <2>2. CASE s \notin Streams
      <3>1. cuc' = Idle
        BY <2>2 DEF CucTake
      <3> QED BY <3>1 DEF Idle, Before
    <2>3. CASE s \in Streams /\ version[s] # 0
      <3>1. cuc' = CucAt(r, 1)
        BY <2>3 DEF CucTake
      <3>2. version[s] \in Nat
        BY <2>3 DEF WholeInv, VersionType
      <3>3. r.stream \in Streams /\ r.version \in Nat /\ r.before \in SUBSET Devices
        BY <2>3, <3>2
      <3> HIDE DEF r
      <3> QED BY <3>1, <3>3, PlaceType
    <2> QED BY <2>1, <2>2, <2>3
  <1> QED
    BY <1>1, <1>2, NotConnected

\* The device that is connected is one of the configuration, or one that was
\* read for an earlier place; either way it is a device.
LEMMA ConnectKeeps == ASSUME WholeInv, CucConnect PROVE WholeInv'
  <1> DEFINE d == Planned[cuc.stream][cuc.place]
             before == IF d \in DOMAIN runs THEN cuc.before \cup {d} ELSE cuc.before
  <1>1. VersionType' /\ NodesType' /\ AppliedWhole'
    BY DEF WholeInv, VersionType, NodesType, AppliedWhole, CucConnect, store, device
  <1>2. cuc \in Before /\ cuc.place <= Len(Planned[cuc.stream])
    BY DEF WholeInv, CucType, CucConnect, Idle, Down, Before, Opened, Underway, After
  <1>3. cuc.stream \in Streams /\ cuc.version \in Nat /\ cuc.place \in Nat \ {0}
        /\ cuc.before \in SUBSET Devices
    BY <1>2 DEF Before
  <1>4. d \in Devices
    <2>1. Planned[cuc.stream] \in Seq(Devices)
      BY <1>3, PlannedAssumption
    <2>2. cuc.place \in 1..Len(Planned[cuc.stream])
      BY <1>2, <1>3, <2>1
    <2> QED BY <2>1, <2>2
  <1>5. before \in SUBSET Devices
    BY <1>3, <1>4
  <1> HIDE DEF d, before
  <1>6. CASE cuc' = CucAt([cuc EXCEPT !.before = before], cuc.place + 1)
    <2> DEFINE r == [cuc EXCEPT !.before = before]
    <2>1. r.stream \in Streams /\ r.version \in Nat /\ r.before \in SUBSET Devices
      BY <1>2, <1>5 DEF Before
    <2>2. cuc.place + 1 \in Nat \ {0}
      BY <1>3
    <2> HIDE DEF r
    <2>3. cuc' \in {Idle} \cup Before
          /\ (cuc' \in Before => cuc'.place <= Len(Planned[cuc'.stream]))
      BY <1>6, <2>1, <2>2, PlaceType DEF r
    <2> QED
      BY <1>1, <2>3, NotConnected
  <1>7. CASE \E target \in (IF d \in DOMAIN runs THEN {d} ELSE cuc.before) :
               cuc' = [pc |-> "apps", stream |-> cuc.stream, version |-> cuc.version,
                       place |-> cuc.place, before |-> before, target |-> target]
    <2>1. PICK target \in (IF d \in DOMAIN runs THEN {d} ELSE cuc.before) :
               cuc' = [pc |-> "apps", stream |-> cuc.stream, version |-> cuc.version,
                       place |-> cuc.place, before |-> before, target |-> target]
      BY <1>7
    <2>2. target \in Devices
      BY <1>3, <1>4
    <2>3. cuc' \in Opened /\ cuc' \notin Before /\ cuc' \notin Underway /\ cuc' \notin After
      BY <1>3, <1>5, <2>1, <2>2 DEF Opened, Before, Underway, After
    <2> QED
      BY <1>1, <2>3 DEF WholeInv, CucType, NodesWritten
  <1> QED
    BY <1>6, <1>7 DEF CucConnect, d, before

\* Before the first write there is nothing to say of the nodes.
LEMMA AppsKeep == ASSUME WholeInv, CucApps PROVE WholeInv'
  <1>1. cuc \in Opened
    BY DEF WholeInv, CucType, CucApps, Idle, Down, Before, Opened, Underway, After
  <1>2. cuc.stream \in Streams /\ cuc.version \in Nat /\ cuc.place \in Nat \ {0}
        /\ cuc.before \in SUBSET Devices /\ cuc.target \in Devices
    BY <1>1 DEF Opened
  <1>3. VersionType' /\ AppliedWhole' /\ NodesType'
    BY DEF WholeInv, VersionType, AppliedWhole, NodesType, CucApps, store, device
  <1>4. CASE ~Readable
    <2>1. cuc' = CucAt(cuc, cuc.place + 1)
      BY <1>4 DEF CucApps
    <2>2. cuc.place + 1 \in Nat \ {0}
      BY <1>2
    <2> QED
      BY <1>2, <1>3, <2>1, <2>2, PlaceType, NotConnected
  <1>5. CASE Readable
    <2>1. \E app \in BOOLEAN :
            cuc' = [pc |-> "nodes", stream |-> cuc.stream, version |-> cuc.version,
                    place |-> cuc.place, before |-> cuc.before, target |-> cuc.target,
                    node |-> 1, app |-> app, lost |-> FALSE]
      BY <1>5 DEF CucApps
    <2>2. cuc' \in Underway /\ cuc' \notin Before /\ cuc' \notin After /\ cuc'.node = 1
      BY <1>2, <2>1 DEF Underway, Before, After
    <2>3. cuc'.node <= Len(NodeOrder(Role(cuc'.place)))
      BY <2>2, OrderIs
    <2>4. NodesWritten'
      BY <2>2 DEF NodesWritten
    <2> QED
      BY <1>3, <2>2, <2>3, <2>4 DEF WholeInv, CucType
  <1> QED
    BY <1>4, <1>5

\* One more node is written with what the version has for it, unless the write
\* fails, which is remembered.
LEMMA NodeKeeps == ASSUME WholeInv, CucNode PROVE WholeInv'
  <1> DEFINE order == NodeOrder(Role(cuc.place))
             n == order[cuc.node]
             d == cuc.target
  <1>1. cuc \in Underway
    BY DEF WholeInv, CucType, CucNode, Idle, Down, Before, Opened, Underway, After
  <1>2. cuc.stream \in Streams /\ cuc.version \in Nat /\ cuc.place \in Nat \ {0}
        /\ cuc.before \in SUBSET Devices /\ d \in Devices /\ cuc.node \in Nat \ {0}
        /\ cuc.app \in BOOLEAN /\ cuc.lost \in BOOLEAN
    BY <1>1 DEF Underway
  <1>3. VersionType' /\ AppliedWhole'
    BY DEF WholeInv, VersionType, AppliedWhole, CucNode, store
  <1>4. cuc.node <= Len(order) /\ Len(order) \in Nat /\ n \in AllNodes
    BY <1>1, <1>2, OrderIs DEF WholeInv, CucType
  <1>5. PICK done \in BOOLEAN, next \in {"silence", "nodes"} :
          /\ nodes' = IF done THEN [nodes EXCEPT ![d][n] = ValueOf(cuc, n)] ELSE nodes
          /\ next = IF cuc.node = Len(order) THEN "silence" ELSE "nodes"
          /\ cuc' = [cuc EXCEPT !.pc = next, !.node = @ + 1, !.lost = @ \/ ~done]
    BY DEF CucNode
  <1> HIDE DEF order, n
  <1>6. NodesType'
    <2>1. DOMAIN applied' = Devices
      BY DEF WholeInv, NodesType, CucNode
    <2>2. DOMAIN nodes' = Devices /\ \A e \in Devices : DOMAIN nodes'[e] = AllNodes
      BY <1>2, <1>4, <1>5 DEF WholeInv, NodesType
    <2> QED  BY <2>1, <2>2 DEF NodesType
  <1>7. /\ cuc'.place = cuc.place /\ cuc'.stream = cuc.stream /\ cuc'.version = cuc.version
        /\ cuc'.target = d /\ cuc'.node = cuc.node + 1
        /\ (~cuc'.lost => ~cuc.lost /\ done)
    BY <1>1, <1>5 DEF Underway
  <1>8. ASSUME ~cuc'.lost, NEW i \in 1..cuc.node
        PROVE  nodes'[d][order[i]] = ValueOf(cuc', order[i])
    <2>1. nodes' = [nodes EXCEPT ![d][n] = ValueOf(cuc, n)] /\ ~cuc.lost
      BY <1>5, <1>7, <1>8
    <2>2. order[i] \in AllNodes
      <3>1. i \in 1..Len(order)
        BY <1>2, <1>4
      <3> QED  BY <3>1, OrderIs DEF order
    <2>3. CASE order[i] = n
      <3>1. nodes'[d][n] = ValueOf(cuc, n)
        BY <1>2, <1>4, <2>1 DEF WholeInv, NodesType
      <3> QED  BY <1>7, <2>3, <3>1, SameValue
    <2>4. CASE order[i] # n
      <3>1. i \in 1..(cuc.node - 1)
        BY <1>2, <2>4 DEF n
      <3>2. nodes[d][order[i]] = ValueOf(cuc, order[i])
        BY <1>1, <2>1, <3>1 DEF WholeInv, NodesWritten, order
      <3>3. nodes'[d][order[i]] = nodes[d][order[i]]
        BY <1>2, <2>1, <2>2, <2>4 DEF WholeInv, NodesType
      <3> QED  BY <1>7, <3>2, <3>3, SameValue
    <2> QED  BY <2>3, <2>4
  <1>9. CASE cuc.node = Len(order)
    <2>1. cuc' \in After /\ cuc' \notin Before /\ cuc' \notin Underway
      <3>1. next = "silence"
        BY <1>5, <1>9
      <3>2. PICK k \in Nat \ {0}, c \in BOOLEAN :
              cuc' = [cuc EXCEPT !.pc = "silence", !.node = k, !.lost = c]
        <4>1. cuc.node + 1 \in Nat \ {0} /\ (cuc.lost \/ ~done) \in BOOLEAN
          BY <1>2
        <4> QED  BY <1>5, <3>1, <4>1, Zenon
      <3> QED  BY <1>1, <3>2 DEF Underway, After, Before
    <2>2. ASSUME ~cuc'.lost, NEW m \in NodesOf(Role(cuc'.place))
          PROVE  nodes'[cuc'.target][m] = ValueOf(cuc', m)
      <3>1. PICK i \in DOMAIN order : m = order[i]
        BY <1>7, <2>2 DEF NodesOf, order
      <3>2. i \in 1..cuc.node
        BY <1>9, <3>1, OrderIs DEF order
      <3> QED  BY <1>7, <1>8, <2>2, <3>1, <3>2
    <2>3. NodesWritten'
      BY <2>1, <2>2 DEF NodesWritten
    <2> QED  BY <1>3, <1>6, <2>1, <2>3 DEF WholeInv, CucType
  <1>10. CASE cuc.node # Len(order)
    <2>1. cuc' \in Underway /\ cuc' \notin Before /\ cuc' \notin After
      <3>1. next = "nodes"
        BY <1>5, <1>10
      <3>2. PICK k \in Nat \ {0}, c \in BOOLEAN :
              cuc' = [cuc EXCEPT !.pc = "nodes", !.node = k, !.lost = c]
        <4>1. cuc.node + 1 \in Nat \ {0} /\ (cuc.lost \/ ~done) \in BOOLEAN
          BY <1>2
        <4> QED  BY <1>5, <3>1, <4>1, Zenon
      <3> QED  BY <1>1, <3>2 DEF Underway, After, Before
    <2>2. cuc'.node <= Len(NodeOrder(Role(cuc'.place)))
      BY <1>2, <1>4, <1>7, <1>10 DEF order
    <2>3. cuc'.node - 1 = cuc.node
      BY <1>2, <1>7
    <2>4. NodesWritten'
      BY <1>7, <1>8, <2>1, <2>3 DEF NodesWritten, order
    <2> QED  BY <1>3, <1>6, <2>1, <2>2, <2>4 DEF WholeInv, CucType
  <1> QED  BY <1>9, <1>10

\* A process that crashes on what it writes leaves the nodes half written.
LEMMA CrashKeeps == ASSUME WholeInv, CucNodeCrash PROVE WholeInv'
  <1>1. VersionType' /\ NodesType' /\ AppliedWhole'
    BY DEF WholeInv, VersionType, NodesType, AppliedWhole, CucNodeCrash, store, device
  <1>2. cuc' = Down /\ Down \notin Before
    BY DEF CucNodeCrash, Down, Before
  <1> QED  BY <1>1, <1>2, NotConnected

\* Switching the device off leaves its nodes alone.
LEMMA SilenceKeeps == ASSUME WholeInv, CucSilence PROVE WholeInv'
  <1>1. cuc \in After
    BY DEF WholeInv, CucType, CucSilence, Idle, Down, Before, Opened, Underway, After
  <1>2. VersionType' /\ NodesType' /\ AppliedWhole' /\ UNCHANGED nodes
    BY DEF WholeInv, VersionType, NodesType, AppliedWhole, CucSilence, store
  <1>3. PICK done \in BOOLEAN : cuc' = [cuc EXCEPT !.pc = "trigger", !.lost = @ \/ ~done]
    BY DEF CucSilence
  <1>4. /\ cuc' \in After /\ cuc' \notin Before /\ cuc' \notin Underway
        /\ cuc'.place = cuc.place /\ cuc'.target = cuc.target
        /\ cuc'.stream = cuc.stream /\ cuc'.version = cuc.version
        /\ (~cuc'.lost => ~cuc.lost)
    BY <1>1, <1>3 DEF After, Before, Underway
  <1>5. NodesWritten'
    <2> SUFFICES ASSUME ~cuc'.lost, NEW n \in NodesOf(Role(cuc'.place))
                 PROVE  nodes'[cuc'.target][n] = ValueOf(cuc', n)
      BY <1>4 DEF NodesWritten
    <2>1. nodes[cuc.target][n] = ValueOf(cuc, n)
      BY <1>1, <1>4 DEF WholeInv, NodesWritten
    <2> QED  BY <1>2, <1>4, <2>1, SameValue
  <1> QED
    BY <1>2, <1>4, <1>5 DEF WholeInv, CucType

\* The device applies what its nodes hold, which is what the CUC has written.
LEMMA TriggerKeeps == ASSUME WholeInv, CucTrigger PROVE WholeInv'
  <1>1. cuc \in After
    BY DEF WholeInv, CucType, CucTrigger, Idle, Down, Before, Opened, Underway, After
  <1>2. cuc.stream \in Streams /\ cuc.version \in Nat /\ cuc.place \in Nat \ {0}
        /\ cuc.before \in SUBSET Devices /\ cuc.target \in Devices
    BY <1>1 DEF After
  <1>3. VersionType'
    BY DEF WholeInv, VersionType, CucTrigger, store
  <1>4. NodesType' /\ AppliedWhole'
    <2> DEFINE new == [stream |-> cuc.stream, version |-> cuc.version, place |-> cuc.place,
                       nodes |-> nodes[cuc.target], lost |-> cuc.lost]
    <2>1. CASE UNCHANGED applied
      BY <2>1 DEF WholeInv, NodesType, AppliedWhole, CucTrigger
    <2>2. CASE applied' = [applied EXCEPT ![cuc.target] = new]
      <3>1. NodesType'
        BY <1>2, <2>2 DEF WholeInv, NodesType, CucTrigger
      <3>2. SUFFICES ASSUME NEW e \in Devices, applied'[e].place # 0, ~applied'[e].lost,
                            NEW n \in NodesOf(Role(applied'[e].place))
                     PROVE  applied'[e].nodes[n] = ValueOf(applied'[e], n)
        BY <3>1 DEF AppliedWhole
      <3>3. CASE e # cuc.target
        <4>1. applied'[e] = applied[e]
          BY <2>2, <3>3 DEF WholeInv, NodesType
        <4> QED
          BY <3>2, <4>1 DEF WholeInv, AppliedWhole
      <3>4. CASE e = cuc.target
        <4>1. applied'[e] = new
          BY <1>2, <2>2, <3>4 DEF WholeInv, NodesType
        <4>2. new.nodes[n] = ValueOf(cuc, n)
          BY <1>1, <3>2, <4>1 DEF WholeInv, NodesWritten
        <4> QED
          BY <4>1, <4>2, SameValue
      <3> QED
        BY <3>3, <3>4
    <2> QED
      BY <2>1, <2>2 DEF CucTrigger
  <1>5. cuc' \in {Idle, Down} \cup Before
        /\ (cuc' \in Before => cuc'.place <= Len(Planned[cuc'.stream]))
    <2>1. CASE cuc' = Down
      BY <2>1 DEF Down, Before
    <2>2. CASE cuc' = CucAt(cuc, cuc.place + 1)
      <3>1. cuc.place + 1 \in Nat \ {0}
        BY <1>2
      <3> QED BY <1>2, <2>2, <3>1, PlaceType
    <2> QED
      BY <2>1, <2>2 DEF CucTrigger
  <1> QED
    BY <1>3, <1>4, <1>5, NotConnected

\* The configurations of the streams change while the CUC works on a copy.
LEMMA EditsKeep == ASSUME WholeInv, Edits PROVE WholeInv'
  <1>1. CASE \E s \in Streams : Configure(s) \/ Reset(s)
    <2>1. PICK s \in Streams : Configure(s) \/ Reset(s)
      BY <1>1
    <2>2. VersionType'
      BY <2>1 DEF WholeInv, VersionType, Configure, Reset, Edit
    <2>3. UNCHANGED <<nodes, applied, cuc>>
      BY <2>1 DEF Configure, Reset, Edit, device
    <2> QED
      BY <2>2, <2>3 DEF WholeInv, NodesType, CucType, NodesWritten, AppliedWhole
  <1>2. CASE \/ \E a \in Apps : AppBegin(a) \/ AppDelete(a)
             \/ \E d \in Devices : DropDevice(d) \/ \E r \in SUBSET Apps : SetDevice(d, r)
    <2>1. UNCHANGED <<version, nodes, applied, cuc>> /\ (edits' = edits + 1 \/ edits' = edits)
      BY <1>2 DEF AppBegin, AppDelete, DropDevice, SetDevice, Edit, device
    <2> QED
      BY <2>1 DEF WholeInv, VersionType, NodesType, CucType, NodesWritten, AppliedWhole
  <1>3. CASE \E a \in Apps, v \in Values : AppEnd(a, v)
    <2>1. UNCHANGED cucVars
      BY <1>3 DEF AppEnd, cucVars, device
    <2> QED
      BY <2>1, OthersKeepWhole
  <1> QED
    BY <1>1, <1>2, <1>3 DEF Edits

\* Clients only send notifications and read switches.
LEMMA ClientsKeep == ASSUME WholeInv, Clients PROVE WholeInv'
  <1>1. UNCHANGED cucVars
    BY DEF Clients, AskDeploy, AskState, AskSwitch, AskUpdate, ReadHosts,
           ReadSwitch, Answer, cucVars, store, device
  <1> QED
    BY <1>1, OthersKeepWhole

\* The AppConfiguration module writes switches and parameters, but no nodes.
LEMMA ConfKeeps == ASSUME WholeInv, Conf PROVE WholeInv'
  <1>1. UNCHANGED cucVars
    BY DEF Conf, ConfSwitch, ConfHosts, ConfFlag, ConfParameters, ConfValues,
           cucVars, store, device
  <1> QED
    BY <1>1, OthersKeepWhole

\* Devices come and go, and processes end and are started again; a CUC that
\* ends leaves its nodes half written, but triggers nothing.
LEMMA WorldKeeps ==
  ASSUME WholeInv, (\E d \in Devices : Lose(d) \/ Find(d)) \/ CucStop \/ ConfStop \/ Start
  PROVE  WholeInv'
  <1>1. CASE \E d \in Devices : Lose(d) \/ Find(d)
    <2>1. UNCHANGED cucVars
      BY <1>1 DEF Lose, Find, cucVars, store
    <2> QED BY <2>1, OthersKeepWhole
  <1>2. CASE ConfStop
    <2>1. UNCHANGED cucVars
      BY <1>2 DEF ConfStop, cucVars, store, device
    <2> QED BY <2>1, OthersKeepWhole
  <1>3. CASE CucStop \/ (Start /\ cuc' = Idle)
    <2>1. VersionType' /\ NodesType' /\ AppliedWhole'
      BY <1>3 DEF WholeInv, VersionType, NodesType, AppliedWhole, CucStop, Start, store, device
    <2>2. cuc' \in {Idle, Down} /\ cuc' \notin Before
      BY <1>3 DEF CucStop, Idle, Down, Before
    <2> QED BY <2>1, <2>2, NotConnected
  <1>4. CASE Start /\ UNCHANGED cuc
    <2>1. UNCHANGED cucVars
      BY <1>4 DEF Start, cucVars, store, device
    <2> QED BY <2>1, OthersKeepWhole
  <1> QED
    BY <1>1, <1>2, <1>3, <1>4 DEF Start

\* No step breaks the invariant.
THEOREM Stepwise == WholeInv /\ [Next]_vars => WholeInv'
  <1> SUFFICES ASSUME WholeInv, [Next]_vars PROVE WholeInv'
    OBVIOUS
  <1>1. CASE Clients
    BY <1>1, ClientsKeep
  <1>2. CASE Conf
    BY <1>2, ConfKeeps
  <1>3. CASE Cuc
    BY <1>3, TakeKeeps, ConnectKeeps, AppsKeep, NodeKeeps, CrashKeeps, SilenceKeeps,
       TriggerKeeps DEF Cuc
  <1>4. CASE Edits
    BY <1>4, EditsKeep
  <1>5. CASE (\E d \in Devices : Lose(d) \/ Find(d)) \/ CucStop \/ ConfStop \/ Start
    BY <1>5, WorldKeeps
  <1>6. CASE UNCHANGED vars
    <2>1. UNCHANGED cucVars
      BY <1>6 DEF vars, cucVars, store, device
    <2> QED BY <2>1, OthersKeepWhole
  <1> QED
    BY <1>1, <1>2, <1>3, <1>4, <1>5, <1>6 DEF Next

\* What a device is made to apply is what the deployment that triggers it has
\* read, in every node of the role and with what was never initialised where
\* the version has no entry, unless a write of that deployment failed: the CUC
\* writes every node of the role, one after the other, before it triggers the
\* device, nobody else writes them, and one that ends between two writes
\* triggers nothing.
THEOREM WholeConfigurations == Spec => []AppliedWhole
  <1>1. WholeInv => AppliedWhole
    BY DEF WholeInv
  <1> QED
    BY <1>1, WholeInitially, Stepwise, PTL DEF Spec

(***************************************************************************)
(* The switches                                                            *)
(***************************************************************************)

\* When the CUC is about to trigger a device it has switched it off; since it
\* connected nobody but AppConfiguration has switched it on again.
SwitchedOff ==
  /\ DOMAIN sending = Devices
  /\ cuc \in After /\ cuc.pc = "trigger" /\ ~cuc.lost =>
       ~sending[cuc.target] \/ cuc.target \in enabled

\* Nothing else touches the switches, or what the CUC remembers.
LEMMA SwitchesKeepWhole ==
  ASSUME SwitchedOff, UNCHANGED <<sending, enabled, cuc>>
  PROVE  SwitchedOff'
  BY DEF SwitchedOff

\* A CUC that is not about to trigger a device asks nothing of its switch.
LEMMA NotTriggering ==
  ASSUME SwitchedOff, DOMAIN sending' = Devices, cuc' \in After => cuc'.pc # "trigger"
  PROVE  SwitchedOff'
  BY DEF SwitchedOff

\* AppConfiguration remembers the devices that it switches on.
LEMMA FlagSwitches ==
  ASSUME WholeInv, SwitchedOff, ConfFlag
  PROVE  SwitchedOff'
  <1>1. PICK d : \/ /\ sending' = [sending EXCEPT ![d] = conf.on]
                    /\ enabled' = IF conf.on THEN enabled \cup {d} ELSE enabled
                 \/ UNCHANGED <<sending, enabled>>
    BY DEF ConfFlag
  <1>2. cuc' = cuc
    BY DEF ConfFlag
  <1>3. DOMAIN sending' = Devices
    BY <1>1 DEF SwitchedOff
  <1>4. ASSUME cuc \in After, cuc.pc = "trigger", ~cuc.lost
        PROVE  ~sending'[cuc.target] \/ cuc.target \in enabled'
    <2>1. cuc.target \in Devices /\ (~sending[cuc.target] \/ cuc.target \in enabled)
      BY <1>4 DEF After, SwitchedOff
    <2>2. CASE UNCHANGED <<sending, enabled>>
      BY <2>1, <2>2
    <2>3. CASE /\ sending' = [sending EXCEPT ![d] = conf.on]
               /\ enabled' = IF conf.on THEN enabled \cup {d} ELSE enabled
      <3>1. CASE d = cuc.target
        BY <2>1, <2>3, <3>1 DEF SwitchedOff
      <3>2. CASE d # cuc.target
        BY <2>1, <2>3, <3>2 DEF SwitchedOff
      <3> QED BY <3>1, <3>2
    <2> QED BY <1>1, <2>2, <2>3
  <1> QED
    BY <1>2, <1>3, <1>4 DEF SwitchedOff

\* The CUC forgets who switched the device on when it connects, and switches it
\* off before it triggers it, unless that write failed.
LEMMA CucSwitches ==
  ASSUME WholeInv, SwitchedOff, Cuc
  PROVE  SwitchedOff'
  <1>1. CASE CucSilence
    <2>1. cuc \in After
      BY <1>1 DEF WholeInv, CucType, CucSilence, Idle, Down, Before, Opened, Underway, After
    <2>2. cuc.target \in Devices
      BY <2>1 DEF After
    <2>3. PICK done \in BOOLEAN :
            /\ IF done THEN sending' = [sending EXCEPT ![cuc.target] = FALSE]
               ELSE sending' = sending
            /\ cuc' = [cuc EXCEPT !.pc = "trigger", !.lost = @ \/ ~done]
      BY <1>1 DEF CucSilence
    <2>4. cuc'.target = cuc.target /\ (~done => cuc'.lost)
      BY <2>1, <2>3 DEF After
    <2>5. DOMAIN sending' = Devices
      BY <2>3 DEF SwitchedOff
    <2>6. done => ~sending'[cuc.target]
      BY <2>2, <2>3 DEF SwitchedOff
    <2> QED
      BY <2>4, <2>5, <2>6 DEF SwitchedOff
  <1>2. CASE CucTake \/ CucConnect \/ CucApps \/ CucNode \/ CucNodeCrash \/ CucTrigger
    <2>1. sending' = sending
      BY <1>2 DEF CucTake, CucConnect, CucApps, CucNode, CucNodeCrash, CucTrigger, device
    <2>2. cuc' \in After => cuc'.pc # "trigger"
      <3>1. ASSUME NEW r, NEW k PROVE CucAt(r, k).pc # "trigger"
        BY DEF CucAt, Idle
      <3>2. CASE CucTake
        BY <3>1, <3>2 DEF CucTake, Idle, Down
      <3>3. CASE CucConnect
        BY <3>1, <3>3 DEF CucConnect
      <3>4. CASE CucApps
        BY <3>1, <3>4 DEF CucApps
      <3>5. CASE CucNode
        <4>1. cuc \in Underway
          BY <3>5 DEF WholeInv, CucType, CucNode, Idle, Down, Before, Opened, Underway, After
        <4>2. PICK b, c \in BOOLEAN :
                cuc' = [cuc EXCEPT !.pc = IF b THEN "silence" ELSE @, !.node = @ + 1, !.lost = c]
          BY <3>5, <4>1 DEF CucNode, Underway
        <4> QED  BY <4>1, <4>2 DEF Underway
      <3>6. CASE CucNodeCrash
        BY <3>6 DEF CucNodeCrash, Down
      <3>7. CASE CucTrigger
        BY <3>1, <3>7 DEF CucTrigger, Down
      <3> QED
        BY <1>2, <3>2, <3>3, <3>4, <3>5, <3>6, <3>7
    <2> QED
      BY <2>1, <2>2, NotTriggering DEF SwitchedOff
  <1> QED
    BY <1>1, <1>2 DEF Cuc

\* No step breaks that either.
LEMMA SwitchesStepwise ==
  ASSUME WholeInv, SwitchedOff, [Next]_vars
  PROVE  SwitchedOff'
  <1>1. CASE Clients
    <2>1. UNCHANGED <<sending, enabled, cuc>>
      BY <1>1 DEF Clients, AskDeploy, AskState, AskSwitch, AskUpdate, ReadHosts,
           ReadSwitch, Answer, device, history
    <2> QED
      BY <2>1, SwitchesKeepWhole
  <1>2. CASE ConfSwitch \/ ConfHosts \/ ConfParameters \/ ConfValues
    <2>1. UNCHANGED <<sending, enabled, cuc>>
      BY <1>2 DEF ConfSwitch, ConfHosts, ConfParameters, ConfValues, device, history
    <2> QED
      BY <2>1, SwitchesKeepWhole
  <1>3. CASE ConfFlag
    BY <1>3, FlagSwitches
  <1>4. CASE Cuc
    BY <1>4, CucSwitches
  <1>5. CASE Edits
    <2>1. UNCHANGED <<sending, enabled, cuc>>
      BY <1>5 DEF Edits, AppBegin, AppEnd, AppDelete, DropDevice, SetDevice, Configure,
           Reset, Edit, device
    <2> QED
      BY <2>1, SwitchesKeepWhole
  <1>6. CASE (\E d \in Devices : Lose(d) \/ Find(d)) \/ ConfStop \/ UNCHANGED vars
    <2>1. UNCHANGED <<sending, enabled, cuc>>
      BY <1>6 DEF Lose, Find, ConfStop, device, history, vars
    <2> QED
      BY <2>1, SwitchesKeepWhole
  <1>7. CASE CucStop \/ Start
    <2>1. /\ UNCHANGED <<sending, enabled>>
          /\ cuc' = cuc \/ cuc' \in {Idle, Down}
      BY <1>7 DEF CucStop, Start, device, history
    <2>2. Idle.pc # "trigger" /\ Down.pc # "trigger"
      BY DEF Idle, Down
    <2> QED
      BY <2>1, <2>2 DEF SwitchedOff
  <1> QED
    BY <1>1, <1>2, <1>3, <1>4, <1>5, <1>6, <1>7 DEF Next, Conf

\* A device does not send with what it has just been made to apply, unless
\* AppConfiguration has switched it on since the CUC connected or the write of
\* the switch failed, whatever the two threads do in between.
THEOREM DevicesStaySilent == Spec => SilentUntilEnabled
  <1> DEFINE Quiet == \A d \in Devices :
                applied'[d] # applied[d] => ~sending[d] \/ d \in enabled \/ applied'[d].lost
  <1>1. Init => SwitchedOff
    BY DEF Init, SwitchedOff, Idle, After
  <1>2. ASSUME WholeInv, SwitchedOff, [Next]_vars, ~(UNCHANGED vars) PROVE Quiet
    <2>1. CASE CucTrigger
      <3>1. cuc \in After /\ cuc.pc = "trigger"
        BY <1>2, <2>1 DEF WholeInv, CucType, CucTrigger, Idle, Down, Before, Opened, Underway, After
      <3>2. \/ applied' = applied
            \/ applied' = [applied EXCEPT ![cuc.target] =
                  [stream |-> cuc.stream, version |-> cuc.version, place |-> cuc.place,
                   nodes |-> nodes[cuc.target], lost |-> cuc.lost]]
        BY <2>1 DEF CucTrigger
      <3> QED
        BY <1>2, <3>1, <3>2 DEF SwitchedOff, WholeInv, NodesType
    <2>2. CASE ~CucTrigger
      <3>1. applied' = applied
        BY <1>2, <2>2 DEF Next, Clients, AskDeploy, AskState, AskSwitch, AskUpdate, ReadHosts,
           ReadSwitch, Answer, Conf, ConfSwitch, ConfHosts, ConfFlag, ConfParameters, ConfValues,
           Cuc, CucTake, CucConnect, CucApps, CucNode, CucNodeCrash, CucSilence, Edits,
           AppBegin, AppEnd, AppDelete, DropDevice, SetDevice, Configure, Reset, Edit, Lose, Find, ConfStop, CucStop, Start,
           device
      <3> QED
        BY <3>1
    <2> QED
      BY <2>1, <2>2
  <1>3. WholeInv /\ SwitchedOff /\ [Next]_vars => SwitchedOff'
    BY SwitchesStepwise
  <1>4. WholeInv /\ SwitchedOff /\ [Next]_vars => [Quiet]_vars
    BY <1>2 DEF vars
  <1> QED
    BY <1>1, <1>3, <1>4, WholeInitially, Stepwise, PTL DEF Spec, SilentUntilEnabled

(***************************************************************************)
(* The states of the threads                                               *)
(***************************************************************************)
AppRecord ==
  [state : {"whole", "gone", "torn"}, parameters : Parameters,
   writing : BOOLEAN, egress : SUBSET Streams, ingress : SUBSET Streams]
Notice ==
  [event : {"switch"}, stream : Streams, on : BOOLEAN]
    \cup [event : {"parameters"}, app : {0} \cup Apps]
Hosting == UNION {[F -> Devices] : F \in SUBSET (0..AppCount)}
Finding ==
  [pc : {"apps"}, stream : Streams, on : BOOLEAN, talker : 0..AppCount, listeners : SUBSET Apps]
Switching ==
  [pc : {"flags"}, stream : Streams, on : BOOLEAN, left : SUBSET Apps, talker : 0..AppCount,
   where : Hosting]
Writing == [pc : {"host"}, app : Apps, parameters : Parameters]

Notices == inbox["conf"]

TypeInv ==
  /\ apps \in [Apps -> AppRecord] /\ DOMAIN runs \subseteq Devices
  /\ up \subseteq Devices /\ sending \in [Devices -> BOOLEAN] /\ DOMAIN values = Devices
  /\ DOMAIN inbox = {"cuc", "conf"} /\ Notices \in Seq(Notice)
  /\ conf \in {Idle, Down} \cup Finding \cup Switching \cup Writing
  /\ asked \in [Streams -> {{}, {TRUE}, {FALSE}}] /\ DOMAIN excused = Streams
  /\ owed \in SUBSET Apps

(***************************************************************************)
(* The invariant of the switches                                           *)
(***************************************************************************)

\* The notices that ask for a switch of the stream s.
Asks(q, s) == {n \in 1..Len(q) : q[n].event = "switch" /\ q[n].stream = s}
LastAsk(q, s, on) ==
  \A n \in Asks(q, s) : (\A m \in Asks(q, s) : m <= n) => on = {q[n].on}

\* The application is switched as asked for last, or something got in the way.
Done(s, a) == DeviceOf(runs, a) \in excused[s] \/ {sending[DeviceOf(runs, a)]} = asked[s]

Reachable(s) ==
  TalkersOf(s) # {} /\ Readable /\ \A a \in Participants(s) : HostsIn(runs, a) # {}
Busy(s) == conf.pc \in {"apps", "flags"} /\ conf.stream = s

\* The thread works on the last request, with what it has read of the stream;
\* what it is through with is done.
InWork(s) ==
  /\ asked[s] = {conf.on} /\ conf.talker = Last(TalkersOf(s))
  /\ conf.pc = "apps" => conf.listeners = ListenersOf(s)
  /\ conf.pc = "flags" =>
       /\ \A a \in Participants(s) : a \in DOMAIN conf.where /\ conf.where[a] = DeviceOf(runs, a)
       /\ conf.left \subseteq ListenersOf(s)
       /\ \A a \in ListenersOf(s) \ conf.left : Done(s, a)

\* The last request is in the inbox, in work or done.
SwitchOf(s) ==
  asked[s] # {} =>
    /\ LastAsk(Notices, s, asked[s])
    /\ Asks(Notices, s) = {} /\ Reachable(s) =>
         IF Busy(s) THEN InWork(s) ELSE \A a \in Participants(s) : Done(s, a)
SwitchInv == \A s \in Streams : SwitchOf(s)

(***************************************************************************)
(* The invariant of the parameters                                         *)
(***************************************************************************)
Announced(q, a) == \E n \in 1..Len(q) : q[n].event = "parameters" /\ q[n].app = a
Arrived(a) ==
  \A n \in DOMAIN apps[a].parameters \cap Offered[DeviceOf(runs, a)] :
    values[DeviceOf(runs, a)][n] = apps[a].parameters[n]

\* Parameters that must be there are announced, in work or there.
ParametersOf(a) ==
  apps[a].state = "whole" /\ HostsIn(runs, a) # {} /\ ~Announced(Notices, a) =>
    IF conf.pc = "host" /\ conf.app = a
    THEN conf.parameters = apps[a].parameters
    ELSE Arrived(a)
ParameterInv == (conf = Down => owed = {}) /\ \A a \in owed : ParametersOf(a)

IInv == TypeInv /\ SwitchInv /\ ParameterInv

(***************************************************************************)
(* Lemmas on the operators                                                 *)
(***************************************************************************)

\* The first element of a set of numbers.
LEMMA FirstIs ==
  ASSUME NEW S \in SUBSET Nat, S # {}
  PROVE  First(S) \in S /\ \A y \in S : First(S) <= y
<1> DEFINE R == {ss \in Nat \X Nat : ss[1] < ss[2]}
<1>1. IsWellFoundedOn(R, Nat)
  BY NatLessThanWellFounded DEF OpToRel
<1> HIDE DEF R
<1>2. PICK x \in S : \A y \in S : ~ (<<y, x>> \in R)
  BY <1>1, WFMin
<1>3. ASSUME NEW y \in S PROVE x <= y
  <2>1. <<y, x>> \in Nat \X Nat /\ ~(<<y, x>> \in R)
    BY <1>2
  <2>2. ~(y < x)
    BY <2>1 DEF R
  <2> QED  BY <2>2
<1> QED  BY <1>3 DEF First

\* The last element of a bounded set of numbers: the first of its bounds.
LEMMA LastIs ==
  ASSUME NEW n \in Nat, NEW S \in SUBSET (0..n), S # {}
  PROVE  Last(S) \in S
<1> DEFINE U == {k \in Nat : \A x \in S : x <= k}
<1>1. n \in U
  OBVIOUS
<1>2. PICK m : m = First(U)
  OBVIOUS
<1>3. m \in U /\ \A y \in U : m <= y
  BY <1>1, <1>2, FirstIs
<1>4. m \in S
  <2> SUFFICES ASSUME m \notin S PROVE FALSE
    OBVIOUS
  <2>1. m # 0
    <3>1. PICK x \in S : x <= m
      BY <1>3
    <3> QED  BY <3>1
  <2>2. m - 1 \in U
    BY <1>3, <2>1
  <2> QED  BY <1>3, <2>2
<1> QED  BY <1>3, <1>4 DEF Last

\* The device of an application that has one.
LEMMA HostIs ==
  ASSUME NEW found, DOMAIN found \subseteq Devices, NEW a, HostsIn(found, a) # {}
  PROVE  DeviceOf(found, a) \in Devices
<1>1. HostsIn(found, a) \in SUBSET Nat /\ HostsIn(found, a) \subseteq Devices
  BY DEF HostsIn, Devices
<1> QED  BY <1>1, FirstIs DEF DeviceOf

\* An application that maps the stream as its talker.
LEMMA TalkerIs ==
  ASSUME NEW s, TalkersOf(s) # {}
  PROVE  Last(TalkersOf(s)) \in Apps
<1>1. TalkersOf(s) \in SUBSET (0..AppCount) /\ TalkersOf(s) \subseteq Apps /\ AppCount \in Nat
  BY CountAssumption DEF TalkersOf, Apps
<1> QED  BY <1>1, LastIs

\* Taking the first notice: a request for the stream that was the last one is
\* what was asked for; the others stay.
LEMMA TakeNotice ==
  ASSUME NEW q \in Seq(Notice), q # <<>>
  PROVE  /\ Tail(q) \in Seq(Notice) /\ Head(q) \in Notice
         /\ \A s, on : LastAsk(q, s, on) => LastAsk(Tail(q), s, on)
         /\ \A s, on : /\ Asks(Tail(q), s) = {} /\ LastAsk(q, s, on)
                       /\ Head(q).event = "switch" /\ Head(q).stream = s
                       => on = {Head(q).on}
         /\ \A s : /\ Asks(Tail(q), s) = {}
                   /\ ~(Head(q).event = "switch" /\ Head(q).stream = s)
                   => Asks(q, s) = {}
         /\ \A a : /\ ~Announced(Tail(q), a)
                   /\ ~(Head(q).event = "parameters" /\ Head(q).app = a)
                   => ~Announced(q, a)
<1>1. /\ Tail(q) \in Seq(Notice) /\ Len(Tail(q)) = Len(q) - 1 /\ Head(q) = q[1]
      /\ Len(q) \in Nat \ {0} /\ q[1] \in Notice
      /\ \A n \in 1..Len(Tail(q)) : Tail(q)[n] = q[n + 1]
  OBVIOUS
<1>2. PICK r : r = Tail(q)
  OBVIOUS
<1>3. \A s, n : n \in Asks(r, s) <=> n \in 1..(Len(q) - 1) /\ n + 1 \in Asks(q, s)
  BY <1>1, <1>2 DEF Asks
<1>4. \A s, n : n \in Asks(q, s) => n = 1 \/ (n \in Nat /\ n - 1 \in Asks(r, s) /\ (n - 1) + 1 = n)
  BY <1>1, <1>2 DEF Asks
<1>5. ASSUME NEW s, NEW on, LastAsk(q, s, on) PROVE LastAsk(r, s, on)
  <2> SUFFICES ASSUME NEW n \in Asks(r, s), \A m \in Asks(r, s) : m <= n
               PROVE  on = {r[n].on}
    BY DEF LastAsk
  <2>1. n \in Nat /\ n + 1 \in Asks(q, s) /\ r[n] = q[n + 1]
    BY <1>1, <1>2, <1>3 DEF Asks
  <2>2. ASSUME NEW m \in Asks(q, s) PROVE m <= n + 1
    <3>1. m = 1 \/ (m \in Nat /\ m - 1 \in Asks(r, s))
      BY <1>4
    <3> QED  BY <2>1, <3>1
  <2> QED  BY <1>5, <2>1, <2>2 DEF LastAsk
<1>6. ASSUME NEW s, NEW on, Asks(r, s) = {}, LastAsk(q, s, on),
             q[1].event = "switch", q[1].stream = s
      PROVE  on = {q[1].on}
  <2>1. 1 \in Asks(q, s)
    BY <1>1, <1>6 DEF Asks
  <2>2. \A m \in Asks(q, s) : m <= 1
    BY <1>4, <1>6
  <2> QED  BY <1>6, <2>1, <2>2 DEF LastAsk
<1>7. ASSUME NEW s, Asks(r, s) = {}, ~(q[1].event = "switch" /\ q[1].stream = s)
      PROVE  Asks(q, s) = {}
  <2>1. 1 \notin Asks(q, s)
    BY <1>7 DEF Asks
  <2> QED  BY <1>4, <1>7, <2>1
<1>8. ASSUME NEW a, ~Announced(r, a), Announced(q, a)
      PROVE  q[1].event = "parameters" /\ q[1].app = a
  <2>1. PICK n \in 1..Len(q) : q[n].event = "parameters" /\ q[n].app = a
    BY <1>8 DEF Announced
  <2>2. CASE n # 1
    <3>1. n - 1 \in 1..Len(r) /\ r[n - 1] = q[n]
      BY <1>1, <1>2, <2>2
    <3> QED  BY <1>8, <2>1, <3>1 DEF Announced
  <2> QED  BY <2>1, <2>2
<1> QED  BY <1>1, <1>2, <1>5, <1>6, <1>7, <1>8

\* A new notice is the last one; the others stay.
LEMMA AddNotice ==
  ASSUME NEW q \in Seq(Notice), NEW e \in Notice
  PROVE  /\ Append(q, e) \in Seq(Notice)
         /\ e.event = "switch" =>
              Asks(Append(q, e), e.stream) # {} /\ LastAsk(Append(q, e), e.stream, {e.on})
         /\ \A s, on : LastAsk(q, s, on) /\ ~(e.event = "switch" /\ e.stream = s)
                       => LastAsk(Append(q, e), s, on)
         /\ \A s : Asks(Append(q, e), s) = {} => Asks(q, s) = {}
         /\ \A a : Announced(q, a) => Announced(Append(q, e), a)
         /\ e.event = "parameters" => Announced(Append(q, e), e.app)
<1>1. PICK r : r = Append(q, e)
  OBVIOUS
<1>2. /\ r \in Seq(Notice) /\ Len(q) \in Nat /\ Len(r) = Len(q) + 1 /\ r[Len(q) + 1] = e
      /\ \A n \in 1..Len(q) : r[n] = q[n]
  BY <1>1
<1>3. \A s, n : n \in Asks(r, s) <=>
        n \in Asks(q, s) \/ (n = Len(q) + 1 /\ e.event = "switch" /\ e.stream = s)
  BY <1>2 DEF Asks
<1>4. ASSUME e.event = "switch" PROVE Asks(r, e.stream) # {} /\ LastAsk(r, e.stream, {e.on})
  <2>1. Len(q) + 1 \in Asks(r, e.stream)
    BY <1>3, <1>4
  <2>2. ASSUME NEW n \in Asks(r, e.stream), \A m \in Asks(r, e.stream) : m <= n
        PROVE  r[n] = e
    <3>1. Len(q) + 1 <= n /\ n \in 1..Len(r)
      BY <2>1, <2>2 DEF Asks
    <3> QED  BY <1>2, <3>1
  <2> QED  BY <2>1, <2>2 DEF LastAsk
<1>5. ASSUME NEW s, NEW on, LastAsk(q, s, on), ~(e.event = "switch" /\ e.stream = s)
      PROVE  LastAsk(r, s, on)
  <2>1. \A n : n \in Asks(r, s) <=> n \in Asks(q, s)
    BY <1>3, <1>5
  <2>2. \A n \in Asks(q, s) : r[n] = q[n]
    BY <1>2 DEF Asks
  <2> QED  BY <1>5, <2>1, <2>2 DEF LastAsk
<1>6. ASSUME NEW s, Asks(r, s) = {} PROVE Asks(q, s) = {}
  BY <1>3, <1>6
<1>7. ASSUME NEW a, Announced(q, a) PROVE Announced(r, a)
  BY <1>2, <1>7 DEF Announced
<1>8. ASSUME e.event = "parameters" PROVE Announced(r, e.app)
  <2>1. Len(q) + 1 \in 1..Len(r)
    BY <1>2
  <2> QED  BY <1>2, <1>8, <2>1 DEF Announced
<1> QED  BY <1>1, <1>2, <1>4, <1>5, <1>6, <1>7, <1>8

(***************************************************************************)
(* What steps leave alone                                                  *)
(***************************************************************************)

\* What is read from the datastore stays with it.
LEMMA SameRead ==
  ASSUME UNCHANGED <<apps, runs>>
  PROVE  /\ \A s : TalkersOf(s)' = TalkersOf(s) /\ ListenersOf(s)' = ListenersOf(s)
         /\ \A s : Participants(s)' = Participants(s) /\ Reachable(s)' = Reachable(s)
         /\ Readable' = Readable
BY DEF TalkersOf, ListenersOf, Participants, Readable, Reachable

\* Whoever has nothing to do with the switches may only excuse more.
LEMMA SwitchesKeep ==
  ASSUME SwitchInv, UNCHANGED <<apps, runs, conf, asked, Notices>>,
         \A s \in Streams : \A a : HostsIn(runs, a) # {} /\ Done(s, a) => Done(s, a)'
  PROVE  SwitchInv'
<1> SUFFICES ASSUME NEW s \in Streams PROVE SwitchOf(s)'
  BY DEF SwitchInv
<1>1. SwitchOf(s) /\ \A a : HostsIn(runs, a) # {} /\ Done(s, a) => Done(s, a)'
  BY DEF SwitchInv
<1>2. /\ Participants(s)' = Participants(s) /\ Reachable(s)' = Reachable(s)
      /\ ListenersOf(s)' = ListenersOf(s) /\ TalkersOf(s)' = TalkersOf(s)
  BY SameRead
<1>3. ASSUME Reachable(s) PROVE \A a \in Participants(s) : Done(s, a) => Done(s, a)'
  BY <1>1, <1>3 DEF Reachable
<1>4. Busy(s)' = Busy(s) /\ (Reachable(s) /\ InWork(s) => InWork(s)')
  BY <1>2, <1>3 DEF Busy, InWork, Participants
<1> QED  BY <1>1, <1>2, <1>3, <1>4 DEF SwitchOf

\* When nothing is asked for nothing is owed.
LEMMA NothingAsked == ASSUME Unasked PROVE SwitchInv'
BY DEF Unasked, SwitchInv, SwitchOf

\* What an application is switched to, when neither it nor the request changes.
LEMMA DoneKeeps ==
  ASSUME UNCHANGED <<runs, asked, excused, sending>>
  PROVE  \A s, a : Done(s, a)' = Done(s, a)
BY DEF Done

\* The parameters of one application have nothing to do with those of another.
LEMMA ParametersKeep ==
  ASSUME NEW b, ParametersOf(b), UNCHANGED <<runs, conf, values>>, apps'[b] = apps[b],
         Announced(Notices, b) => Announced(Notices, b)'
  PROVE  ParametersOf(b)'
BY DEF ParametersOf, Arrived

\* All that the invariant is about.
kept == <<apps, runs, up, sending, values, Notices, DOMAIN inbox, conf, asked, excused, owed>>

\* A step that leaves all of it alone keeps the invariant.
LEMMA OthersKeep == ASSUME IInv, UNCHANGED kept PROVE IInv'
<1>1. TypeInv'
  BY DEF IInv, TypeInv, kept
<1>2. SwitchInv'
  BY SwitchesKeep, DoneKeeps DEF IInv, kept
<1>3. ParameterInv'
  BY DEF IInv, ParameterInv, ParametersOf, Arrived, kept
<1> QED  BY <1>1, <1>2, <1>3 DEF IInv

\* An inbox is a record of two sequences; only one of them is AppConfiguration's.
LEMMA Delivered ==
  ASSUME TypeInv, NEW e
  PROVE  /\ Deliver("cuc", e) => Notices' = Notices /\ DOMAIN inbox' = DOMAIN inbox
         /\ Deliver("conf", e) => /\ DOMAIN inbox' = DOMAIN inbox
                                  /\ Notices' = IF conf = Down THEN Notices ELSE Append(Notices, e)
BY DEF TypeInv, Deliver, Notices

\* The notice AppConfiguration takes is the oldest one.
LEMMA Taken ==
  ASSUME TypeInv, ConfTake
  PROVE  Notices # <<>> /\ Notices' = Tail(Notices) /\ DOMAIN inbox' = DOMAIN inbox
BY DEF TypeInv, ConfTake, Notices

(***************************************************************************)
(* The steps of AppConfiguration                                           *)
(***************************************************************************)

\* The request that is taken is in work, if the applications could be read.
LEMMA SwitchStep == ASSUME IInv, ConfSwitch PROVE IInv'
<1>1. PICK q, e : q = Notices /\ e = Head(q)
  OBVIOUS
<1>2. /\ conf = Idle /\ e.event = "switch" /\ q # <<>> /\ Notices' = Tail(q)
      /\ DOMAIN inbox' = DOMAIN inbox /\ q \in Seq(Notice) /\ e \in Notice
      /\ Tail(q) \in Seq(Notice)
  <2>1. conf = Idle /\ Head(inbox["conf"]).event = "switch" /\ ConfTake
    BY DEF ConfSwitch
  <2>2. q # <<>> /\ Notices' = Tail(q) /\ DOMAIN inbox' = DOMAIN inbox /\ q \in Seq(Notice)
    BY <1>1, <2>1, Taken DEF IInv, TypeInv
  <2> QED  BY <1>1, <2>1, <2>2, TakeNotice DEF Notices
<1>3. /\ apps' = apps /\ runs' = runs /\ up' = up /\ sending' = sending /\ values' = values
      /\ asked' = asked /\ excused' = excused /\ owed' = owed
  BY DEF ConfSwitch, store, device, history
<1>4. e \in [event : {"switch"}, stream : Streams, on : BOOLEAN]
  BY <1>2 DEF Notice
<1>5. PICK talker \in (IF TalkersOf(e.stream) = {} THEN 0..AppCount
                       ELSE {Last(TalkersOf(e.stream))}) :
        conf' = IF Readable
                THEN [pc |-> "apps", stream |-> e.stream, on |-> e.on,
                      talker |-> talker, listeners |-> ListenersOf(e.stream)]
                ELSE Idle
  BY <1>1 DEF ConfSwitch, Notices
<1>6. conf' \in {Idle} \cup Finding
  <2>1. talker \in 0..AppCount
    BY <1>5, TalkerIs, CountAssumption DEF Apps
  <2>2. ListenersOf(e.stream) \in SUBSET Apps
    BY DEF ListenersOf
  <2> QED  BY <1>4, <1>5, <2>1, <2>2 DEF Finding
<1>7. TypeInv'
  BY <1>2, <1>3, <1>6 DEF IInv, TypeInv
<1>8. ASSUME NEW s \in Streams, asked[s] # {} PROVE SwitchOf(s)'
  <2>1. SwitchOf(s)
    BY DEF IInv, SwitchInv
  <2>2. LastAsk(q, s, asked[s])
    BY <1>1, <1>8, <2>1 DEF SwitchOf
  <2>3. LastAsk(Tail(q), s, asked[s])
    BY <1>2, <2>2, TakeNotice
  <2>4. ASSUME Asks(Tail(q), s) = {}, Reachable(s)
        PROVE  IF Busy(s)' THEN InWork(s)' ELSE \A a \in Participants(s)' : Done(s, a)'
    <3>1. CASE e.stream = s
      <4>1. asked[s] = {e.on}
        BY <1>1, <1>2, <2>2, <2>4, <3>1, TakeNotice
      <4>2. Readable /\ TalkersOf(s) # {}
        BY <2>4 DEF Reachable
      <4>3. conf' = [pc |-> "apps", stream |-> s, on |-> e.on,
                     talker |-> Last(TalkersOf(s)), listeners |-> ListenersOf(s)]
        BY <1>5, <3>1, <4>2
      <4>4. TalkersOf(s)' = TalkersOf(s) /\ ListenersOf(s)' = ListenersOf(s)
        BY <1>3, SameRead
      <4> QED  BY <1>3, <4>1, <4>3, <4>4 DEF Busy, InWork
    <3>2. CASE e.stream # s
      <4>1. Asks(q, s) = {}
        BY <1>1, <1>2, <2>4, <3>2, TakeNotice
      <4>2. ~Busy(s) /\ ~Busy(s)'
        BY <1>2, <1>5, <3>2 DEF Busy, Idle
      <4>3. \A a \in Participants(s) : Done(s, a)
        BY <1>1, <1>8, <2>1, <2>4, <4>1, <4>2 DEF SwitchOf
      <4> QED  BY <1>3, <4>2, <4>3, SameRead, DoneKeeps
    <3> QED  BY <3>1, <3>2
  <2>5. Reachable(s)' = Reachable(s)
    BY <1>3, SameRead
  <2> QED  BY <1>2, <1>3, <2>3, <2>4, <2>5 DEF SwitchOf
<1>9. SwitchInv'
  BY <1>3, <1>8 DEF SwitchInv, SwitchOf
<1>10. ASSUME NEW a \in owed PROVE ParametersOf(a)'
  <2>1. ParametersOf(a)
    BY DEF IInv, ParameterInv
  <2>2. ~Announced(Tail(q), a) => ~Announced(q, a)
    BY <1>1, <1>2, TakeNotice
  <2>3. conf.pc # "host" /\ conf'.pc # "host"
    BY <1>2, <1>5 DEF Idle
  <2> QED  BY <1>1, <1>2, <1>3, <2>1, <2>2, <2>3 DEF ParametersOf, Arrived
<1>11. ParameterInv'
  <2>1. conf' # Down
    BY <1>5 DEF Idle, Down
  <2> QED  BY <1>3, <1>10, <2>1 DEF ParameterInv
<1> QED  BY <1>7, <1>9, <1>11 DEF IInv

\* Then the devices of the applications are known, or one of them has none.
LEMMA HostsStep == ASSUME IInv, ConfHosts PROVE IInv'
<1>1. /\ conf.pc = "apps" /\ apps' = apps /\ runs' = runs /\ up' = up /\ sending' = sending
      /\ values' = values /\ asked' = asked /\ excused' = excused /\ owed' = owed
      /\ inbox' = inbox
  BY DEF ConfHosts, store, device, history
<1>2. conf \in Finding
  BY <1>1 DEF IInv, TypeInv, Idle, Down, Switching, Writing
<1>3. PICK found : found = conf.listeners \cup {conf.talker}
  OBVIOUS
<1>4. found \in SUBSET (0..AppCount)
  BY <1>2, <1>3, CountAssumption DEF Finding, Apps
<1>5. PICK where : where = [a \in found |-> DeviceOf(runs, a)]
  OBVIOUS
<1>6. conf' = IF \A a \in found : HostsIn(runs, a) # {}
              THEN [pc |-> "flags", stream |-> conf.stream, on |-> conf.on,
                    left |-> conf.listeners, talker |-> conf.talker, where |-> where]
              ELSE Idle
  BY <1>3, <1>5 DEF ConfHosts
<1>7. conf' \in {Idle} \cup Switching
  <2>1. CASE \A a \in found : HostsIn(runs, a) # {}
    <3>1. \A a \in found : DeviceOf(runs, a) \in Devices
      BY <2>1, HostIs DEF IInv, TypeInv
    <3>2. where \in [found -> Devices]
      BY <1>5, <3>1
    <3>3. where \in Hosting
      BY <1>4, <3>2 DEF Hosting
    <3> QED  BY <1>2, <1>6, <2>1, <3>3 DEF Finding, Switching
  <2> QED  BY <1>6, <2>1
<1>8. TypeInv'
  BY <1>1, <1>7 DEF IInv, TypeInv, Notices
<1>9. ASSUME NEW s \in Streams, asked[s] # {}, Asks(Notices, s) = {}, Reachable(s)
      PROVE  IF Busy(s)' THEN InWork(s)' ELSE \A a \in Participants(s)' : Done(s, a)'
  <2>1. SwitchOf(s)
    BY DEF IInv, SwitchInv
  <2>2. /\ Participants(s)' = Participants(s) /\ ListenersOf(s)' = ListenersOf(s)
        /\ TalkersOf(s)' = TalkersOf(s)
    BY <1>1, SameRead
  <2>3. CASE conf.stream = s
    <3>1. InWork(s) /\ Busy(s)
      BY <1>1, <1>9, <2>1, <2>3 DEF SwitchOf, Busy
    <3>2. found = Participants(s) /\ conf.listeners = ListenersOf(s)
      BY <1>1, <1>3, <3>1 DEF InWork, Participants
    <3>3. conf' = [pc |-> "flags", stream |-> conf.stream, on |-> conf.on,
                   left |-> conf.listeners, talker |-> conf.talker, where |-> where]
      BY <1>6, <1>9, <3>2 DEF Reachable
    <3>4. Busy(s)'
      BY <2>3, <3>3 DEF Busy
    <3>5. InWork(s)'
      BY <1>1, <1>5, <2>2, <3>1, <3>2, <3>3 DEF InWork
    <3> QED  BY <3>4, <3>5
  <2>4. CASE conf.stream # s
    <3>1. ~Busy(s) /\ ~Busy(s)'
      BY <1>6, <2>4 DEF Busy, Idle
    <3>2. \A a \in Participants(s) : Done(s, a)
      BY <1>9, <2>1, <3>1 DEF SwitchOf
    <3> QED  BY <1>1, <2>2, <3>1, <3>2, DoneKeeps
  <2> QED  BY <2>3, <2>4
<1>10. SwitchInv'
  <2>1. \A s \in Streams : SwitchOf(s) /\ Reachable(s)' = Reachable(s)
    BY <1>1, SameRead DEF IInv, SwitchInv
  <2> QED  BY <1>1, <1>9, <2>1 DEF SwitchInv, SwitchOf, Notices
<1>11. ParameterInv'
  <2>1. conf.pc # "host" /\ conf'.pc # "host" /\ conf' # Down
    BY <1>1, <1>6 DEF Idle, Down
  <2>2. ASSUME NEW a \in owed PROVE ParametersOf(a)'
    BY <1>1, <2>1 DEF IInv, ParameterInv, ParametersOf, Arrived, Notices
  <2> QED  BY <1>1, <2>1, <2>2 DEF ParameterInv
<1> QED  BY <1>8, <1>10, <1>11 DEF IInv

\* One switch is written, or its device cannot be reached; either way that
\* application is done, and nothing that was done is undone without an excuse.
LEMMA FlagStep == ASSUME IInv, ConfFlag PROVE IInv'
<1>1. PICK a, d : /\ a = (IF conf.left = {} THEN conf.talker ELSE First(conf.left))
                  /\ d = conf.where[a]
  OBVIOUS
<1>2. PICK r, on : r = conf.stream /\ on = conf.on
  OBVIOUS
<1>3. /\ conf.pc = "flags" /\ apps' = apps /\ runs' = runs /\ up' = up
      /\ values' = values /\ asked' = asked /\ owed' = owed /\ inbox' = inbox
      /\ conf' = IF conf.left = {} THEN Idle ELSE [conf EXCEPT !.left = @ \ {a}]
      /\ IF d \in up THEN sending' = [sending EXCEPT ![d] = on] /\ excused' = Served(r, d)
                     ELSE sending' = sending /\ excused' = Excuse(Streams, d)
  BY <1>1, <1>2 DEF ConfFlag, store, device, history
<1>4. conf \in Switching /\ r \in Streams /\ on \in BOOLEAN
  <2>1. conf \in Switching
    BY <1>3 DEF IInv, TypeInv, Idle, Down, Finding, Writing
  <2> QED  BY <1>2, <2>1 DEF Switching
<1>5. conf' \in {Idle} \cup Switching /\ conf' # Down
  BY <1>3, <1>4 DEF Switching, Idle, Down
<1>6. TypeInv'
  BY <1>3, <1>4, <1>5 DEF IInv, TypeInv, Notices, Served, Excuse
<1>7. ASSUME NEW s \in Streams, NEW b, HostsIn(runs, b) # {}, Done(s, b),
             s = r => asked[s] = {on}
      PROVE  Done(s, b)'
  <2>0. DeviceOf(runs, b) \in Devices
    BY <1>7, HostIs DEF IInv, TypeInv
  <2>1. CASE d \notin up
    BY <1>3, <1>7, <2>1 DEF Done, Excuse
  <2>2. CASE d \in up /\ s = r
    <3>1. d \in Devices /\ excused'[s] = excused[s] \ {d} /\ sending'[d] = on
      BY <1>3, <2>2 DEF IInv, TypeInv, Served, Excuse
    <3>2. CASE DeviceOf(runs, b) = d
      BY <1>3, <1>7, <2>2, <3>1, <3>2 DEF Done
    <3>3. CASE DeviceOf(runs, b) # d
      <4>1. sending'[DeviceOf(runs, b)] = sending[DeviceOf(runs, b)]
        BY <1>3, <2>0, <2>2, <3>3 DEF IInv, TypeInv
      <4> QED  BY <1>3, <1>7, <3>1, <3>3, <4>1 DEF Done
    <3> QED  BY <3>2, <3>3
  <2>3. CASE d \in up /\ s # r
    <3>1. excused'[s] = excused[s] \cup {d}
      BY <1>3, <2>3 DEF Served, Excuse, IInv, TypeInv
    <3>2. CASE DeviceOf(runs, b) = d
      BY <1>3, <3>1, <3>2 DEF Done
    <3>3. CASE DeviceOf(runs, b) # d
      <4>1. sending'[DeviceOf(runs, b)] = sending[DeviceOf(runs, b)]
        BY <1>3, <2>0, <2>3, <3>3 DEF IInv, TypeInv
      <4> QED  BY <1>3, <1>7, <3>1, <3>3, <4>1 DEF Done
    <3> QED  BY <3>2, <3>3
  <2> QED  BY <2>1, <2>2, <2>3
<1>8. ASSUME NEW b, DeviceOf(runs, b) = d, asked[r] = {on} PROVE Done(r, b)'
  <2>1. CASE d \notin up
    BY <1>3, <1>4, <1>8, <2>1 DEF Done, Excuse
  <2>2. CASE d \in up
    <3>1. d \in Devices /\ sending'[d] = on
      BY <1>3, <2>2 DEF IInv, TypeInv
    <3> QED  BY <1>3, <1>8, <3>1 DEF Done
  <2> QED  BY <2>1, <2>2
<1>9. ASSUME NEW s \in Streams, asked[s] # {}, Asks(Notices, s) = {}, Reachable(s)
      PROVE  IF Busy(s)' THEN InWork(s)' ELSE \A b \in Participants(s)' : Done(s, b)'
  <2>1. SwitchOf(s)
    BY DEF IInv, SwitchInv
  <2>2. /\ Participants(s)' = Participants(s) /\ ListenersOf(s)' = ListenersOf(s)
        /\ TalkersOf(s)' = TalkersOf(s)
    BY <1>3, SameRead
  <2>3. CASE s = r
    <3>1. InWork(s) /\ Busy(s)
      BY <1>2, <1>3, <1>9, <2>1, <2>3 DEF SwitchOf, Busy
    <3>2. asked[s] = {on} /\ conf.talker = Last(TalkersOf(s)) /\ conf.left \subseteq ListenersOf(s)
      BY <1>2, <1>3, <3>1 DEF InWork
    <3>3. \A b \in ListenersOf(s) \ conf.left : Done(s, b)'
      BY <1>3, <1>7, <1>9, <3>1, <3>2 DEF InWork, Reachable, Participants
    <3>4. a \in Participants(s) => Done(s, a)'
      BY <1>1, <1>3, <1>8, <2>3, <3>1, <3>2 DEF InWork
    <3>5. CASE conf.left = {}
      <4>1. ~Busy(s)'
        BY <1>3, <3>5 DEF Busy, Idle
      <4>2. a \in Participants(s)
        BY <1>1, <3>2, <3>5 DEF Participants
      <4>3. \A b \in Participants(s) : b = a \/ b \in ListenersOf(s) \ conf.left
        BY <1>1, <3>2, <3>5 DEF Participants
      <4> QED  BY <2>2, <3>3, <3>4, <4>1, <4>2, <4>3
    <3>6. CASE conf.left # {}
      <4>1. conf' = [conf EXCEPT !.left = @ \ {a}]
        BY <1>3, <3>6
      <4>2. /\ conf'.pc = "flags" /\ conf'.stream = r /\ conf'.on = on
            /\ conf'.talker = conf.talker /\ conf'.where = conf.where
            /\ conf'.left = conf.left \ {a}
        BY <1>2, <1>3, <1>4, <4>1 DEF Switching
      <4>3. \A b \in ListenersOf(s) \ conf'.left : Done(s, b)'
        BY <3>2, <3>3, <3>4, <4>2 DEF Participants
      <4>4. InWork(s)'
        BY <1>3, <2>2, <3>1, <3>2, <4>2, <4>3 DEF InWork
      <4> QED  BY <2>3, <4>2, <4>4 DEF Busy
    <3> QED  BY <3>5, <3>6
  <2>4. CASE s # r
    <3>1. ~Busy(s) /\ ~Busy(s)'
      BY <1>2, <1>3, <1>4, <2>4 DEF Busy, Idle, Switching
    <3>2. \A b \in Participants(s) : Done(s, b)
      BY <1>9, <2>1, <3>1 DEF SwitchOf
    <3> QED  BY <1>7, <1>9, <2>2, <2>4, <3>1, <3>2 DEF Reachable
  <2> QED  BY <2>3, <2>4
<1>10. SwitchInv'
  <2>1. \A s \in Streams : SwitchOf(s) /\ Reachable(s)' = Reachable(s)
    BY <1>3, SameRead DEF IInv, SwitchInv
  <2> QED  BY <1>3, <1>9, <2>1 DEF SwitchInv, SwitchOf, Notices
<1>11. ParameterInv'
  <2>1. conf.pc # "host" /\ conf'.pc # "host"
    BY <1>3, <1>4 DEF Idle, Switching
  <2>2. ASSUME NEW b \in owed PROVE ParametersOf(b)'
    BY <1>3, <2>1 DEF IInv, ParameterInv, ParametersOf, Arrived, Notices
  <2> QED  BY <1>3, <1>5, <2>2 DEF ParameterInv
<1> QED  BY <1>6, <1>10, <1>11 DEF IInv

\* The parameters that are announced are in work, as they are now.
LEMMA ParametersStep == ASSUME IInv, ConfParameters PROVE IInv'
<1>1. PICK q, e : q = Notices /\ e = Head(q)
  OBVIOUS
<1>2. /\ conf = Idle /\ e.event = "parameters" /\ q # <<>> /\ Notices' = Tail(q)
      /\ DOMAIN inbox' = DOMAIN inbox /\ q \in Seq(Notice) /\ e \in Notice
      /\ Tail(q) \in Seq(Notice)
  <2>1. conf = Idle /\ Head(inbox["conf"]).event = "parameters" /\ ConfTake
    BY DEF ConfParameters
  <2>2. q # <<>> /\ Notices' = Tail(q) /\ DOMAIN inbox' = DOMAIN inbox /\ q \in Seq(Notice)
    BY <1>1, <2>1, Taken DEF IInv, TypeInv
  <2> QED  BY <1>1, <2>1, <2>2, TakeNotice DEF Notices
<1>3. /\ apps' = apps /\ runs' = runs /\ up' = up /\ sending' = sending /\ values' = values
      /\ asked' = asked /\ excused' = excused /\ owed' = owed
  BY DEF ConfParameters, store, device, history
<1>4. conf' = IF e.app \in {a \in Apps : apps[a].state = "whole"}
              THEN [pc |-> "host", app |-> e.app, parameters |-> apps[e.app].parameters]
              ELSE Idle
  BY <1>1 DEF ConfParameters, Notices
<1>5. conf' \in {Idle} \cup Writing
  <2>1. e.app \in Apps => apps[e.app].parameters \in Parameters
    BY DEF IInv, TypeInv, AppRecord
  <2> QED  BY <1>4, <2>1 DEF Writing
<1>6. TypeInv'
  BY <1>2, <1>3, <1>5 DEF IInv, TypeInv
<1>7. ASSUME NEW s \in Streams, asked[s] # {} PROVE SwitchOf(s)'
  <2>1. SwitchOf(s)
    BY DEF IInv, SwitchInv
  <2>2. LastAsk(Tail(q), s, asked[s]) /\ (Asks(Tail(q), s) = {} => Asks(q, s) = {})
    BY <1>1, <1>2, <1>7, <2>1, TakeNotice DEF SwitchOf
  <2>3. ~Busy(s) /\ ~Busy(s)'
    BY <1>2, <1>4 DEF Busy, Idle
  <2>4. Participants(s)' = Participants(s) /\ Reachable(s)' = Reachable(s)
    BY <1>3, SameRead
  <2>5. \A a : Done(s, a)' = Done(s, a)
    BY <1>3, DoneKeeps
  <2> QED  BY <1>1, <1>2, <1>3, <1>7, <2>1, <2>2, <2>3, <2>4, <2>5 DEF SwitchOf
<1>8. SwitchInv'
  BY <1>3, <1>7 DEF SwitchInv, SwitchOf
<1>9. ASSUME NEW a \in owed PROVE ParametersOf(a)'
  <2>1. ParametersOf(a) /\ a \in Apps
    BY DEF IInv, ParameterInv, TypeInv
  <2>2. ~Announced(Tail(q), a) /\ e.app # a => ~Announced(q, a)
    BY <1>1, <1>2, TakeNotice
  <2>3. CASE e.app = a
    BY <1>3, <1>4, <2>1, <2>3 DEF ParametersOf
  <2>4. CASE e.app # a
    <3>1. conf.pc # "host" /\ ~(conf'.pc = "host" /\ conf'.app = a)
      BY <1>2, <1>4, <2>4 DEF Idle
    <3> QED  BY <1>1, <1>2, <1>3, <2>1, <2>2, <2>4, <3>1 DEF ParametersOf, Arrived
  <2> QED  BY <2>3, <2>4
<1>10. ParameterInv'
  <2>1. conf' # Down
    BY <1>4 DEF Idle, Down
  <2> QED  BY <1>3, <1>9, <2>1 DEF ParameterInv
<1> QED  BY <1>6, <1>8, <1>10 DEF IInv

\* The parameters are written to the device; those that are overwritten there,
\* or did not get there, are not owed any more.
LEMMA ValuesStep == ASSUME IInv, ConfValues PROVE IInv'
<1>1. PICK a, d : a = conf.app /\ d = DeviceOf(runs, a)
  OBVIOUS
<1>2. PICK found : found = DOMAIN conf.parameters \cap Offered[d]
  OBVIOUS
<1>3. /\ conf.pc = "host" /\ conf' = Idle /\ apps' = apps /\ runs' = runs /\ up' = up
      /\ sending' = sending /\ asked' = asked /\ excused' = excused /\ inbox' = inbox
  BY DEF ConfValues, store
<1>4. \/ /\ HostsIn(runs, a) # {} /\ d \in up
         /\ \E written :
              /\ values' = [values EXCEPT ![d] =
                   [n \in Names |-> IF n \in written THEN conf.parameters[n] ELSE @[n]]]
              /\ owed' = {b \in owed : IF b = a THEN written = found
                                       ELSE HostsIn(runs, b) # {} => DeviceOf(runs, b) # d}
      \/ owed' = owed \ {a} /\ values' = values
  BY <1>1, <1>2, Zenon DEF ConfValues
<1>5. conf \in Writing
  BY <1>3 DEF IInv, TypeInv, Idle, Down, Finding, Switching
<1>6. conf.parameters \in Parameters
  BY <1>5 DEF Writing
<1>7. found \subseteq Names
  BY <1>2, <1>6 DEF Parameters
<1>8. TypeInv'
  <2>1. owed' \subseteq owed /\ DOMAIN values' = Devices
    BY <1>4 DEF IInv, TypeInv
  <2> QED  BY <1>3, <2>1 DEF IInv, TypeInv, Notices
<1>9. SwitchInv'
  <2>1. ASSUME NEW s \in Streams PROVE SwitchOf(s)'
    <3>1. SwitchOf(s) /\ Participants(s)' = Participants(s) /\ Reachable(s)' = Reachable(s)
      BY <1>3, SameRead DEF IInv, SwitchInv
    <3>2. ~Busy(s) /\ ~Busy(s)'
      BY <1>3 DEF Busy, Idle
    <3>3. \A b : Done(s, b)' = Done(s, b)
      BY <1>3, DoneKeeps
    <3> QED  BY <1>3, <3>1, <3>2, <3>3 DEF SwitchOf, Notices
  <2> QED  BY <2>1 DEF SwitchInv
<1>10. ASSUME NEW b \in owed' PROVE ParametersOf(b)'
  <2>1. b \in owed /\ ParametersOf(b)
    BY <1>4 DEF IInv, ParameterInv
  <2>2. CASE owed' = owed \ {a} /\ values' = values
    BY <1>1, <1>3, <2>1, <2>2 DEF ParametersOf, Arrived, Notices, Idle
  <2>3. ASSUME HostsIn(runs, a) # {}, d \in up, NEW written,
               values' = [values EXCEPT ![d] =
                   [n \in Names |-> IF n \in written THEN conf.parameters[n] ELSE @[n]]],
               owed' = {c \in owed : IF c = a THEN written = found
                                     ELSE HostsIn(runs, c) # {} => DeviceOf(runs, c) # d}
        PROVE  ParametersOf(b)'
    <3>1. d \in Devices
      BY <2>3 DEF IInv, TypeInv
    <3>2. CASE b = a
      <4>1. \A n \in found : values'[d][n] = conf.parameters[n]
        BY <1>7, <2>3, <3>1, <3>2 DEF IInv, TypeInv
      <4> QED  BY <1>1, <1>2, <1>3, <2>1, <3>2, <4>1 DEF ParametersOf, Arrived, Notices, Idle
    <3>3. CASE b # a
      <4>1. HostsIn(runs, b) # {} => values'[DeviceOf(runs, b)] = values[DeviceOf(runs, b)]
        BY <2>3, <3>3, HostIs DEF IInv, TypeInv
      <4> QED  BY <1>1, <1>3, <2>1, <3>3, <4>1 DEF ParametersOf, Arrived, Notices, Idle
    <3> QED  BY <3>2, <3>3
  <2> QED  BY <1>4, <2>2, <2>3
<1>11. ParameterInv'
  <2>1. conf' # Down
    BY <1>3 DEF Idle, Down
  <2> QED  BY <1>10, <2>1 DEF ParameterInv
<1> QED  BY <1>8, <1>9, <1>11 DEF IInv

(***************************************************************************)
(* The steps of the others                                                 *)
(***************************************************************************)

\* The CUC switches devices off, but it is an excuse for every stream.
LEMMA SilenceStep == ASSUME IInv, CucSilence PROVE IInv'
<1>1. PICK d : d = cuc.target
  OBVIOUS
<1>2. /\ apps' = apps /\ runs' = runs /\ up' = up /\ values' = values /\ inbox' = inbox
      /\ conf' = conf /\ asked' = asked /\ owed' = owed
      /\ \/ sending' = [sending EXCEPT ![d] = FALSE] /\ excused' = Excuse(Streams, d)
         \/ sending' = sending /\ excused' = excused
  BY <1>1 DEF CucSilence, store
<1>3. CASE sending' = sending /\ excused' = excused
  BY <1>2, <1>3, OthersKeep DEF kept, Notices
<1>4. CASE sending' = [sending EXCEPT ![d] = FALSE] /\ excused' = Excuse(Streams, d)
  <2>1. TypeInv'
    BY <1>2, <1>4 DEF IInv, TypeInv, Notices, Excuse
  <2>2. ASSUME NEW s \in Streams, NEW a, HostsIn(runs, a) # {}, Done(s, a)
        PROVE  Done(s, a)'
    <3>1. DeviceOf(runs, a) \in Devices /\ excused'[s] = excused[s] \cup {d}
      BY <1>4, <2>2, HostIs DEF IInv, TypeInv, Excuse
    <3>2. CASE DeviceOf(runs, a) = d
      BY <1>2, <3>1, <3>2 DEF Done
    <3>3. CASE DeviceOf(runs, a) # d
      <4>1. sending'[DeviceOf(runs, a)] = sending[DeviceOf(runs, a)]
        BY <1>4, <3>1, <3>3 DEF IInv, TypeInv
      <4> QED  BY <1>2, <2>2, <3>1, <4>1 DEF Done
    <3> QED  BY <3>2, <3>3
  <2>3. SwitchInv'
    BY <1>2, <2>2, SwitchesKeep DEF IInv, Notices
  <2>4. ParameterInv'
    BY <1>2 DEF IInv, ParameterInv, ParametersOf, Arrived, Notices
  <2> QED  BY <2>1, <2>3, <2>4 DEF IInv
<1> QED  BY <1>2, <1>3, <1>4

\* The CUC's other steps have nothing to do with AppConfiguration.
LEMMA CucStep == ASSUME IInv, Cuc PROVE IInv'
<1>1. CASE CucTake \/ CucTrigger \/ CucConnect \/ CucApps \/ CucNode \/ CucNodeCrash
  <2>1. /\ apps' = apps /\ runs' = runs /\ up' = up /\ sending' = sending /\ values' = values
        /\ conf' = conf /\ asked' = asked /\ excused' = excused /\ owed' = owed
    BY <1>1 DEF CucTake, CucTrigger, CucConnect, CucApps, CucNode, CucNodeCrash,
           store, device, history
  <2>2. inbox' = inbox \/ \E v : inbox' = [inbox EXCEPT !["cuc"] = v]
    BY <1>1 DEF CucTake, CucTrigger, CucConnect, CucApps, CucNode, CucNodeCrash
  <2>3. Notices' = Notices /\ DOMAIN inbox' = DOMAIN inbox
    BY <2>2 DEF IInv, TypeInv, Notices
  <2> QED  BY <2>1, <2>3, OthersKeep DEF kept
<1> QED  BY <1>1, SilenceStep DEF Cuc

\* A request for a switch is the last one from now on.
LEMMA AskSwitchStep ==
  ASSUME IInv, NEW r \in Streams, NEW on \in BOOLEAN, AskSwitch(r, on)
  PROVE  IInv'
<1>1. PICK q, e : q = Notices /\ e = [event |-> "switch", stream |-> r, on |-> on]
  OBVIOUS
<1>2. /\ apps' = apps /\ runs' = runs /\ up' = up /\ sending' = sending /\ values' = values
      /\ conf' = conf /\ owed' = owed
      /\ asked' = [asked EXCEPT ![r] = IF conf = Down THEN {} ELSE {on}]
      /\ excused' = [excused EXCEPT ![r] = {}]
      /\ Deliver("conf", e)
  BY <1>1 DEF AskSwitch, store, device
<1>3. DOMAIN inbox' = DOMAIN inbox /\ Notices' = IF conf = Down THEN q ELSE Append(q, e)
  BY <1>1, <1>2, Delivered DEF IInv
<1>4. q \in Seq(Notice) /\ e \in Notice /\ e.event = "switch" /\ e.stream = r /\ e.on = on
  BY <1>1 DEF IInv, TypeInv, Notice
<1>5. TypeInv'
  <2>1. Notices' \in Seq(Notice)
    BY <1>3, <1>4, AddNotice
  <2>2. (IF conf = Down THEN {} ELSE {on}) \in {{}, {TRUE}, {FALSE}}
    BY Zenon
  <2>3. asked' \in [Streams -> {{}, {TRUE}, {FALSE}}]
    BY <1>2, <2>2 DEF IInv, TypeInv
  <2> QED  BY <1>2, <1>3, <2>1, <2>3 DEF IInv, TypeInv
<1>6. ASSUME NEW s \in Streams PROVE SwitchOf(s)'
  <2>1. CASE conf = Down /\ s = r
    <3>1. asked'[s] = {}
      BY <1>2, <2>1 DEF IInv, TypeInv
    <3> QED  BY <3>1 DEF SwitchOf
  <2>2. CASE conf # Down /\ s = r
    <3>1. asked'[s] = {on} /\ Notices' = Append(q, e)
      BY <1>2, <1>3, <2>2 DEF IInv, TypeInv
    <3>2. Asks(Append(q, e), s) # {} /\ LastAsk(Append(q, e), s, {on})
      BY <1>4, <2>2, AddNotice
    <3> QED  BY <3>1, <3>2 DEF SwitchOf
  <2>3. CASE s # r
    <3>1. asked'[s] = asked[s] /\ excused'[s] = excused[s]
      BY <1>2, <2>3 DEF IInv, TypeInv
    <3>2. /\ LastAsk(Notices, s, asked[s]) => LastAsk(Notices, s, asked[s])'
          /\ Asks(Notices, s)' = {} => Asks(Notices, s) = {}
      BY <1>1, <1>3, <1>4, <2>3, <3>1, AddNotice
    <3>3. /\ Participants(s)' = Participants(s) /\ Reachable(s)' = Reachable(s)
          /\ ListenersOf(s)' = ListenersOf(s) /\ TalkersOf(s)' = TalkersOf(s)
      BY <1>2, SameRead
    <3>4. \A a : Done(s, a)' = Done(s, a)
      BY <1>2, <3>1 DEF Done
    <3>5. Busy(s)' = Busy(s) /\ InWork(s)' = InWork(s)
      BY <1>2, <3>1, <3>3, <3>4 DEF Busy, InWork
    <3> QED  BY <3>1, <3>2, <3>3, <3>4, <3>5 DEF IInv, SwitchInv, SwitchOf
  <2> QED  BY <2>1, <2>2, <2>3
<1>7. SwitchInv'
  BY <1>6 DEF SwitchInv
<1>8. ParameterInv'
  <2>1. ASSUME NEW a \in owed PROVE ParametersOf(a)'
    <3>1. Announced(Notices, a) => Announced(Notices, a)'
      BY <1>1, <1>3, <1>4, AddNotice
    <3> QED  BY <1>2, <3>1, ParametersKeep DEF IInv, ParameterInv
  <2> QED  BY <1>2, <2>1 DEF IInv, ParameterInv
<1> QED  BY <1>5, <1>7, <1>8 DEF IInv

\* A notice of parameters asks for no switch.
LEMMA AddParameters ==
  ASSUME TypeInv, SwitchInv, NEW a \in {0} \cup Apps,
         Deliver("conf", [event |-> "parameters", app |-> a])
  PROVE  /\ DOMAIN inbox' = DOMAIN inbox /\ Notices' \in Seq(Notice)
         /\ \A b : Announced(Notices, b) => Announced(Notices, b)'
         /\ conf # Down => Announced(Notices, a)'
         /\ \A s \in Streams : asked[s] # {} =>
              /\ LastAsk(Notices, s, asked[s]) => LastAsk(Notices', s, asked[s])
              /\ Asks(Notices, s)' = {} => Asks(Notices, s) = {}
<1>1. PICK q, e : q = Notices /\ e = [event |-> "parameters", app |-> a]
  OBVIOUS
<1>2. DOMAIN inbox' = DOMAIN inbox /\ Notices' = IF conf = Down THEN q ELSE Append(q, e)
  BY <1>1, Delivered
<1>3. q \in Seq(Notice) /\ e \in Notice /\ e.event = "parameters" /\ e.app = a
  BY <1>1 DEF TypeInv, Notice
<1>4. CASE conf = Down
  BY <1>1, <1>2, <1>3, <1>4
<1>5. CASE conf # Down
  <2>1. Notices' = Append(q, e)
    BY <1>2, <1>5
  <2>2. e.event # "switch"
    BY <1>3
  <2>3. /\ Append(q, e) \in Seq(Notice) /\ Announced(Append(q, e), a)
        /\ \A b : Announced(q, b) => Announced(Append(q, e), b)
    BY <1>3, AddNotice
  <2>4. \A s, on : /\ LastAsk(q, s, on) => LastAsk(Append(q, e), s, on)
                   /\ Asks(Append(q, e), s) = {} => Asks(q, s) = {}
    BY <1>3, <2>2, AddNotice
  <2> QED  BY <1>1, <1>2, <2>1, <2>3, <2>4
<1> QED  BY <1>4, <1>5

\* What the clients ask for reaches AppConfiguration as notices, and what is read
\* to answer them changes nothing the invariant is about.
LEMMA ClientStep == ASSUME IInv, Clients PROVE IInv'
<1>1. ASSUME NEW s, AskDeploy(s) PROVE IInv'
  <2>1. /\ apps' = apps /\ runs' = runs /\ up' = up /\ sending' = sending /\ values' = values
        /\ conf' = conf /\ asked' = asked /\ excused' = excused /\ owed' = owed
    BY <1>1 DEF AskDeploy, store, device, history
  <2>2. Notices' = Notices /\ DOMAIN inbox' = DOMAIN inbox
    BY <1>1, Delivered DEF AskDeploy, IInv
  <2> QED  BY <2>1, <2>2, OthersKeep DEF kept
<1>2. CASE AskUpdate
  <2>1. /\ apps' = apps /\ runs' = runs /\ up' = up /\ sending' = sending /\ values' = values
        /\ conf' = conf /\ asked' = asked /\ excused' = excused /\ owed' = owed
        /\ Deliver("conf", [event |-> "parameters", app |-> 0])
    BY <1>2 DEF AskUpdate, store, device, history
  <2>2. /\ DOMAIN inbox' = DOMAIN inbox /\ Notices' \in Seq(Notice)
        /\ \A b : Announced(Notices, b) => Announced(Notices, b)'
        /\ \A s \in Streams : asked[s] # {} =>
              /\ LastAsk(Notices, s, asked[s]) => LastAsk(Notices', s, asked[s])
              /\ Asks(Notices, s)' = {} => Asks(Notices, s) = {}
    BY <2>1, AddParameters DEF IInv
  <2>3. TypeInv'
    BY <2>1, <2>2 DEF IInv, TypeInv
  <2>4. ASSUME NEW s \in Streams PROVE SwitchOf(s)'
    <3>1. /\ Participants(s)' = Participants(s) /\ Reachable(s)' = Reachable(s)
          /\ ListenersOf(s)' = ListenersOf(s) /\ TalkersOf(s)' = TalkersOf(s)
      BY <2>1, SameRead
    <3>2. \A a : Done(s, a)' = Done(s, a)
      BY <2>1, DoneKeeps
    <3>3. Busy(s)' = Busy(s) /\ InWork(s)' = InWork(s)
      BY <2>1, <3>1, <3>2 DEF Busy, InWork
    <3> QED  BY <2>1, <2>2, <3>1, <3>2, <3>3 DEF IInv, SwitchInv, SwitchOf
  <2>5. ParameterInv'
    BY <2>1, <2>2, ParametersKeep DEF IInv, ParameterInv
  <2> QED  BY <2>3, <2>4, <2>5 DEF IInv, SwitchInv
<1>3. CASE (\E s \in Streams : AskState(s)) \/ ReadHosts \/ ReadSwitch \/ Answer
  <2>1. /\ apps' = apps /\ runs' = runs /\ up' = up /\ sending' = sending /\ values' = values
        /\ conf' = conf /\ asked' = asked /\ excused' = excused /\ owed' = owed /\ inbox' = inbox
    BY <1>3 DEF AskState, ReadHosts, ReadSwitch, Answer, store, device, history
  <2> QED  BY <2>1, OthersKeep DEF kept, Notices
<1> QED  BY <1>1, <1>2, <1>3, AskSwitchStep DEF Clients

\* A datastore that changes excuses everything that was asked for, and what
\* was owed for the applications that it is about.
LEMMA EditStep == ASSUME IInv, Edits PROVE IInv'
<1>0. <<>> \in Parameters
  <2>1. <<>> \in Seq(Values \cup {0}) /\ Len(<<>>) = 0
    OBVIOUS
  <2>2. <<>> \in [1..0 -> Values \cup {0}]
    BY <2>1, LenProperties
  <2>3. 1..0 \in SUBSET Names
    OBVIOUS
  <2> QED  BY <2>2, <2>3 DEF Parameters
<1>1. ASSUME NEW a \in Apps, AppBegin(a) \/ AppDelete(a) PROVE IInv'
  <2>1. /\ runs' = runs /\ up' = up /\ sending' = sending /\ values' = values /\ inbox' = inbox
        /\ conf' = conf /\ excused' = excused /\ owed' = owed \ {a} /\ Unasked
    BY <1>1 DEF AppBegin, AppDelete, Edit, device
  <2>2. /\ apps' \in [Apps -> AppRecord]
        /\ \A b \in Apps \ {a} : apps'[b] = apps[b]
    <3>1. CASE AppBegin(a)
      BY <1>0, <3>1 DEF AppBegin, IInv, TypeInv, AppRecord
    <3>2. CASE AppDelete(a)
      <4>1. [state |-> "gone", parameters |-> <<>>, egress |-> {}, ingress |-> {},
             writing |-> apps[a].writing] \in AppRecord
        BY <1>0 DEF IInv, TypeInv, AppRecord
      <4>2. apps' = [apps EXCEPT ![a] =
               [state |-> "gone", parameters |-> <<>>, egress |-> {}, ingress |-> {},
                writing |-> apps[a].writing]]
        BY <3>2 DEF AppDelete
      <4> QED  BY <4>1, <4>2 DEF IInv, TypeInv
    <3> QED  BY <1>1, <3>1, <3>2
  <2>3. asked' \in [Streams -> {{}, {TRUE}, {FALSE}}]
    BY <2>1 DEF Unasked
  <2>4. TypeInv'
    BY <2>1, <2>2, <2>3 DEF IInv, TypeInv, Notices
  <2>5. ASSUME NEW b \in owed' PROVE ParametersOf(b)'
    <3>1. b \in owed /\ apps'[b] = apps[b]
      BY <2>1, <2>2 DEF IInv, TypeInv
    <3> QED  BY <2>1, <3>1, ParametersKeep DEF IInv, ParameterInv, Notices
  <2>6. ParameterInv'
    BY <2>1, <2>5 DEF IInv, ParameterInv
  <2> QED  BY <2>1, <2>4, <2>6, NothingAsked DEF IInv
<1>2. ASSUME NEW a \in Apps, NEW v \in Values, AppEnd(a, v) PROVE IInv'
  <2>1. /\ runs' = runs /\ up' = up /\ sending' = sending /\ values' = values
        /\ conf' = conf /\ excused' = excused /\ Unasked
        /\ owed' = IF conf = Down THEN owed ELSE owed \cup {a}
        /\ Deliver("conf", [event |-> "parameters", app |-> a])
    BY <1>2 DEF AppEnd, device
  <2>2. /\ DOMAIN inbox' = DOMAIN inbox /\ Notices' \in Seq(Notice)
        /\ \A b : Announced(Notices, b) => Announced(Notices, b)'
        /\ conf # Down => Announced(Notices, a)'
    BY <2>1, AddParameters DEF IInv
  <2>3. /\ apps' \in [Apps -> AppRecord]
        /\ \A b \in Apps \ {a} : apps'[b] = apps[b]
    <3>1. [n \in Names |-> v] \in Parameters
      BY DEF Parameters
    <3>2. PICK r : r = [state |-> IF apps[a].state = "gone" THEN "torn" ELSE apps[a].state,
                        parameters |-> [n \in Names |-> v], writing |-> FALSE,
                        egress |-> Installed.apps[a].egress,
                        ingress |-> Installed.apps[a].ingress]
      OBVIOUS
    <3>3. Installed.apps[a] \in AppRecord /\ apps[a] \in AppRecord
      BY InstalledAssumption DEF IInv, TypeInv, AppRecord
    <3>4. r \in AppRecord
      BY <3>1, <3>2, <3>3 DEF AppRecord
    <3>5. apps' = [apps EXCEPT ![a] = r]
      BY <1>2, <3>2 DEF AppEnd
    <3> QED  BY <3>4, <3>5 DEF IInv, TypeInv
  <2>4. asked' \in [Streams -> {{}, {TRUE}, {FALSE}}]
    BY <2>1 DEF Unasked
  <2>5. owed' \in SUBSET Apps
    BY <2>1 DEF IInv, TypeInv
  <2>6. TypeInv'
    BY <2>1, <2>2, <2>3, <2>4, <2>5 DEF IInv, TypeInv
  <2>7. ASSUME NEW b \in owed' PROVE ParametersOf(b)'
    <3>1. conf # Down
      BY <2>1 DEF IInv, ParameterInv
    <3>2. CASE b = a
      BY <2>2, <3>1, <3>2 DEF ParametersOf
    <3>3. CASE b # a
      <4>1. b \in owed /\ apps'[b] = apps[b]
        BY <2>1, <2>3, <3>3 DEF IInv, TypeInv
      <4> QED  BY <2>1, <2>2, <4>1, ParametersKeep DEF IInv, ParameterInv
    <3> QED  BY <3>2, <3>3
  <2>8. ParameterInv'
    BY <2>1, <2>7 DEF IInv, ParameterInv
  <2> QED  BY <2>1, <2>6, <2>8, NothingAsked DEF IInv
<1>3. ASSUME NEW d \in Devices, DropDevice(d) \/ \E r \in SUBSET Apps : SetDevice(d, r)
      PROVE  IInv'
  <2>1. /\ apps' = apps /\ up' = up /\ sending' = sending /\ values' = values /\ inbox' = inbox
        /\ conf' = conf /\ excused' = excused /\ owed' = {} /\ Unasked
        /\ DOMAIN runs' \subseteq DOMAIN runs \cup {d}
    BY <1>3 DEF DropDevice, SetDevice, Edit, device
  <2>2. asked' \in [Streams -> {{}, {TRUE}, {FALSE}}]
    BY <2>1 DEF Unasked
  <2>3. TypeInv'
    BY <2>1, <2>2 DEF IInv, TypeInv, Notices
  <2>4. ParameterInv'
    BY <2>1 DEF ParameterInv
  <2> QED  BY <2>1, <2>3, <2>4, NothingAsked DEF IInv
<1>4. ASSUME NEW s \in Streams, Configure(s) \/ Reset(s) PROVE IInv'
  <2>1. /\ apps' = apps /\ runs' = runs /\ up' = up /\ sending' = sending /\ values' = values
        /\ conf' = conf /\ asked' = asked /\ excused' = excused /\ owed' = owed /\ inbox' = inbox
    BY <1>4 DEF Configure, Reset, Edit, device
  <2> QED  BY <2>1, OthersKeep DEF kept, Notices
<1> QED  BY <1>1, <1>2, <1>3, <1>4 DEF Edits

\* Devices come and go; an AppConfiguration that ends owes nothing.
LEMMA WorldStep ==
  ASSUME IInv, (\E d \in Devices : Lose(d) \/ Find(d)) \/ CucStop \/ ConfStop \/ Start
  PROVE  IInv'
<1>1. ASSUME NEW d \in Devices, Lose(d) \/ Find(d) PROVE IInv'
  <2>1. /\ apps' = apps /\ runs' = runs /\ sending' = sending /\ values' = values
        /\ conf' = conf /\ asked' = asked /\ excused' = excused /\ owed' = owed /\ inbox' = inbox
        /\ up' \subseteq up \cup {d}
    BY <1>1 DEF Lose, Find, store, history
  <2>2. TypeInv'
    BY <2>1 DEF IInv, TypeInv, Notices
  <2>3. SwitchInv'
    BY <2>1, SwitchesKeep, DoneKeeps DEF IInv, Notices
  <2>4. ParameterInv'
    BY <2>1 DEF IInv, ParameterInv, ParametersOf, Arrived, Notices
  <2> QED  BY <2>2, <2>3, <2>4 DEF IInv
<1>2. CASE CucStop
  <2>1. /\ apps' = apps /\ runs' = runs /\ up' = up /\ sending' = sending /\ values' = values
        /\ conf' = conf /\ asked' = asked /\ excused' = excused /\ owed' = owed
        /\ inbox' = [inbox EXCEPT !["cuc"] = <<>>]
    BY <1>2 DEF CucStop, store, device, history
  <2>2. Notices' = Notices /\ DOMAIN inbox' = DOMAIN inbox
    BY <2>1 DEF IInv, TypeInv, Notices
  <2> QED  BY <2>1, <2>2, OthersKeep DEF kept
<1>3. CASE ConfStop
  <2>1. /\ apps' = apps /\ runs' = runs /\ up' = up /\ sending' = sending /\ values' = values
        /\ conf' = Down /\ excused' = excused /\ owed' = {} /\ Unasked
        /\ inbox' = [inbox EXCEPT !["conf"] = <<>>]
    BY <1>3 DEF ConfStop, store, device
  <2>2. asked' \in [Streams -> {{}, {TRUE}, {FALSE}}]
    BY <2>1 DEF Unasked
  <2>3. DOMAIN inbox' = DOMAIN inbox /\ Notices' = <<>>
    BY <2>1 DEF IInv, TypeInv, Notices
  <2>4. TypeInv'
    <3>1. Notices' \in Seq(Notice) /\ owed' \in SUBSET Apps
      BY <2>1, <2>3
    <3>2. conf' \in {Idle, Down} \cup Finding \cup Switching \cup Writing
      BY <2>1
    <3> QED  BY <2>1, <2>2, <2>3, <3>1, <3>2 DEF IInv, TypeInv
  <2>5. ParameterInv'
    BY <2>1 DEF ParameterInv
  <2> QED  BY <2>1, <2>4, <2>5, NothingAsked DEF IInv
<1>4. CASE Start
  <2>1. /\ apps' = apps /\ runs' = runs /\ up' = up /\ sending' = sending /\ values' = values
        /\ asked' = asked /\ excused' = excused /\ owed' = owed /\ inbox' = inbox
        /\ conf' = conf \/ (conf = Down /\ conf' = Idle)
    BY <1>4 DEF Start, store, device, history
  <2>2. CASE conf' = conf
    BY <2>1, <2>2, OthersKeep DEF kept, Notices
  <2>3. CASE conf = Down /\ conf' = Idle
    <3>1. TypeInv'
      BY <2>1, <2>3 DEF IInv, TypeInv, Notices
    <3>2. ASSUME NEW s \in Streams PROVE SwitchOf(s)'
      <4>1. ~Busy(s) /\ ~Busy(s)'
        BY <2>3 DEF Busy, Down, Idle
      <4>2. Participants(s)' = Participants(s) /\ Reachable(s)' = Reachable(s)
        BY <2>1, SameRead
      <4>3. \A a : Done(s, a)' = Done(s, a)
        BY <2>1, DoneKeeps
      <4> QED  BY <2>1, <4>1, <4>2, <4>3 DEF IInv, SwitchInv, SwitchOf, Notices
    <3>3. ParameterInv'
      BY <2>1, <2>3 DEF IInv, ParameterInv
    <3> QED  BY <3>1, <3>2, <3>3 DEF IInv, SwitchInv
  <2> QED  BY <2>1, <2>2, <2>3
<1> QED  BY <1>1, <1>2, <1>3, <1>4

(***************************************************************************)
(* The theorems                                                            *)
(***************************************************************************)

\* Nothing is asked for or owed at first.
LEMMA Initially == Init => IInv
<1> SUFFICES ASSUME Init PROVE IInv
  OBVIOUS
<1>1. TypeInv
  <2>1. apps \in [Apps -> AppRecord] /\ DOMAIN runs \subseteq Devices
    BY InstalledAssumption DEF Init, AppRecord
  <2>2. asked \in [Streams -> {{}, {TRUE}, {FALSE}}] /\ DOMAIN excused = Streams
    BY DEF Init
  <2>3. DOMAIN inbox = {"cuc", "conf"} /\ Notices = <<>>
    BY DEF Init, Notices
  <2> QED  BY <2>1, <2>2, <2>3 DEF Init, TypeInv
<1>2. SwitchInv
  BY DEF Init, SwitchInv, SwitchOf
<1>3. ParameterInv
  BY DEF Init, ParameterInv
<1> QED  BY <1>1, <1>2, <1>3 DEF IInv

\* No step breaks the invariant.
LEMMA StepKeeps == ASSUME IInv, [Next]_vars PROVE IInv'
<1>1. CASE Conf
  BY <1>1, SwitchStep, HostsStep, FlagStep, ParametersStep, ValuesStep DEF Conf
<1>2. CASE UNCHANGED vars
  <2>1. UNCHANGED kept
    BY <1>2 DEF vars, store, device, history, kept, Notices
  <2> QED  BY <2>1, OthersKeep
<1> QED  BY <1>1, <1>2, CucStep, ClientStep, EditStep, WorldStep DEF Next

\* The invariant holds: the last request for each stream is in the inbox, in
\* work or done, and so are the parameters that must be there.
THEOREM Invariance == Spec => []IInv
<1>1. IInv /\ [Next]_vars => IInv'
  BY StepKeeps
<1> QED  BY <1>1, Initially, PTL DEF Spec

\* Once AppConfiguration has worked off what it was told, the participants of
\* a stream are switched as was asked for last, or something got in the way:
\* requests that overtake each other in no inbox, devices that two streams
\* share, and threads that work on copies do no harm.
THEOREM TheLastRequestHolds == Spec => []LastRequestHolds
<1>1. IInv => LastRequestHolds
  <2> SUFFICES ASSUME IInv, ConfQuiet, Readable, NEW s \in Streams, asked[s] # {},
                      TalkersOf(s) # {}, \A a \in Participants(s) : HostsIn(runs, a) # {}
               PROVE  \A a \in Participants(s) : Done(s, a)
    BY DEF LastRequestHolds, Done
  <2>1. Asks(Notices, s) = {}
    BY DEF ConfQuiet, Notices, Asks
  <2>2. ~Busy(s)
    BY DEF ConfQuiet, Busy, Idle
  <2> QED  BY <2>1, <2>2 DEF IInv, SwitchInv, SwitchOf, Reachable
<1> QED  BY <1>1, Invariance, PTL

\* The parameters of an application reach its device, although they are
\* announced after they were written and read when the notice is handled.
THEOREM TheParametersArrive == Spec => []ParametersArrive
<1>1. IInv => ParametersArrive
  <2> SUFFICES ASSUME IInv, ConfQuiet, NEW a \in owed, apps[a].state = "whole",
                      HostsIn(runs, a) # {}
               PROVE  Arrived(a)
    BY DEF ParametersArrive, Arrived
  <2>1. ~Announced(Notices, a)
    BY DEF ConfQuiet, Notices, Announced
  <2>2. conf.pc # "host"
    BY DEF ConfQuiet, Idle
  <2> QED  BY <2>1, <2>2 DEF IInv, ParameterInv, ParametersOf
<1> QED  BY <1>1, Invariance, PTL
============================================================================
