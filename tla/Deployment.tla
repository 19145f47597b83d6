----------------------------- MODULE Deployment -----------------------------
(***************************************************************************)
(* From the datastore to the end devices.  The CUC writes the              *)
(* configuration of a stream to the OPC UA servers of the end devices; the *)
(* AppConfiguration module switches sending and receiving on and off and   *)
(* writes the parameters of applications; a request thread of the REST     *)
(* module reads the switches back.  Each of them works on what it has read *)
(* before, one device after the other, while the others go on.             *)
(*                                                                         *)
(* The server of a device is external: nodes that are written, a method    *)
(* that applies them, and one switch for the whole device.  A notification *)
(* is put into the inbox of the process it is for, if that process runs;   *)
(* how it gets there is the subject of Notifications.  EVENT_ERROR and     *)
(* EVENT_STREAM_DEPLOYED, on which no process acts, are left out.          *)
(***************************************************************************)
EXTENDS Naturals, Sequences

CONSTANTS
  Streams,
  AppCount,     \* applications are 1..AppCount, in the order of the list
  DeviceCount,  \* so are the end devices
  Names,        \* names of parameters of applications
  Values,       \* values of them that clients send
  Offered,      \* Offered[d]: the parameters that the server of d has
  Planned,      \* Planned[s]: the devices of the configuration of a stream,
                \* the talker first
  Entries,      \* Entries[s][v][k]: the kinds of entries, of "mac-addresses"
                \* and "vlan-tag", that version v of it has for place k
  Installed,    \* applications and their references at start-up
  MaxRequests,  \* bound: calls of clients
  MaxEdits,     \* bound: other changes in the datastore
  MaxFaults     \* bound: devices that are lost, writes that fail and
                \* processes that end

Apps == 1..AppCount
Devices == 1..DeviceCount

ASSUME CountAssumption == AppCount \in Nat /\ DeviceCount \in Nat
ASSUME PlannedAssumption ==
  \A s \in Streams : Planned[s] \in Seq(Devices) /\ Planned[s] # <<>>

Parameters == UNION {[N -> Values \cup {0}] : N \in SUBSET Names}

\* The datastore at start-up may hold anything that the model can write.
ASSUME InstalledAssumption ==
  /\ Installed.apps \in
       [Apps -> [state : {"whole", "gone", "torn"}, parameters : Parameters,
                 writing : BOOLEAN, egress : SUBSET Streams, ingress : SUBSET Streams]]
  /\ DOMAIN Installed.runs \subseteq Devices

VARIABLES
  apps,       \* the applications in the datastore; writing: there has been
              \* the first commit of a call, the second one is to come
  runs,       \* the end devices in the datastore and their applications
  version,    \* the configuration of a stream; 0: it is not configured
  nodes,      \* device |-> what the engineering nodes hold
  applied,    \* device |-> what the device works with
  sending,    \* device |-> SendReceiveEnabled
  values,     \* device |-> parameters of applications
  up,         \* devices that can be reached
  inbox,      \* notifications for the CUC and for AppConfiguration
  cuc, conf,  \* their callback threads; of the CUC's: target, the device
              \* that is connected; before, those read so far; node, the
              \* number of the node that is next; app, some application
              \* maps the stream in this role; lost, a write has failed
  reader,     \* a request thread of the REST module
  asked,      \* history: stream |-> what its switch was last set to, or {}
  excused,    \* history: stream |-> devices that got in the way since then
  owed,       \* history: applications whose parameters must be there
  enabled,    \* history: devices switched on since the CUC connected
  requests, edits, faults   \* counters for the bounds

store == <<apps, runs, version>>
device == <<nodes, applied, sending, values, up>>
history == <<asked, excused, owed, enabled>>
vars == <<store, device, inbox, cuc, conf, reader, history,
          requests, edits, faults>>

Last(S) == CHOOSE x \in S : \A y \in S : y <= x
First(S) == CHOOSE x \in S : \A y \in S : x <= y

\* The engineering nodes, in the order in which deploy_communication_engineering
\* writes them.
NodeOrder(role) ==
  IF role = "talker"
  THEN <<"CycleTime", "Interface", "QbvOffset", "DestinationMAC", "SocketPriority">>
  ELSE <<"CycleTime", "Interface", "SourceMAC", "SocketPriority">>
NodesOf(role) == {NodeOrder(role)[i] : i \in DOMAIN NodeOrder(role)}
AllNodes == NodesOf("talker") \cup NodesOf("listener")

\* What a node holds is named by the version of the stream that was read to
\* write it; nothing yet; or memory that was never initialised.
Nothing == [stream |-> "none", version |-> 0]
Undefined == [stream |-> "undefined", version |-> 0]

\* The entry of the configuration from which a node is written.  The others
\* have a value always: of the request, of the application or a default.
EntryFor(n) ==
  CASE n \in {"DestinationMAC", "SourceMAC"} -> {"mac-addresses"}
    [] n = "SocketPriority" -> {"vlan-tag"}
    [] OTHER -> {}

\* What is written to a node for a place of a version: an entry that there is
\* not leaves the local variable as it was on the stack.
ValueOf(from, n) ==
  IF EntryFor(n) \subseteq Entries[from.stream][from.version][from.place]
  THEN [stream |-> from.stream, version |-> from.version]
  ELSE Undefined

\* An application that lacks its own leaves spoils the reading of the list.
Readable == \A a \in Apps : apps[a].state # "torn"

TalkersOf(s) == {a \in Apps : s \in apps[a].egress}
ListenersOf(s) == {a \in Apps : s \in apps[a].ingress}

\* configuration_find_enddevice_of_app: the first one that refers to it.
HostsIn(found, a) == {d \in DOMAIN found : a \in found[d]}
DeviceOf(found, a) == First(HostsIn(found, a))

Idle == [pc |-> "idle"]
Down == [pc |-> "down"]
Deliver(p, event) ==
  inbox' = IF (p = "cuc" /\ cuc = Down) \/ (p = "conf" /\ conf = Down) THEN inbox
           ELSE [inbox EXCEPT ![p] = Append(@, event)]

(***************************************************************************)
(* REST interface: notifications to the two processes                      *)
(***************************************************************************)
Request == requests < MaxRequests /\ requests' = requests + 1

\* _api_streams_deploy.
AskDeploy(s) ==
  /\ Request
  /\ Deliver("cuc", [event |-> "deploy", stream |-> s])
  /\ UNCHANGED <<store, device, cuc, conf, reader, history, edits, faults>>

\* _api_configuration_set_stream_sendreceive.
AskSwitch(s, on) ==
  /\ Request
  /\ Deliver("conf", [event |-> "switch", stream |-> s, on |-> on])
  /\ asked' = [asked EXCEPT ![s] = IF conf = Down THEN {} ELSE {on}]
  /\ excused' = [excused EXCEPT ![s] = {}]
  /\ UNCHANGED <<store, device, cuc, conf, reader, owed, enabled, edits,
                 faults>>

\* _api_configuration_app_update: the id is put into the message, where the
\* handler does not look; the id it looks for names no application.
AskUpdate ==
  /\ Request
  /\ Deliver("conf", [event |-> "parameters", app |-> 0])
  /\ UNCHANGED <<store, device, cuc, conf, reader, history, edits, faults>>

\* _api_configuration_get_stream_sendreceive: the applications are read, ...
AskState(s) ==
  /\ Request
  /\ reader = Idle
  /\ \E talker \in (IF TalkersOf(s) = {} THEN 0..AppCount ELSE {Last(TalkersOf(s))}) :
       reader' = IF Readable
                 THEN [pc |-> "apps", stream |-> s, talker |-> talker,
                       listeners |-> ListenersOf(s)]
                 ELSE [pc |-> "answered", enabled |-> TRUE, seen |-> {}, apps |-> Apps]
  /\ UNCHANGED <<store, device, inbox, cuc, conf, history, edits, faults>>

\* ... the devices are, ...
ReadHosts ==
  LET found == reader.listeners \cup {reader.talker} IN
  /\ reader.pc = "apps"
  /\ reader' = IF \A a \in found : HostsIn(runs, a) # {}
               THEN [pc |-> "flags", enabled |-> TRUE, seen |-> {}, apps |-> found,
                     left |-> reader.listeners,
                     where |-> [a \in found |-> DeviceOf(runs, a)],
                     talker |-> reader.talker]
               ELSE [pc |-> "answered", enabled |-> TRUE, seen |-> {}, apps |-> found]
  /\ UNCHANGED <<store, device, inbox, cuc, conf, history, requests, edits,
                 faults>>

\* ... and then one switch after the other, the talker's last.  What is
\* returned for a device that cannot be reached was never initialised.
ReadSwitch ==
  LET a == IF reader.left = {} THEN reader.talker ELSE First(reader.left)
      d == reader.where[a]
      more == [reader EXCEPT !.left = @ \ {a}]
  IN
  /\ reader.pc = "flags"
  /\ \E on \in (IF d \in up THEN {sending[d]} ELSE BOOLEAN) :
       LET seen == IF d \in up /\ on THEN reader.seen \cup {a} ELSE reader.seen IN
       reader' = IF reader.left = {}
                 THEN [pc |-> "answered", enabled |-> reader.enabled /\ on,
                       seen |-> seen, apps |-> reader.apps]
                 ELSE [more EXCEPT !.enabled = @ /\ on, !.seen = seen]
  /\ UNCHANGED <<store, device, inbox, cuc, conf, history, requests, edits,
                 faults>>

Answer ==
  /\ reader.pc = "answered"
  /\ reader' = Idle
  /\ UNCHANGED <<store, device, inbox, cuc, conf, history, requests, edits,
                 faults>>

(***************************************************************************)
(* AppConfiguration                                                        *)
(***************************************************************************)
ConfTake == inbox["conf"] # <<>> /\ inbox' = [inbox EXCEPT !["conf"] = Tail(@)]

\* configuration_stream_set_sendreceive reads the applications: the listeners
\* are all that map the stream, the talker is the last one.  If there is none
\* the pointer was never initialised: it is left from an earlier call, leads
\* to no device (0), or the process crashes (ConfStop).
ConfSwitch ==
  /\ conf = Idle
  /\ ConfTake
  /\ LET e == Head(inbox["conf"]) IN
     /\ e.event = "switch"
     /\ \E talker \in (IF TalkersOf(e.stream) = {} THEN 0..AppCount
                       ELSE {Last(TalkersOf(e.stream))}) :
          conf' = IF Readable
                  THEN [pc |-> "apps", stream |-> e.stream, on |-> e.on,
                        talker |-> talker, listeners |-> ListenersOf(e.stream)]
                  ELSE Idle
  /\ UNCHANGED <<store, device, cuc, reader, history, requests, edits, faults>>

\* It reads the devices, and gives up if one of the applications has none.
ConfHosts ==
  LET found == conf.listeners \cup {conf.talker} IN
  /\ conf.pc = "apps"
  /\ conf' = IF \A a \in found : HostsIn(runs, a) # {}
             THEN [pc |-> "flags", stream |-> conf.stream, on |-> conf.on,
                   left |-> conf.listeners, talker |-> conf.talker,
                   where |-> [a \in found |-> DeviceOf(runs, a)]]
             ELSE Idle
  /\ UNCHANGED <<store, device, inbox, cuc, reader, history, requests, edits,
                 faults>>

\* The device d is no longer as somebody else asked for; or it could not be
\* reached; or now it is as asked for the stream s.
Excuse(who, d) == [s \in Streams |-> IF s \in who THEN excused[s] \cup {d} ELSE excused[s]]
Served(s, d) == [Excuse(Streams, d) EXCEPT ![s] = excused[s] \ {d}]

\* Mutant of ConfFlag: a device that cannot be reached ends the call.
ConfFlagAbort ==
  LET a == IF conf.left = {} THEN conf.talker ELSE First(conf.left)
      d == conf.where[a]
  IN
  /\ conf.pc = "flags"
  /\ IF d \in up
     THEN /\ sending' = [sending EXCEPT ![d] = conf.on]
          /\ enabled' = IF conf.on THEN enabled \cup {d} ELSE enabled
          /\ excused' = Served(conf.stream, d)
     ELSE /\ excused' = Excuse(Streams, d) /\ UNCHANGED <<sending, enabled>>
  /\ conf' = IF conf.left = {} \/ d \notin up THEN Idle ELSE [conf EXCEPT !.left = @ \ {a}]
  /\ UNCHANGED <<store, nodes, applied, values, up, inbox, cuc, reader, asked,
                 owed, requests, edits, faults>>

\* One switch after the other, the listeners' first; a failure does not end
\* the call.
ConfFlag ==
  LET a == IF conf.left = {} THEN conf.talker ELSE First(conf.left)
      d == conf.where[a]
  IN
  /\ conf.pc = "flags"
  /\ IF d \in up
     THEN /\ sending' = [sending EXCEPT ![d] = conf.on]
          /\ enabled' = IF conf.on THEN enabled \cup {d} ELSE enabled
          /\ excused' = Served(conf.stream, d)
     ELSE /\ excused' = Excuse(Streams, d) /\ UNCHANGED <<sending, enabled>>
  /\ conf' = IF conf.left = {} THEN Idle ELSE [conf EXCEPT !.left = @ \ {a}]
  /\ UNCHANGED <<store, nodes, applied, values, up, inbox, cuc, reader, asked,
                 owed, requests, edits, faults>>

\* configuration_app_deploy_parameters reads the application.
ConfParameters ==
  /\ conf = Idle
  /\ ConfTake
  /\ LET e == Head(inbox["conf"]) IN
     /\ e.event = "parameters"
     /\ conf' = IF e.app \in {a \in Apps : apps[a].state = "whole"}
                THEN [pc |-> "host", app |-> e.app, parameters |-> apps[e.app].parameters]
                ELSE Idle
  /\ UNCHANGED <<store, device, cuc, reader, history, requests, edits, faults>>

\* It reads the devices and writes to the one that runs the application what
\* the server knows of: all of it, or up to the first write that fails.
ConfValues ==
  LET a == conf.app
      d == DeviceOf(runs, a)
      found == DOMAIN conf.parameters \cap Offered[d]
  IN
  /\ conf.pc = "host"
  /\ conf' = Idle
  /\ IF HostsIn(runs, a) # {} /\ d \in up
     THEN \E written \in {found} \cup (IF faults < MaxFaults THEN SUBSET found ELSE {}) :
            /\ values' = [values EXCEPT ![d] =
                 [n \in Names |-> IF n \in written THEN conf.parameters[n] ELSE @[n]]]
            /\ faults' = IF written = found THEN faults ELSE faults + 1
            /\ owed' = {b \in owed : IF b = a THEN written = found
                                     ELSE HostsIn(runs, b) # {} => DeviceOf(runs, b) # d}
     ELSE owed' = owed \ {a} /\ UNCHANGED <<values, faults>>
  /\ UNCHANGED <<store, nodes, applied, sending, up, inbox, cuc, reader, asked,
                 excused, enabled, requests, edits>>

(***************************************************************************)
(* The CUC, place by place of the configuration                            *)
(***************************************************************************)
Role(k) == IF k = 1 THEN "talker" ELSE "listener"
CucAt(r, k) == IF k > Len(Planned[r.stream]) THEN Idle
               ELSE [pc |-> "device", stream |-> r.stream, version |-> r.version,
                     place |-> k, before |-> r.before]

\* EVENT_STREAM_DEPLOY: the stream is read.  One that has no configuration
\* gives a null pointer, which is followed at once.
CucTake ==
  /\ cuc = Idle /\ inbox["cuc"] # <<>>
  /\ LET s == Head(inbox["cuc"]).stream IN
     IF s \in Streams /\ version[s] = 0
     THEN /\ cuc' = Down /\ inbox' = [inbox EXCEPT !["cuc"] = <<>>]
     ELSE /\ inbox' = [inbox EXCEPT !["cuc"] = Tail(@)]
          /\ cuc' = IF s \in Streams
                    THEN CucAt([stream |-> s, version |-> version[s], before |-> {}], 1)
                    ELSE Idle
  /\ UNCHANGED <<store, device, conf, reader, history, requests, edits, faults>>

\* deploy_configuration for the next device.  One that is not in the datastore
\* is an error, after which the memory is used all the same: it has the
\* address of a device read earlier in it, or leads nowhere, or to a crash.
CucConnect ==
  LET d == Planned[cuc.stream][cuc.place]
      before == IF d \in DOMAIN runs THEN cuc.before \cup {d} ELSE cuc.before
  IN
  /\ cuc.pc = "device"
  /\ \/ \E target \in (IF d \in DOMAIN runs THEN {d} ELSE cuc.before) :
          /\ target \in up
          /\ cuc' = [pc |-> "apps", stream |-> cuc.stream, version |-> cuc.version,
                     place |-> cuc.place, before |-> before, target |-> target]
          /\ enabled' = enabled \ {target}
     \/ /\ d \in DOMAIN runs => d \notin up
        /\ cuc' = CucAt([cuc EXCEPT !.before = before], cuc.place + 1)
        /\ UNCHANGED enabled
  /\ UNCHANGED <<store, device, inbox, conf, reader, asked, excused, owed,
                 requests, edits, faults>>

\* The applications are read, without which nothing is written.
CucApps ==
  LET mapped == IF Role(cuc.place) = "talker" THEN TalkersOf(cuc.stream)
                ELSE ListenersOf(cuc.stream)
  IN
  /\ cuc.pc = "apps"
  /\ cuc' = IF Readable
            THEN [pc |-> "nodes", stream |-> cuc.stream, version |-> cuc.version,
                  place |-> cuc.place, before |-> cuc.before, target |-> cuc.target,
                  node |-> 1, app |-> mapped # {}, lost |-> FALSE]
            ELSE CucAt(cuc, cuc.place + 1)
  /\ UNCHANGED <<store, device, inbox, conf, reader, history, requests, edits,
                 faults>>

\* A call of the device d succeeds or not: not if it is lost, and a call may
\* fail of itself.
Call(d, done) ==
  IF d \in up /\ ~done THEN faults < MaxFaults /\ faults' = faults + 1
  ELSE (d \in up <=> done) /\ UNCHANGED faults

\* Mutant of CucNode: the loop over the nodes ends one too early.
CucNodeShort ==
  LET order == NodeOrder(Role(cuc.place))
      n == order[cuc.node]
  IN
  /\ cuc.pc = "nodes"
  /\ \E done \in BOOLEAN :
       /\ Call(cuc.target, done)
       /\ nodes' = IF done THEN [nodes EXCEPT ![cuc.target][n] = ValueOf(cuc, n)] ELSE nodes
       /\ cuc' = [cuc EXCEPT !.pc = IF cuc.node + 1 = Len(order) THEN "silence" ELSE @,
                             !.node = @ + 1, !.lost = @ \/ ~done]
  /\ UNCHANGED <<store, applied, sending, values, up, inbox, conf, reader,
                 history, requests, edits>>

\* Then one node is written after the other; nobody else writes them.  A write
\* that fails is passed over.
CucNode ==
  LET order == NodeOrder(Role(cuc.place))
      n == order[cuc.node]
  IN
  /\ cuc.pc = "nodes"
  /\ \E done \in BOOLEAN :
       /\ Call(cuc.target, done)
       /\ nodes' = IF done THEN [nodes EXCEPT ![cuc.target][n] = ValueOf(cuc, n)] ELSE nodes
       /\ cuc' = [cuc EXCEPT !.pc = IF cuc.node = Len(order) THEN "silence" ELSE @,
                             !.node = @ + 1, !.lost = @ \/ ~done]
  /\ UNCHANGED <<store, applied, sending, values, up, inbox, conf, reader,
                 history, requests, edits>>

\* A string that was never initialised is copied before it is sent.
CucNodeCrash ==
  LET n == NodeOrder(Role(cuc.place))[cuc.node] IN
  /\ cuc.pc = "nodes"
  /\ n \in {"DestinationMAC", "SourceMAC"} /\ ValueOf(cuc, n) = Undefined
  /\ cuc' = Down /\ inbox' = [inbox EXCEPT !["cuc"] = <<>>]
  /\ UNCHANGED <<store, device, conf, reader, history, requests, edits, faults>>

\* Mutant of CucSilence: the switch is left as it is.
CucSilenceNot ==
  /\ cuc.pc = "silence"
  /\ cuc' = [cuc EXCEPT !.pc = "trigger"]
  /\ UNCHANGED <<store, device, inbox, conf, reader, history, requests, edits,
                 faults>>

\* SendReceiveEnabled is set to FALSE, ...
CucSilence ==
  /\ cuc.pc = "silence"
  /\ \E done \in BOOLEAN :
       /\ Call(cuc.target, done)
       /\ IF done THEN /\ sending' = [sending EXCEPT ![cuc.target] = FALSE]
                       /\ excused' = Excuse(Streams, cuc.target)
          ELSE UNCHANGED <<sending, excused>>
       /\ cuc' = [cuc EXCEPT !.pc = "trigger", !.lost = @ \/ ~done]
  /\ UNCHANGED <<store, nodes, applied, values, up, inbox, conf, reader, asked,
                 owed, enabled, requests, edits>>

\* ... and the device is told to apply what its nodes hold.  For a message at
\* the end the application is asked for its name, be there one or not.
CucTrigger ==
  /\ cuc.pc = "trigger"
  /\ \E done \in BOOLEAN :
       /\ Call(cuc.target, done)
       /\ applied' = IF done
            THEN [applied EXCEPT ![cuc.target] =
                    [stream |-> cuc.stream, version |-> cuc.version, place |-> cuc.place,
                     nodes |-> nodes[cuc.target], lost |-> cuc.lost]]
            ELSE applied
  /\ IF cuc.app
     THEN cuc' = CucAt(cuc, cuc.place + 1) /\ UNCHANGED inbox
     ELSE cuc' = Down /\ inbox' = [inbox EXCEPT !["cuc"] = <<>>]
  /\ UNCHANGED <<store, nodes, sending, values, up, conf, reader, history,
                 requests, edits>>

(***************************************************************************)
(* What else happens: the datastore changes, devices come and go, and      *)
(* processes end and are started again                                     *)
(***************************************************************************)
Edit(counted) ==
  /\ IF counted THEN edits < MaxEdits /\ edits' = edits + 1 ELSE UNCHANGED edits
  /\ UNCHANGED <<device, cuc, conf, reader, excused, enabled, requests, faults>>
Unasked == asked' = [s \in Streams |-> {}]

\* Create or update of an application: its leaves are written and its
\* parameters removed, ...
AppBegin(a) ==
  /\ Edit(TRUE)
  /\ ~apps[a].writing
  /\ apps' = [apps EXCEPT ![a].state = "whole", ![a].parameters = <<>>, ![a].writing = TRUE]
  /\ owed' = owed \ {a}
  /\ Unasked
  /\ UNCHANGED <<runs, version, inbox>>

\* Mutant of AppEnd: the plugin passes over parameters that are created, as
\* they all are after the first commit.
AppEndSilent(a, v) ==
  /\ apps[a].writing
  /\ apps' = [apps EXCEPT ![a] =
       [state |-> IF @.state = "gone" THEN "torn" ELSE @.state,
        parameters |-> [n \in Names |-> v], writing |-> FALSE,
        egress |-> Installed.apps[a].egress, ingress |-> Installed.apps[a].ingress]]
  /\ owed' = IF conf = Down THEN owed ELSE owed \cup {a}
  /\ Unasked
  /\ UNCHANGED <<runs, version, device, inbox, cuc, conf, reader, excused,
                 enabled, requests, edits, faults>>

\* ... then its parameters and mapping are written, also for an application
\* that was deleted meanwhile, and the plugin announces the parameters.
AppEnd(a, v) ==
  /\ apps[a].writing
  /\ apps' = [apps EXCEPT ![a] =
       [state |-> IF @.state = "gone" THEN "torn" ELSE @.state,
        parameters |-> [n \in Names |-> v], writing |-> FALSE,
        egress |-> Installed.apps[a].egress, ingress |-> Installed.apps[a].ingress]]
  /\ Deliver("conf", [event |-> "parameters", app |-> a])
  /\ owed' = IF conf = Down THEN owed ELSE owed \cup {a}
  /\ Unasked
  /\ UNCHANGED <<runs, version, device, cuc, conf, reader, excused, enabled,
                 requests, edits, faults>>

\* The bound leaves out the deletion of one that is being written.
AppDelete(a) ==
  /\ Edit(~apps[a].writing)
  /\ apps' = [apps EXCEPT ![a] = [state |-> "gone", parameters |-> <<>>, egress |-> {},
                                  ingress |-> {}, writing |-> @.writing]]
  /\ owed' = owed \ {a}
  /\ Unasked
  /\ UNCHANGED <<runs, version, inbox>>

\* An end device is written with other references, or a topology without it.
SetDevice(d, references) ==
  /\ Edit(TRUE)
  /\ runs' = [e \in DOMAIN runs \cup {d} |-> IF e = d THEN references ELSE runs[e]]
  /\ owed' = {} /\ Unasked
  /\ UNCHANGED <<apps, version, inbox>>
DropDevice(d) ==
  /\ Edit(TRUE)
  /\ runs' = [e \in DOMAIN runs \ {d} |-> runs[e]]
  /\ owed' = {} /\ Unasked
  /\ UNCHANGED <<apps, version, inbox>>

\* The CNC's answer is stored, or a new request under the same id.
Configure(s) ==
  /\ Edit(TRUE)
  /\ version' = [version EXCEPT ![s] = edits + 2]
  /\ UNCHANGED <<apps, runs, inbox, asked, owed>>
Reset(s) ==
  /\ Edit(TRUE)
  /\ version' = [version EXCEPT ![s] = 0]
  /\ UNCHANGED <<apps, runs, inbox, asked, owed>>

Lose(d) ==
  /\ d \in up /\ faults < MaxFaults /\ faults' = faults + 1
  /\ up' = up \ {d}
  /\ UNCHANGED <<store, nodes, applied, sending, values, inbox, cuc, conf,
                 reader, history, requests, edits>>
Find(d) ==
  /\ d \notin up
  /\ up' = up \cup {d}
  /\ UNCHANGED <<store, nodes, applied, sending, values, inbox, cuc, conf,
                 reader, history, requests, edits, faults>>

\* A process that ends loses what it was told and was doing.
CucStop ==
  /\ cuc # Down /\ faults < MaxFaults /\ faults' = faults + 1
  /\ cuc' = Down /\ inbox' = [inbox EXCEPT !["cuc"] = <<>>]
  /\ UNCHANGED <<store, device, conf, reader, history, requests, edits>>
ConfStop ==
  /\ conf # Down /\ faults < MaxFaults /\ faults' = faults + 1
  /\ conf' = Down /\ inbox' = [inbox EXCEPT !["conf"] = <<>>]
  /\ owed' = {} /\ Unasked
  /\ UNCHANGED <<store, device, cuc, reader, excused, enabled, requests, edits>>
Start ==
  /\ \/ cuc = Down /\ cuc' = Idle /\ UNCHANGED conf
     \/ conf = Down /\ conf' = Idle /\ UNCHANGED cuc
  /\ UNCHANGED <<store, device, inbox, reader, history, requests, edits, faults>>

(***************************************************************************)
(* Specification                                                           *)
(***************************************************************************)
Init ==
  /\ apps = Installed.apps /\ runs = Installed.runs
  /\ version = [s \in Streams |-> 1]
  /\ nodes = [d \in Devices |-> [n \in AllNodes |-> Nothing]]
  /\ applied = [d \in Devices |-> [place |-> 0]]
  /\ sending = [d \in Devices |-> FALSE]
  /\ values = [d \in Devices |-> [n \in Names |-> 0]]
  /\ up = Devices
  /\ inbox = [cuc |-> <<>>, conf |-> <<>>]
  /\ cuc = Idle /\ conf = Idle /\ reader = Idle
  /\ asked = [s \in Streams |-> {}] /\ excused = [s \in Streams |-> {}]
  /\ owed = {} /\ enabled = {}
  /\ requests = 0 /\ edits = 0 /\ faults = 0

Clients ==
  \/ \E s \in Streams : AskDeploy(s) \/ AskState(s) \/ \E on \in BOOLEAN : AskSwitch(s, on)
  \/ AskDeploy("unknown") \/ AskUpdate
  \/ ReadHosts \/ ReadSwitch \/ Answer

Conf == ConfSwitch \/ ConfHosts \/ ConfFlag \/ ConfParameters \/ ConfValues
Cuc == \/ CucTake \/ CucConnect \/ CucApps \/ CucNode \/ CucNodeCrash
       \/ CucSilence \/ CucTrigger

Edits ==
  \/ \E a \in Apps : AppBegin(a) \/ AppDelete(a) \/ \E v \in Values : AppEnd(a, v)
  \/ \E d \in Devices : DropDevice(d) \/ \E r \in SUBSET Apps : SetDevice(d, r)
  \/ \E s \in Streams : Configure(s) \/ Reset(s)

Next ==
  \/ Clients \/ Conf \/ Cuc \/ Edits
  \/ \E d \in Devices : Lose(d) \/ Find(d)
  \/ CucStop \/ ConfStop \/ Start

Spec == Init /\ [][Next]_vars

(***************************************************************************)
(* Properties                                                              *)
(***************************************************************************)
Participants(s) == ListenersOf(s) \cup {Last(TalkersOf(s))}
ConfQuiet == conf = Idle /\ inbox["conf"] = <<>>

\* Once AppConfiguration has worked off what it was told, the participants of
\* a stream are switched as was asked for last, however often and for
\* whichever streams it was asked, unless a device could not be reached, was
\* deployed to or was switched for another stream since, or the datastore
\* changed (configuration_stream_set_sendreceive).
LastRequestHolds ==
  ConfQuiet /\ Readable =>
    \A s \in {x \in Streams : asked[x] # {} /\ TalkersOf(x) # {}} :
      (\A a \in Participants(s) : HostsIn(runs, a) # {}) =>
        \A a \in Participants(s) :
          DeviceOf(runs, a) \in excused[s] \/ {sending[DeviceOf(runs, a)]} = asked[s]

\* The parameters of an application reach its device, although they are
\* announced only after they were written, in two commits, and are read again
\* when the notification is handled; unless the device was lost, a write
\* failed, the application moved, or another one on the same device has
\* overwritten them (configuration_app_deploy_parameters).
ParametersArrive ==
  ConfQuiet =>
    \A a \in owed : apps[a].state = "whole" /\ HostsIn(runs, a) # {} =>
      \A n \in DOMAIN apps[a].parameters \cap Offered[DeviceOf(runs, a)] :
        values[DeviceOf(runs, a)][n] = apps[a].parameters[n]

\* What a device is made to apply is what the deployment that makes it do so
\* has read, in every node of the role: of one version of one stream, undefined
\* just where that version has no entry, and never left from another one,
\* although the CUC may end after any write and be started again, another
\* deployment has written some of the nodes by then, the device has had the
\* other role, or it stands in for one that is not in the datastore; unless a
\* write of this deployment failed (deploy_communication_engineering).
AppliedWhole ==
  \A d \in Devices :
    applied[d].place # 0 /\ ~applied[d].lost =>
      \A n \in NodesOf(Role(applied[d].place)) :
        applied[d].nodes[n] = ValueOf(applied[d], n)

\* A device does not send with what it has just been made to apply, unless
\* the AppConfiguration module has switched it on since the CUC connected, or
\* the write of the switch failed.
SilentUntilEnabled ==
  [][\A d \in Devices :
       applied'[d] # applied[d] => ~sending[d] \/ d \in enabled \/ applied'[d].lost]_vars

\* A stream is reported as enabled only if every participant was read as
\* switched on: "For indicating a enabled stream all apps must have the flag set
\* to true", "Indicate a success if all listeners and the talker are set to
\* enabled" (configuration_stream_get_sendreceive).
EnabledMeansAll ==
  reader.pc = "answered" /\ reader.enabled => reader.apps \subseteq reader.seen
============================================================================
