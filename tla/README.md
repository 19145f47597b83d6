# A verification development for ControlTSN

ControlTSN is a control platform for time-sensitive networks. Its state is one
Sysrepo datastore; several processes ("modules") read and write it through one
C library and tell each other about changes by notifications. This directory
holds TLA+ models of that platform, the TLC configurations that check them on
small instances, and TLAPS proofs about them for every value of the constants.

Paths below are relative to the repository root, where `src/` holds the
library and the modules.

## 1. Inventory

### 1.1 Parts, state and operations

| Part | Code | State | Operations |
|------|------|-------|------------|
| Streams | `sysrepo/sysrepo_client.c`, `common.c`, `modules/REST/module_rest.c` | list `/streams/stream`: id, request leaves, configuration leaves, flag `configured` | submit a request, read one or all, delete, ask for a computation, write a computed configuration |
| CUC | `modules/CUC/module_cuc.c` | none of its own between two events, but for an edit of its session that Sysrepo refused | on *computation requested*: read the unconfigured streams, post them to the CNC, write the answer; on *topology discovery*: store what the CNC answers; on *deploy a stream*: write its configuration to the end devices over OPC UA |
| Module handling | `common.c`, `sysrepo/sysrepo_client.c` | list `/modules/mod`: id, name, path, registered, pid, event mask, data; the processes | add, delete, register, unregister, start, stop; `module_init`, `module_shutdown` |
| MainModule | `core.c` | loop flag | start all registered modules; stop them at its end |
| RESTModule | `modules/REST/module_rest.c` | one thread per request; a log ring for the web socket | translates HTTP calls into library calls |
| Notifications | `sysrepo/plugin/controltsn_plugin.c`, `sysrepo/sysrepo_client.c` | a subscription per process | the plugin turns the changes of a transaction into events; a process receives those that its mask lets through |
| Shared session | `sysrepo/sysrepo_client.c` | `session`, `connection`, `rc`: one of each per process, for all its threads | every API call edits and applies in it |
| Application store | `sysrepo/sysrepo_client.c` | images, apps with parameters and stream mappings, references from end devices | set, get, update, remove; two-step writing of an app |
| Deployment | `common.c`, `modules/configuration/module_configuration.c`, `modules/CUC/module_cuc.c` | variables of the OPC UA servers on the end devices | SendReceive flag of the participants of a stream, parameters of an app, configuration of a stream |
| ContainerModule | `modules/container/module_container.c` | none | fetches the image list, starts and stops containers |
| Monitor, logger | `modules/monitor/module_monitor.c`, `logger.c` | a log file | log an event |
| Data model | `sysrepo/*.yang`, `type_definitions.c`, `helper/json_serializer.c` | the schema | write and read back each structure; JSON in both directions |
| CNC prototype, export server | `CNC/cnc_prototype.c`, `ExportServer/export_server.c` | none | answer a computation with dummy values; print |

How they interact: all processes share the datastore; a call commits with one
`sr_apply_changes`, which is atomic; between the reads of a call and its
commit every other process and thread may commit. The plugin sees each
transaction and sends notifications; a process that is not subscribed at that
moment misses them. Modules are stopped with SIGTERM to the pid recorded in
the datastore; they are started with `fork` and `execv`, and find their own
entry by name.

### 1.2 What is hard, and what makes each part correct

* **Streams.** Ids are made from a count of the streams that were read before
  the write; configurations are written long after the request they belong to
  was read; a request is merged with what is left of earlier ones. Correct: an
  accepted request stays under the id the client was told; ids are not shared;
  a configuration belongs to the request beside it; every listing can be read.
* **CUC.** The CNC can fail, answer late or never answer; the process can end
  between two results; a commit can be refused and then stays in the session.
  Correct: each delivered computation is worked off and the subscription thread
  comes back, as long as exchanges end; the body posted holds exactly the
  unconfigured streams.
* **Module handling.** Pids are written by the process itself, reset by
  whoever stops it and again by the process at its end; ids are the highest
  plus one. Correct: a running module can be stopped; a stop signals the right
  process; names and paths are unique; a signal is not lost.
* **MainModule.** It reads the list once and then acts on it; a child whose
  `execv` fails returns into its parent's code. Correct: each registered
  module is started once and stopped at the end.
* **Notifications.** One event of a type per transaction; masks; keys parsed
  from paths. Correct: each change documented to be announced is announced,
  once, to every subscriber whose mask has it.
* **Shared session.** The threads of a process edit one session: an apply
  commits what another thread has half built; a failed apply leaves its edit
  for the next call. Correct: what a call commits is its own edit, all of it.
* **Data model.** About thirty structures, each with a reader, a writer, a
  serializer and mostly a deserializer, all written by hand; values with a type
  of their own stored as members of a YANG union. Correct: what is read is what
  was written, for every case of every choice, and one bad entry does not take
  the others with it.
* **Application store.** An application and the data of a module are written in
  two commits. Correct: what a reader or the next call finds in between, or
  after a crash in between, is a state it can work on.
* **Deployment.** Three processes talk to the same devices, one device after
  the other, with what they read earlier. Correct: a device works with one
  whole configuration, sends only if it was told to, and is in the end as the
  last request said.

`PROJECT.json` lists each hazard at its line, with the properties that cover it.

## 2. Modules

| # | Module | Checked by | Composes |
|---|--------|-----------|----------|
| 1 | `StreamLifecycle`, `StreamLifecycle_proofs` | TLC and TLAPS | REST threads x datastore x CUC x CNC |
| 2 | `ModuleLifecycle`, `ModuleLifecycle_proofs` | TLC and TLAPS | REST threads x processes x MainModule |
| 3 | `EventService`, `Notifications`, `Notifications_proofs` | TLC and TLAPS; of the refinement TLAPS has the safety part | transactions -> plugin -> subscribers, and the processes that start and stop the plugin daemon; `EventService` is the abstract specification |
| 4 | `SharedSession`, `SharedSession_proofs` | TLC and TLAPS | threads of one process x the datastore x the ContainerModule |
| 5 | `Datastore`, `StreamStore`, `DataValues`, `SystemStore`, `Json`, `Datastore_proofs` | by the two below, TLC and TLAPS | operators only: the datastore as leaves, every reader and writer of `sysrepo_client.c`, every serializer |
| 6 | `StreamData`, `StreamData_proofs` | TLC and TLAPS | `StreamStore` x `Json`: clients -> datastore -> CUC -> CNC and back |
| 7 | `SystemData`, `SystemData_proofs` | TLC and TLAPS | `SystemStore` x `Json`: applications, module data, topology, images |
| 8 | `Deployment`, `Deployment_proofs` | TLC and TLAPS | CUC x AppConfiguration x a REST thread x end devices x changes of the datastore |

The same code appears in several modules at different grain. `StreamLifecycle`
has the *order* of the steps of a call and forgets what a stream contains;
`StreamData` has the contents and takes a call as one step; `SharedSession` has
the single calls of Sysrepo inside one call of the library. Each hazard is in
the module whose grain shows it.

## 3. The models

### 3.1 StreamLifecycle

State: `streams` is the list in the datastore. A stream's request and
configuration are abstracted to the *token* of the request (its serial
number), which is all the properties tell apart; `place` is its position in
the list. `rest[w]` is what thread `w` of the RESTModule has read so far,
`cuc` the same for the subscription thread of the CUC, `pending` the
notifications on their way. `accepted`, `deleted` and `replaced` are history.

| Action | Code |
|--------|------|
| `RequestList`, `RequestRead`, `RequestWrite` | `sysrepo_write_stream_request` with `_generate_stream_id`: list the ids, read each stream, write and apply |
| `Delete` | `sysrepo_delete_stream` |
| `Compute` | the REST handler that triggers a computation |
| `CucTake`, `CucRead` | the handler of the event: `_read_streams` with the filter, first the listing, then the entries |
| `CncAnswer`, `CncFail` | the exchange with the CNC over HTTP, which has no timeout: neither has to happen |
| `CucWrite` | `sysrepo_write_stream_configuration`, one commit per stream, of all the session of the CUC holds |
| `CucStop`, `CucStart` | the process ends and is started again |

A configuration that comes back for a stream deleted meanwhile would make an
entry without the request that the data model asks for, so Sysrepo refuses the
commit. Nothing discards the refused edit: it stays in the session of the CUC
(`edit`), lies over everything the CUC reads, and every later commit of the CUC
is refused with it until a request stores a stream under that id again or the
process ends.

Abstractions: all other leaves of a request and of a configuration (these are
the subject of `StreamData`); the formatting of the MAC address and the number
(four hexadecimal digits); the entries of a listing are read in one step, some
time after the listing. What a read of an uninitialised entry of the array
leads to is undefined in C and left open: the entry is skipped, the exchange
fails, or the process ends.

### 3.2 ModuleLifecycle

State: `mods` is the list of modules; `proc` the module processes, with the
step of `module_init` they have reached and whether SIGTERM has arrived;
`main` the instances of the MainModule; `call` and `stop` what an addition
and a `module_stop` in progress have read. `deleted`, `strayed` and `overlap`
are history: ids deleted, ids written without a check that they exist, ids
written by two parties at a time.

| Action | Code |
|--------|------|
| `AddRead`, `AddWrite`, `AddReset` | `sysrepo_add_module`: read all, refuse duplicates, write the entry, set its pid in a second transaction |
| `Delete`, `Register` | `sysrepo_delete_module`, `sysrepo_register_module`, `sysrepo_unregister_module` |
| `Start`, `Launch` | `module_start` of the library; a program started by hand |
| `StopRead`, `StopKill`, `StopReset` | `module_stop`: read the pid, signal, reset the pid |
| `InitRead`, `InitRecord` | `module_init`: find the own entry by name, record the pid |
| `LostShutdown` | `main` after a failed `module_init`: `module_shutdown` with a struct that was never initialised |
| `Shutdown`, `Crash` | the end of the main loop with `module_shutdown`; a death without it |
| `MainBoot`, `MainStart`, `MainRun`, `MainEnd`, `MainStop`, `MainGone` | `main` of `core.c` |

Outside the model: the reuse of a pid by the operating system, a datastore
that refuses a write, the clone of the *REST* process after a failed
`execv` (that of the MainModule is in the model), and the data of a module,
which are in `SystemData`.

### 3.3 EventService and Notifications

`EventService` says what the event mechanism promises. `facts` is what the
datastore says, as sets. `Documented(old, new)` is the table of events in
`README.md:48-75` for a transaction, as far as they are about the datastore;
`Withheld(old, new)` is what announcers keep to themselves, and `Promised` the
rest. Withheld are

* the types `Unsent`, for the plugin `MODULE_ADDED`, `MODULE_DELETED` and
  `TOPOLOGY_DISCOVERED` (see the run `event_table`), and `STREAM_MODIFIED`, which
  `README.md:55` has in the table but no line of the code sends,
* `MODULE_REGISTERED` for a flag that a module is created with: the plugin asks
  for a modification,
* `MODULE_DATA_UPDATED` and `CONFIGURATION_CHANGED` for data and parameters that
  are taken away.

Each announcer that serves at the time owes what is promised after what earlier
transactions owe, and sends each event once, to those that listen then and have it
in their mask. Of several events of one type in one transaction it sends only one,
whichever it comes by first (`After`), but of the two registration events all.

`Notifications` is how the code does it. `store` is the datastore as a function
on the *leaves* the plugin looks at, one leaf standing for all of its kind (one
`talker` for the many leaves under `request/talker`); a transaction is presented to
the plugin as a set of created, modified and deleted leaves (`Changes`).
`daemon[k]` is an instance of the plugin daemon with its queue of transactions,
the changes left to look at (`todo`) and the types already sent (`sent`, the
code's `already_send_mask`). `proc[p]` is how far a process has come in
`sysrepo_connect` and `sysrepo_start_listening`. `raced` and `misread` are history.

| Action | Code |
|--------|------|
| `WriteRequest`, `WriteConfiguration`, `DeleteStream`, `AddModule`, `DeleteModule`, `Register`, `SetPid`, `RemoveApp`, `SetTopology` | edits: the functions of the client library that commit once, as far as the plugin sees |
| `UpdateData`, `WriteData` | edits: `sysrepo_update_module_data`: delete and commit, write and commit |
| `WriteApp`, `WriteParameters` | edits: `_write_app` and its caller: the application without parameters is committed before the parameters are written |
| `Alone`, `Together` | `sr_apply_changes` with the edit of one call, or with those of two calls of one process in its session |
| `PluginTake`, `PluginStep` | `_module_change_cb`, one change at a time; the delivery to `_notif_listener_cb` with its mask is part of the step |
| `PluginReady` | `sr_plugin_init_cb` |
| `Connect`, `StartDaemon` | `sysrepo_connect`: look for the daemon, start it if there is none |
| `Listen`, `Leave` | `sysrepo_start_listening`, `sysrepo_disconnect` |
| `MainEnd` | the end of `main` in `core.c`, which signals the daemon |

The refinement mapping reads `facts` off the leaves, and takes as owed the
events of the changes in `todo` and in the queue that are not silenced by
`sent`. Sysrepo is external: a commit is atomic, changes come in any order,
transactions and notifications in the order they were sent, and
`SR_OP_CREATED` is the first value, zero, of its enumeration of operations.
Changes that no condition of the plugin's loop is about are passed over at once
(`Considered`). The threads of a process share a session, and a refused or failed
call leaves its edit in it (`SharedSession`), so a transaction may have the edits
of two calls; three and more are outside the model, and so are
a notification that cannot be sent, notifications
sent by modules themselves, the copy to the startup datastore, and a
MainModule that signals garbage because no daemon runs.

The `registered` flag of a module that is added is left open (0, 1, or 2 for
anything else): `_api_modules_add` allocates the structure, nobody sets the flag,
and `_write_module` writes what it finds.

### 3.4 SharedSession

Here a call is not one action: it is a list of steps, one per function of
Sysrepo and one per test of a result, that `Begin` puts into `run[t]` and the
threads work off one at a time. `store` is the datastore as a set of facts
(`<<"stream", s>>`, `<<"maps", a, s>>`, ...), `pend[p]` the edit in the session
of a process, with the calls it comes from, `rc[p]` the global result variable.
A call returns `rc` or its own `ret`, and tests the one or the other, as the
code does. `told` and `shared` are history: the answers, and the calls that
overlapped with another one of their process.

| Action | Code |
|--------|------|
| `WriteRequest`, `DeleteStream` | `sysrepo_write_stream_request`, `sysrepo_delete_stream` with the mappings it finds |
| `SetApp`, `UpdateApp`, `RemoveApp` | `sysrepo_set_application_app`, `sysrepo_update_app`, `sysrepo_remove_application_app`; `WriteApp` is `_write_app` |
| `SetTopology`, `UpdateDevice` | `sysrepo_set_topology`, `sysrepo_set_topology_graph`, `sysrepo_update_enddevice` |
| `UpdateAttributes` | `sysrepo_update_module_attributes` |
| `SetImages`, `SetApps`, `ReadDevices` | what the ContainerModule calls |
| `PutStep`, `RefusedStep`, `ApplyStep` | `sr_set_item` and `sr_delete_item`, that succeed or are refused, and `sr_apply_changes` |
| `TestStep`, `CopyStep`, `UnsetStep`, `Return` | the tests, `rc = _write_app(..)`, a result never set, the return |

Sysrepo is external: a refused value changes nothing, a transaction that
leaves a required reference without its target is refused and its edit stays
in the session. The references are those with `require-instance "true"` in
the data model. Values are refused for patterns such as that of a MAC address;
several leaves of one structure are set in one step, so a structure is refused
as a whole, but not the entry it belongs to. The talker of a request and the
rest of it are facts of their own, because a refused value may cost the one and
leave the other, and Sysrepo then refuses a request without its mandatory
talker. Outside the model: applications that cannot be read, which hide mappings
from a deletion (this is in `SystemData`), a discovered application whose unset
members make the process crash, the mask of all ones, and the calls of `ModuleLifecycle`,
which use the same session.

### 3.5 Datastore, StreamStore, DataValues, SystemStore, Json

These modules have no variables. `Datastore` (external) says what Sysrepo does
for `sysrepo_client.c`: a datastore is a function from paths to values, a path
the sequence of node names and list keys, `Merge` what setting items does,
cases of a choice that replace each other included, `Delete` what deleting a
subtree does. `Fail` is an error code, `Crash` a null or wild pointer that is
followed, `Undefined` memory that nobody wrote.

`StreamStore` has one operator for each `_read_...` of a stream, which takes a
datastore and a path and answers a structure or `Fail`, and one for each
`_write_...`, which gives the leaves it sets. A structure that has nothing but
leaves is given by its fields, since reader and writer go through the same
names. Where they do not, the operator says so: the index of an interface is
its position, the index of a failed interface is never read, the kind of a frame
is found from the names of the nodes with one test repeated (`FrameType`,
`ConfigType`), and each interface configuration is read through the path of the
whole list (`ReadInterfaceConfiguration`).

`DataValues` is the value of a parameter, a C union with a type beside it.
`TextOf` is what is written, `MemberOf` the member of the YANG union that
libyang finds for the text, `ReadItemValue` and `ReadSubtreeValue` what the two
conversions of `type_definitions.c` read from it; a text that libyang took for a
number is followed as a pointer.

`SystemStore` does for modules, topology, images and applications what
`StreamStore` does for streams, and has the library calls on them: an operator
that yields a datastore is one commit, so that the two halves of `_write_app`
and of `sysrepo_update_module_data` are separate (`AppHeaderWritten`,
`AppWritten`; `DataCleared`, `DataWritten`). `Valid` is the check of references
by Sysrepo.

`Json` has the serializers and deserializers of `json_serializer.c` in both
formats of the CNC. Objects are functions from member names, arrays functions
from keys, as in C here; the order of a list is Sysrepo's and no property
depends on it.

### 3.6 StreamData

State: `store`; `place`, the order of the list of streams; `asked`, what the CNC
was asked and has not answered;
`emulate_opencnc`, the build option, which picks the format; `book`, the history:
what was written to each stream since its last deletion, merged.

| Action | Code |
|--------|------|
| `PostRequest` | `_api_streams_request`: JSON to structure, `_generate_stream_id`, `sysrepo_write_stream_request` |
| `PostSimplified` | `_api_streams_request_simplified` with `create_stream_request` |
| `DeleteStream` | `sysrepo_delete_stream` |
| `ComputeRequests` | `streams_get_all(.., 1)` and `cnc_compute_requests` up to the post: `serialize_streams` or `serialize_cnc_request` |
| `SetComputed` | one answered stream: `deserialize_streams` or `deserialize_cnc_response`, `sysrepo_write_stream_configuration` |
| `Unanswered` | the exchange fails |

`ReadUnconfigured` is `_read_streams` with its filter as the code has it: a stream
is kept at its index in the whole list and the array ends at the count of those
kept. An entry of the array that was never written is skipped, or ends the process.

The value of each leaf names the leaf and the write it came with, so that two
leaves that are mixed up, or an old value that stays, cannot go unnoticed.

### 3.7 SystemData

State: `store`, `half` (the call between its two commits), `book` (history: what
was sent last).

| Action | Code |
|--------|------|
| `AppBegin`, `AppEnd` | create and update of an application, to and from the commit in the middle of `_write_app` |
| `AppDelete` | `sysrepo_remove_application_app` |
| `DataBegin`, `DataEnd` | `_api_modules_set_data_id` with `sysrepo_update_module_data` |
| `UpdateDevice`, `UpdateGraph` | the topology handlers of the RESTModule |
| `AddStream`, `RemoveStream` | streams as targets of mappings; `sysrepo_delete_stream` with what `_read_apps` leaves in its array |
| `DiscoverTopology` | `cnc_discover_topology` of the CUC |
| `DiscoverImages` | `container_discover_images` |
| `Stop` | the RESTModule ends between two commits |

`sysrepo_delete_stream` does not look at the result of `_read_apps`. `AppsLeft` is
what it then works on: all applications, or those before the first one that
cannot be read. The order of the list is Sysrepo's, so these may be any of the
readable ones; an entry that was never written is skipped, or ends the process.

### 3.8 Deployment

State: `apps`, `runs`, `version` are what the datastore says of applications, of
the devices they run on and of configurations; `nodes`, `applied`, `sending` and
`values` are the OPC UA server of each device, which is external: nodes that are
written, a method that applies them, one switch for the whole device, parameters.
`cuc`, `conf` and `reader` are the callback threads of the CUC and of
AppConfiguration and one request thread, with what each has read; `inbox` are the
notifications of the two processes. `asked`, `excused`, `owed` and `enabled` are
history.

| Action | Code |
|--------|------|
| `AskDeploy`, `AskSwitch`, `AskUpdate` | the handlers of the RESTModule that send notifications |
| `AskState`, `ReadHosts`, `ReadSwitch`, `Answer` | `configuration_stream_get_sendreceive`: applications, devices, one switch after the other |
| `ConfSwitch`, `ConfHosts`, `ConfFlag` | `configuration_stream_set_sendreceive`, in the same steps |
| `ConfParameters`, `ConfValues` | `configuration_app_deploy_parameters` with `_write_app_parameters` |
| `CucTake`, `CucConnect` | `EVENT_STREAM_DEPLOY` in `_cb_event`, `deploy_configuration` per device |
| `CucApps`, `CucNode`, `CucNodeCrash`, `CucSilence`, `CucTrigger` | `deploy_communication_engineering`: the applications are read, one node is written after the other, then the switch, then the method; every write may fail, and the process may end between any two |
| `AppBegin`, `AppEnd`, `AppDelete`, `SetDevice`, `DropDevice`, `Configure`, `Reset` | what clients, the CUC and the CNC change in the datastore meanwhile |
| `Lose`, `Find`, `CucStop`, `ConfStop`, `Start` | devices that cannot be reached, processes that end |

What a node holds is named by the version of the stream that was read to write
it. `Entries` says which kinds of entries a version has for each of its devices:
where it has no MAC addresses or no VLAN tag, `DestinationMAC`, `SourceMAC` or
`SocketPriority` is written from a local variable that was never initialised
(`Undefined`); a string among them may crash the CUC when it is copied.

Left open, because the C code leaves it open: the talker of a stream that no
application sends, the flag of a device that cannot be reached, and the device of
a configuration that is not in the datastore. The CUC asks the application for its
name in a last message and crashes if none maps the stream. Outside the model: the
interface a node takes from the application instead of the configuration, that
the parameters are read again later by others, a configuration with no
interface entry at all for a device, and the two events that
announce a success or a failure and on which no process acts.

## 4. What is checked

| Run | Instance | States | Result |
|-----|----------|-------:|--------|
| `streams` | 2 talkers, 2 REST threads, 3 requests, 2 deletions, 2 computations, 1 end of the CUC, with fairness | 217109 | 8 properties hold |
| `modules` | 2 installed modules, 2 REST threads, 2 processes, 1 MainModule, 3 calls, 1 crash; the REST threads are interchangeable (`Symmetry`) | 1800848 | 5 invariants hold |
| `shutdown` | 2 installed modules, one with an executable that is missing, 1 REST thread, 2 processes, 2 instances of the MainModule, 1 call, with fairness | 74950 | 2 liveness properties hold |
| `announcements` | 1 daemon, 1 subscriber of all events, 2 clients, 2 streams, a module, an application and the topology; 2 transactions, or 1 with the edits of 2 calls; with fairness | 22530 | `ServiceSpec` holds |
| `daemons` | 2 daemons, 2 subscribers with different masks, 1 transaction, 1 end of the MainModule | 24170 | 3 invariants hold |
| `session` | 2 REST threads, the ContainerModule, 1 application, 1 image, 2 streams, 2 calls; the REST threads are interchangeable | 411526 | 5 invariants hold |
| `stream_data` | 3 kinds of requests, 2 of simplified ones, 4 of configurations, 2 writes beside a stream kept from before, both formats of the CNC | 2346 | 4 properties hold |
| `system_data` | 3 applications, 2 sets of module data, 3 devices, graphs, a topology, 3 registries, 1 stream, 5 writes | 17070 | 6 invariants hold |
| `deployment` | 2 devices with an application each, 2 streams that cross, 2 requests, 1 change of the datastore, 1 fault; the values are interchangeable | 4177000 | 4 properties hold |
| `stream_ids` | 1 talker, 1 thread, 3 requests, 1 deletion | | `StreamIdsUnique` is violated |
| `enabled_flag` | as `deployment` | | `EnabledMeansAll` is violated |
| `event_table` | 1 daemon, 1 transaction | | `TableIsSent` is violated |

**Streams.** `DenseNumbers`: without a deletion the numbers of a talker are
1..n, so the count is a correct way to the next number exactly that long.
`ReplaceOnlyAfterDeleteOrRace`: a request overwrites a stream only after a
deletion for that talker or in a race of two threads. `AcceptedIsStored` and
`ConfigurationFitsRequest` say what remains true for everybody else: a stream
never deleted nor replaced keeps its request, and has its own configuration.
`StuckOnlyAfterDelete`: every stored stream can be read, and what the session of
the CUC holds back always goes back to a configuration that arrived after a
deletion. `PostCompleteIffConfiguredLast` characterises when the body posted to
the CNC is right, in both directions. `PendingServed`: each notification that
arrives is worked off, whatever fails, unless an exchange with the CNC never ends.

**Modules.** `RunningIsRecorded` and `PidIsOfTheModule` are the two directions
of "the datastore names the process of a module", with the exceptions the
code leaves open: ids that were deleted, hit by a stray write, or written by two
parties at a time. A pid that was in the datastore before the system started, and
one given out twice by the operating system, would be further ones; neither is in
the model. `UnreadableOnlyAfterStray` says where entries without a name
come from, `NamesUnique` that additions keep names and paths apart as long as
two additions do not race. `SignalledEnds` and `ShutdownStops` are the
liveness of stopping.

**Events.** `ServiceSpec` is the refinement: the plugin, which sees leaves one
by one, in any order and without their context, sends exactly what `Promised`
has, each event once, per transaction and in their order, to the processes that
listen, also if a transaction has the edits of two calls; with the fairness of
`EventService` it also says that what is owed is sent in the end. What of the
documented table is not promised is in `Withheld` (section 3.3). `OneDaemon`: a second daemon, which would double every event,
needs two processes in the gap between looking and starting.
`ListenersAreServed`: a process that listens has a daemon to hear from, unless
the MainModule ended or garbage was taken for a pid.

**Session.** `OkIsCommitted`: the answer "success" means that the edit is in the
datastore, up to the ways the code has to say so wrongly, which the property
names. `RequestBesideStream` and `ParametersBesideApp`: what must be written
together is found together; the exceptions are a call that failed and whose
leftovers another call committed, and overlaps. `RefusedForLeftovers`: a refusal
is due to the call itself only where it sets or cuts references.

**Contents of streams.** `AnswersAsWritten`: through reader, serializer and
deserializer a stream is the merge of all that was written to it.
`NothingElseStored`: a deletion takes everything and touches nothing else.
`AskedForTheUnconfigured`: the CNC is only asked for streams without a
configuration, with all that clients requested of them, in either format; and for
all of them exactly if no configured stream stands before one of them in the
list. `ListingFailsIffSpoiled` is an
equivalence: it names all contents that make the listing, and with it every
request and computation, fail: IPv6 tuples, and configurations with two
interfaces for one station, no matter how many requests they were merged from.

**Contents of the rest.** `AppAsSent` and `DataAsSent` say which values survive
the union of the schema and which do not, again as equivalences, and what is
found between two commits. `ListedUnlessTorn`: which contents and which
interruption make the list of applications or the whole tree unreadable.
`RefusedIffMissed`: Sysrepo refuses the deletion of a stream exactly if one of the
applications mapped to it was not read. As long as no application is torn, all are
read; a torn one never is, so a stream it is mapped to cannot be deleted. `TopologyAsSent` and `SentBackIffImage`: devices and graphs are read as
sent, up to the low byte of the number of a connection, and an application that a
client reads can be sent back exactly if it has an image.

**Deployment.** `AppliedWhole`: a device is made to apply what the deployment that
does so has read, of one version of one stream in every node of the role, and what
was never initialised exactly in the nodes for which that version has no entry;
although the CUC may end between any two writes and be started again, and another
stream's deployment may have written some of the nodes before. Only a failed
write of that deployment is excepted: it is printed and passed over, and the
device works with what the node held. The reason it holds is that only the CUC
writes those nodes, in one thread, and triggers last. `SilentUntilEnabled`: it does not
send with it before AppConfiguration has said so; the two processes do race, and
the property says how far. `LastRequestHolds`: once AppConfiguration is done the
switches are as was asked for last, for each stream; `ParametersArrive`: so are the
parameters of an application that changed, although two commits, a notification
and a second reading lie in between.

**Disagreements** (`findings` in `PROJECT.json`):

* `stream_ids`: after a deletion a stream id in use is given out again and the new
  request overwrites the other stream;
* `enabled_flag`: a stream is reported as enabled although not every switch was
  read as on. If the applications or the devices cannot be read, or a device is
  missing, the answer is the initial value, true (the shortest trace); and for a
  device that cannot be reached it is a value never initialised
  (`common.c:573`). The comments at `common.c:769` and `common.c:785` say
  otherwise;
* `event_table`: of the "currently implemented" events, three are never sent: the
  addition and the deletion of a module, because a condition assigns, and the
  update of the topology, because a path with `/topology/` in it cannot end in
  `/topology` (`README.md:59`, `README.md:63`, `README.md:68`).

Others are visible in the models and have no run of their own:

* `streams_get_all(.., 1)` should return "only the not yet configured streams"
  (`common.h:141`). With a configured stream before an unconfigured one, entries
  are missed and others never initialised (`sysrepo_client.c:2691`). The exact
  condition is `PostCompleteIffConfiguredLast` and `AskedForTheUnconfigured`;
* `EVENT_STREAM_MODIFIED` is in the table too (`README.md:55`), and nothing sends
  it: it is in `Documented`, and withheld;
* of several entries of one type in one transaction only one is announced
  (`controltsn_plugin.c:185`), a module that is created with its flag set is not
  (`controltsn_plugin.c:264`), and neither are data and parameters that are taken
  away; the table of events makes no such difference (`Withheld` and `After`);
* an update of the event mask alone is reported as a success and only the next
  call commits it, since a comparison with -1 of an unsigned mask is true for one
  value only (`sysrepo_client.c:5262`; exempted in `OkIsCommitted`);
* `module_init` ignores the mask it is given, for the same reason
  (`common.c:56`; `Notifications` uses the stored mask);
* unregistering a module does not stop it (`sysrepo_client.c:4951`, while
  `common.h:53` says it does);
* a missing executable makes a second MainModule (`common.c:156`, the child
  returns), in `ModuleLifecycle`;
* the nodes of a device are written with values never initialised when the
  configuration lacks the entry (`module_cuc.c:766`, `780`, `822`, `836`), in
  `Deployment`;
* the handler of a parameter update looks for the id where the RESTModule does
  not put it (`module_rest.c:1102`); parameters arrive by the plugin's event only.

**Bounds.** Each fault in the order of steps needs two actors, or one actor and
one event between two of its steps. Two threads beside the CUC, three requests on
two talkers and two deletions allow a deletion of the first of two streams, a
replacement and a race in one behaviour; two computations allow one before and
one after; one end of the CUC falls between any two of its steps. For modules
three calls allow an addition, a deletion and a re-addition, or a stop racing a
start, while two processes may belong to one module. The bounds are guards of
the user's actions only (requests, deletions, calls, crashes, processes); every
step of a handler that has begun is free.

For events, two transactions let a second one be committed while the
plugin is half way through the first, and fall between the two commits of a
write; or the bound is spent on one transaction with the edits of two calls, on
two streams or on different kinds of entries. A second daemon and a second
subscriber matter for the start, which one transaction is enough to observe.

In the session two calls are what a leftover needs, one that fails and one that
commits it, and what an overlap needs; the longest call has twelve steps and
all interleavings of two are covered. Starting with an application mapped to
a stream makes references matter from the first call; the second stream is new.

For the contents, merging needs two writes to one stream, on either side of a
deletion; a behaviour starts on an empty datastore or on one with a configured
stream from before, so that two writes make three. The documents have each case of
each choice, lists of none, one and two entries, and lists whose second version
shares no entry with the first. With two writes beside the stream from before, TLC meets lists with the configured
stream first and lists without one; an unconfigured stream before a configured one,
which needs a third write, is left to `PostCompleteIffConfiguredLast` and the
proof. Numbers stand on both sides of each boundary: of
8, 16 and 32 bits, of the sign, and of the texts of four digits. Five writes in
`system_data` allow each kind of call twice with another one between its commits.

For the deployment, each device is talker of one stream and listener of the other,
so that a device has to change its role; two requests are a deployment against a
switch, a switch against a switch or a reading against either; the change and the
fault fall between any two steps, the fault being a lost device, a failed write or
an ended process. Each stream lacks a kind of entry somewhere in its first version
and another one in its second.

`CHECK_DEADLOCK FALSE` is set everywhere because users may stop calling: with
the bounds used up and every handler at rest nothing has to happen.

**Fairness.** `StreamLifecycle`: weak fairness of the steps of the CUC that take a
notification, read and write, for its subscription thread is never suspended by
the program. The exchange with the CNC has no timeout (`module_cuc.c:94-112`), so
`CncAnswer` and `CncFail` are under no fairness, and neither are the end and the
start of the process and the REST calls. `ModuleLifecycle`: weak fairness of the steps of each
live process, of each stop in progress, of each MainModule and of an addition
in progress; crashes, calls and the signal to the MainModule are under none.
`Notifications`: weak fairness of the work of each daemon, whose thread waits for
nothing but the next transaction; when the MainModule ends it, the action is no
longer enabled. Calls, and processes that come and go, are under none. The other
modules state no fairness and no liveness.

## 5. What is proved

Eight modules hold proofs, each of invariants that TLC checked on a run before.
Every proof has the shape of the model: one lemma for each action, or for each
kind of step, then one that `Next` keeps the invariant, then the theorem.

`StreamLifecycle_proofs` proves for every set of talkers and threads and every
bound:

* `TypeCorrect`: `Spec => []TypeOK`. The inductive invariant is
  `TypeInv == TypeOK /\ Finite`; finiteness of the ids in use and of each
  listing is what makes the cardinality in `NextNumber` a natural number.
* `AcceptedStaysStored`, `ConfigurationsFit`, `StuckNeedsDelete`: the
  three properties are not inductive alone, since the CUC's `posted` and
  `results` carry pairs of stream and request from an earlier state, and so does
  the refused `edit` of its session. The strengthening says of each such pair
  that it still agrees with the datastore unless the stream was deleted or
  replaced (`InFlightKnown`, `HeldKnown`); `FitInv` is its conjunction with the
  three, and each action has one step in the proof. The lemma `CommitEffect`
  says what a commit of the CUC, accepted or refused, changes.
* `NumbersStayDense`: `DenseInv` extends density to the listings that the
  threads hold. The lemma `DenseAdd` says that a dense set plus its next number
  is dense, `NextIsNew` that the next number of a dense set is not in it.
* `ReplaceNeedsDeleteOrRace`: the action property, from `DenseInv`.
* `PostsCompleteJustThen`: the action property `PostCompleteIffConfiguredLast`. That
  n streams are the first n of the list needs places that differ. `PlaceInv` says
  so of the datastore and of what the CUC has listed, with one exception: streams
  that are only in the refused edit of its session stand together at the end. They
  do no harm since that edit makes them configured. `KeptAll` is the counting.

`Notifications_proofs` proves for every number of processes, clients, entries and
daemons:

* `OneDaemonHolds` and `ListenersAreServedHolds`, from the inductive invariant
  `IInv`. `OneDaemon` alone is not inductive: `DaemonInv` adds that without a
  race at most one process is about to start a daemon, and only while none
  runs. `ServedInv` extends what is said of listeners to all processes that
  have connected. All transactions and all work of the plugin are handled by
  one lemma on quiet steps (`QuietKeeps`), which start and stop no daemon.

and for every number of entries, processes, daemons and transactions:

* `ServiceIsImplemented`: `Spec` implies the initial predicate and the steps of
  `EventService` under the refinement mapping of `Notifications`. The argument has
  three parts. The operators: the events that are promised for a transaction
  (`Promised`) are those that its changes raise one by one (`PromiseKept`, type by
  type from `EventsStreams`, `EventsValues` and `EventsFlags`). The writers: the
  edits of one call or of two leave a flag beside each module (`EditOK`, `ApplyOK`),
  which is what `PromiseKept` asks. The plugin:
  a change that raises an event not yet sent is the sending of the service
  (`LoudStep`), any other one is a stutter (`SilentStep`), a transaction taken
  from the queue changes nothing of what is owed (`TakeStep`).
* `TypeCorrect`: `Spec => []TypeOK`, with the part that is not about types: what a
  callback received is in its mask. `Invariance` is the invariant of both.

`Deployment_proofs` proves for any number of streams, applications, devices,
requests, changes, faults and restarts:

* `WholeConfigurations`: `Spec => []AppliedWhole`, for any `Entries`. The property
  is about what was applied; what makes it inductive is `NodesWritten`, which says
  that the nodes the CUC has come by in its order hold what it has read for them,
  if no write failed, and that these are all nodes of the role when it triggers. Each step of the CUC has a lemma; the
  steps of everybody else leave the nodes and the CUC alone (`OthersKeep`), or end
  the CUC.

* `DevicesStaySilent`: `Spec => SilentUntilEnabled`, an action property. Only the
  trigger of the CUC and the flag of AppConfiguration turn a device on, and one
  lemma for either says from what it read (`CucSwitches`, `FlagSwitches`).

and, about the AppConfiguration module:

* `TheLastRequestHolds`: `Spec => []LastRequestHolds`. The property is about a
  thread at rest; the invariant `SwitchInv` follows the last request of a stream
  through its three places, the inbox (it is the last of its stream there,
  whatever is before it), the work of the thread (what it has read still holds, and
  all it is through with is switched) and the devices.
* `TheParametersArrive`: `Spec => []ParametersArrive`, from `ParameterInv`: parameters
  owed are announced, or read by the thread as they are in the datastore, or on
  the device. This is where two commits and a second reading could lose some.

`ModuleLifecycle_proofs` proves for any number of programs, clients, processes,
instances of the MainModule, calls and crashes, from one invariant `IInv`:

* `RunningModulesAreRecorded` and `PidsAreOfTheirModule`. `RecordedInv` adds to the
  first that no other process runs under the entry, that no addition is about to
  reset its pid, and that a `module_stop` in progress there has yet to signal this
  very process: a stop that has signalled resets the pid, so the next process must
  not have recorded its own in between. `PidInv` and `FoundInv` carry the name from
  the search of `module_init` to the pid.
* `OnlyStraysAreUnreadable`: `KnownInv` says that whoever is about to write to an
  entry has seen it, so what creates an entry without a name is a write after
  a deletion.
* `NamesStayUnique`: `AddInv` says of every addition in progress that its id is
  still the one after the highest, or was taken in a race.
* `TypeCorrect`; that the ids in use have a highest one is part of `ModsType`.

`SharedSession_proofs` proves for any number of threads, applications, images,
streams and calls. The model runs a call as a list of steps, so the first part
of the proof says which lists there are (`Programs`) and what a step of each kind
may do (`StepsMove`, `SessionsMove`, `StepsAdvance`); a call that overlaps with no
other (`Alone`) is then the only one that moves its session.

* `TypeCorrect`: `Spec => []TypeOK`; the datastore stays valid.
* `SuccessIsCommitted`: `Spec => []OkIsCommitted`. It is about calls that returned;
  `CommitInv` adds that a call alone at its end, with a good value to return, has
  nothing left in the session, and what the global `rc` held before, for the calls
  that never set it.
* `RequestsStayWhole`: `Spec => []RequestBesideStream`. What a session holds counts
  too, for another call may commit it: `StreamInv` says of the datastore and of the
  view of a session that a stream has its request, except while the call that
  writes it is at one of the steps in between (`Half`). A call that ends there
  has failed, and the property excepts what it left.
* `ParametersStay`: `Spec => []ParametersBesideApp`. `AppInv` is alike with the two
  commits of `_write_app`; it needs one conjunct more, that before the second
  commit the parameters are in the session. Without it the invariant is not
  inductive.
* `RefusalsAreForLeftovers`: `Spec => []RefusedForLeftovers`. `RefusalInv` describes
  what a call alone has put into a session that was empty: a request the stream
  with its talker, a deletion all mappings it found, other calls nothing that a
  reference begins or ends at.

`Datastore_proofs` is about paths and documents, for every content of the
datastore: what is below a path and what parts from it, which leaves `Merge`,
`Delete` and `Union` leave, add or take away (`MergeHas`, `MergeElsewhere`,
`DeleteKey`), what holds of a structure after a document is merged into it
(`MergeKeeps`, and `MergedEntries` for lists, which are merged by key), and that a
structure is read with exactly the leaves it has (`ReadWhole`). The two modules
below use it.

`StreamData_proofs` is about the operators, for every content of the datastore
and every document, and proves with them all properties of `StreamData`:

* `ReadDependsOnStreamOnly`: two datastores with the same leaves below the path of
  a stream give the same stream. Each reader has a lemma of its own (`...Alike`),
  from the leaves up to `ReadStream`; the choices, which are found from the names
  of nodes, are among them.
* `OtherStreamsUntouched`: a request, a configuration or a deletion changes nothing
  of what is read of another stream. Each writer has a lemma that its leaves are
  below its path (`...Under`); `StreamsElsewhere` and `DeleteElsewhere` say what that
  means for the other paths. The other stream must not be called like a case of
  a choice (`CaseNames`), for `Merge` takes such names away where it meets them.
* `NothingElseIsStored`: `Spec => []NothingElseStored`. The inductive invariant
  `StreamsInv` adds that every leaf has a path and that the ids are those of
  `IdNumber`, no cases of a choice. There are five of them, which is enough as long
  as the streams are no more than the writes and one from before.
* `AnswersAreAsWritten`, `ListingFailsOnlyIfSpoiled`, and the action property
  `CncIsAskedForTheUnconfigured`, for any kinds of requests, simplified requests and
  configurations of the shapes the model gives them. The properties compare what is
  *read* with `book`, the merge of all that was written, so they are not inductive;
  `DataInv` says instead that the leaves below the path of each stream are those of
  its merge (`StreamIs`), and of the array the CNC holds that its entries have the
  members its format gives them (`AskedSound`). Each structure, from an interface up to
  the stream, has five lemmas: its JSON is read back (`...Returns`), what is in the
  datastore holds as long as nothing below its path changes (`...Still`), the writer
  makes a document of which it holds (`...Written`), merging that document into what
  was there leaves the merge of the two (`...Merged`), and the reader returns it, or
  fails where it is spoiled (`...Read`). This is where lists grow by key, a new case of
  a choice takes the leaves of the old one away, and a second configuration leaves
  the interfaces of the first, after which the station has two and the stream
  cannot be read. openCNC answers with the configuration in a format of its own, and
  `CncReturns` says that it is read as what the CNC computed.

`SystemData_proofs` proves all six properties of `SystemData`, for any documents of
the types that `SystemData` names, any kinds of mappings and any number of writes:

* `StoreHoldsWhatWasSent`: `Spec => []IInv`, the inductive invariant. None of the
  properties is inductive, since each is about what is *read*, and a writer merges
  into whatever leaves are there. `IInv` says instead which leaves there are:
  every leaf has a path and every reference a target (`Valid`); the module data, or
  nothing while it is half written (`DataInv`); devices, graph and the switches
  (`TopologyInv`); the images (`ImagesInv`); and of each application its header, its
  parameters or none, and its mappings, while a torn entry has no name
  (`AppsInv`). What is `half` done is part of it: between two commits the
  parameters are gone and what is to be written is what the book has. Each action has
  a lemma for the part it writes (`...Keeps`, `...Written`) and one saying that it
  is elsewhere for the other parts; `KeyedApp`, `AppHeader` and `BodyWritten` say what
  the two commits of `_write_app` leave.
* `DeletionIsRefused`: `IInv` says that the mappings of an application that was read
  are those in the datastore, so the references left after a deletion are those of
  the applications that were not read; and that an application which is not torn can
  be read.
* `DataIsAsSent`, `TopologyIsAsSent`, `AppIsAsSent`, `AppsAreListed`: from `IInv` by
  lemmas on the readers (`DataRead`, `TopologyRead`, `AppRead`), which rest on those
  on values: which member of the union takes a text (`NumberMember`,
  `BooleanMember`), what a type makes of it (`NarrowKeeps`, `SubtreeValueRead`), and
  which values therefore survive.
* `AppsComeBack`: that serialising and deserialising are inverse on what was read,
  value by value (`ValueReturns`), parameter by parameter, and member by member, as
  no two fields have the same member name (`NamesReturn`).

The last five, and the last three of `StreamData_proofs`, have a hypothesis, `MarksApart`: no mark of the model (a reading that
failed, crashed, or found nothing) is a function. TLC's model values are none, and in
the code a mark is a return code or a null pointer and no structure, but a formula
without a type cannot be evaluated, so it is not an `ASSUME`.

The theorems assume of the constants, by name in the module that declares them:

| Module | Assumed |
|--------|---------|
| `StreamLifecycle` | the bounds are natural numbers |
| `ModuleLifecycle` | so are they here; the installed modules have names and paths of their own, as `sysrepo_add_module` asks, and no process |
| `Notifications` | the bounds; each process has a mask; the datastore starts with known leaves, and a module in it has its flag, which has a default in the data model |
| `SharedSession` | the bound; the ContainerModule is no thread of the RESTModule; the datastore at start-up passes the check of Sysrepo. `RequestsStayWhole` and `ParametersStay` also assume that what it has of streams and applications is whole (`Complete`), since they are about what is lost from then on |
| `Deployment` | numbers of applications and devices; a configuration names at least one device; the datastore starts with entries of the right types, torn or removed ones included |
| `Datastore` | `MarksDistinct`: the marks are different from each other |
| `StreamData` | at most four writes, a bound of the model: it has five ids. The two theorems about operators do not use it. `MarksDiffer`: no mark is a flag, a text of the model or a set of identification types. `KindsTyped`: the cases of frames and entries are those of the data model, and no key of a list is the name of a case or a mark |
| `SystemData` | `MarksDiffer`: the marks are no numbers, Booleans or texts of the model. `DocumentsTyped`: what the deserializers make of a document is a structure with its members and with values of the types it names, the texts being other than the marks; numbers have less than eight digits (longer texts of digits make other members of the union possible again); devices, streams and modules have no names of cases |

Each holds of the instances: TLC evaluates them, `Complete` in the `MC` module.

The proofs changed the models where these were silent. `LoadedAssumption` and the
`Complete` of `SharedSession` were true of each instance and had never been said. The proof of what the addition of a module announces
led back to `sysrepo_add_module`, where the `registered` flag is not initialised;
the model now leaves it open, and the refinement holds for each value. Single
leaves are written with `PutLeaf` and joined with `Union`, records are joined with
`Beside`, structures are read as one function, and the ranges of numbers are inequalities, since the provers cannot
read `:>` and `@@` and enumerate intervals; the runs reach the same states as before.
The proofs of `SystemData` showed that the types of documents had to be said
(`DocumentsTyped`), and led back to `lyd_data_to_data_value`, which does not read the
instance identifiers among the parameters of an application: the properties now say
so, which no document of the runs had shown.

Only model-checked are `PendingServed`, `SignalledEnds`, `ShutdownStops` and the
fairness in `ServiceSpec`: liveness is beyond the prover. Every invariant and every
action property of the passing runs is a theorem.

## 6. What is not modelled

* HTTP, parsing of JSON text, documents that lack members, the index page, the
  web socket log and the debug calls of the RESTModule: input and output.
* The calls of the ContainerModule to Kubernetes and `deserialize_apps`, which
  reads their answers; the upload of images.
* The MonitorModule and the logger: they write a file and nothing depends on it.
* The generated OPC UA node sets in `src_generated`: data, the few nodes the
  program writes are in `Deployment`.
* The export server: it prints.
* Code that is not reached: `deploy_bnm` of the CUC (the call is a comment), all of
  `module_configuration.c` before its callback, the status of a stream as a structure
  of its own (`_write_stream`, `_write_streams`, the two `status_stream`
  serializers), and `EVENT_CONFIGURATION_DEPLOY`, which is sent and has no handler.
* `EVENT_ERROR` and `EVENT_STREAM_DEPLOYED`: nobody acts on them.
* Failures of `malloc`, of `sr_event_notif_send` and of the copy to the startup
  datastore.
