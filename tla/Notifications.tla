--------------------------- MODULE Notifications ---------------------------
(***************************************************************************)
(* From a transaction on the datastore to the callbacks of the modules:    *)
(* the calls that write, as sets of changed leaves; the Sysrepo plugin,    *)
(* which walks through the changes of each transaction and sends events;   *)
(* the processes that start the plugin daemon when they connect, and the   *)
(* MainModule that stops it at its end.                                    *)
(*                                                                         *)
(* Only the leaves the plugin looks at are kept.  A subscriber's events    *)
(* arrive in the order they are sent, so its filter and its callback are   *)
(* one step with the sending.  Sending does not fail here, and what the    *)
(* plugin writes itself when it ends is on no path it looks at.  All calls *)
(* of a process share one session, so a transaction may hold the edits of  *)
(* two calls: of two threads, or of a call that failed and of the next.    *)
(***************************************************************************)
EXTENDS Naturals, Sequences, FiniteSets

CONSTANTS
  Streams, Modules, Apps,   \* ids of the entries
  Clients,      \* threads that write to the datastore
  MaxDaemons,   \* bound: instances of sysrepo-plugind started
  Subscribers,  \* module processes
  Mask,         \* Mask[p]: the mask stored for the module of p
  Loaded,       \* the datastore at first: a function on leaves
  MaxCommits,   \* bound: transactions
  MaxEnds       \* bound: times the MainModule ends and stops the daemon

Daemons == 1..MaxDaemons

ASSUME BoundsAssumption == MaxCommits \in Nat /\ MaxEnds \in Nat /\ MaxDaemons \in Nat
ASSUME MaskAssumption == DOMAIN Mask = Subscribers

VARIABLES
  store,    \* the leaves in the datastore: <<kind, entry, leaf>> |-> value
  call,     \* call[c]: a call between its two transactions
  daemon,   \* the instances of the plugin daemon
  proc,     \* proc[p]: how far the module process has come
  got,      \* got[p]: the events the callback of p has received, in order
  raced,    \* history: two processes were about to start the daemon
  misread,  \* history: a daemon was believed to run that did not
  ends, commits

vars == <<store, call, daemon, proc, got, raced, misread, ends, commits>>

(***************************************************************************)
(* Leaves and changes                                                      *)
(***************************************************************************)
Parts == {"talker", "listener"}   \* of a request; a listener is optional
Versions == 1..2                  \* of the value of a leaf

Leaves ==
  (({"stream"} \X Streams) \X (Parts \cup {"key", "configured"}))
    \cup (({"module"} \X Modules) \X {"key", "registered", "data"})
    \cup (({"app"} \X Apps) \X {"key", "parameters"})
    \cup {<<<<"topology", 0>>, "graph">>}

\* The entry of a module has a flag, for it has a default.
ASSUME LoadedAssumption ==
  /\ DOMAIN Loaded \subseteq Leaves /\ \A l \in DOMAIN Loaded : Loaded[l] \in 0..2
  /\ \A i \in Modules : <<<<"module", i>>, "key">> \in DOMAIN Loaded
                        <=> <<<<"module", i>>, "registered">> \in DOMAIN Loaded

Stored == DOMAIN store
Entry(kind, id, leaves) == ({<<kind, id>>} \X leaves)
Stream(s, leaves) == Entry("stream", s, leaves)
Module(i, leaves) == Entry("module", i, leaves)
App(a, leaves) == Entry("app", a, leaves)

Change == [leaf: Leaves, op: {"created", "modified", "deleted"}, val: 0..2]

\* The changes a transaction is presented to the plugin with.
Changes(old, new) ==
  {[leaf |-> l, op |-> "created", val |-> new[l]] : l \in DOMAIN new \ DOMAIN old}
    \cup {[leaf |-> l, op |-> "deleted", val |-> old[l]] : l \in DOMAIN old \ DOMAIN new}
    \cup {[leaf |-> l, op |-> "modified", val |-> new[l]] :
            l \in {x \in DOMAIN old \cap DOMAIN new : old[x] # new[x]}}

(***************************************************************************)
(* Edits.  What a call writes: it takes leaves away, sets others, and some *)
(* come with them if they are missing, since a set of a leaf creates the   *)
(* entry with its defaults.                                                *)
(***************************************************************************)
Missing == {"key", "registered"}   \* what an entry is created with
Nothing == [l \in {} |-> 0]

Edit(cut, put, fresh) == [cut |-> cut, put |-> put, fresh |-> fresh]
Cut(leaves) == Edit(leaves, Nothing, {})
Put(put) == Edit({}, put, {})

Apply(e, st) ==
  LET stay == DOMAIN st \ e.cut IN
  [l \in stay \cup DOMAIN e.put \cup e.fresh |->
     IF l \in DOMAIN e.put THEN e.put[l]
     ELSE IF l \in stay THEN st[l]
     ELSE IF l[2] = "registered" THEN 0 ELSE 1]

\* A request is written over what the entry holds.
WriteRequest(s, v, listeners) ==
  Put([l \in Stream(s, {"key", "talker", "configured"} \cup listeners) |->
         CASE l[2] = "configured" -> 0 [] l[2] = "key" -> 1 [] OTHER -> v])
WriteConfiguration(s) == Put([l \in Stream(s, {"configured"}) |-> 1])
DeleteStream(s) == Cut(Stream(s, Parts \cup {"key", "configured"}))

\* Of the two transactions the second one sets the pid, to which the plugin
\* pays no attention.  The flag of the new module was never initialised: it is
\* 0, 1 or any other value of a byte, for which 2 stands.
AddModule(i, flag) ==
  Put([l \in Module(i, {"key", "registered"}) |-> IF l[2] = "registered" THEN flag ELSE 1])
DeleteModule(i) == Cut(Module(i, {"key", "registered", "data"}))
Register(i, flag) ==
  Edit({}, [l \in Module(i, {"registered"}) |-> flag], Module(i, {"key"}))
SetPid(i) == Edit({}, Nothing, Module(i, Missing))

\* The data of a module is deleted and committed, then written (v = 0: none).
UpdateData(i) == Cut(Module(i, {"data"}))
WriteData(i, v) ==
  IF v = 0 THEN Cut({})
  ELSE Edit({}, [l \in Module(i, {"data"}) |-> v], Module(i, Missing))

\* An application is written without its parameters, then they are.
WriteApp(a) == Edit(App(a, {"parameters"}), Nothing, App(a, {"key"}))
WriteParameters(a, v) ==
  IF v = 0 THEN Cut({})
  ELSE Edit({}, [l \in App(a, {"parameters"}) |-> v], App(a, {"key"}))
RemoveApp(a) == Cut(App(a, {"key", "parameters"}))

SetTopology(v) == Put([l \in Entry("topology", 0, {"graph"}) |-> v])

(***************************************************************************)
(* Calls.  A client is idle or between the transactions of a call; a step  *)
(* is an edit to be committed and the call that is left after it.          *)
(***************************************************************************)
NoCall == [kind |-> "none"]

OneTransaction ==
  {WriteRequest(s, v, l) : s \in Streams, v \in Versions, l \in SUBSET {"listener"}}
    \cup {WriteConfiguration(s) : s \in Streams} \cup {DeleteStream(s) : s \in Streams}
    \cup {AddModule(i, flag) : i \in Modules, flag \in 0..2}
    \cup {Register(i, flag) : i \in Modules, flag \in {0, 1}}
    \cup {DeleteModule(i) : i \in Modules} \cup {SetPid(i) : i \in Modules}
    \cup {RemoveApp(a) : a \in Apps} \cup {SetTopology(v) : v \in Versions}

Step(edit, rest) == [edit |-> edit, rest |-> rest]
FirstSteps ==
  {Step(e, NoCall) : e \in OneTransaction}
    \cup {Step(UpdateData(i), [kind |-> "module", id |-> i]) : i \in Modules}
    \cup {Step(WriteApp(a), [kind |-> "app", id |-> a]) : a \in Apps}
Steps(c) ==
  CASE call[c].kind = "none" -> FirstSteps
    [] call[c].kind = "module" -> {Step(WriteData(call[c].id, v), NoCall) : v \in 0..2}
    [] call[c].kind = "app" -> {Step(WriteParameters(call[c].id, v), NoCall) : v \in 0..2}

\* A configuration without a request is refused, for it lacks the talker.
Valid(st) ==
  \A l \in DOMAIN st : l[2] = "configured" => Entry("stream", l[1][2], {"key", "talker"}) \subseteq DOMAIN st

\* sr_apply_changes hands the changes, if there are any, to each daemon that
\* has subscribed.
Commit(new, edits) ==
  /\ commits + edits <= MaxCommits /\ commits' = commits + edits
  /\ Valid(new)
  /\ store' = new
  /\ daemon' = [k \in Daemons |->
                  IF daemon[k].pc = "ready" /\ new # store
                  THEN [daemon[k] EXCEPT !.queue = Append(@, Changes(store, new))]
                  ELSE daemon[k]]
  /\ UNCHANGED <<proc, got, raced, misread, ends>>

Alone(c) ==
  \E s \in Steps(c) :
    /\ Commit(Apply(s.edit, store), 1)
    /\ call' = [call EXCEPT ![c] = s.rest]

\* The edits of two calls in the session are committed at once.
Together(c, d) ==
  \E s \in Steps(c), t \in Steps(d) :
    /\ Commit(Apply(t.edit, Apply(s.edit, store)), 2)
    /\ call' = [call EXCEPT ![c] = s.rest, ![d] = t.rest]

(***************************************************************************)
(* The plugin                                                              *)
(***************************************************************************)
Off == [pc |-> "off", queue |-> <<>>, todo |-> {}, sent |-> {}]
Gone == [Off EXCEPT !.pc = "gone"]
Live(k) == daemon[k].pc \in {"booting", "ready"}

\* The event a change stands for.  There is none for the key of a module: the
\* condition for an addition assigns SR_OP_CREATED, which is zero and so false,
\* and the one for a deletion finds the operation assigned.  Nor is there one
\* for a topology: a path with "/topology/" in it never ends in "/topology".
EventType(c) ==
  LET leaf == c.leaf[2] IN
  CASE leaf = "key" /\ c.leaf[1][1] = "stream" /\ c.op = "deleted" -> "STREAM_DELETED"
    [] leaf \in Parts /\ c.op = "created" -> "STREAM_REQUESTED"
    [] leaf = "configured" /\ c.op # "deleted" /\ c.val = 1 -> "STREAM_CONFIGURED"
    [] leaf = "registered" /\ c.op = "modified" ->
         IF c.val # 0 THEN "MODULE_REGISTERED" ELSE "MODULE_UNREGISTERED"
    [] leaf = "data" /\ c.op # "deleted" -> "MODULE_DATA_UPDATED"
    [] leaf = "parameters" /\ c.op # "deleted" -> "CONFIGURATION_CHANGED"
    [] OTHER -> "none"
ModuleKey(c) == c.leaf[1][1] = "module" /\ c.leaf[2] = "key"
Topology(c) == c.leaf[1][1] = "topology"
Considered(c) == EventType(c) # "none" \/ ModuleKey(c) \/ Topology(c)
Registration == {"MODULE_REGISTERED", "MODULE_UNREGISTERED"}

\* Mutant of Silent: that an event of the type has been sent is forgotten.
SilentNever(c, sent) == EventType(c) = "none"

\* One event of a type is sent per transaction, but for registrations.
Silent(c, sent) ==
  EventType(c) \in {"none"} \cup (sent \ Registration)

\* The next transaction, in the order they were committed.  The changes that
\* no condition of the loop is about are passed over at once.
PluginTake(k) ==
  /\ daemon[k].pc = "ready" /\ daemon[k].todo = {} /\ daemon[k].queue # <<>>
  /\ daemon' = [daemon EXCEPT ![k] = [daemon[k] EXCEPT !.queue = Tail(@), !.sent = {},
                              !.todo = {c \in Head(daemon[k].queue) : Considered(c)}]]
  /\ UNCHANGED <<store, call, proc, got, raced, misread, ends, commits>>

\* Mutant of PluginStep: the mask of the subscriber is not looked at.
PluginStepUnmasked(k) ==
  /\ \E c \in daemon[k].todo :
       /\ daemon' = [daemon EXCEPT ![k] = [daemon[k] EXCEPT !.todo = @ \ {c},
                       !.sent = IF Silent(c, @) THEN @ ELSE @ \cup {EventType(c)}]]
       /\ got' = [p \in Subscribers |->
            IF ~Silent(c, daemon[k].sent) /\ proc[p] = "listening"
            THEN Append(got[p], <<EventType(c), c.leaf[1][2]>>) ELSE got[p]]
  /\ UNCHANGED <<store, call, proc, raced, misread, ends, commits>>

\* One of the others; the changes come in any order.
PluginStep(k) ==
  /\ \E c \in daemon[k].todo :
       /\ daemon' = [daemon EXCEPT ![k] = [daemon[k] EXCEPT !.todo = @ \ {c},
                       !.sent = IF Silent(c, @) THEN @ ELSE @ \cup {EventType(c)}]]
       /\ got' = [p \in Subscribers |->
            IF ~Silent(c, daemon[k].sent) /\ proc[p] = "listening" /\ EventType(c) \in Mask[p]
            THEN Append(got[p], <<EventType(c), c.leaf[1][2]>>) ELSE got[p]]
  /\ UNCHANGED <<store, call, proc, raced, misread, ends, commits>>

\* sr_plugin_init_cb subscribes for changes.
PluginReady(k) ==
  /\ daemon[k].pc = "booting"
  /\ daemon' = [daemon EXCEPT ![k].pc = "ready"]
  /\ UNCHANGED <<store, call, proc, got, raced, misread, ends, commits>>

(***************************************************************************)
(* Processes                                                               *)
(***************************************************************************)

\* Mutants of Connect: no daemon is started; one is started without being
\* looked for.
ConnectOnly(p) ==
  /\ proc[p] = "off"
  /\ proc' = [proc EXCEPT ![p] = "connected"]
  /\ UNCHANGED <<store, call, daemon, got, raced, misread, ends, commits>>
ConnectAlways(p) ==
  /\ proc[p] = "off"
  /\ proc' = [proc EXCEPT ![p] = "starting"]
  /\ raced' = (raced \/ \E q \in Subscribers : proc[q] = "starting")
  /\ UNCHANGED <<store, call, daemon, got, misread, ends, commits>>

\* sysrepo_connect looks for the daemon.  When there is none pidof prints
\* nothing, and the buffer that is converted was never initialised.
Connect(p) ==
  /\ proc[p] = "off"
  /\ \/ /\ \E k \in Daemons : Live(k)
        /\ proc' = [proc EXCEPT ![p] = "connected"]
        /\ UNCHANGED <<raced, misread>>
     \/ /\ \A k \in Daemons : ~Live(k)
        /\ proc' = [proc EXCEPT ![p] = "starting"]
        /\ raced' = (raced \/ \E q \in Subscribers : proc[q] = "starting")
        /\ UNCHANGED misread
     \/ /\ \A k \in Daemons : ~Live(k)
        /\ proc' = [proc EXCEPT ![p] = "connected"]
        /\ misread' = TRUE
        /\ UNCHANGED raced
  /\ UNCHANGED <<store, call, daemon, got, ends, commits>>

StartDaemon(p, k) ==
  /\ proc[p] = "starting" /\ daemon[k].pc = "off"
  /\ \A j \in 1..(k - 1) : daemon[j].pc # "off"
  /\ daemon' = [daemon EXCEPT ![k].pc = "booting"]
  /\ proc' = [proc EXCEPT ![p] = "connected"]
  /\ UNCHANGED <<store, call, got, raced, misread, ends, commits>>

\* sysrepo_start_listening, and the end of the process.
Listen(p) ==
  /\ proc[p] = "connected"
  /\ proc' = [proc EXCEPT ![p] = "listening"]
  /\ UNCHANGED <<store, call, daemon, got, raced, misread, ends, commits>>
Leave(p) ==
  /\ proc[p] \in {"connected", "listening"}
  /\ proc' = [proc EXCEPT ![p] = "off"]
  /\ UNCHANGED <<store, call, daemon, got, raced, misread, ends, commits>>

\* The MainModule ends: it signals the daemon, one of them if there are more.
MainEnd(k) ==
  /\ Live(k) /\ ends < MaxEnds
  /\ ends' = ends + 1
  /\ daemon' = [daemon EXCEPT ![k] = Gone]
  /\ UNCHANGED <<store, call, proc, got, raced, misread, commits>>

(***************************************************************************)
(* Specification                                                           *)
(***************************************************************************)
Init ==
  /\ store = Loaded
  /\ call = [c \in Clients |-> NoCall]
  /\ daemon = [k \in Daemons |-> Off]
  /\ proc = [p \in Subscribers |-> "off"]
  /\ got = [p \in Subscribers |-> <<>>]
  /\ raced = FALSE /\ misread = FALSE
  /\ ends = 0 /\ commits = 0

Write ==
  \/ \E c \in Clients : Alone(c)
  \/ \E c \in Clients : \E d \in Clients \ {c} : Together(c, d)

PluginWork(k) == PluginTake(k) \/ PluginStep(k)

Next ==
  \/ Write
  \/ \E k \in Daemons : PluginWork(k) \/ PluginReady(k) \/ MainEnd(k)
  \/ \E p \in Subscribers :
       Connect(p) \/ (\E k \in Daemons : StartDaemon(p, k)) \/ Listen(p) \/ Leave(p)

Spec == Init /\ [][Next]_vars

\* The thread of a daemon keeps going.  Users, and processes that come and
\* go, owe nothing.
FairSpec == Spec /\ \A k \in Daemons : WF_vars(PluginWork(k))

(***************************************************************************)
(* Properties                                                              *)
(***************************************************************************)
Types == {"STREAM_DELETED", "STREAM_REQUESTED", "STREAM_CONFIGURED",
          "MODULE_DATA_UPDATED", "CONFIGURATION_CHANGED"} \cup Registration

\* Every variable stays in its range; what is stored under a leaf, and what a
\* callback receives, is of its kind.
TypeOK ==
  /\ Stored \subseteq Leaves /\ \A l \in Stored : store[l] \in 0..2
  /\ \A c \in Clients : call[c].kind \in {"none", "module", "app"}
  /\ \A k \in Daemons :
       /\ daemon[k].pc \in {"off", "booting", "ready", "gone"}
       /\ daemon[k].todo \subseteq Change
       /\ \A n \in 1..Len(daemon[k].queue) : daemon[k].queue[n] \subseteq Change
       /\ daemon[k].sent \subseteq Types
  /\ proc \in [Subscribers -> {"off", "starting", "connected", "listening"}]
  /\ \A p \in Subscribers : \A n \in 1..Len(got[p]) : got[p][n][1] \in Mask[p]

\* Two daemons, which would send every event twice, are only started when two
\* processes look for the daemon before either has started it.
OneDaemon ==
  ~raced => \A j, k \in Daemons : Live(j) /\ Live(k) => j = k

\* While a module listens there is a daemon that sends it events, unless the
\* MainModule ended, or a process took garbage for the pid of a daemon.
ListenersAreServed ==
  (\E p \in Subscribers : proc[p] = "listening") /\ ends = 0 /\ ~misread
    => \E k \in Daemons : Live(k)

\* The plugin keeps the promise of EventService: what a transaction owes by
\* it, and nothing else, is sent by each daemon that watches, transaction after
\* transaction, and at last, although the plugin sees changes of single leaves
\* in any order and may find the edits of two calls in one transaction.
OwedOf(todo, sent) ==
  {<<EventType(c), c.leaf[1][2]>> : c \in {x \in todo : ~Silent(x, sent)}}
Ids(leaves) == {l[1][2] : l \in leaves}
Facts(st) ==
  LET With(kind, leaf) == {l \in DOMAIN st : l[1][1] = kind /\ l[2] = leaf}
      Values(kind, leaf) == {<<l[1][2], st[l]>> : l \in With(kind, leaf)}
  IN [streams |-> Ids(With("stream", "key")),
      requested |-> {<<l[1][2], l[2]>> : l \in {x \in DOMAIN st : x[2] \in Parts}},
      configured |-> Ids({l \in With("stream", "configured") : st[l] = 1}),
      modules |-> Ids(With("module", "key")),
      registered |-> Values("module", "registered"),
      data |-> Values("module", "data"),
      parameters |-> Values("app", "parameters"),
      topology |-> Values("topology", "graph")]
Serving == {k \in Daemons : daemon[k].pc = "ready"}
Due == [k \in Daemons |-> OwedOf(daemon[k].todo, daemon[k].sent)]
Owed == [k \in Daemons |->
           [n \in 1..Len(daemon[k].queue) |-> OwedOf(daemon[k].queue[n], {})]]
Listening == {p \in Subscribers : proc[p] = "listening"}

Service == INSTANCE EventService WITH
  Announcers <- Daemons, facts <- Facts(store),
  Unsent <- {"STREAM_MODIFIED", "MODULE_ADDED", "MODULE_DELETED", "TOPOLOGY_DISCOVERED"},
  serving <- Serving, due <- Due, owed <- Owed, listening <- Listening
ServiceSpec == Service!Spec

\* Documented: the README has a table of "currently implemented" events, among
\* them that a module was added, that one was deleted, and that the topology was
\* updated in the datastore.  So a plugin that has passed a change with a row in
\* the table has sent the event of the row, for this change or another one.
Row(c) ==
  CASE ModuleKey(c) /\ c.op = "created" -> "MODULE_ADDED"
    [] ModuleKey(c) /\ c.op = "deleted" -> "MODULE_DELETED"
    [] Topology(c) -> "TOPOLOGY_DISCOVERED"
    [] OTHER -> EventType(c)
TableIsSent ==
  [][\A k \in Daemons : \A c \in daemon[k].todo \ daemon'[k].todo :
       daemon'[k].pc = "ready" => Row(c) \in daemon'[k].sent \cup {"none"}]_vars
============================================================================
