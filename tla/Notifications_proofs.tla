----------------------- MODULE Notifications_proofs -----------------------
(***************************************************************************)
(* Proofs about Notifications, for any number of entries, of processes, of *)
(* instances of the daemon and of transactions: how many plugin daemons    *)
(* run, and that Notifications implements the safety part of EventService, *)
(* step by step, since what the plugin has yet to send is what the         *)
(* transactions owe.                                                       *)
(***************************************************************************)
EXTENDS Notifications, SequenceTheorems, TLAPS

(***************************************************************************)
(* The daemons                                                             *)
(***************************************************************************)
\* What is known of an instance of the daemon.
Shape ==
  /\ DOMAIN daemon = Daemons
  /\ \A k \in Daemons : DOMAIN daemon[k] = {"pc", "queue", "todo", "sent"}
  /\ DOMAIN proc = Subscribers
  /\ ends \in Nat

AnyLive == \E k \in Daemons : Live(k)
Starting(p) == proc[p] = "starting"

\* As long as nobody has raced, at most one process is about to start a daemon,
\* only while none runs, and at most one runs.
DaemonInv ==
  ~raced => /\ \A p, q \in Subscribers : Starting(p) /\ Starting(q) => p = q
            /\ (\E p \in Subscribers : Starting(p)) => ~AnyLive
            /\ \A j, k \in Daemons : Live(j) /\ Live(k) => j = k

\* A process that has connected has found or started a daemon.
ServedInv ==
  (\E p \in Subscribers : proc[p] \in {"connected", "listening"}) /\ ends = 0 /\ ~misread
    => AnyLive

DaemonsInv == Shape /\ DaemonInv /\ ServedInv

\* What transactions and the work of the plugin leave alone: they start and
\* stop no daemon.
Quiet ==
  /\ \A k \in Daemons : Live(k)' = Live(k)
  /\ UNCHANGED <<proc, raced, misread, ends>>

\* A quiet step keeps the invariant.
LEMMA QuietKeeps == DaemonsInv /\ Shape' /\ Quiet => DaemonsInv'
  BY DEF DaemonsInv, DaemonInv, ServedInv, Quiet, AnyLive, Starting

\* Handing a transaction to the daemons only lengthens their queues.
LEMMA CommitQuiet ==
  ASSUME NEW new, NEW edits, Shape, Commit(new, edits)
  PROVE  Quiet /\ Shape'
<1>1. UNCHANGED <<proc, raced, misread, ends>>
  BY DEF Commit
<1>2. DOMAIN daemon' = Daemons
  BY DEF Commit
<1>3. ASSUME NEW k \in Daemons
      PROVE  DOMAIN daemon'[k] = DOMAIN daemon[k] /\ daemon'[k].pc = daemon[k].pc
  <2>1. CASE daemon[k].pc = "ready" /\ new # store
    <3>1. daemon'[k] = [daemon[k] EXCEPT !.queue = Append(@, Changes(store, new))]
      BY <2>1 DEF Commit
    <3> QED  BY <3>1 DEF Shape
  <2>2. CASE ~(daemon[k].pc = "ready" /\ new # store)
    BY <2>2 DEF Commit
  <2> QED  BY <2>1, <2>2
<1> QED  BY <1>1, <1>2, <1>3 DEF Quiet, Shape, Live

\* So do all the calls that write.
LEMMA WriteQuiet == Shape /\ Write => Quiet /\ Shape'
<1> SUFFICES ASSUME Shape, Write PROVE Quiet /\ Shape'
  OBVIOUS
<1>1. ASSUME NEW new, NEW edits, Commit(new, edits) PROVE Quiet /\ Shape'
  BY <1>1, CommitQuiet
<1>2. \E new, edits : Commit(new, edits)
  BY DEF Write, Alone, Together
<1> QED  BY <1>1, <1>2

\* The plugin takes transactions and works them off, and keeps running.
LEMMA PluginQuiet ==
  ASSUME NEW k \in Daemons, Shape, PluginWork(k)
  PROVE  Quiet /\ Shape'
<1>1. UNCHANGED <<proc, raced, misread, ends>>
  BY DEF PluginWork, PluginTake, PluginStep
<1>2. ASSUME NEW d, DOMAIN d = DOMAIN daemon[k], d.pc = daemon[k].pc,
             daemon' = [daemon EXCEPT ![k] = d]
      PROVE  Quiet /\ Shape'
  BY <1>1, <1>2 DEF Quiet, Shape, Live
<1>3. CASE PluginTake(k)
  <2> DEFINE todo == {c \in Head(daemon[k].queue) : Considered(c)}
             d == [daemon[k] EXCEPT !.queue = Tail(@), !.sent = {}, !.todo = todo]
  <2>1. daemon' = [daemon EXCEPT ![k] = d]
    BY <1>3, Zenon DEF PluginTake
  <2> HIDE DEF todo
  <2>2. DOMAIN d = DOMAIN daemon[k] /\ d.pc = daemon[k].pc
    BY DEF Shape
  <2> QED  BY <1>2, <2>1, <2>2
<1>4. CASE PluginStep(k)
  <2>1. PICK c \in daemon[k].todo :
          daemon' = [daemon EXCEPT ![k] = [daemon[k] EXCEPT !.todo = @ \ {c},
                       !.sent = IF Silent(c, @) THEN @ ELSE @ \cup {EventType(c)}]]
    BY <1>4, Zenon DEF PluginStep
  <2> DEFINE sent == IF Silent(c, daemon[k].sent) THEN daemon[k].sent
                     ELSE daemon[k].sent \cup {EventType(c)}
             d == [daemon[k] EXCEPT !.todo = @ \ {c}, !.sent = sent]
  <2>2. daemon' = [daemon EXCEPT ![k] = d]
    BY <2>1, Zenon
  <2> HIDE DEF sent
  <2>3. DOMAIN d = DOMAIN daemon[k] /\ d.pc = daemon[k].pc
    BY DEF Shape
  <2> QED  BY <1>2, <2>2, <2>3
<1> QED  BY <1>3, <1>4 DEF PluginWork

\* No daemon runs at first, and no process has connected.
LEMMA InitIInv == Init => DaemonsInv
  BY DEF Init, Off, DaemonsInv, Shape, DaemonInv, ServedInv, AnyLive, Live, Starting

\* A daemon that has subscribed was counted as running before.
LEMMA ReadyQuiet ==
  ASSUME NEW k \in Daemons, Shape, PluginReady(k)
  PROVE  Quiet /\ Shape'
  BY DEF PluginReady, Shape, Quiet, Live

\* A process looks for a daemon; when it decides to start one, either another
\* had decided to and they have raced, or it is alone.
LEMMA ConnectKeeps ==
  ASSUME NEW p \in Subscribers, DaemonsInv, Connect(p)
  PROVE  DaemonsInv'
<1> USE DEF DaemonsInv, Shape
<1>1. \A k \in Daemons : Live(k)' = Live(k)
  BY DEF Connect, Live
<1>2. Shape'
  BY DEF Connect
<1>3. DaemonInv'
  BY <1>1 DEF Connect, DaemonInv, AnyLive, Starting
<1>4. ServedInv'
  BY <1>1 DEF Connect, ServedInv, AnyLive
<1> QED  BY <1>2, <1>3, <1>4

\* The only process that was about to start a daemon starts the only one.
LEMMA StartKeeps ==
  ASSUME NEW p \in Subscribers, NEW k \in Daemons, DaemonsInv, StartDaemon(p, k)
  PROVE  DaemonsInv'
<1> USE DEF DaemonsInv, Shape
<1>1. /\ Live(k)' /\ \A j \in Daemons \ {k} : Live(j)' = Live(j)
  BY DEF StartDaemon, Live
<1>2. Shape'
  BY DEF StartDaemon
<1>3. DaemonInv'
  <2> SUFFICES ASSUME ~raced' PROVE DaemonInv!2'
    BY DEF DaemonInv
  <2>1. ~AnyLive /\ \A q \in Subscribers : Starting(q) => q = p
    BY DEF StartDaemon, DaemonInv, Starting
  <2>2. \A q \in Subscribers : ~Starting(q)'
    BY <2>1 DEF StartDaemon, Starting
  <2>3. \A j \in Daemons : Live(j)' => j = k
    BY <1>1, <2>1 DEF AnyLive
  <2> QED  BY <2>2, <2>3
<1>4. ServedInv'
  BY <1>1 DEF ServedInv, AnyLive
<1> QED  BY <1>2, <1>3, <1>4

\* Listening and leaving move a process that has connected before.
LEMMA ProcessKeeps ==
  ASSUME NEW p \in Subscribers, DaemonsInv, Listen(p) \/ Leave(p)
  PROVE  DaemonsInv'
<1> USE DEF DaemonsInv, Shape, Listen, Leave
<1>1. \A k \in Daemons : Live(k)' = Live(k)
  BY DEF Live
<1>2. DaemonInv'
  BY <1>1 DEF DaemonInv, AnyLive, Starting
<1>3. ServedInv'
  BY <1>1 DEF ServedInv, AnyLive
<1> QED  BY <1>2, <1>3

\* The end of the MainModule stops one daemon, and is counted.
LEMMA EndKeeps ==
  ASSUME NEW k \in Daemons, DaemonsInv, MainEnd(k)
  PROVE  DaemonsInv'
<1> USE DEF DaemonsInv, Shape, MainEnd
<1>1. \A j \in Daemons : Live(j)' => Live(j)
  BY DEF Live, Gone, Off
<1>2. Shape'
  BY DEF Gone, Off
<1>3. DaemonInv'
  BY <1>1 DEF DaemonInv, AnyLive, Starting
<1>4. ServedInv'
  BY DEF ServedInv
<1> QED  BY <1>2, <1>3, <1>4

\* Every step keeps the invariant.
LEMMA NextIInv == DaemonsInv /\ [Next]_vars => DaemonsInv'
<1> SUFFICES ASSUME DaemonsInv, [Next]_vars PROVE DaemonsInv'
  OBVIOUS
<1>1. CASE Write
  BY <1>1, WriteQuiet, QuietKeeps DEF DaemonsInv
<1>2. ASSUME NEW k \in Daemons, PluginWork(k) PROVE DaemonsInv'
  BY <1>2, PluginQuiet, QuietKeeps DEF DaemonsInv
<1>3. ASSUME NEW k \in Daemons, PluginReady(k) PROVE DaemonsInv'
  BY <1>3, ReadyQuiet, QuietKeeps DEF DaemonsInv
<1>4. ASSUME NEW k \in Daemons, MainEnd(k) PROVE DaemonsInv'
  BY <1>4, EndKeeps
<1>5. ASSUME NEW p \in Subscribers, Connect(p) PROVE DaemonsInv'
  BY <1>5, ConnectKeeps
<1>6. ASSUME NEW p \in Subscribers, NEW k \in Daemons, StartDaemon(p, k) PROVE DaemonsInv'
  BY <1>6, StartKeeps
<1>7. ASSUME NEW p \in Subscribers, Listen(p) \/ Leave(p) PROVE DaemonsInv'
  BY <1>7, ProcessKeeps
<1>8. CASE UNCHANGED vars
  BY <1>8 DEF vars, DaemonsInv, Shape, DaemonInv, ServedInv, AnyLive, Live, Starting
<1> QED  BY <1>1, <1>2, <1>3, <1>4, <1>5, <1>6, <1>7, <1>8 DEF Next

\* The invariant holds in every state.
THEOREM DaemonsInvariance == Spec => []DaemonsInv
  BY InitIInv, NextIInv, PTL DEF Spec

\* Two daemons run only after two processes have looked for one at once,
\* however many processes connect.
THEOREM OneDaemonHolds == Spec => []OneDaemon
<1>1. DaemonsInv => OneDaemon
  BY DEF DaemonsInv, DaemonInv, OneDaemon
<1> QED  BY <1>1, DaemonsInvariance, PTL

\* Whoever listens is served by a daemon, unless the MainModule has ended or
\* a pid was read from a buffer that was never written.
THEOREM ListenersAreServedHolds == Spec => []ListenersAreServed
<1>1. DaemonsInv => ListenersAreServed
  BY DEF DaemonsInv, ServedInv, AnyLive, ListenersAreServed
<1> QED  BY <1>1, DaemonsInvariance, PTL

(***************************************************************************)
(* The invariant                                                           *)
(***************************************************************************)
Key(i) == <<<<"module", i>>, "key">>
Flag(i) == <<<<"module", i>>, "registered">>

\* A module has a flag, for it is created with one.
StoreOK(st) ==
  /\ DOMAIN st \subseteq Leaves /\ \A l \in DOMAIN st : st[l] \in 0..2
  /\ \A i \in Modules : Key(i) \in DOMAIN st <=> Flag(i) \in DOMAIN st

\* A transaction changes each leaf once.
Transactions == {Q \in SUBSET Change : \A c, d \in Q : c.leaf = d.leaf => c = d}

Calls == {NoCall} \cup [kind: {"module"}, id: Modules] \cup [kind: {"app"}, id: Apps]
Instance ==
  [pc: {"off", "booting", "ready", "gone"}, queue: Seq(Transactions),
   todo: Transactions, sent: SUBSET Types]
Entries == Streams \cup Modules \cup Apps \cup {0}
Received(p) == Seq(Mask[p] \X Entries)

IInv ==
  /\ StoreOK(store)
  /\ call \in [Clients -> Calls]
  /\ daemon \in [Daemons -> Instance]
  /\ proc \in [Subscribers -> {"off", "starting", "connected", "listening"}]
  /\ DOMAIN got = Subscribers /\ \A p \in Subscribers : got[p] \in Received(p)
  /\ got = [p \in Subscribers |-> got[p]]

(***************************************************************************)
(* Leaves, changes and events                                              *)
(***************************************************************************)

\* A leaf is its entry and its name; the name goes with the kind.
LEMMA LeafFields ==
  ASSUME NEW l \in Leaves
  PROVE  /\ l = <<l[1], l[2]>> /\ l[1] = <<l[1][1], l[1][2]>> /\ l[1][2] \in Entries
         /\ \/ l[1][1] = "stream" /\ l[1][2] \in Streams
                 /\ l[2] \in {"talker", "listener", "key", "configured"}
            \/ l[1][1] = "module" /\ l[1][2] \in Modules /\ l[2] \in {"key", "registered", "data"}
            \/ l[1][1] = "app" /\ l[1][2] \in Apps /\ l[2] \in {"key", "parameters"}
            \/ l[1][1] = "topology" /\ l[2] = "graph"
BY DEF Leaves, Parts, Entries

\* The fields of a change, and what they say of the datastore before and after.
LEMMA ChangeFields ==
  ASSUME NEW old, NEW new, StoreOK(old), StoreOK(new), NEW c \in Changes(old, new)
  PROVE  /\ c \in Change
         /\ c.op = "created" => c.leaf \in DOMAIN new \ DOMAIN old /\ c.val = new[c.leaf]
         /\ c.op = "deleted" => c.leaf \in DOMAIN old \ DOMAIN new
         /\ c.op = "modified" => /\ c.leaf \in DOMAIN old \cap DOMAIN new
                                 /\ old[c.leaf] # new[c.leaf] /\ c.val = new[c.leaf]
BY DEF Changes, Change, StoreOK

\* There is a change for every leaf that came, went or has another value.
LEMMA ChangesAre ==
  ASSUME NEW old, NEW new, NEW l
  PROVE  /\ l \in DOMAIN new \ DOMAIN old =>
              \E c \in Changes(old, new) : c.leaf = l /\ c.op = "created" /\ c.val = new[l]
         /\ l \in DOMAIN old \ DOMAIN new =>
              \E c \in Changes(old, new) : c.leaf = l /\ c.op = "deleted"
         /\ l \in DOMAIN old \cap DOMAIN new /\ old[l] # new[l] =>
              \E c \in Changes(old, new) : c.leaf = l /\ c.op = "modified" /\ c.val = new[l]
<1>1. ASSUME l \in DOMAIN new \ DOMAIN old
      PROVE  \E c \in Changes(old, new) : c.leaf = l /\ c.op = "created" /\ c.val = new[l]
  <2>1. [leaf |-> l, op |-> "created", val |-> new[l]] \in Changes(old, new)
    BY <1>1 DEF Changes
  <2> QED  BY <2>1
<1>2. ASSUME l \in DOMAIN old \ DOMAIN new
      PROVE  \E c \in Changes(old, new) : c.leaf = l /\ c.op = "deleted"
  <2>1. [leaf |-> l, op |-> "deleted", val |-> old[l]] \in Changes(old, new)
    BY <1>2 DEF Changes
  <2> QED  BY <2>1
<1>3. ASSUME l \in DOMAIN old \cap DOMAIN new /\ old[l] # new[l]
      PROVE  \E c \in Changes(old, new) : c.leaf = l /\ c.op = "modified" /\ c.val = new[l]
  <2>1. [leaf |-> l, op |-> "modified", val |-> new[l]] \in Changes(old, new)
    BY <1>3 DEF Changes
  <2> QED  BY <2>1
<1> QED  BY <1>1, <1>2, <1>3

\* The events a change can stand for.
LEMMA EventTypes ==
  ASSUME NEW c \in Change
  PROVE  /\ EventType(c) \in Types \cup {"none"}
         /\ EventType(c) = "STREAM_DELETED" <=>
              c.leaf[2] = "key" /\ c.leaf[1][1] = "stream" /\ c.op = "deleted"
         /\ EventType(c) = "STREAM_REQUESTED" <=> c.leaf[2] \in Parts /\ c.op = "created"
         /\ EventType(c) = "STREAM_CONFIGURED" <=>
              c.leaf[2] = "configured" /\ c.op # "deleted" /\ c.val = 1
         /\ EventType(c) = "MODULE_REGISTERED" <=>
              c.leaf[2] = "registered" /\ c.op = "modified" /\ c.val # 0
         /\ EventType(c) = "MODULE_UNREGISTERED" <=>
              c.leaf[2] = "registered" /\ c.op = "modified" /\ c.val = 0
         /\ EventType(c) = "MODULE_DATA_UPDATED" <=> c.leaf[2] = "data" /\ c.op # "deleted"
         /\ EventType(c) = "CONFIGURATION_CHANGED" <=>
              c.leaf[2] = "parameters" /\ c.op # "deleted"
BY DEF EventType, Types, Parts, Registration


(***************************************************************************)
(* What the changes stand for is what the transaction owes                 *)
(***************************************************************************)
L(kind, i, name) == <<<<kind, i>>, name>>

\* The facts, leaf by leaf.
LEMMA LeafIs ==
  ASSUME NEW st, StoreOK(st), NEW l \in DOMAIN st, NEW kind, NEW name, NEW i,
         l[1][1] = kind, l[2] = name, l[1][2] = i
  PROVE  l = L(kind, i, name)
BY LeafFields DEF StoreOK, L

\* The parts of a leaf's path.
LEMMA LFields == ASSUME NEW kind, NEW i, NEW name
                 PROVE  /\ L(kind, i, name)[1] = <<kind, i>> /\ L(kind, i, name)[2] = name
                        /\ L(kind, i, name)[1][1] = kind /\ L(kind, i, name)[1][2] = i
BY DEF L

\* The facts by the leaves they stand for.
LEMMA FactsAre ==
  ASSUME NEW st, StoreOK(st), NEW i
  PROVE  /\ i \in Facts(st).streams <=> L("stream", i, "key") \in DOMAIN st
         /\ i \in Facts(st).configured <=>
              L("stream", i, "configured") \in DOMAIN st /\ st[L("stream", i, "configured")] = 1
         /\ i \in Facts(st).modules <=> L("module", i, "key") \in DOMAIN st
         /\ \A v : <<i, v>> \in Facts(st).registered <=>
              L("module", i, "registered") \in DOMAIN st /\ st[L("module", i, "registered")] = v
         /\ \A v : <<i, v>> \in Facts(st).data <=>
              L("module", i, "data") \in DOMAIN st /\ st[L("module", i, "data")] = v
         /\ \A v : <<i, v>> \in Facts(st).parameters <=>
              L("app", i, "parameters") \in DOMAIN st /\ st[L("app", i, "parameters")] = v
         /\ \A v : <<i, v>> \in Facts(st).requested <=>
              v \in Parts /\ L("stream", i, v) \in DOMAIN st
<1> DEFINE With(kind, leaf) == {l \in DOMAIN st : l[1][1] = kind /\ l[2] = leaf}
           Values(kind, leaf) == {<<l[1][2], st[l]>> : l \in With(kind, leaf)}
<1>1. \A kind, leaf : i \in Ids(With(kind, leaf)) <=> L(kind, i, leaf) \in DOMAIN st
  BY LeafIs, LFields DEF Ids
<1>2. i \in Ids({l \in With("stream", "configured") : st[l] = 1}) <=>
        L("stream", i, "configured") \in DOMAIN st /\ st[L("stream", i, "configured")] = 1
  BY LeafIs, LFields DEF Ids
<1>3. \A kind, leaf, v : <<i, v>> \in Values(kind, leaf) <=>
        L(kind, i, leaf) \in DOMAIN st /\ st[L(kind, i, leaf)] = v
  BY LeafIs, LFields
<1>4. \A v : <<i, v>> \in {<<l[1][2], l[2]>> : l \in {x \in DOMAIN st : x[2] \in Parts}} <=>
        v \in Parts /\ L("stream", i, v) \in DOMAIN st
  <2>1. \A l \in DOMAIN st : l[2] \in Parts => l[1][1] = "stream"
    BY LeafFields DEF StoreOK, Parts
  <2>2. \A l \in DOMAIN st : l[2] \in Parts => l = L("stream", l[1][2], l[2])
    BY <2>1, LeafIs
  <2> QED  BY <2>2, LFields
<1>5. /\ Facts(st).streams = Ids(With("stream", "key"))
      /\ Facts(st).configured = Ids({l \in With("stream", "configured") : st[l] = 1})
      /\ Facts(st).modules = Ids(With("module", "key"))
      /\ Facts(st).registered = Values("module", "registered")
      /\ Facts(st).data = Values("module", "data")
      /\ Facts(st).parameters = Values("app", "parameters")
      /\ Facts(st).requested = {<<l[1][2], l[2]>> : l \in {x \in DOMAIN st : x[2] \in Parts}}
  BY DEF Facts
<1> HIDE DEF With, Values
<1> QED  BY <1>1, <1>2, <1>3, <1>4, <1>5

\* All elements of these facts are pairs.
LEMMA FactsArePairs ==
  ASSUME NEW st, NEW x, \/ x \in Facts(st).registered \/ x \in Facts(st).data
                        \/ x \in Facts(st).parameters \/ x \in Facts(st).requested
  PROVE  x = <<x[1], x[2]>>
BY DEF Facts

\* The ids of the entries with an event of the type.
Events(old, new, type) ==
  {i \in Entries : \E c \in Changes(old, new) : EventType(c) = type /\ c.leaf[1][2] = i}

\* What is owed for the changes between two stores: each type of event once for each
\* entry that has a change of it.
LEMMA OwedEvents ==
  ASSUME NEW old, NEW new, StoreOK(old), StoreOK(new)
  PROVE  OwedOf(Changes(old, new), {}) =
           {e \in Types \X Entries : e[2] \in Events(old, new, e[1])}
<1>1. \A c \in Changes(old, new) : c \in Change
  BY ChangeFields
<1>2. \A c \in Changes(old, new) :
        /\ Silent(c, {}) <=> EventType(c) = "none"
        /\ EventType(c) \in Types \cup {"none"} /\ c.leaf[1][2] \in Entries
  BY <1>1, EventTypes, LeafFields DEF Silent, Change
<1>3. "none" \notin Types
  BY DEF Types, Registration
<1> QED  BY <1>2, <1>3 DEF OwedOf, Events


\* Type by type, they are the ids that EventService promises.
LEMMA EventsStreams ==
  ASSUME NEW old, NEW new, StoreOK(old), StoreOK(new), NEW i
  PROVE  /\ i \in Events(old, new, "STREAM_DELETED") <=>
              i \in Facts(old).streams \ Facts(new).streams
         /\ i \in Events(old, new, "STREAM_REQUESTED") <=>
              i \in Service!NewIn(Facts(new).requested, Facts(old).requested)
         /\ i \in Events(old, new, "STREAM_CONFIGURED") <=>
              i \in Facts(new).configured \ Facts(old).configured
<1>1. \A c \in Changes(old, new) :
        /\ c \in Change /\ c.leaf \in Leaves /\ c.leaf[1][2] \in Entries
        /\ c.op = "created" => c.leaf \in DOMAIN new \ DOMAIN old /\ c.val = new[c.leaf]
        /\ c.op = "deleted" => c.leaf \in DOMAIN old \ DOMAIN new
        /\ c.op = "modified" => /\ c.leaf \in DOMAIN old \cap DOMAIN new
                                /\ old[c.leaf] # new[c.leaf] /\ c.val = new[c.leaf]
        /\ c.op \in {"created", "modified", "deleted"}
  BY ChangeFields, LeafFields DEF Change
<1>2. \A l \in DOMAIN old \cup DOMAIN new : l \in Leaves /\ l[1][2] \in Entries
  BY LeafFields DEF StoreOK
<1>3. i \in Events(old, new, "STREAM_DELETED") <=>
        L("stream", i, "key") \in DOMAIN old \ DOMAIN new
  <2>1. ASSUME i \in Events(old, new, "STREAM_DELETED")
        PROVE  L("stream", i, "key") \in DOMAIN old \ DOMAIN new
    <3>1. PICK c \in Changes(old, new) : EventType(c) = "STREAM_DELETED" /\ c.leaf[1][2] = i
      BY <2>1 DEF Events
    <3>2. /\ c.leaf[2] = "key" /\ c.leaf[1][1] = "stream" /\ c.op = "deleted"
          /\ c.leaf \in DOMAIN old \ DOMAIN new
      BY <1>1, <3>1, EventTypes
    <3>3. c.leaf = L("stream", i, "key")
      BY <3>1, <3>2, LeafIs
    <3> QED  BY <3>2, <3>3
  <2>2. ASSUME L("stream", i, "key") \in DOMAIN old \ DOMAIN new
        PROVE  i \in Events(old, new, "STREAM_DELETED")
    <3>1. PICK l : l = L("stream", i, "key")
      OBVIOUS
    <3>2. PICK c \in Changes(old, new) : c.leaf = l /\ c.op = "deleted"
      BY <2>2, <3>1, ChangesAre
    <3>3. EventType(c) = "STREAM_DELETED" /\ c.leaf[1][2] = i
      BY <1>1, <3>1, <3>2, EventTypes, LFields
    <3> QED  BY <1>1, <3>3 DEF Events
  <2> QED  BY <2>1, <2>2
<1>4. i \in Events(old, new, "STREAM_REQUESTED") <=>
        \E part \in Parts : L("stream", i, part) \in DOMAIN new \ DOMAIN old
  <2>1. ASSUME i \in Events(old, new, "STREAM_REQUESTED")
        PROVE  \E part \in Parts : L("stream", i, part) \in DOMAIN new \ DOMAIN old
    <3>1. PICK c \in Changes(old, new) : EventType(c) = "STREAM_REQUESTED" /\ c.leaf[1][2] = i
      BY <2>1 DEF Events
    <3>2. c.leaf[2] \in Parts /\ c.op = "created" /\ c.leaf \in DOMAIN new \ DOMAIN old
      BY <1>1, <3>1, EventTypes
    <3>3. c.leaf[1][1] = "stream"
      BY <1>1, <3>2, LeafFields DEF Parts
    <3>4. c.leaf = L("stream", i, c.leaf[2])
      BY <3>1, <3>2, <3>3, LeafIs
    <3> QED  BY <3>2, <3>4
  <2>2. ASSUME NEW part \in Parts, L("stream", i, part) \in DOMAIN new \ DOMAIN old
        PROVE  i \in Events(old, new, "STREAM_REQUESTED")
    <3>1. PICK l : l = L("stream", i, part)
      OBVIOUS
    <3>2. l \in DOMAIN new \ DOMAIN old
      BY <2>2, <3>1
    <3>3. PICK c \in Changes(old, new) : c.leaf = l /\ c.op = "created"
      <4>1. [leaf |-> l, op |-> "created", val |-> new[l]] \in Changes(old, new)
        BY <3>2 DEF Changes
      <4> QED  BY <4>1
    <3>4. EventType(c) = "STREAM_REQUESTED" /\ c.leaf[1][2] = i
      BY <1>1, <3>1, <3>3, EventTypes, LFields
    <3> QED  BY <1>1, <3>4 DEF Events
  <2> QED  BY <2>1, <2>2
<1>5. i \in Service!NewIn(Facts(new).requested, Facts(old).requested) <=>
        \E part \in Parts : L("stream", i, part) \in DOMAIN new \ DOMAIN old
  <2>1. ASSUME NEW x \in Facts(new).requested \ Facts(old).requested, x[1] = i
        PROVE  \E part \in Parts : L("stream", i, part) \in DOMAIN new \ DOMAIN old
    <3>1. x = <<i, x[2]>>
      BY <2>1, FactsArePairs
    <3> QED  BY <2>1, <3>1, FactsAre
  <2>2. ASSUME NEW part \in Parts, L("stream", i, part) \in DOMAIN new \ DOMAIN old
        PROVE  \E x \in Facts(new).requested \ Facts(old).requested : x[1] = i
    <3>1. <<i, part>> \in Facts(new).requested \ Facts(old).requested
      BY <2>2, FactsAre
    <3> QED  BY <3>1
  <2> QED  BY <2>1, <2>2 DEF Service!NewIn
<1>6. i \in Events(old, new, "STREAM_CONFIGURED") <=>
        i \in Facts(new).configured \ Facts(old).configured
  <2>1. ASSUME i \in Events(old, new, "STREAM_CONFIGURED")
        PROVE  i \in Facts(new).configured \ Facts(old).configured
    <3>1. PICK c \in Changes(old, new) : EventType(c) = "STREAM_CONFIGURED" /\ c.leaf[1][2] = i
      BY <2>1 DEF Events
    <3>2. c.leaf[2] = "configured" /\ c.op # "deleted" /\ c.val = 1
      BY <1>1, <3>1, EventTypes
    <3>3. /\ c.leaf \in DOMAIN new /\ new[c.leaf] = 1
          /\ ~(c.leaf \in DOMAIN old /\ old[c.leaf] = 1)
      BY <1>1, <3>2
    <3>4. c.leaf[1][1] = "stream"
      BY <1>1, <3>2, LeafFields
    <3>5. c.leaf = L("stream", i, "configured")
      BY <3>1, <3>2, <3>3, <3>4, LeafIs
    <3> QED  BY <3>3, <3>5, FactsAre
  <2>2. ASSUME i \in Facts(new).configured \ Facts(old).configured
        PROVE  i \in Events(old, new, "STREAM_CONFIGURED")
    <3>1. PICK l : l = L("stream", i, "configured")
      OBVIOUS
    <3>2. /\ l \in DOMAIN new /\ new[l] = 1 /\ ~(l \in DOMAIN old /\ old[l] = 1)
      BY <2>2, <3>1, FactsAre
    <3>3. PICK c \in Changes(old, new) : c.leaf = l /\ c.op # "deleted" /\ c.val = 1
      BY <3>2, ChangesAre
    <3>4. l[2] = "configured" /\ l[1][2] = i
      BY <3>1, LFields
    <3>5. EventType(c) = "STREAM_CONFIGURED" /\ c.leaf[1][2] = i
      BY <1>1, <3>3, <3>4, EventTypes
    <3> QED  BY <1>1, <3>5 DEF Events
  <2> QED  BY <2>1, <2>2
<1> QED  BY <1>3, <1>4, <1>5, <1>6, FactsAre

\* A leaf with a value that another datastore does not have it with.
Changed(old, new, l) ==
  l \in DOMAIN new /\ (l \in DOMAIN old => old[l] # new[l])

\* Events of a new value: the data of a module, the parameters of an application.
LEMMA EventsValues ==
  ASSUME NEW old, NEW new, StoreOK(old), StoreOK(new), NEW i
  PROVE  /\ i \in Events(old, new, "MODULE_DATA_UPDATED") <=>
              i \in Service!NewIn(Facts(new).data, Facts(old).data)
         /\ i \in Events(old, new, "CONFIGURATION_CHANGED") <=>
              i \in Service!NewIn(Facts(new).parameters, Facts(old).parameters)
<1>1. \A c \in Changes(old, new) :
        /\ c \in Change /\ c.leaf \in Leaves /\ c.leaf[1][2] \in Entries
        /\ c.op # "deleted" => Changed(old, new, c.leaf)
  BY ChangeFields, LeafFields DEF Change, Changed
<1>2. ASSUME NEW kind, NEW name, NEW type, NEW c \in Changes(old, new),
             <<kind, name, type>> \in {<<"module", "data", "MODULE_DATA_UPDATED">>,
                                       <<"app", "parameters", "CONFIGURATION_CHANGED">>},
             EventType(c) = type, c.leaf[1][2] = i
      PROVE  Changed(old, new, L(kind, i, name))
  <2>1. c.leaf[2] = name /\ c.op # "deleted"
    BY <1>1, <1>2, EventTypes
  <2>2. c.leaf[1][1] = kind
    BY <1>1, <1>2, <2>1, LeafFields
  <2>3. Changed(old, new, c.leaf)
    BY <1>1, <2>1
  <2>4. c.leaf = L(kind, i, name)
    BY <1>2, <2>1, <2>2, <2>3, LeafIs DEF Changed
  <2> QED  BY <2>3, <2>4
<1>3. ASSUME NEW kind, NEW name, NEW type,
             <<kind, name, type>> \in {<<"module", "data", "MODULE_DATA_UPDATED">>,
                                       <<"app", "parameters", "CONFIGURATION_CHANGED">>},
             Changed(old, new, L(kind, i, name))
      PROVE  i \in Events(old, new, type)
  <2>1. PICK l : l = L(kind, i, name)
    OBVIOUS
  <2>2. PICK c \in Changes(old, new) : c.leaf = l /\ c.op # "deleted"
    BY <1>3, <2>1, ChangesAre DEF Changed
  <2>3. l[2] = name /\ l[1][2] = i
    BY <2>1, LFields
  <2>4. EventType(c) = type /\ c.leaf[1][2] = i
    BY <1>1, <1>3, <2>2, <2>3, EventTypes
  <2> QED  BY <1>1, <2>4 DEF Events
<1>4. i \in Service!NewIn(Facts(new).data, Facts(old).data) <=>
        Changed(old, new, L("module", i, "data"))
  <2>1. \A x \in Facts(new).data : x[1] = i => x = <<i, x[2]>>
    BY FactsArePairs
  <2>2. (\E x \in Facts(new).data \ Facts(old).data : x[1] = i) <=>
          \E v : <<i, v>> \in Facts(new).data \ Facts(old).data
    BY <2>1
  <2>3. PICK l : l = L("module", i, "data")
    OBVIOUS
  <2>4. /\ \A v : <<i, v>> \in Facts(new).data <=> l \in DOMAIN new /\ new[l] = v
        /\ \A v : <<i, v>> \in Facts(old).data <=> l \in DOMAIN old /\ old[l] = v
    BY <2>3, FactsAre
  <2> QED  BY <2>2, <2>3, <2>4 DEF Service!NewIn, Changed
<1>5. i \in Service!NewIn(Facts(new).parameters, Facts(old).parameters) <=>
        Changed(old, new, L("app", i, "parameters"))
  <2>1. \A x \in Facts(new).parameters : x[1] = i => x = <<i, x[2]>>
    BY FactsArePairs
  <2>2. (\E x \in Facts(new).parameters \ Facts(old).parameters : x[1] = i) <=>
          \E v : <<i, v>> \in Facts(new).parameters \ Facts(old).parameters
    BY <2>1
  <2>3. PICK l : l = L("app", i, "parameters")
    OBVIOUS
  <2>4. /\ \A v : <<i, v>> \in Facts(new).parameters <=> l \in DOMAIN new /\ new[l] = v
        /\ \A v : <<i, v>> \in Facts(old).parameters <=> l \in DOMAIN old /\ old[l] = v
    BY <2>3, FactsAre
  <2> QED  BY <2>2, <2>3, <2>4 DEF Service!NewIn, Changed
<1>6. \A type : i \in Events(old, new, type) =>
        \E c \in Changes(old, new) : EventType(c) = type /\ c.leaf[1][2] = i
  BY DEF Events
<1>7. i \in Events(old, new, "MODULE_DATA_UPDATED") <=>
        Changed(old, new, L("module", i, "data"))
  BY <1>2, <1>3, <1>6
<1>8. i \in Events(old, new, "CONFIGURATION_CHANGED") <=>
        Changed(old, new, L("app", i, "parameters"))
  BY <1>2, <1>3, <1>6
<1> QED  BY <1>4, <1>5, <1>7, <1>8


\* Events of the flag: it has another value, and is not that of a new module.
LEMMA EventsFlags ==
  ASSUME NEW old, NEW new, StoreOK(old), StoreOK(new), NEW i
  PROVE  /\ i \in Events(old, new, "MODULE_REGISTERED") <=>
              i \in Service!On(Facts(new).registered \ Facts(old).registered)
                      \ (Facts(new).modules \ Facts(old).modules)
         /\ i \in Events(old, new, "MODULE_UNREGISTERED") <=>
              i \in Facts(new).modules
                      \cap (Service!On(Facts(old).registered) \ Service!On(Facts(new).registered))
<1>1. \A c \in Changes(old, new) :
        /\ c \in Change /\ c.leaf \in Leaves /\ c.leaf[1][2] \in Entries
        /\ c.op = "modified" => /\ c.leaf \in DOMAIN old \cap DOMAIN new
                                /\ old[c.leaf] # new[c.leaf] /\ c.val = new[c.leaf]
  BY ChangeFields, LeafFields DEF Change
<1>2. PICK l : l = Flag(i)
  OBVIOUS
<1>3. l = L("module", i, "registered") /\ l[2] = "registered" /\ l[1][2] = i /\ l[1][1] = "module"
  BY <1>2, LFields DEF Flag, L
<1>4. \A st : StoreOK(st) => (i \in Facts(st).modules <=> l \in DOMAIN st)
  <2>1. ASSUME NEW st, StoreOK(st) PROVE i \in Facts(st).modules <=> Key(i) \in DOMAIN st
    BY <2>1, FactsAre DEF Key, L
  <2>2. ASSUME NEW st, StoreOK(st), Key(i) \in DOMAIN st PROVE l \in DOMAIN st
    <3>1. Key(i) \in Leaves
      BY <2>2 DEF StoreOK
    <3>2. i \in Modules
      BY <3>1, LeafFields DEF Key
    <3> QED  BY <1>2, <2>2, <3>2 DEF StoreOK
  <2>3. ASSUME NEW st, StoreOK(st), l \in DOMAIN st PROVE Key(i) \in DOMAIN st
    <3>1. l \in Leaves
      BY <2>3 DEF StoreOK
    <3>2. i \in Modules
      BY <1>3, <3>1, LeafFields
    <3> QED  BY <1>2, <2>3, <3>2 DEF StoreOK
  <2> QED  BY <2>1, <2>2, <2>3
<1>5. \A st : StoreOK(st) =>
        \A v : <<i, v>> \in Facts(st).registered <=> l \in DOMAIN st /\ st[l] = v
  BY <1>3, FactsAre
<1>6. \A S : (\A x \in S : x = <<x[1], x[2]>>) =>
        (i \in Service!On(S) <=> \E v : <<i, v>> \in S /\ v # 0)
  <2>1. ASSUME NEW S, \A x \in S : x = <<x[1], x[2]>>
        PROVE  (\E x \in S : x[2] # 0 /\ x[1] = i) <=> \E v : <<i, v>> \in S /\ v # 0
    BY <2>1
  <2> QED  BY <2>1 DEF Service!On
<1>7. \A st : \A x \in Facts(st).registered : x = <<x[1], x[2]>>
  BY FactsArePairs
<1>8. i \in Service!On(Facts(new).registered \ Facts(old).registered) <=>
        l \in DOMAIN new /\ new[l] # 0 /\ ~(l \in DOMAIN old /\ old[l] = new[l])
  <2>1. \A x \in Facts(new).registered \ Facts(old).registered : x = <<x[1], x[2]>>
    BY <1>7
  <2>2. i \in Service!On(Facts(new).registered \ Facts(old).registered) <=>
          \E v : <<i, v>> \in Facts(new).registered \ Facts(old).registered /\ v # 0
    BY <1>6, <2>1
  <2>3. /\ \A v : <<i, v>> \in Facts(new).registered <=> l \in DOMAIN new /\ new[l] = v
        /\ \A v : <<i, v>> \in Facts(old).registered <=> l \in DOMAIN old /\ old[l] = v
    BY <1>5
  <2> QED  BY <2>2, <2>3
<1>9. \A st : StoreOK(st) =>
        (i \in Service!On(Facts(st).registered) <=> l \in DOMAIN st /\ st[l] # 0)
  BY <1>5, <1>6, <1>7
<1>10. \A c \in Changes(old, new) :
         EventType(c) \in Registration /\ c.leaf[1][2] = i => c.leaf = l
  <2> SUFFICES ASSUME NEW c \in Changes(old, new), EventType(c) \in Registration,
                      c.leaf[1][2] = i
               PROVE  c.leaf = l
    OBVIOUS
  <2>1. c.leaf[2] = "registered" /\ c.leaf \in DOMAIN old
    BY <1>1, EventTypes DEF Registration
  <2>2. c.leaf[1][1] = "module"
    BY <1>1, <2>1, LeafFields
  <2> QED  BY <1>3, <2>1, <2>2, LeafIs
<1>11. \A c \in Changes(old, new) : c.leaf = l =>
         /\ EventType(c) = "MODULE_REGISTERED" <=> c.op = "modified" /\ c.val # 0
         /\ EventType(c) = "MODULE_UNREGISTERED" <=> c.op = "modified" /\ c.val = 0
  BY <1>1, <1>3, EventTypes
<1>12. i \in Events(old, new, "MODULE_REGISTERED") <=>
         l \in DOMAIN old \cap DOMAIN new /\ old[l] # new[l] /\ new[l] # 0
  <2>1. ASSUME i \in Events(old, new, "MODULE_REGISTERED")
        PROVE  l \in DOMAIN old \cap DOMAIN new /\ old[l] # new[l] /\ new[l] # 0
    <3>1. PICK c \in Changes(old, new) : EventType(c) = "MODULE_REGISTERED" /\ c.leaf[1][2] = i
      BY <2>1 DEF Events
    <3>2. c.leaf = l
      BY <1>10, <3>1 DEF Registration
    <3> QED  BY <1>1, <1>11, <3>1, <3>2
  <2>2. ASSUME l \in DOMAIN old \cap DOMAIN new, old[l] # new[l], new[l] # 0
        PROVE  i \in Events(old, new, "MODULE_REGISTERED")
    <3>1. PICK c \in Changes(old, new) : c.leaf = l /\ c.op = "modified" /\ c.val = new[l]
      BY <2>2, ChangesAre
    <3> QED  BY <1>1, <1>3, <1>11, <2>2, <3>1 DEF Events
  <2> QED  BY <2>1, <2>2
<1>13. i \in Events(old, new, "MODULE_UNREGISTERED") <=>
         l \in DOMAIN old \cap DOMAIN new /\ old[l] # new[l] /\ new[l] = 0
  <2>1. ASSUME i \in Events(old, new, "MODULE_UNREGISTERED")
        PROVE  l \in DOMAIN old \cap DOMAIN new /\ old[l] # new[l] /\ new[l] = 0
    <3>1. PICK c \in Changes(old, new) : EventType(c) = "MODULE_UNREGISTERED" /\ c.leaf[1][2] = i
      BY <2>1 DEF Events
    <3>2. c.leaf = l
      BY <1>10, <3>1 DEF Registration
    <3> QED  BY <1>1, <1>11, <3>1, <3>2
  <2>2. ASSUME l \in DOMAIN old \cap DOMAIN new, old[l] # new[l], new[l] = 0
        PROVE  i \in Events(old, new, "MODULE_UNREGISTERED")
    <3>1. PICK c \in Changes(old, new) : c.leaf = l /\ c.op = "modified" /\ c.val = new[l]
      BY <2>2, ChangesAre
    <3> QED  BY <1>1, <1>3, <1>11, <2>2, <3>1 DEF Events
  <2> QED  BY <2>1, <2>2
<1>14. /\ i \in Facts(old).modules <=> l \in DOMAIN old
       /\ i \in Facts(new).modules <=> l \in DOMAIN new
  BY <1>4
<1> QED  BY <1>8, <1>9, <1>12, <1>13, <1>14

\* The promise, type by type.
LEMMA PromisedAre ==
  ASSUME NEW F, NEW G, NEW type, NEW i
  PROVE  <<type, i>> \in Service!Promised(F, G) <=>
           \/ type = "STREAM_DELETED" /\ i \in F.streams \ G.streams
           \/ type = "STREAM_REQUESTED" /\ i \in Service!NewIn(G.requested, F.requested)
           \/ type = "STREAM_CONFIGURED" /\ i \in G.configured \ F.configured
           \/ type = "MODULE_REGISTERED"
                /\ i \in Service!On(G.registered \ F.registered) \ (G.modules \ F.modules)
           \/ type = "MODULE_UNREGISTERED"
                /\ i \in G.modules \cap (Service!On(F.registered) \ Service!On(G.registered))
           \/ type = "MODULE_DATA_UPDATED" /\ i \in Service!NewIn(G.data, F.data)
           \/ type = "CONFIGURATION_CHANGED" /\ i \in Service!NewIn(G.parameters, F.parameters)
<1> DEFINE New(f, g) == Service!NewIn(f, g)
           pair == <<type, i>>
<1>1. \A t, S : pair \in Service!Events(t, S) <=> type = t /\ i \in S
  BY DEF Service!Events
<1>2. pair \in Service!Documented(F, G) <=>
        \/ pair \in Service!Events("STREAM_DELETED", F.streams \ G.streams)
        \/ pair \in Service!Events("STREAM_REQUESTED", New(G.requested, F.requested))
        \/ pair \in Service!Events("STREAM_CONFIGURED", G.configured \ F.configured)
        \/ pair \in Service!Events("STREAM_MODIFIED",
             (F.streams \cap G.streams)
               \cap ((New(G.requested, F.requested) \cup New(F.requested, G.requested))
                       \cup (G.configured \ F.configured)))
        \/ pair \in Service!Events("MODULE_ADDED", G.modules \ F.modules)
        \/ pair \in Service!Events("MODULE_DELETED", F.modules \ G.modules)
        \/ pair \in Service!Events("MODULE_REGISTERED",
                                   Service!On(G.registered \ F.registered))
        \/ pair \in Service!Events("MODULE_UNREGISTERED",
             G.modules \cap (Service!On(F.registered) \ Service!On(G.registered)))
        \/ pair \in Service!Events("MODULE_DATA_UPDATED", New(G.data, F.data) \cup New(F.data, G.data))
        \/ pair \in Service!Events("CONFIGURATION_CHANGED",
             New(G.parameters, F.parameters) \cup New(F.parameters, G.parameters))
        \/ pair \in Service!Events("TOPOLOGY_DISCOVERED",
             New(G.topology, F.topology) \cup New(F.topology, G.topology))
  <2> HIDE DEF pair
  <2> QED  BY DEF Service!Documented
<1>3. pair \in Service!Withheld(F, G) <=>
        \/ pair \in Service!Documented(F, G)
             /\ type \in {"STREAM_MODIFIED", "MODULE_ADDED", "MODULE_DELETED",
                          "TOPOLOGY_DISCOVERED"}
        \/ pair \in Service!Events("MODULE_REGISTERED", G.modules \ F.modules)
        \/ pair \in Service!Events("MODULE_DATA_UPDATED", New(F.data, G.data) \ New(G.data, F.data))
        \/ pair \in Service!Events("CONFIGURATION_CHANGED",
             New(F.parameters, G.parameters) \ New(G.parameters, F.parameters))
  <2>1. pair[1] = type
    OBVIOUS
  <2> HIDE DEF pair
  <2> QED  BY <2>1 DEF Service!Withheld
<1>4. pair \in Service!Promised(F, G) <=>
        pair \in Service!Documented(F, G) /\ pair \notin Service!Withheld(F, G)
  BY DEF Service!Promised
<1> HIDE DEF New, pair
<1>5. \/ type \in {"STREAM_DELETED", "STREAM_REQUESTED", "STREAM_CONFIGURED"}
      \/ type \in {"STREAM_MODIFIED", "MODULE_ADDED", "MODULE_DELETED",
                   "TOPOLOGY_DISCOVERED"}
      \/ type \in {"MODULE_REGISTERED", "MODULE_UNREGISTERED"}
      \/ type \in {"MODULE_DATA_UPDATED", "CONFIGURATION_CHANGED"}
      \/ type \notin {"STREAM_DELETED", "STREAM_REQUESTED", "STREAM_CONFIGURED",
                      "STREAM_MODIFIED", "MODULE_ADDED", "MODULE_DELETED",
                      "TOPOLOGY_DISCOVERED", "MODULE_REGISTERED", "MODULE_UNREGISTERED",
                      "MODULE_DATA_UPDATED", "CONFIGURATION_CHANGED"}
  OBVIOUS
<1> QED  BY <1>1, <1>2, <1>3, <1>4, <1>5 DEF New, pair

\* Only pairs of a type of the plugin and an entry are promised.
LEMMA PromisedPairs ==
  ASSUME NEW F, NEW G, NEW e \in Service!Promised(F, G)
  PROVE  e[1] \in Types /\ e = <<e[1], e[2]>>
<1>1. e \in Service!Documented(F, G)
  BY DEF Service!Promised
<1>2. e = <<e[1], e[2]>>
  BY <1>1 DEF Service!Documented, Service!Events
<1>3. PICK type, i : type = e[1] /\ i = e[2]
  OBVIOUS
<1>4. <<type, i>> \in Service!Promised(F, G)
  BY <1>2, <1>3
<1>5. type \in Types
  BY <1>4, PromisedAre, Zenon DEF Types, Registration
<1> QED  BY <1>2, <1>3, <1>5

\* The plugin's events are the promised ones.
LEMMA PromiseKept ==
  ASSUME NEW old, NEW new, StoreOK(old), StoreOK(new)
  PROVE  OwedOf(Changes(old, new), {}) = Service!Promised(Facts(old), Facts(new))
<1>1. PICK F, G : F = Facts(old) /\ G = Facts(new)
  OBVIOUS
<1>2. ASSUME NEW type \in Types, NEW i
      PROVE  i \in Events(old, new, type) <=> <<type, i>> \in Service!Promised(F, G)
  <2>1. CASE type \in {"STREAM_DELETED", "STREAM_REQUESTED", "STREAM_CONFIGURED"}
    <3>1. CASE type \in {"STREAM_DELETED"}
      <4>1. <<type, i>> \in Service!Promised(F, G) <=> i \in F.streams \ G.streams
        BY <3>1, PromisedAre
      <4>2. i \in Events(old, new, type) <=> i \in F.streams \ G.streams
        BY <1>1, <3>1, EventsStreams
      <4> QED  BY <4>1, <4>2
    <3>2. CASE type \in {"STREAM_REQUESTED"}
      <4>1. <<type, i>> \in Service!Promised(F, G) <=> i \in Service!NewIn(G.requested, F.requested)
        BY <3>2, PromisedAre
      <4>2. i \in Events(old, new, type) <=> i \in Service!NewIn(G.requested, F.requested)
        BY <1>1, <3>2, EventsStreams
      <4> QED  BY <4>1, <4>2
    <3>3. CASE type \in {"STREAM_CONFIGURED"}
      <4>1. <<type, i>> \in Service!Promised(F, G) <=> i \in G.configured \ F.configured
        BY <3>3, PromisedAre
      <4>2. i \in Events(old, new, type) <=> i \in G.configured \ F.configured
        BY <1>1, <3>3, EventsStreams
      <4> QED  BY <4>1, <4>2
    <3> QED  BY <2>1, <3>1, <3>2, <3>3
  <2>2. CASE type \in {"MODULE_DATA_UPDATED", "CONFIGURATION_CHANGED"}
    BY <1>1, <2>2, EventsValues, PromisedAre
  <2>3. CASE type \in {"MODULE_REGISTERED", "MODULE_UNREGISTERED"}
    BY <1>1, <2>3, EventsFlags, PromisedAre
  <2> QED  BY <2>1, <2>2, <2>3 DEF Types, Registration
<1>3. OwedOf(Changes(old, new), {}) = {e \in Types \X Entries : e[2] \in Events(old, new, e[1])}
  BY OwedEvents
<1>4. \A type : Events(old, new, type) \subseteq Entries
  BY DEF Events
<1>5. \A e \in Service!Promised(F, G) : e[1] \in Types /\ e = <<e[1], e[2]>>
  BY PromisedPairs
<1>6. ASSUME NEW e
      PROVE  e \in {x \in Types \X Entries : x[2] \in Events(old, new, x[1])} <=>
               e \in Service!Promised(F, G)
  BY <1>2, <1>4, <1>5
<1> QED  BY <1>1, <1>3, <1>6


(***************************************************************************)
(* The calls that write                                                    *)
(***************************************************************************)

\* A transaction that the schema accepts.
Legal(new) == (\E edits : Commit(new, edits)) /\ StoreOK(new)

\* An edit that leaves no module without its flag.
EditOK(e) ==
  /\ DOMAIN e.put \cup e.fresh \subseteq Leaves /\ \A l \in DOMAIN e.put : e.put[l] \in 0..2
  /\ \A i \in Modules :
       /\ Key(i) \in e.cut <=> Flag(i) \in e.cut
       /\ Key(i) \in DOMAIN e.put \cup e.fresh <=> Flag(i) \in DOMAIN e.put \cup e.fresh

\* Such an edit leaves a datastore as it should be.
LEMMA ApplyOK ==
  ASSUME NEW st, StoreOK(st), NEW e, EditOK(e)
  PROVE  StoreOK(Apply(e, st))
<1>1. PICK new : new = Apply(e, st)
  OBVIOUS
<1>2. /\ DOMAIN new = (DOMAIN st \ e.cut) \cup DOMAIN e.put \cup e.fresh
      /\ \A l \in DOMAIN new :
           new[l] = IF l \in DOMAIN e.put THEN e.put[l]
                    ELSE IF l \in DOMAIN st \ e.cut THEN st[l]
                    ELSE IF l[2] = "registered" THEN 0 ELSE 1
  BY <1>1 DEF Apply
<1>3. DOMAIN new \subseteq Leaves /\ \A l \in DOMAIN new : new[l] \in 0..2
  BY <1>2 DEF StoreOK, EditOK
<1>4. \A i \in Modules : Key(i) \in DOMAIN new <=> Flag(i) \in DOMAIN new
  BY <1>2 DEF StoreOK, EditOK
<1> QED  BY <1>1, <1>3, <1>4 DEF StoreOK

\* The leaves of an entry.
LEMMA EntryFields ==
  ASSUME NEW kind, NEW id, NEW names
  PROVE  /\ \A l \in Entry(kind, id, names) : l[1] = <<kind, id>> /\ l[2] \in names
         /\ \A k, i, name : <<<<k, i>>, name>> \in Entry(kind, id, names) <=>
                              k = kind /\ i = id /\ name \in names
BY DEF Entry

\* The leaves of the entries that the clients write.
LEMMA EntryLeaves ==
  /\ \A s \in Streams, names \in SUBSET (Parts \cup {"key", "configured"}) :
       Entry("stream", s, names) \subseteq Leaves
  /\ \A i \in Modules, names \in SUBSET {"key", "registered", "data"} :
       Entry("module", i, names) \subseteq Leaves
  /\ \A a \in Apps, names \in SUBSET {"key", "parameters"} :
       Entry("app", a, names) \subseteq Leaves
  /\ Entry("topology", 0, {"graph"}) \subseteq Leaves
<1>1. \A s \in Streams, names \in SUBSET (Parts \cup {"key", "configured"}) :
        Entry("stream", s, names) \subseteq Leaves
  BY DEF Entry, Leaves
<1>2. \A i \in Modules, names \in SUBSET {"key", "registered", "data"} :
        Entry("module", i, names) \subseteq Leaves
  <2> SUFFICES ASSUME NEW i \in Modules, NEW names \in SUBSET {"key", "registered", "data"},
                      NEW l \in Entry("module", i, names)
               PROVE  l \in Leaves
    OBVIOUS
  <2>1. PICK name \in names : l = <<<<"module", i>>, name>>
    BY DEF Entry
  <2>2. <<"module", i>> \in {"module"} \X Modules /\ name \in {"key", "registered", "data"}
    OBVIOUS
  <2>3. l \in ({"module"} \X Modules) \X {"key", "registered", "data"}
    BY <2>1, <2>2
  <2> QED  BY <2>3 DEF Leaves
<1>3. \A a \in Apps, names \in SUBSET {"key", "parameters"} :
        Entry("app", a, names) \subseteq Leaves
  <2> SUFFICES ASSUME NEW a \in Apps, NEW names \in SUBSET {"key", "parameters"},
                      NEW l \in Entry("app", a, names)
               PROVE  l \in Leaves
    OBVIOUS
  <2>1. PICK name \in names : l = <<<<"app", a>>, name>>
    BY DEF Entry
  <2>2. <<"app", a>> \in {"app"} \X Apps /\ name \in {"key", "parameters"}
    OBVIOUS
  <2>3. l \in ({"app"} \X Apps) \X {"key", "parameters"}
    BY <2>1, <2>2
  <2> QED  BY <2>3 DEF Leaves
<1>4. Entry("topology", 0, {"graph"}) \subseteq Leaves
  BY DEF Entry, Leaves
<1> QED  BY <1>1, <1>2, <1>3, <1>4

\* An edit of one entry: of a module it takes away, or writes, both the key and
\* the flag or none of them.
LEMMA EntryEdit ==
  ASSUME NEW kind, NEW id, NEW cut, NEW set, NEW fresh, NEW put,
         DOMAIN put = Entry(kind, id, set), \A l \in DOMAIN put : put[l] \in 0..2,
         Entry(kind, id, set) \subseteq Leaves, Entry(kind, id, fresh) \subseteq Leaves,
         kind = "module" => /\ "key" \in cut <=> "registered" \in cut
                            /\ "key" \in set \cup fresh <=> "registered" \in set \cup fresh
  PROVE  EditOK(Edit(Entry(kind, id, cut), put, Entry(kind, id, fresh)))
<1>1. PICK e : e = Edit(Entry(kind, id, cut), put, Entry(kind, id, fresh))
  OBVIOUS
<1>2. /\ e.cut = Entry(kind, id, cut) /\ e.put = put /\ e.fresh = Entry(kind, id, fresh)
  BY <1>1 DEF Edit
<1>3. \A i \in Modules : \A names :
        /\ Key(i) \in Entry(kind, id, names) <=> kind = "module" /\ i = id /\ "key" \in names
        /\ Flag(i) \in Entry(kind, id, names)
             <=> kind = "module" /\ i = id /\ "registered" \in names
  BY EntryFields DEF Key, Flag
<1>4. \A i \in Modules :
        /\ Key(i) \in e.cut <=> Flag(i) \in e.cut
        /\ Key(i) \in DOMAIN e.put \cup e.fresh <=> Flag(i) \in DOMAIN e.put \cup e.fresh
  BY <1>2, <1>3
<1>5. DOMAIN e.put \cup e.fresh \subseteq Leaves /\ \A l \in DOMAIN e.put : e.put[l] \in 0..2
  BY <1>2
<1> QED  BY <1>1, <1>4, <1>5 DEF EditOK

\* No leaves.
LEMMA NoLeaves ==
  /\ \A kind, id : Entry(kind, id, {}) = {}
  /\ DOMAIN Nothing = {}
BY DEF Entry, Nothing

\* An edit that sets no leaf.
LEMMA EntryCut ==
  ASSUME NEW kind, NEW id, NEW cut, NEW fresh, Entry(kind, id, fresh) \subseteq Leaves,
         kind = "module" => /\ "key" \in cut <=> "registered" \in cut
                            /\ "key" \in fresh <=> "registered" \in fresh
  PROVE  EditOK(Edit(Entry(kind, id, cut), Nothing, Entry(kind, id, fresh)))
<1>1. PICK set : set = {}
  OBVIOUS
<1>2. PICK put : put = Nothing
  OBVIOUS
<1>3. DOMAIN put = Entry(kind, id, set) /\ Entry(kind, id, set) = {}
  BY <1>1, <1>2, NoLeaves
<1>4. EditOK(Edit(Entry(kind, id, cut), put, Entry(kind, id, fresh)))
  BY <1>1, <1>3, EntryEdit
<1> QED  BY <1>2, <1>4

\* What the RESTModule and the CUC write of a stream.
LEMMA StreamEdits ==
  ASSUME NEW s \in Streams
  PROVE  /\ \A v \in Versions, l \in SUBSET {"listener"} : EditOK(WriteRequest(s, v, l))
         /\ EditOK(WriteConfiguration(s)) /\ EditOK(DeleteStream(s))
<1>1. ASSUME NEW v \in Versions, NEW l \in SUBSET {"listener"}
      PROVE  EditOK(WriteRequest(s, v, l))
  <2> DEFINE names == {"key", "talker", "configured"} \cup l
             put == [x \in Stream(s, names) |->
                       CASE x[2] = "configured" -> 0 [] x[2] = "key" -> 1 [] OTHER -> v]
  <2>1. names \in SUBSET (Parts \cup {"key", "configured"})
    BY DEF Parts
  <2>2. /\ DOMAIN put = Entry("stream", s, names) /\ \A x \in DOMAIN put : put[x] \in 0..2
        /\ Entry("stream", s, names) \subseteq Leaves
    BY <2>1, EntryLeaves DEF Stream, Versions
  <2>3. WriteRequest(s, v, l) = Edit(Entry("stream", s, {}), put, Entry("stream", s, {}))
    BY NoLeaves DEF WriteRequest, Put
  <2> HIDE DEF put, names
  <2> QED  BY <2>2, <2>3, NoLeaves, EntryEdit
<1>2. EditOK(WriteConfiguration(s))
  <2> DEFINE put == [l \in Stream(s, {"configured"}) |-> 1]
  <2>1. /\ DOMAIN put = Entry("stream", s, {"configured"}) /\ \A x \in DOMAIN put : put[x] \in 0..2
        /\ Entry("stream", s, {"configured"}) \subseteq Leaves
    BY EntryLeaves DEF Stream
  <2>2. WriteConfiguration(s) = Edit(Entry("stream", s, {}), put, Entry("stream", s, {}))
    BY NoLeaves DEF WriteConfiguration, Put
  <2> HIDE DEF put
  <2> QED  BY <2>1, <2>2, NoLeaves, EntryEdit
<1>3. EditOK(DeleteStream(s))
  <2>1. DeleteStream(s) = Edit(Entry("stream", s, Parts \cup {"key", "configured"}), Nothing,
                               Entry("stream", s, {}))
    BY NoLeaves DEF DeleteStream, Cut, Stream
  <2> QED  BY <2>1, NoLeaves, EntryCut
<1> QED  BY <1>1, <1>2, <1>3

\* A module's entry is always written with its key and its flag, if it has none.
LEMMA ModuleEdits ==
  ASSUME NEW i \in Modules
  PROVE  /\ \A flag \in 0..2 : EditOK(AddModule(i, flag)) /\ EditOK(Register(i, flag))
         /\ EditOK(DeleteModule(i)) /\ EditOK(SetPid(i)) /\ EditOK(UpdateData(i))
         /\ \A v \in 0..2 : EditOK(WriteData(i, v))
<1>1. \A names \in SUBSET {"key", "registered", "data"} : Entry("module", i, names) \subseteq Leaves
  BY EntryLeaves
<1>2. ASSUME NEW flag \in 0..2 PROVE EditOK(AddModule(i, flag))
  <2> DEFINE put == [l \in Module(i, {"key", "registered"}) |->
                       IF l[2] = "registered" THEN flag ELSE 1]
  <2>1. /\ DOMAIN put = Entry("module", i, {"key", "registered"})
        /\ \A x \in DOMAIN put : put[x] \in 0..2
    BY DEF Module
  <2>2. AddModule(i, flag) = Edit(Entry("module", i, {}), put, Entry("module", i, {}))
    BY NoLeaves DEF AddModule, Put
  <2> HIDE DEF put
  <2> QED  BY <1>1, <2>1, <2>2, EntryEdit
<1>3. ASSUME NEW flag \in 0..2 PROVE EditOK(Register(i, flag))
  <2> DEFINE put == [l \in Module(i, {"registered"}) |-> flag]
  <2>1. DOMAIN put = Entry("module", i, {"registered"}) /\ \A x \in DOMAIN put : put[x] \in 0..2
    BY DEF Module
  <2>2. Register(i, flag) = Edit(Entry("module", i, {}), put, Entry("module", i, {"key"}))
    BY NoLeaves DEF Register, Module
  <2> HIDE DEF put
  <2> QED  BY <1>1, <2>1, <2>2, EntryEdit
<1>4. EditOK(DeleteModule(i)) /\ EditOK(UpdateData(i))
  <2>1. /\ DeleteModule(i) = Edit(Entry("module", i, {"key", "registered", "data"}), Nothing,
                                  Entry("module", i, {}))
        /\ UpdateData(i) = Edit(Entry("module", i, {"data"}), Nothing, Entry("module", i, {}))
    BY NoLeaves DEF DeleteModule, UpdateData, Cut, Module
  <2> QED  BY <2>1, NoLeaves, EntryCut
<1>5. EditOK(SetPid(i))
  <2>1. SetPid(i) = Edit(Entry("module", i, {}), Nothing, Entry("module", i, Missing))
    BY NoLeaves DEF SetPid, Module
  <2> QED  BY <1>1, <2>1, NoLeaves, EntryCut DEF Missing
<1>6. ASSUME NEW v \in 0..2 PROVE EditOK(WriteData(i, v))
  <2>1. CASE v = 0
    <3>1. WriteData(i, v) = Edit(Entry("module", i, {}), Nothing, Entry("module", i, {}))
      BY <2>1, NoLeaves DEF WriteData, Cut
    <3> QED  BY <3>1, NoLeaves, EntryCut
  <2>2. CASE v # 0
    <3> DEFINE put == [l \in Module(i, {"data"}) |-> v]
    <3>1. DOMAIN put = Entry("module", i, {"data"}) /\ \A x \in DOMAIN put : put[x] \in 0..2
      BY DEF Module
    <3>2. WriteData(i, v) = Edit(Entry("module", i, {}), put, Entry("module", i, Missing))
      BY <2>2, NoLeaves DEF WriteData, Module
    <3> HIDE DEF put
    <3> QED  BY <1>1, <3>1, <3>2, EntryEdit DEF Missing
  <2> QED  BY <2>1, <2>2
<1> QED  BY <1>2, <1>3, <1>4, <1>5, <1>6

\* An application, which has no flag, and the topology.
LEMMA OtherEdits ==
  /\ \A a \in Apps : /\ EditOK(WriteApp(a)) /\ EditOK(RemoveApp(a))
                     /\ \A v \in 0..2 : EditOK(WriteParameters(a, v))
  /\ \A v \in Versions : EditOK(SetTopology(v))
<1>1. ASSUME NEW a \in Apps
      PROVE  \A names \in SUBSET {"key", "parameters"} : Entry("app", a, names) \subseteq Leaves
  BY EntryLeaves
<1>2. ASSUME NEW a \in Apps PROVE EditOK(WriteApp(a)) /\ EditOK(RemoveApp(a))
  <2>1. /\ WriteApp(a) = Edit(Entry("app", a, {"parameters"}), Nothing, Entry("app", a, {"key"}))
        /\ RemoveApp(a) = Edit(Entry("app", a, {"key", "parameters"}), Nothing,
                               Entry("app", a, {}))
    BY NoLeaves DEF WriteApp, RemoveApp, Cut, App
  <2> QED  BY <1>1, <2>1, NoLeaves, EntryCut
<1>3. ASSUME NEW a \in Apps, NEW v \in 0..2 PROVE EditOK(WriteParameters(a, v))
  <2>1. CASE v = 0
    <3>1. WriteParameters(a, v) = Edit(Entry("app", a, {}), Nothing, Entry("app", a, {}))
      BY <2>1, NoLeaves DEF WriteParameters, Cut
    <3> QED  BY <1>1, <3>1, NoLeaves, EntryCut
  <2>2. CASE v # 0
    <3> DEFINE put == [l \in App(a, {"parameters"}) |-> v]
    <3>1. DOMAIN put = Entry("app", a, {"parameters"}) /\ \A x \in DOMAIN put : put[x] \in 0..2
      BY DEF App
    <3>2. WriteParameters(a, v) = Edit(Entry("app", a, {}), put, Entry("app", a, {"key"}))
      BY <2>2, NoLeaves DEF WriteParameters, App
    <3> HIDE DEF put
    <3> QED  BY <1>1, <3>1, <3>2, EntryEdit
  <2> QED  BY <2>1, <2>2
<1>4. ASSUME NEW v \in Versions PROVE EditOK(SetTopology(v))
  <2> DEFINE put == [l \in Entry("topology", 0, {"graph"}) |-> v]
  <2>1. DOMAIN put = Entry("topology", 0, {"graph"}) /\ \A x \in DOMAIN put : put[x] \in 0..2
    BY DEF Versions
  <2>2. SetTopology(v) = Edit(Entry("topology", 0, {}), put, Entry("topology", 0, {}))
    BY NoLeaves DEF SetTopology, Put
  <2> HIDE DEF put
  <2> QED  BY <2>1, <2>2, EntryLeaves, NoLeaves, EntryEdit
<1> QED  BY <1>2, <1>3, <1>4

\* All steps of a call.
LEMMA StepsOK ==
  ASSUME call \in [Clients -> Calls], NEW c \in Clients, NEW s \in Steps(c)
  PROVE  EditOK(s.edit) /\ s.rest \in Calls
<1>1. \A e \in OneTransaction : EditOK(e)
  BY StreamEdits, ModuleEdits, OtherEdits DEF OneTransaction
<1>2. call[c] \in Calls
  OBVIOUS
<1>3. CASE call[c].kind = "none"
  <2>1. s \in FirstSteps
    BY <1>3 DEF Steps
  <2>2. CASE \E e \in OneTransaction : s = Step(e, NoCall)
    BY <1>1, <2>2 DEF Step, Calls
  <2>3. CASE \E i \in Modules : s = Step(UpdateData(i), [kind |-> "module", id |-> i])
    BY <2>3, ModuleEdits DEF Step, Calls
  <2>4. CASE \E a \in Apps : s = Step(WriteApp(a), [kind |-> "app", id |-> a])
    BY <2>4, OtherEdits DEF Step, Calls
  <2> QED  BY <2>1, <2>2, <2>3, <2>4 DEF FirstSteps
<1>4. CASE call[c].kind = "module"
  <2>1. PICK v \in 0..2 : s = Step(WriteData(call[c].id, v), NoCall)
    BY <1>4 DEF Steps
  <2>2. call[c].id \in Modules
    BY <1>2, <1>4 DEF Calls, NoCall
  <2> QED  BY <2>1, <2>2, ModuleEdits DEF Step, Calls
<1>5. CASE call[c].kind = "app"
  <2>1. PICK v \in 0..2 : s = Step(WriteParameters(call[c].id, v), NoCall)
    BY <1>5 DEF Steps
  <2>2. call[c].id \in Apps
    BY <1>2, <1>5 DEF Calls, NoCall
  <2> QED  BY <2>1, <2>2, OtherEdits DEF Step, Calls
<1> QED  BY <1>2, <1>3, <1>4, <1>5 DEF Calls, NoCall

\* One edit, or two at once.
LEMMA WritesLegal ==
  ASSUME StoreOK(store), call \in [Clients -> Calls], Write
  PROVE  (\E new : Legal(new)) /\ call' \in [Clients -> Calls]
<1>1. ASSUME NEW c \in Clients, Alone(c)
      PROVE  (\E new : Legal(new)) /\ call' \in [Clients -> Calls]
  <2>1. PICK s \in Steps(c) : /\ Commit(Apply(s.edit, store), 1)
                              /\ call' = [call EXCEPT ![c] = s.rest]
    BY <1>1 DEF Alone
  <2>2. EditOK(s.edit) /\ s.rest \in Calls
    BY StepsOK
  <2>3. StoreOK(Apply(s.edit, store))
    BY <2>2, ApplyOK
  <2> QED  BY <2>1, <2>2, <2>3 DEF Legal
<1>2. ASSUME NEW c \in Clients, NEW d \in Clients, Together(c, d)
      PROVE  (\E new : Legal(new)) /\ call' \in [Clients -> Calls]
  <2>1. PICK s \in Steps(c), t \in Steps(d) :
          /\ Commit(Apply(t.edit, Apply(s.edit, store)), 2)
          /\ call' = [call EXCEPT ![c] = s.rest, ![d] = t.rest]
    BY <1>2 DEF Together
  <2>2. EditOK(s.edit) /\ s.rest \in Calls /\ EditOK(t.edit) /\ t.rest \in Calls
    BY StepsOK
  <2>3. StoreOK(Apply(s.edit, store))
    BY <2>2, ApplyOK
  <2>4. StoreOK(Apply(t.edit, Apply(s.edit, store)))
    BY <2>2, <2>3, ApplyOK
  <2> QED  BY <2>1, <2>2, <2>4 DEF Legal
<1> QED  BY <1>1, <1>2 DEF Write


(***************************************************************************)
(* What is owed                                                            *)
(***************************************************************************)
OwedFor(queue) == [n \in 1..Len(queue) |-> OwedOf(queue[n], {})]

Owes == {OwedOf(t, {}) : t \in Transactions}

\* Each transaction in the queue owes its events.
LEMMA OwedSeq ==
  ASSUME NEW q \in Seq(Transactions)
  PROVE  /\ OwedFor(q) \in Seq(Owes) /\ Len(OwedFor(q)) = Len(q) /\ Len(q) \in Nat
         /\ \A n \in 1..Len(q) : OwedFor(q)[n] = OwedOf(q[n], {})
<1>1. Len(q) \in Nat /\ \A n \in 1..Len(q) : q[n] \in Transactions
  OBVIOUS
<1>2. \A n \in 1..Len(q) : OwedOf(q[n], {}) \in Owes
  BY <1>1 DEF Owes
<1> QED  BY <1>1, <1>2 DEF OwedFor

\* A transaction that is committed is owed last.
LEMMA OwedAppend ==
  ASSUME NEW q \in Seq(Transactions), NEW t \in Transactions
  PROVE  /\ OwedFor(Append(q, t)) = Append(OwedFor(q), OwedOf(t, {}))
         /\ Append(q, t) \in Seq(Transactions)
<1>1. PICK s : s = Append(q, t)
  OBVIOUS
<1>2. /\ s \in Seq(Transactions) /\ Len(s) = Len(q) + 1
      /\ \A n \in 1..Len(s) : s[n] = IF n = Len(q) + 1 THEN t ELSE q[n]
  BY <1>1, AppendProperties
<1>3. PICK u : u = OwedFor(q)
  OBVIOUS
<1>4. /\ u \in Seq(Owes) /\ Len(u) = Len(q) /\ Len(q) \in Nat
      /\ \A n \in 1..Len(q) : u[n] = OwedOf(q[n], {})
  BY <1>3, OwedSeq
<1>5. PICK o : o = OwedOf(t, {})
  OBVIOUS
<1>6. o \in Owes
  BY <1>5 DEF Owes
<1>7. PICK w : w = Append(u, o)
  OBVIOUS
<1>8. /\ w \in Seq(Owes) /\ Len(w) = Len(q) + 1
      /\ \A n \in 1..Len(w) : w[n] = IF n = Len(q) + 1 THEN o ELSE u[n]
  BY <1>4, <1>6, <1>7, AppendProperties
<1>9. /\ OwedFor(s) \in Seq(Owes) /\ Len(OwedFor(s)) = Len(s)
      /\ \A n \in 1..Len(s) : OwedFor(s)[n] = OwedOf(s[n], {})
  BY <1>2, OwedSeq
<1>10. ASSUME NEW n \in 1..Len(s) PROVE OwedFor(s)[n] = w[n]
  <2>1. CASE n = Len(q) + 1
    BY <1>2, <1>5, <1>8, <1>9, <2>1
  <2>2. CASE n # Len(q) + 1
    <3>1. n \in 1..Len(q)
      BY <1>2, <1>4, <2>2
    <3> QED  BY <1>2, <1>4, <1>8, <1>9, <2>2, <3>1
  <2> QED  BY <2>1, <2>2
<1>11. OwedFor(s) = w
  BY <1>2, <1>8, <1>9, <1>10, SeqEqual
<1> QED  BY <1>1, <1>2, <1>3, <1>5, <1>7, <1>11

\* The first one in the queue is the first that is owed.
LEMMA OwedTail ==
  ASSUME NEW q \in Seq(Transactions), q # <<>>
  PROVE  /\ OwedFor(q) # <<>> /\ Head(OwedFor(q)) = OwedOf(Head(q), {})
         /\ OwedFor(Tail(q)) = Tail(OwedFor(q))
         /\ Head(q) \in Transactions /\ Tail(q) \in Seq(Transactions)
<1>1. PICK u : u = OwedFor(q)
  OBVIOUS
<1>2. /\ u \in Seq(Owes) /\ Len(u) = Len(q) /\ Len(q) \in Nat
      /\ \A n \in 1..Len(q) : u[n] = OwedOf(q[n], {})
  BY <1>1, OwedSeq
<1>3. Len(q) # 0 /\ u # <<>>
  BY <1>2, EmptySeq
<1>4. PICK s : s = Tail(q)
  OBVIOUS
<1>5. /\ s \in Seq(Transactions) /\ Len(s) = Len(q) - 1 /\ Head(q) = q[1]
      /\ \A n \in 1..Len(s) : s[n] = q[n + 1]
      /\ Head(q) \in Transactions
  BY <1>4, HeadTailProperties
<1>6. PICK w : w = Tail(u)
  OBVIOUS
<1>7. /\ w \in Seq(Owes) /\ Len(w) = Len(q) - 1 /\ Head(u) = u[1]
      /\ \A n \in 1..Len(w) : w[n] = u[n + 1]
  BY <1>2, <1>3, <1>6, HeadTailProperties
<1>8. /\ OwedFor(s) \in Seq(Owes) /\ Len(OwedFor(s)) = Len(s)
      /\ \A n \in 1..Len(s) : OwedFor(s)[n] = OwedOf(s[n], {})
  BY <1>5, OwedSeq
<1>9. ASSUME NEW n \in 1..Len(s) PROVE OwedFor(s)[n] = w[n]
  <2>1. n + 1 \in 1..Len(q)
    BY <1>2, <1>5
  <2> QED  BY <1>2, <1>5, <1>7, <1>8, <2>1
<1>10. OwedFor(s) = w
  BY <1>5, <1>7, <1>8, <1>9, SeqEqual
<1>11. Head(u) = OwedOf(Head(q), {})
  BY <1>2, <1>3, <1>5, <1>7
<1> QED  BY <1>1, <1>3, <1>4, <1>5, <1>6, <1>10, <1>11

\* The changes between two datastores are a transaction.
LEMMA ChangesAreTransaction ==
  ASSUME NEW old, NEW new, StoreOK(old), StoreOK(new)
  PROVE  Changes(old, new) \in Transactions
<1>1. \A c \in Changes(old, new) :
        /\ c \in Change
        /\ c.op = "created" => c.leaf \in DOMAIN new \ DOMAIN old /\ c.val = new[c.leaf]
        /\ c.op = "deleted" => c.leaf \in DOMAIN old \ DOMAIN new
        /\ c.op = "modified" => /\ c.leaf \in DOMAIN old \cap DOMAIN new
                                /\ old[c.leaf] # new[c.leaf] /\ c.val = new[c.leaf]
  BY ChangeFields
<1>3. \A c \in Changes(old, new) :
        \/ c = [leaf |-> c.leaf, op |-> "created", val |-> new[c.leaf]]
             /\ c.leaf \in DOMAIN new \ DOMAIN old
        \/ c = [leaf |-> c.leaf, op |-> "deleted", val |-> old[c.leaf]]
             /\ c.leaf \in DOMAIN old \ DOMAIN new
        \/ c = [leaf |-> c.leaf, op |-> "modified", val |-> new[c.leaf]]
             /\ c.leaf \in DOMAIN old \cap DOMAIN new
  BY DEF Changes
<1>4. \A c, d \in Changes(old, new) : c.leaf = d.leaf => c = d
  BY <1>3
<1> QED  BY <1>1, <1>4 DEF Transactions


(***************************************************************************)
(* The steps                                                               *)
(***************************************************************************)

\* A transaction is handed to the daemons that watch, and is owed by them.
LEMMA CommitStep ==
  ASSUME IInv, NEW new, Legal(new), call' \in [Clients -> Calls]
  PROVE  IInv' /\ Service!Transact
<1>1. /\ store' = new /\ StoreOK(new) /\ StoreOK(store)
      /\ proc' = proc /\ got' = got
  BY DEF Legal, Commit, IInv
<1>2. PICK t : t = Changes(store, new)
  OBVIOUS
<1>3. t \in Transactions
  BY <1>1, <1>2, ChangesAreTransaction DEF Legal
<1>4. daemon' = [k \in Daemons |->
                   IF daemon[k].pc = "ready" /\ new # store
                   THEN [daemon[k] EXCEPT !.queue = Append(@, t)] ELSE daemon[k]]
  BY <1>2 DEF Legal, Commit
<1>5. ASSUME NEW k \in Daemons
      PROVE  /\ daemon[k] \in Instance /\ daemon'[k] \in Instance
             /\ daemon'[k].pc = daemon[k].pc /\ daemon'[k].todo = daemon[k].todo
             /\ daemon'[k].sent = daemon[k].sent
             /\ OwedFor(daemon'[k].queue) =
                  IF daemon[k].pc = "ready" /\ new # store
                  THEN Append(OwedFor(daemon[k].queue), OwedOf(t, {}))
                  ELSE OwedFor(daemon[k].queue)
  <2>1. daemon[k] \in Instance
    BY DEF IInv
  <2>2. daemon[k].queue \in Seq(Transactions)
    BY <2>1 DEF Instance
  <2>3. CASE daemon[k].pc = "ready" /\ new # store
    <3>1. PICK q : q = Append(daemon[k].queue, t)
      OBVIOUS
    <3>2. q \in Seq(Transactions) /\ OwedFor(q) = Append(OwedFor(daemon[k].queue), OwedOf(t, {}))
      BY <1>3, <2>2, <3>1, OwedAppend
    <3>3. daemon'[k] = [daemon[k] EXCEPT !.queue = q]
      BY <1>4, <2>3, <3>1
    <3>4. /\ daemon'[k] \in Instance /\ daemon'[k].queue = q
          /\ daemon'[k].pc = daemon[k].pc /\ daemon'[k].todo = daemon[k].todo
          /\ daemon'[k].sent = daemon[k].sent
      BY <2>1, <3>2, <3>3 DEF Instance
    <3> QED  BY <2>1, <2>3, <3>2, <3>4
  <2>4. CASE ~(daemon[k].pc = "ready" /\ new # store)
    <3>1. daemon'[k] = daemon[k]
      BY <1>4, <2>4
    <3> QED  BY <2>1, <2>4, <3>1
  <2> QED  BY <2>3, <2>4
<1>6. daemon' \in [Daemons -> Instance]
  BY <1>4, <1>5
<1>7. IInv'
  BY <1>1, <1>6 DEF IInv
<1>8. Serving' = Serving /\ Due' = Due /\ Listening' = Listening
  BY <1>1, <1>5 DEF Serving, Due, Listening
<1>9. OwedOf(t, {}) = Service!Promised(Facts(store), Facts(store)')
  BY <1>1, <1>2, PromiseKept
<1>10. CASE new = store
  <2>1. t = {}
    BY <1>2, <1>10 DEF Changes
  <2>2. Service!Promised(Facts(store), Facts(store)') = {}
    BY <1>9, <2>1 DEF OwedOf
  <2>3. Owed' = Owed
    BY <1>5, <1>10 DEF Owed, OwedFor
  <2> QED  BY <1>1, <1>7, <1>8, <2>2, <2>3 DEF Service!Transact
<1>11. CASE new # store
  <2>1. Owed' = [k \in Daemons |->
                   IF k \in Serving THEN Append(Owed[k], OwedOf(t, {})) ELSE Owed[k]]
    <3>1. Owed' = [k \in Daemons |-> OwedFor(daemon'[k].queue)]
      BY DEF Owed, OwedFor
    <3>2. \A k \in Daemons : Owed[k] = OwedFor(daemon[k].queue)
      BY DEF Owed, OwedFor
    <3>3. \A k \in Daemons : k \in Serving <=> daemon[k].pc = "ready"
      BY DEF Serving
    <3> QED  BY <1>5, <1>11, <3>1, <3>2, <3>3
  <2> QED  BY <1>1, <1>7, <1>8, <1>9, <2>1 DEF Service!Transact
<1> QED  BY <1>10, <1>11


\* Two changes of a transaction that stand for the same registration.
LEMMA SameEvent ==
  ASSUME NEW t \in Transactions, NEW c \in t, NEW x \in t, EventType(x) = EventType(c),
         EventType(c) \in Registration, x.leaf[1][2] = c.leaf[1][2]
  PROVE  x = c
<1>1. x \in Change /\ c \in Change /\ (x.leaf = c.leaf => x = c)
  BY DEF Transactions
<1>2. x.leaf[2] = "registered" /\ c.leaf[2] = "registered"
  BY <1>1, EventTypes DEF Registration
<1>3. x.leaf[1][1] = "module" /\ c.leaf[1][1] = "module"
  BY <1>1, <1>2, LeafFields DEF Change
<1>4. /\ x.leaf = <<x.leaf[1], x.leaf[2]>> /\ x.leaf[1] = <<x.leaf[1][1], x.leaf[1][2]>>
      /\ c.leaf = <<c.leaf[1], c.leaf[2]>> /\ c.leaf[1] = <<c.leaf[1][1], c.leaf[1][2]>>
  BY <1>1, LeafFields DEF Change
<1> QED  BY <1>1, <1>2, <1>3, <1>4

\* A change that is silent leaves what is due.
LEMMA SilentStep ==
  ASSUME NEW t \in Transactions, NEW sent \in SUBSET Types, NEW c \in t, Silent(c, sent)
  PROVE  OwedOf(t \ {c}, sent) = OwedOf(t, sent)
<1> DEFINE E(x) == <<EventType(x), x.leaf[1][2]>>
<1>1. \A u, e : e \in OwedOf(u, sent) <=> \E x \in u : ~Silent(x, sent) /\ e = E(x)
  BY DEF OwedOf
<1>2. ASSUME NEW e PROVE e \in OwedOf(t \ {c}, sent) <=> e \in OwedOf(t, sent)
  <2> HIDE DEF E
  <2>1. e \in OwedOf(t \ {c}, sent) <=> \E x \in t \ {c} : ~Silent(x, sent) /\ e = E(x)
    BY <1>1
  <2>2. e \in OwedOf(t, sent) <=> \E x \in t : ~Silent(x, sent) /\ e = E(x)
    BY <1>1
  <2> QED  BY <2>1, <2>2
<1> QED  BY <1>2

\* The event of a change, and what has been sent after it.
Sends(c) == <<EventType(c), c.leaf[1][2]>>
SentAfter(c, sent) == IF Silent(c, sent) THEN sent ELSE sent \cup {EventType(c)}

\* Another one sends what it stands for, after which that is not due any more, nor
\* anything else of the type unless it is a registration.
LEMMA LoudStep ==
  ASSUME NEW t \in Transactions, NEW sent \in SUBSET Types, NEW c \in t, ~Silent(c, sent)
  PROVE  /\ Sends(c) \in OwedOf(t, sent)
         /\ OwedOf(t \ {c}, SentAfter(c, sent)) = Service!After(OwedOf(t, sent), Sends(c))
<1>1. PICK after : after = SentAfter(c, sent) /\ after = sent \cup {EventType(c)}
  BY DEF SentAfter
<1>2. \A e : e \in OwedOf(t, sent) <=> \E x \in t : ~Silent(x, sent) /\ e = Sends(x)
  BY DEF OwedOf, Sends
<1>3. \A e : e \in OwedOf(t \ {c}, after) <=> \E x \in t \ {c} : ~Silent(x, after) /\ e = Sends(x)
  BY DEF OwedOf, Sends
<1>4. \A e : e \in Service!After(OwedOf(t, sent), Sends(c)) <=>
        /\ e \in OwedOf(t, sent) /\ e # Sends(c)
        /\ e[1] = EventType(c) => EventType(c) \in Registration
  BY DEF Service!After, Service!Several, Registration, Sends
<1>5. \A x : Sends(x)[1] = EventType(x) /\ Sends(x)[2] = x.leaf[1][2]
  BY DEF Sends
<1>6. CASE EventType(c) \in Registration
  <2>1. \A x : Silent(x, after) <=> Silent(x, sent)
    BY <1>1, <1>6 DEF Silent
  <2>2. \A x \in t : Sends(x) = Sends(c) => x = c
    BY <1>5, <1>6, SameEvent
  <2>3. \A e : e \in OwedOf(t \ {c}, after) <=> e \in Service!After(OwedOf(t, sent), Sends(c))
    BY <1>2, <1>3, <1>4, <1>6, <2>1, <2>2
  <2> QED  BY <1>1, <1>2, <2>3
<1>7. CASE EventType(c) \notin Registration
  <2>1. \A x : Silent(x, after) <=> Silent(x, sent) \/ EventType(x) = EventType(c)
    BY <1>1, <1>7 DEF Silent
  <2>2. \A e : e \in OwedOf(t \ {c}, after) <=> e \in Service!After(OwedOf(t, sent), Sends(c))
    BY <1>2, <1>3, <1>4, <1>5, <1>7, <2>1
  <2> QED  BY <1>1, <1>2, <2>2
<1> QED  BY <1>6, <1>7

\* One instance of the daemon takes another state.
LEMMA DaemonSet ==
  ASSUME IInv, NEW k \in Daemons, NEW d \in Instance, daemon' = [daemon EXCEPT ![k] = d]
  PROVE  /\ daemon' \in [Daemons -> Instance] /\ daemon'[k] = d
         /\ \A j \in Daemons \ {k} : daemon'[j] = daemon[j]
         /\ Due' = [Due EXCEPT ![k] = OwedOf(d.todo, d.sent)]
         /\ Owed' = [Owed EXCEPT ![k] = OwedFor(d.queue)]
         /\ Serving' = IF d.pc = "ready" THEN Serving \cup {k} ELSE Serving \ {k}
<1>1. /\ daemon' \in [Daemons -> Instance] /\ daemon'[k] = d
      /\ \A j \in Daemons \ {k} : daemon'[j] = daemon[j]
  BY DEF IInv
<1>2. Due' = [Due EXCEPT ![k] = OwedOf(d.todo, d.sent)]
  <2>1. Due' = [j \in Daemons |-> OwedOf(daemon'[j].todo, daemon'[j].sent)]
    BY DEF Due
  <2>2. Due = [j \in Daemons |-> OwedOf(daemon[j].todo, daemon[j].sent)]
    BY DEF Due
  <2> QED  BY <1>1, <2>1, <2>2
<1>3. Owed' = [Owed EXCEPT ![k] = OwedFor(d.queue)]
  <2>1. Owed' = [j \in Daemons |-> OwedFor(daemon'[j].queue)]
    BY DEF Owed, OwedFor
  <2>2. Owed = [j \in Daemons |-> OwedFor(daemon[j].queue)]
    BY DEF Owed, OwedFor
  <2> QED  BY <1>1, <2>1, <2>2
<1>4. Serving' = IF d.pc = "ready" THEN Serving \cup {k} ELSE Serving \ {k}
  BY <1>1 DEF Serving
<1> QED  BY <1>1, <1>2, <1>3, <1>4

\* What the mapping says of one instance; what is due and what is owed stay when
\* what they are read from stays.
LEMMA DaemonGet ==
  ASSUME IInv, NEW k \in Daemons
  PROVE  /\ Due[k] = OwedOf(daemon[k].todo, daemon[k].sent)
         /\ Owed[k] = OwedFor(daemon[k].queue)
         /\ k \in Serving <=> daemon[k].pc = "ready"
         /\ [Due EXCEPT ![k] = OwedOf(daemon[k].todo, daemon[k].sent)] = Due
         /\ [Owed EXCEPT ![k] = OwedFor(daemon[k].queue)] = Owed
<1>1. Due[k] = OwedOf(daemon[k].todo, daemon[k].sent) /\ Owed[k] = OwedFor(daemon[k].queue)
  BY DEF Due, Owed, OwedFor
<1>2. k \in Serving <=> daemon[k].pc = "ready"
  BY DEF Serving
<1>3. Due = [j \in Daemons |-> Due[j]] /\ Owed = [j \in Daemons |-> Owed[j]]
  BY DEF Due, Owed
<1>4. [Due EXCEPT ![k] = Due[k]] = Due /\ [Owed EXCEPT ![k] = Owed[k]] = Owed
  BY <1>3, Zenon
<1> QED  BY <1>1, <1>2, <1>4

\* The plugin turns to the next transaction.
LEMMA TakeStep ==
  ASSUME IInv, NEW k \in Daemons, PluginTake(k)
  PROVE  IInv' /\ Service!Turn(k)
<1>1. PICK q : q = daemon[k].queue
  OBVIOUS
<1>2. PICK todo : todo = {c \in Head(q) : Considered(c)}
  OBVIOUS
<1>3. PICK d : d = [daemon[k] EXCEPT !.queue = Tail(q), !.sent = {}, !.todo = todo]
  OBVIOUS
<1>4. daemon[k] \in Instance /\ q \in Seq(Transactions)
  BY <1>1 DEF IInv, Instance
<1>5. /\ daemon[k].pc = "ready" /\ daemon[k].todo = {} /\ q # <<>>
      /\ store' = store /\ call' = call /\ proc' = proc /\ got' = got
  BY <1>1 DEF PluginTake
<1>6. daemon' = [daemon EXCEPT ![k] = d]
  <2>1. daemon' = [daemon EXCEPT ![k] = [daemon[k] EXCEPT !.queue = Tail(@), !.sent = {},
          !.todo = {c \in Head(daemon[k].queue) : Considered(c)}]]
    BY DEF PluginTake
  <2>2. {c \in Head(daemon[k].queue) : Considered(c)} = todo
    BY <1>1, <1>2
  <2>3. daemon' = [daemon EXCEPT ![k] = [daemon[k] EXCEPT !.queue = Tail(@), !.sent = {},
                                           !.todo = todo]]
    BY <2>1, <2>2
  <2> QED  BY <1>1, <1>3, <2>3
<1>7. /\ OwedFor(q) # <<>> /\ Head(OwedFor(q)) = OwedOf(Head(q), {})
      /\ OwedFor(Tail(q)) = Tail(OwedFor(q))
      /\ Head(q) \in Transactions /\ Tail(q) \in Seq(Transactions)
  BY <1>4, <1>5, OwedTail
<1>8. todo \in Transactions
  BY <1>2, <1>7 DEF Transactions
<1>9. OwedOf(todo, {}) = OwedOf(Head(q), {})
  BY <1>2 DEF OwedOf, Silent, Considered
<1>10. /\ d \in Instance /\ d.pc = "ready" /\ d.queue = Tail(q) /\ d.sent = {} /\ d.todo = todo
  BY <1>3, <1>4, <1>5, <1>7, <1>8 DEF Instance
<1>11. /\ daemon' \in [Daemons -> Instance]
       /\ Due' = [Due EXCEPT ![k] = OwedOf(todo, {})]
       /\ Owed' = [Owed EXCEPT ![k] = OwedFor(Tail(q))]
       /\ Serving' = Serving \cup {k}
  BY <1>6, <1>10, DaemonSet
<1>12. Due[k] = {} /\ Owed[k] = OwedFor(q) /\ k \in Serving
  BY <1>1, <1>5 DEF Due, Owed, OwedFor, OwedOf, Serving
<1>13. Listening' = Listening /\ Serving' = Serving
  BY <1>5, <1>11, <1>12 DEF Listening
<1>14. IInv'
  BY <1>5, <1>11 DEF IInv
<1>15. Service!Turn(k)
  BY <1>5, <1>7, <1>9, <1>11, <1>12, <1>13 DEF Service!Turn
<1> QED  BY <1>14, <1>15


\* The plugin sends the event of a change, or passes it over.
LEMMA StepStep ==
  ASSUME IInv, NEW k \in Daemons, PluginStep(k)
  PROVE  IInv' /\ (Service!Announce(k) \/ UNCHANGED Service!vars)
<1>1. PICK c \in daemon[k].todo :
        /\ daemon' = [daemon EXCEPT ![k] = [daemon[k] EXCEPT !.todo = @ \ {c},
                        !.sent = IF Silent(c, @) THEN @ ELSE @ \cup {EventType(c)}]]
        /\ got' = [p \in Subscribers |->
             IF ~Silent(c, daemon[k].sent) /\ proc[p] = "listening" /\ EventType(c) \in Mask[p]
             THEN Append(got[p], <<EventType(c), c.leaf[1][2]>>) ELSE got[p]]
  BY Zenon DEF PluginStep
<1>2. /\ store' = store /\ call' = call /\ proc' = proc
  BY DEF PluginStep
<1>3. PICK todo, sent : todo = daemon[k].todo /\ sent = daemon[k].sent
  OBVIOUS
<1>4. /\ daemon[k] \in Instance /\ todo \in Transactions /\ sent \in SUBSET Types /\ c \in todo
      /\ daemon[k].queue \in Seq(Transactions)
  BY <1>3 DEF IInv, Instance
<1>5. PICK after : /\ after = IF Silent(c, sent) THEN sent ELSE sent \cup {EventType(c)}
                   /\ after = SentAfter(c, sent)
  BY DEF SentAfter
<1>6. PICK e : e = <<EventType(c), c.leaf[1][2]>> /\ e = Sends(c)
  BY DEF Sends
<1>7. c \in Change /\ EventType(c) \in Types \cup {"none"} /\ e[1] = EventType(c)
      /\ e[2] \in Entries
  BY <1>4, <1>6, EventTypes, LeafFields DEF Transactions, Change
<1>8. EventType(c) = "none" => Silent(c, sent)
  BY DEF Silent
<1>9. after \in SUBSET Types
  BY <1>4, <1>5, <1>7, <1>8
<1>10. PICK d : d = [daemon[k] EXCEPT !.todo = todo \ {c}, !.sent = after]
  OBVIOUS
<1>11. todo \ {c} \in Transactions
  BY <1>4 DEF Transactions
<1>12. d \in Instance /\ d.pc = daemon[k].pc /\ d.queue = daemon[k].queue
       /\ d.todo = todo \ {c} /\ d.sent = after
  BY <1>4, <1>9, <1>10, <1>11 DEF Instance
<1>13. daemon' = [daemon EXCEPT ![k] = d]
  BY <1>1, <1>3, <1>5, <1>10
<1>14. /\ daemon' \in [Daemons -> Instance]
       /\ Due' = [Due EXCEPT ![k] = OwedOf(todo \ {c}, after)]
       /\ Owed' = [Owed EXCEPT ![k] = OwedFor(daemon[k].queue)]
       /\ Serving' = IF d.pc = "ready" THEN Serving \cup {k} ELSE Serving \ {k}
  BY <1>12, <1>13, DaemonSet
<1>15. /\ Due[k] = OwedOf(todo, sent) /\ Owed[k] = OwedFor(daemon[k].queue)
       /\ k \in Serving <=> d.pc = "ready"
       /\ Owed' = Owed
  <2>1. /\ Due[k] = OwedOf(todo, sent) /\ Owed[k] = OwedFor(daemon[k].queue)
        /\ k \in Serving <=> d.pc = "ready"
        /\ [Owed EXCEPT ![k] = OwedFor(daemon[k].queue)] = Owed
    BY <1>3, <1>12, DaemonGet
  <2> QED  BY <1>14, <2>1
<1>16. Serving' = Serving /\ Listening' = Listening /\ Facts(store)' = Facts(store)
  BY <1>2, <1>14, <1>15 DEF Listening
<1>17. \A p \in Subscribers : p \in Listening <=> proc[p] = "listening"
  BY DEF Listening
<1>18. IInv'
  <2>1. ASSUME NEW p \in Subscribers PROVE got'[p] \in Received(p)
    <3>1. got[p] \in Seq(Mask[p] \X Entries)
      BY DEF IInv, Received
    <3>2. CASE got'[p] = got[p]
      BY <3>1, <3>2 DEF Received
    <3>3. CASE EventType(c) \in Mask[p] /\ got'[p] = Append(got[p], e)
      <4>1. e \in Mask[p] \X Entries
        BY <1>6, <1>7, <3>3
      <4> QED  BY <3>1, <3>3, <4>1, AppendProperties DEF Received
    <3> QED  BY <1>1, <1>6, <3>2, <3>3
  <2>2. DOMAIN got' = Subscribers /\ got' = [p \in Subscribers |-> got'[p]]
    BY <1>1
  <2> QED  BY <1>2, <1>14, <2>1, <2>2 DEF IInv
<1>19. CASE Silent(c, sent)
  <2>1. OwedOf(todo \ {c}, after) = OwedOf(todo, sent)
    BY <1>4, <1>5, <1>19, SilentStep
  <2>2. Due' = Due
    BY <1>14, <1>15, <2>1 DEF Due
  <2>3. got' = got
    BY <1>1, <1>3, <1>19 DEF IInv
  <2> QED  BY <1>15, <1>16, <1>18, <2>2, <2>3 DEF Service!vars
<1>20. CASE ~Silent(c, sent)
  <2>1. e \in Due[k] /\ OwedOf(todo \ {c}, after) = Service!After(Due[k], e)
    <3>1. /\ todo \in Transactions /\ sent \in SUBSET Types /\ c \in todo
          /\ ~Silent(c, sent)
      BY <1>4, <1>20
    <3>2. /\ Sends(c) \in OwedOf(todo, sent)
          /\ OwedOf(todo \ {c}, SentAfter(c, sent)) = Service!After(OwedOf(todo, sent), Sends(c))
      BY <3>1, LoudStep
    <3> QED  BY <1>5, <1>6, <1>15, <3>2
  <2>2. Due' = [Due EXCEPT ![k] = Service!After(@, e)]
    BY <1>14, <2>1
  <2>3. got' = [p \in Subscribers |-> IF p \in Listening /\ e[1] \in Mask[p]
                                      THEN Append(got[p], e) ELSE got[p]]
    BY <1>1, <1>3, <1>6, <1>7, <1>17, <1>20
  <2> QED  BY <1>15, <1>16, <1>18, <2>1, <2>2, <2>3 DEF Service!Announce
<1> QED  BY <1>19, <1>20

\* A daemon that has subscribed serves; one that has been started does not yet.
LEMMA ReadyStep ==
  ASSUME IInv, NEW k \in Daemons, PluginReady(k)
  PROVE  IInv' /\ Service!Serve(k)
<1>1. PICK d : d = [daemon[k] EXCEPT !.pc = "ready"]
  OBVIOUS
<1>2. /\ daemon' = [daemon EXCEPT ![k] = d]
      /\ store' = store /\ call' = call /\ proc' = proc /\ got' = got
  BY <1>1 DEF PluginReady
<1>3. /\ d \in Instance /\ d.pc = "ready" /\ d.queue = daemon[k].queue
      /\ d.todo = daemon[k].todo /\ d.sent = daemon[k].sent
  BY <1>1 DEF IInv, Instance
<1>4. /\ daemon' \in [Daemons -> Instance]
      /\ Due' = [Due EXCEPT ![k] = OwedOf(d.todo, d.sent)]
      /\ Owed' = [Owed EXCEPT ![k] = OwedFor(d.queue)]
      /\ Serving' = Serving \cup {k}
  BY <1>2, <1>3, DaemonSet
<1>5. Due' = Due /\ Owed' = Owed
  BY <1>3, <1>4, DaemonGet
<1>6. IInv' /\ Listening' = Listening
  BY <1>2, <1>4 DEF IInv, Listening
<1> QED  BY <1>2, <1>4, <1>5, <1>6 DEF Service!Serve

\* A daemon that is not on owes nothing.
LEMMA OffOwesNothing ==
  /\ Off \in Instance /\ Gone \in Instance
  /\ Off.queue = <<>> /\ Gone.queue = <<>> /\ Off.todo = {} /\ Gone.todo = {}
  /\ Off.pc = "off" /\ Gone.pc = "gone"
  /\ OwedFor(<<>>) = <<>> /\ \A s : OwedOf({}, s) = {}
<1>1. <<>> \in Seq(Transactions) /\ {} \in Transactions
  BY DEF Transactions
<1>2. OwedFor(<<>>) = <<>>
  <2>1. Len(OwedFor(<<>>)) = 0 /\ OwedFor(<<>>) \in Seq(Owes)
    BY <1>1, OwedSeq
  <2> QED  BY <2>1, EmptySeq
<1>3. \A s : OwedOf({}, s) = {}
  BY DEF OwedOf
<1> QED  BY <1>1, <1>2, <1>3 DEF Off, Gone, Instance

\* The end of a daemon is the end of its service.
LEMMA EndStep ==
  ASSUME IInv, NEW k \in Daemons, MainEnd(k)
  PROVE  IInv' /\ Service!Cease(k)
<1>1. /\ daemon' = [daemon EXCEPT ![k] = Gone]
      /\ store' = store /\ call' = call /\ proc' = proc /\ got' = got
  BY DEF MainEnd
<1>2. /\ daemon' \in [Daemons -> Instance]
      /\ Due' = [Due EXCEPT ![k] = {}]
      /\ Owed' = [Owed EXCEPT ![k] = <<>>]
      /\ Serving' = Serving \ {k}
  <2>1. /\ Gone \in Instance /\ Gone.pc # "ready"
        /\ OwedOf(Gone.todo, Gone.sent) = {} /\ OwedFor(Gone.queue) = <<>>
    BY OffOwesNothing
  <2> HIDE DEF Gone
  <2> QED  BY <1>1, <2>1, DaemonSet
<1>3. IInv' /\ Listening' = Listening
  BY <1>1, <1>2 DEF IInv, Listening
<1> QED  BY <1>1, <1>2, <1>3 DEF Service!Cease


\* A daemon that a process starts does not serve yet.
LEMMA StartStep ==
  ASSUME IInv, NEW p \in Subscribers, NEW k \in Daemons, StartDaemon(p, k)
  PROVE  IInv' /\ UNCHANGED Service!vars
<1>1. PICK d : d = [daemon[k] EXCEPT !.pc = "booting"]
  OBVIOUS
<1>2. /\ daemon' = [daemon EXCEPT ![k] = d] /\ daemon[k].pc = "off"
      /\ store' = store /\ call' = call /\ got' = got
      /\ proc[p] = "starting" /\ proc' = [proc EXCEPT ![p] = "connected"]
  BY <1>1 DEF StartDaemon
<1>3. /\ d \in Instance /\ d.pc = "booting" /\ d.queue = daemon[k].queue
      /\ d.todo = daemon[k].todo /\ d.sent = daemon[k].sent
  BY <1>1 DEF IInv, Instance
<1>4. /\ daemon' \in [Daemons -> Instance]
      /\ Due' = [Due EXCEPT ![k] = OwedOf(d.todo, d.sent)]
      /\ Owed' = [Owed EXCEPT ![k] = OwedFor(d.queue)]
      /\ Serving' = Serving \ {k}
  BY <1>2, <1>3, DaemonSet
<1>5. Due' = Due /\ Owed' = Owed /\ Serving' = Serving
  BY <1>2, <1>3, <1>4, DaemonGet
<1>6. IInv'
  BY <1>2, <1>4 DEF IInv
<1>7. Listening' = Listening
  BY <1>2 DEF Listening, IInv
<1> QED  BY <1>2, <1>5, <1>6, <1>7 DEF Service!vars

\* A process that connects does not listen yet.
LEMMA ConnectStep ==
  ASSUME IInv, NEW p \in Subscribers, Connect(p)
  PROVE  IInv' /\ UNCHANGED Service!vars
<1>1. /\ store' = store /\ call' = call /\ got' = got /\ daemon' = daemon
      /\ proc[p] = "off"
      /\ \E now \in {"connected", "starting"} : proc' = [proc EXCEPT ![p] = now]
  BY DEF Connect
<1>2. IInv'
  BY <1>1 DEF IInv
<1>3. Listening' = Listening
  BY <1>1 DEF Listening, IInv
<1>4. Due' = Due /\ Owed' = Owed /\ Serving' = Serving
  BY <1>1 DEF Due, Owed, Serving
<1> QED  BY <1>1, <1>2, <1>3, <1>4 DEF Service!vars

\* A process starts to listen, or ends.
LEMMA ListenStep ==
  ASSUME IInv, NEW p \in Subscribers, Listen(p) \/ Leave(p)
  PROVE  IInv' /\ Service!Listen(p)
<1>1. /\ store' = store /\ call' = call /\ got' = got /\ daemon' = daemon
      /\ \E now \in {"listening", "off"} : proc' = [proc EXCEPT ![p] = now]
  BY DEF Listen, Leave
<1>2. IInv'
  BY <1>1 DEF IInv
<1>3. Listening' \in {Listening \cup {p}, Listening \ {p}}
  <2>1. CASE proc' = [proc EXCEPT ![p] = "listening"]
    <3>1. Listening' = Listening \cup {p}
      BY <2>1 DEF Listening, IInv
    <3> QED  BY <3>1
  <2>2. CASE proc' = [proc EXCEPT ![p] = "off"]
    <3>1. Listening' = Listening \ {p}
      BY <2>2 DEF Listening, IInv
    <3> QED  BY <3>1
  <2> QED  BY <1>1, <2>1, <2>2
<1>4. Due' = Due /\ Owed' = Owed /\ Serving' = Serving
  BY <1>1 DEF Due, Owed, Serving
<1> QED  BY <1>1, <1>2, <1>3, <1>4 DEF Service!Listen

\* In the beginning nothing is on, so nothing is owed.
LEMMA InitMaps == Init => IInv /\ Service!Init
<1> SUFFICES ASSUME Init PROVE IInv /\ Service!Init
  OBVIOUS
<1>1. /\ store = Loaded /\ call = [c \in Clients |-> NoCall]
      /\ daemon = [k \in Daemons |-> Off]
      /\ proc = [p \in Subscribers |-> "off"] /\ got = [p \in Subscribers |-> <<>>]
  BY DEF Init
<1>2. StoreOK(store)
  BY <1>1, LoadedAssumption DEF StoreOK, Key, Flag
<1>3. call \in [Clients -> Calls]
  BY <1>1 DEF Calls
<1>4. daemon \in [Daemons -> Instance]
  BY <1>1, OffOwesNothing
<1>5. \A p \in Subscribers : got[p] \in Received(p)
  BY <1>1 DEF Received
<1>6. IInv
  BY <1>1, <1>2, <1>3, <1>4, <1>5 DEF IInv
<1>7. Serving = {} /\ Listening = {}
  BY <1>1, OffOwesNothing DEF Serving, Listening
<1>8. \A k \in Daemons : OwedOf(daemon[k].todo, daemon[k].sent) = {} /\ OwedFor(daemon[k].queue) = <<>>
  BY <1>1, OffOwesNothing
<1>9. Due = [k \in Daemons |-> {}] /\ Owed = [k \in Daemons |-> <<>>]
  <2>1. /\ Due = [k \in Daemons |-> OwedOf(daemon[k].todo, daemon[k].sent)]
        /\ Owed = [k \in Daemons |-> OwedFor(daemon[k].queue)]
    BY DEF Due, Owed, OwedFor
  <2> QED  BY <1>8, <2>1
<1> QED  BY <1>1, <1>6, <1>7, <1>9 DEF Service!Init

\* Every step of the system is a step of the service, or none.
LEMMA NextMaps ==
  ASSUME IInv, [Next]_vars
  PROVE  IInv' /\ [Service!Next]_(Service!vars)
<1>1. CASE Write
  <2>0. StoreOK(store) /\ call \in [Clients -> Calls]
    BY DEF IInv
  <2>1. PICK new : Legal(new)
    BY <1>1, <2>0, WritesLegal
  <2>2. call' \in [Clients -> Calls]
    BY <1>1, <2>0, WritesLegal
  <2>3. IInv' /\ Service!Transact
    BY <2>1, <2>2, CommitStep
  <2> QED  BY <2>3 DEF Service!Next
<1>2. ASSUME NEW k \in Daemons, PluginWork(k) \/ PluginReady(k) \/ MainEnd(k)
      PROVE  IInv' /\ [Service!Next]_(Service!vars)
  <2>1. CASE PluginTake(k)
    BY <2>1, TakeStep DEF Service!Next
  <2>2. CASE PluginStep(k)
    BY <2>2, StepStep DEF Service!Next
  <2>3. CASE PluginReady(k)
    BY <2>3, ReadyStep DEF Service!Next
  <2>4. CASE MainEnd(k)
    BY <2>4, EndStep DEF Service!Next
  <2> QED  BY <1>2, <2>1, <2>2, <2>3, <2>4 DEF PluginWork
<1>3. ASSUME NEW p \in Subscribers,
             Connect(p) \/ (\E k \in Daemons : StartDaemon(p, k)) \/ Listen(p) \/ Leave(p)
      PROVE  IInv' /\ [Service!Next]_(Service!vars)
  <2>1. CASE Connect(p)
    BY <2>1, ConnectStep
  <2>2. CASE \E k \in Daemons : StartDaemon(p, k)
    BY <2>2, StartStep
  <2>3. CASE Listen(p) \/ Leave(p)
    BY <2>3, ListenStep DEF Service!Next
  <2> QED  BY <1>3, <2>1, <2>2, <2>3
<1>4. CASE UNCHANGED vars
  <2>1. /\ store' = store /\ call' = call /\ got' = got /\ daemon' = daemon /\ proc' = proc
    BY <1>4 DEF vars
  <2>2. IInv'
    BY <2>1 DEF IInv
  <2>3. Due' = Due /\ Owed' = Owed /\ Serving' = Serving /\ Listening' = Listening
    BY <2>1 DEF Due, Owed, Serving, Listening
  <2> QED  BY <2>1, <2>2, <2>3 DEF Service!vars
<1> QED  BY <1>1, <1>2, <1>3, <1>4 DEF Next

(***************************************************************************)
(* The theorems                                                            *)
(***************************************************************************)

\* The invariant holds: modules have flags, a transaction in a queue has one
\* change for a leaf, and a callback gets what its mask has.
THEOREM Invariance == Spec => []IInv
<1>1. Init => IInv
  BY InitMaps
<1>2. IInv /\ [Next]_vars => IInv'
  BY NextMaps
<1> QED  BY <1>1, <1>2, PTL DEF Spec

\* Every variable stays in its range, and a callback only receives events that
\* are in the mask of its module.
THEOREM TypeCorrect == Spec => []TypeOK
<1>1. IInv => TypeOK
  <2> SUFFICES ASSUME IInv PROVE TypeOK
    OBVIOUS
  <2>1. Stored \subseteq Leaves /\ \A l \in Stored : store[l] \in 0..2
    BY DEF IInv, StoreOK, Stored
  <2>2. ASSUME NEW c \in Clients PROVE call[c].kind \in {"none", "module", "app"}
    <3>1. call[c] \in Calls
      BY DEF IInv
    <3> QED  BY <3>1 DEF Calls, NoCall
  <2>3. ASSUME NEW k \in Daemons
        PROVE  /\ daemon[k].pc \in {"off", "booting", "ready", "gone"}
               /\ daemon[k].todo \subseteq Change
               /\ \A n \in 1..Len(daemon[k].queue) : daemon[k].queue[n] \subseteq Change
               /\ daemon[k].sent \subseteq Types
    <3>1. daemon[k] \in Instance
      BY DEF IInv
    <3>2. /\ daemon[k].pc \in {"off", "booting", "ready", "gone"}
          /\ daemon[k].queue \in Seq(Transactions)
          /\ daemon[k].todo \in Transactions /\ daemon[k].sent \in SUBSET Types
      BY <3>1 DEF Instance
    <3>3. \A n \in 1..Len(daemon[k].queue) : daemon[k].queue[n] \in Transactions
      BY <3>2
    <3> QED  BY <3>2, <3>3 DEF Transactions
  <2>4. proc \in [Subscribers -> {"off", "starting", "connected", "listening"}]
    BY DEF IInv
  <2>5. ASSUME NEW p \in Subscribers, NEW n \in 1..Len(got[p])
        PROVE  got[p][n][1] \in Mask[p]
    <3>1. got[p] \in Seq(Mask[p] \X Entries)
      BY DEF IInv, Received
    <3>2. got[p][n] \in Mask[p] \X Entries
      BY <3>1
    <3> QED  BY <3>2
  <2> QED  BY <2>1, <2>2, <2>3, <2>4, <2>5 DEF TypeOK
<1> QED  BY <1>1, Invariance, PTL

\* The plugin keeps the safety part of the promise of EventService: it starts
\* as the service does, and each step of a writer, a daemon or a process is a
\* step of the service, or none that the service sees.  So no event is sent
\* that no transaction owes, none twice by a daemon, and none out of the order
\* of the transactions, which may hold the edits of two calls.  What the
\* documentation has and the service withholds is in EventService: the three
\* types that are never sent, a flag set at creation, data and parameters taken
\* away, and all events of a type but one.
THEOREM ServiceIsImplemented ==
  Spec => Service!Init /\ [][Service!Next]_(Service!vars)
<1>1. Init => Service!Init
  BY InitMaps
<1>2. IInv /\ [Next]_vars => [Service!Next]_(Service!vars)
  BY NextMaps
<1> QED  BY <1>1, <1>2, Invariance, PTL DEF Spec
=============================================================================
