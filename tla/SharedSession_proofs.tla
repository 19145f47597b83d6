------------------------ MODULE SharedSession_proofs ------------------------
(***************************************************************************)
(* What a call that shares its session with other threads leaves behind,   *)
(* for any number of threads, ids and calls.                               *)
(***************************************************************************)
EXTENDS SharedSession, FiniteSetTheorems, SequenceTheorems, TLAPS

(***************************************************************************)
(* Types                                                                   *)
(***************************************************************************)
To == {"rc", "ret"}
Results == {"ok", "err"}
Kinds ==
  {"request", "delete", "app", "remove", "topology", "attributes", "images", "apps", "read"}
Ons == Streams \cup Apps \cup {"graph", "device", "all", "mask"}
Ops ==
  [op : {"put"}, del : SUBSET Facts, add : SUBSET Facts, to : To]
    \cup [op : {"refused", "apply", "unset", "copy"}, to : To]
    \cup [op : {"test"}, to : To, skip : Nat]
Calls ==
  [kind : Kinds, n : Nat, ops : Seq(Ops), pc : Nat \ {0}, ret : Results, back : To]
Told ==
  [kind : {"none"}, result : {"none"}]
    \cup [kind : Kinds, on : Ons, result : {"none", "ok", "fail"}, stale : Results]
Sessions == [del : SUBSET Facts, add : SUBSET Facts, by : SUBSET (1..MaxCalls)]

TypeInv ==
  /\ store \in SUBSET Facts /\ Valid(store)
  /\ pend \in [Procs -> Sessions]
  /\ rc \in [Procs -> Results]
  /\ run \in [Threads -> {Idle} \cup Calls]
  /\ told \in [1..MaxCalls -> Told]
  /\ Begun \in 0..MaxCalls /\ {n \in 1..MaxCalls : told[n].kind # "none"} = 1..Begun
  /\ \A t \in Threads : run[t] # Idle => run[t].n \in 1..Begun
  /\ \A p \in Procs : pend[p].by \subseteq 1..Begun
  /\ shared \subseteq 1..Begun

(***************************************************************************)
(* Programs: the steps of the calls                                        *)
(***************************************************************************)
RequestOps(s, refused) ==
  <<Put({}, Stream(s), "rc"), Test("rc", 5),
    PutOrNot({}, Stream(s) \cup Talker(s), "rc", refused # "talker"), Test("rc", 3),
    PutOrNot({}, OfStream(s), "rc", refused # "rest"), Test("rc", 1), Apply("rc")>>
DeleteOps(s, found) ==
  (IF found = {} THEN <<>> ELSE <<Put(found, {}, "rc"), Test("rc", 3)>>)
    \o <<Put(OfStream(s), {}, "rc"), Test("rc", 1), Apply("rc")>>
SetOps(a, image, S, good) == WriteApp(a, image, S, good) \o <<Test("ret", 1), Apply("ret")>>
UpdateOps(a, image, S, good) ==
  WriteApp(a, image, S, good) \o <<Copy, Test("rc", 1), Apply("rc")>>
RemoveOps(a) == <<Put(OfApp(a), {}, "ret"), Test("ret", 1), Apply("ret")>>
TopologyOps(T, good) ==
  <<Put(Topology, {}, "rc"), Test("rc", 3),
    PutOrNot({}, T, "rc", good), Test("rc", 1), Apply("rc")>>
DeviceOps(good) == <<PutOrNot({}, Topology, "rc", good), Test("rc", 1), Apply("rc")>>
AttributesOps ==
  <<Put({}, Attributes, "rc"), Test("rc", 3),
    Put({}, Attributes, "rc"), Test("rc", 1), Apply("rc")>>
MaskOps == <<Put({}, Attributes, "rc")>>
ImagesOps(I) ==
  <<Put(Image(Images), {}, "ret"), Test("ret", 3),
    Put({}, Image(I), "ret"), Test("rc", 1), Apply("ret")>>
AppsOps(a, i, good) ==
  <<Put(UNION {OfApp(x) : x \in Apps}, {}, "ret"), Test("ret", 12)>>
    \o WriteApp(a, {i}, {}, good) \o <<Test("rc", 1), Apply("ret")>>
ReadOps == <<Unset("rc")>>

MapsTo(s) == {f \in Facts : f[1] = "maps" /\ f[3] = s}
Imaged == {{}} \cup {{i} : i \in Images}

\* The calls a thread may be in: kind, what for, steps, result.
Program(t, kind, on, ops, back) ==
  \/ /\ kind = "request" /\ on \in Streams /\ back = "rc" /\ t \in RestThreads
     /\ \E refused \in {"talker", "rest", "nothing"} : ops = RequestOps(on, refused)
  \/ /\ kind = "delete" /\ on \in Streams /\ back = "rc" /\ t \in RestThreads
     /\ \E found \in SUBSET MapsTo(on) : ops = DeleteOps(on, found)
  \/ /\ kind = "app" /\ on \in Apps /\ t \in RestThreads
     /\ \E image \in Imaged, S \in SUBSET Streams, good \in BOOLEAN :
          \/ back = "ret" /\ ops = SetOps(on, image, S, good)
          \/ back = "rc" /\ ops = UpdateOps(on, image, S, good)
  \/ kind = "remove" /\ on \in Apps /\ back = "ret" /\ t \in RestThreads /\ ops = RemoveOps(on)
  \/ /\ kind = "topology" /\ on \in {"graph", "device"} /\ back = "rc" /\ t \in RestThreads
     /\ \E good \in BOOLEAN :
          \/ \E T \in {{}, Topology} : ops = TopologyOps(T, good)
          \/ ops = DeviceOps(good)
  \/ /\ kind = "attributes" /\ back = "rc" /\ t \in RestThreads
     /\ \/ on = "all" /\ ops = AttributesOps
        \/ on = "mask" /\ ops = MaskOps
  \/ /\ kind = "images" /\ on = "all" /\ back = "ret" /\ t = Container
     /\ \E I \in SUBSET Images : ops = ImagesOps(I)
  \/ /\ kind = "apps" /\ on = "all" /\ back = "ret" /\ t = Container
     /\ \E a \in Apps, i \in Images, good \in BOOLEAN : ops = AppsOps(a, i, good)
  \/ kind = "read" /\ on = "all" /\ back = "rc" /\ t = Container /\ ops = ReadOps


(***************************************************************************)
(* The calls and the sessions                                              *)
(***************************************************************************)
On(t) == told[run[t].n].on
Value(t) == IF run[t].back = "rc" THEN rc[Home(t)] ELSE run[t].ret
Ended(t) == run[t].pc > Len(run[t].ops)
Alone(t) == run[t] # Idle /\ run[t].n \notin shared

\* The calls that run are different ones and have not returned, a session holds
\* changes of its own process only, and a call that is not shared runs alone.
CallInv ==
  /\ \A t \in Threads : run[t] # Idle =>
       /\ told[run[t].n].kind = run[t].kind /\ told[run[t].n].result = "none"
       /\ Program(t, run[t].kind, On(t), run[t].ops, run[t].back)
       /\ \A u \in Threads : run[u] # Idle /\ run[u].n = run[t].n => u = t
       /\ \A p \in Procs : run[t].n \in pend[p].by => p = Home(t)
  /\ \A t \in Threads : Alone(t) => Mates(t) = {}
  /\ \A p \in Procs : pend[p].by = {} => pend[p] = Empty

(***************************************************************************)
(* Success is commitment                                                   *)
(***************************************************************************)

\* Calls that may report success with changes left in the session.
Excepted(record) ==
  \/ record.kind = "apps"
  \/ record.on = "mask"
  \/ record.kind = "images" /\ record.stale = "err"

\* The calls that are alone, at their end or with a variable nobody else sets.
CommitInv ==
  /\ \A t \in Threads : Alone(t) =>
       /\ Ended(t) /\ Value(t) = "ok" /\ run[t].n \in pend[Home(t)].by => Excepted(told[run[t].n])
       /\ run[t].kind = "images" => rc[Home(t)] = told[run[t].n].stale
       /\ run[t].kind = "read" => run[t].n \notin pend[Home(t)].by
  /\ OkIsCommitted

(***************************************************************************)
(* Whole requests and parameters                                           *)
(***************************************************************************)
WholeStream(S, s) == Stream(s) \subseteq S => Request(s) \subseteq S
WholeApp(S, a) == App(a) \subseteq S => Params(a) \subseteq S

\* Calls after which a stream need not be whole, or an application.
Halved(s) ==
  \E n \in DOMAIN told :
    told[n].kind = "request" /\ told[n].on = s /\ (told[n].result = "fail" \/ n \in shared)
Discovered == \E n \in DOMAIN told : told[n].kind = "apps"
Stripped(a) ==
  \E n \in DOMAIN told :
    told[n].kind = "app" /\ told[n].on = a /\ (told[n].result = "fail" \/ n \in shared)

\* The call t is alone and writes the stream s, or the application a.
Requests(t, s) == Alone(t) /\ run[t].kind = "request" /\ On(t) = s
Writes(t, a) == Alone(t) /\ run[t].kind = "app" /\ On(t) = a

\* What it has in its session may lack the request, or the parameters.
Half(t) ==
  \/ run[t].pc \in 2..5
  \/ run[t].pc \in {6, 8} /\ rc[Home(t)] = "err"
Bare(t) ==
  \/ run[t].pc \in 2..8
  \/ run[t].pc = 11 /\ run[t].ret = "err"
  \/ run[t].back = "rc" /\ run[t].pc \in {12, 14} /\ rc[Home(t)] = "err"
  \/ run[t].back = "ret" /\ run[t].pc = 13 /\ run[t].ret = "err"

\* The session of the ContainerModule has no streams in it, and before the first
\* discovery no applications.
ContainerInv ==
  LET session == pend["container"].del \cup pend["container"].add IN
  /\ \A s \in Streams : session \cap (Stream(s) \cup Request(s)) = {}
  /\ \A s \in Streams : pend["container"].add \cap MapsTo(s) = {}
  /\ \/ Discovered
     \/ \A a \in Apps : session \cap (App(a) \cup Params(a)) = {}

KeptStream(s) ==
  /\ WholeStream(store, s)
  /\ \/ WholeStream(View("rest"), s)
     \/ \E t \in RestThreads : Requests(t, s) /\ Half(t)
StreamInv == \A s \in Streams : ~Halved(s) => KeptStream(s)

KeptApp(a) ==
  /\ \/ WholeApp(store, a)
     \/ \E t \in RestThreads : Writes(t, a) /\ ~(Ended(t) /\ Value(t) = "ok")
  /\ \/ WholeApp(View("rest"), a)
     \/ \E t \in RestThreads : Writes(t, a) /\ Bare(t)
  /\ \A t \in RestThreads :
       Writes(t, a) /\ run[t].pc \in {9, 10} => Params(a) \subseteq View("rest")
AppInv ==
  /\ \A t \in RestThreads : Alone(t) /\ run[t].kind = "app" /\ run[t].pc = 6 => rc[Home(t)] = "ok"
  /\ \A a \in Apps : ~Discovered /\ ~Stripped(a) => KeptApp(a)

(***************************************************************************)
(* Refusals                                                                *)
(***************************************************************************)

\* Facts nothing refers to, and facts that refer to nothing.
Loose == {f \in Facts : f[1] \notin {"image", "stream", "talker"}}
Plain == {f \in Facts : f[1] \notin {"ref", "maps", "stream"}}

\* What a call alone has put into a session that was empty: a request its stream,
\* with the talker from its third step on,
RequestSession(t) ==
  LET session == pend[Home(t)] IN
  /\ session.del = {} /\ session.add \subseteq OfStream(On(t))
  /\ \/ Talker(On(t)) \subseteq session.add
     \/ run[t].pc \in {1, 2, 3, 8}
     \/ run[t].pc = 4 /\ rc[Home(t)] = "err"
\* a deletion what its puts so far remove, which are for all mappings there are,
DeleteSession(t) ==
  LET session == pend[Home(t)] IN
  /\ session.add = {} /\ session.del \subseteq OfStream(On(t)) \cup MapsTo(On(t))
  /\ ~Ended(t) =>
       /\ \A i \in 1..run[t].pc - 1 :
            run[t].ops[i].op = "put" => run[t].ops[i].del \subseteq session.del
       /\ \A f \in store \cap MapsTo(On(t)) :
            \E i \in 1..Len(run[t].ops) :
              run[t].ops[i].op = "put" /\ f \in run[t].ops[i].del
\* and other calls nothing that a reference begins or ends at.
LooseSession(t) == pend[Home(t)].del \subseteq Loose /\ pend[Home(t)].add \subseteq Plain

SessionOf(t) ==
  /\ run[t].kind = "request" => RequestSession(t)
  /\ run[t].kind = "delete" => DeleteSession(t)
  /\ run[t].kind \in {"remove", "topology", "attributes"} => LooseSession(t)

RefusalInv ==
  \A t \in RestThreads : Alone(t) /\ pend[Home(t)].by \subseteq {run[t].n} => SessionOf(t)

(***************************************************************************)
(* Facts                                                                   *)
(***************************************************************************)

\* The parts of streams and applications are facts.
LEMMA PartsAreFacts ==
  /\ \A s \in Streams :
       /\ Stream(s) \subseteq Facts /\ Talker(s) \subseteq Facts /\ Request(s) \subseteq Facts
       /\ OfStream(s) = Stream(s) \cup Talker(s) \cup Request(s) /\ MapsTo(s) \subseteq Facts
  /\ \A a \in Apps :
       /\ OfApp(a) = App(a) \cup Params(a) \cup Refs(a) \cup Maps(a, Streams)
       /\ OfApp(a) \subseteq Facts
       /\ \A S \in SUBSET Streams : Maps(a, S) \subseteq Facts
  /\ \A I \in SUBSET Images : Image(I) \subseteq Facts
  /\ Topology \subseteq Facts /\ Attributes \subseteq Facts
<1>1. /\ UNION {OfApp(a) : a \in Apps} \subseteq Facts /\ Image(Images) \subseteq Facts
      /\ Topology \subseteq Facts /\ Attributes \subseteq Facts
      /\ UNION {OfStream(s) : s \in Streams} \subseteq Facts
  <2> DEFINE A == UNION {OfApp(a) : a \in Apps}
             S == UNION {OfStream(s) : s \in Streams}
  <2>1. Facts = A \cup Image(Images) \cup Topology \cup Attributes \cup S
    BY DEF Facts
  <2> HIDE DEF A, S
  <2>2. /\ A \subseteq Facts /\ Image(Images) \subseteq Facts /\ Topology \subseteq Facts
        /\ Attributes \subseteq Facts /\ S \subseteq Facts
    BY <2>1
  <2>3. QED
    BY <2>2 DEF A, S
<1>2. (\A a \in Apps : OfApp(a) \subseteq Facts) /\ (\A s \in Streams : OfStream(s) \subseteq Facts)
  BY <1>1
<1>3. \A I \in SUBSET Images : Image(I) \subseteq Image(Images)
  BY DEF Image
<1>4. \A a \in Apps, S \in SUBSET Streams : Maps(a, S) \subseteq Maps(a, Streams)
  BY DEF Maps
<1>5. \A a \in Apps : OfApp(a) = App(a) \cup Params(a) \cup Refs(a) \cup Maps(a, Streams)
  BY DEF OfApp
<1>6. \A s \in Streams : OfStream(s) = Stream(s) \cup Talker(s) \cup Request(s)
  BY DEF OfStream
<1>7. QED
  BY <1>1, <1>2, <1>3, <1>4, <1>5, <1>6 DEF MapsTo

\* The first component of a fact tells which it is, the second whose.
LEMMA TagsOfFacts ==
  /\ \A s : \A f \in Stream(s) : f[1] = "stream" /\ f[2] = s
  /\ \A s : \A f \in Talker(s) : f[1] = "talker" /\ f[2] = s
  /\ \A s : \A f \in Request(s) : f[1] = "request" /\ f[2] = s
  /\ \A a : \A f \in App(a) : f[1] = "app" /\ f[2] = a
  /\ \A a : \A f \in Params(a) : f[1] = "params" /\ f[2] = a
  /\ \A a : \A f \in Refs(a) : f[1] = "ref"
  /\ \A a, S : \A f \in Maps(a, S) : f[1] = "maps" /\ f[3] \in S
  /\ \A I : \A f \in Image(I) : f[1] = "image"
  /\ \A f \in Topology : f[1] = "topology"
  /\ \A f \in Attributes : f[1] = "attributes"
<1>1. \A s : \A f \in Stream(s) : f[1] = "stream" /\ f[2] = s
  BY DEF Stream
<1>2. \A s : \A f \in Talker(s) : f[1] = "talker" /\ f[2] = s
  BY DEF Talker
<1>3. \A s : \A f \in Request(s) : f[1] = "request" /\ f[2] = s
  BY DEF Request
<1>4. \A a : \A f \in App(a) : f[1] = "app" /\ f[2] = a
  BY DEF App
<1>5. \A a : \A f \in Params(a) : f[1] = "params" /\ f[2] = a
  BY DEF Params
<1>6. \A a : \A f \in Refs(a) : f[1] = "ref"
  BY DEF Refs
<1>7. \A a, S : \A f \in Maps(a, S) : f[1] = "maps" /\ f[3] \in S
  BY DEF Maps
<1>8. \A I : \A f \in Image(I) : f[1] = "image"
  BY DEF Image
<1>9. (\A f \in Topology : f[1] = "topology") /\ (\A f \in Attributes : f[1] = "attributes")
  BY DEF Topology, Attributes
<1>10. QED
  BY <1>1, <1>2, <1>3, <1>4, <1>5, <1>6, <1>7, <1>8, <1>9

\* Every step of a program is one of the steps a call can take.
LEMMA StepsAreTyped ==
  /\ \A D, F \in SUBSET Facts, to \in To, good \in BOOLEAN :
       Put(D, F, to) \in Ops /\ PutOrNot(D, F, to, good) \in Ops
  /\ \A to \in To : Refused(to) \in Ops /\ Apply(to) \in Ops /\ Unset(to) \in Ops
  /\ \A to \in To, skip \in Nat : Test(to, skip) \in Ops
  /\ Copy \in Ops
  /\ "rc" \in To /\ "ret" \in To
<1>1. \A D, F \in SUBSET Facts, to \in To : Put(D, F, to) \in Ops
  BY DEF Ops, Put
<1>2. \A to \in To : Refused(to) \in Ops /\ Apply(to) \in Ops /\ Unset(to) \in Ops
  BY DEF Ops, Refused, Apply, Unset
<1>3. \A to \in To, skip \in Nat : Test(to, skip) \in Ops
  BY DEF Ops, Test
<1>4. Copy \in Ops
  BY DEF Ops, Copy, To
<1>5. QED
  BY <1>1, <1>2, <1>3, <1>4 DEF PutOrNot, To

\* The ten steps that write an application.
TenSteps(w, a, image, S, good) ==
  /\ w \in Seq(Ops) /\ Len(w) = 10
  /\ w[1] = Put({}, App(a), "ret") /\ w[2] = Test("ret", 8)
  /\ w[3] = PutOrNot(IF image = {} THEN {} ELSE Refs(a),
                     App(a) \cup {f \in Refs(a) : f[3] \in image}, "ret", good)
  /\ w[4] = Test("ret", 6)
  /\ w[5] = Put(Params(a), {}, "rc") /\ w[6] = Test("rc", 4) /\ w[7] = Apply("rc")
  /\ w[8] = Put({}, App(a) \cup Params(a), "ret") /\ w[9] = Test("ret", 1)
  /\ w[10] = IF S = {} THEN Unset("rc") ELSE Put({}, App(a) \cup Maps(a, S), "rc")

\* What follows them when an application is set or updated, and what is around
\* them when one is discovered.
SetSteps(w, v) ==
  /\ w \in Seq(Ops) /\ Len(w) = 12 /\ \A i \in 1..10 : w[i] = v[i]
  /\ w[11] = Test("ret", 1) /\ w[12] = Apply("ret")
UpdateSteps(w, v) ==
  /\ w \in Seq(Ops) /\ Len(w) = 13 /\ \A i \in 1..10 : w[i] = v[i]
  /\ w[11] = Copy /\ w[12] = Test("rc", 1) /\ w[13] = Apply("rc")
AppsSteps(w, v) ==
  /\ w \in Seq(Ops) /\ Len(w) = 14
  /\ w[1] = Put(UNION {OfApp(x) : x \in Apps}, {}, "ret") /\ w[2] = Test("ret", 12)
  /\ \A j \in 3..12 : w[j] = v[j - 2]
  /\ w[13] = Test("rc", 1) /\ w[14] = Apply("ret")

\* _write_app takes ten steps.
LEMMA WriteAppIs ==
  ASSUME NEW a \in Apps, NEW image \in Imaged, NEW S \in SUBSET Streams, NEW good \in BOOLEAN
  PROVE  TenSteps(WriteApp(a, image, S, good), a, image, S, good)
<1> DEFINE w == WriteApp(a, image, S, good)
<1> DEFINE D == IF image = {} THEN {} ELSE Refs(a)
           F == App(a) \cup {f \in Refs(a) : f[3] \in image}
           o3 == PutOrNot(D, F, "ret", good)
           o10 == IF S = {} THEN Unset("rc") ELSE Put({}, App(a) \cup Maps(a, S), "rc")
<1>1. D \in SUBSET Facts /\ F \in SUBSET Facts /\ App(a) \in SUBSET Facts
      /\ Params(a) \in SUBSET Facts /\ Maps(a, S) \in SUBSET Facts /\ {} \in SUBSET Facts
  BY PartsAreFacts
<1> HIDE DEF D, F
<1>2. o3 \in Ops /\ o10 \in Ops
  BY <1>1, StepsAreTyped
<1>3. w = <<Put({}, App(a), "ret"), Test("ret", 8), o3, Test("ret", 6),
            Put(Params(a), {}, "rc"), Test("rc", 4), Apply("rc"),
            Put({}, App(a) \cup Params(a), "ret"), Test("ret", 1), o10>>
  BY DEF WriteApp, D, F
<1> HIDE DEF o3, o10, w
<1>4. /\ Put({}, App(a), "ret") \in Ops /\ Put(Params(a), {}, "rc") \in Ops
      /\ Put({}, App(a) \cup Params(a), "ret") \in Ops
      /\ Test("ret", 8) \in Ops /\ Test("ret", 6) \in Ops /\ Test("rc", 4) \in Ops
      /\ Apply("rc") \in Ops /\ Test("ret", 1) \in Ops
  BY <1>1, StepsAreTyped
<1>5. w \in Seq(Ops)
  BY <1>2, <1>3, <1>4
<1>6. Len(w) = 10
  BY <1>3
<1>7. w[10] = o10 /\ w[3] = o3
  BY <1>3
<1>8. QED
  BY <1>3, <1>5, <1>6, <1>7 DEF o3, o10, D, F, w, TenSteps

\* Two parts of a program, one after the other.
Join(w, u, v, m, n) ==
  /\ w \in Seq(Ops) /\ Len(w) = m + n
  /\ \A i \in 1..m : w[i] = u[i]
  /\ \A i \in 1..n : w[m + i] = v[i]
\* The concatenation of two sequences of steps is that.
LEMMA Joined ==
  ASSUME NEW u \in Seq(Ops), NEW v \in Seq(Ops), NEW m \in Nat, NEW n \in Nat,
         Len(u) = m, Len(v) = n
  PROVE  Join(u \o v, u, v, m, n)
<1>1. u \o v \in Seq(Ops) /\ Len(u \o v) = m + n
  BY ConcatProperties
<1>2. ASSUME NEW i \in 1..m PROVE (u \o v)[i] = u[i]
  BY ConcatProperties, i \in 1..Len(u) + Len(v), i <= Len(u)
<1>3. ASSUME NEW i \in 1..n PROVE (u \o v)[m + i] = v[i]
  BY ConcatProperties, m + i \in 1..Len(u) + Len(v), ~(m + i <= Len(u)), m + i - m = i
<1>4. QED
  BY <1>1, <1>2, <1>3 DEF Join

\* The seven steps that write a request.
LEMMA RequestIs ==
  ASSUME NEW s \in Streams, NEW refused, NEW w, w = RequestOps(s, refused)
  PROVE  /\ w \in Seq(Ops) /\ Len(w) = 7
         /\ w[1] = Put({}, Stream(s), "rc") /\ w[2] = Test("rc", 5)
         /\ w[3] = PutOrNot({}, Stream(s) \cup Talker(s), "rc", refused # "talker")
         /\ w[4] = Test("rc", 3)
         /\ w[5] = PutOrNot({}, OfStream(s), "rc", refused # "rest")
         /\ w[6] = Test("rc", 1) /\ w[7] = Apply("rc")
<1>1. /\ Stream(s) \in SUBSET Facts /\ Stream(s) \cup Talker(s) \in SUBSET Facts
      /\ OfStream(s) \in SUBSET Facts /\ {} \in SUBSET Facts
  BY PartsAreFacts
<1> DEFINE o3 == PutOrNot({}, Stream(s) \cup Talker(s), "rc", refused # "talker")
           o5 == PutOrNot({}, OfStream(s), "rc", refused # "rest")
<1>2. /\ Put({}, Stream(s), "rc") \in Ops /\ o3 \in Ops /\ o5 \in Ops
      /\ Test("rc", 5) \in Ops /\ Test("rc", 3) \in Ops /\ Test("rc", 1) \in Ops
      /\ Apply("rc") \in Ops
  BY <1>1, StepsAreTyped
<1>3. w = <<Put({}, Stream(s), "rc"), Test("rc", 5), o3, Test("rc", 3), o5, Test("rc", 1),
            Apply("rc")>>
  BY DEF RequestOps
<1> HIDE DEF o3, o5
<1>4. w \in Seq(Ops) /\ Len(w) = 7
  BY <1>2, <1>3
<1>5. w[3] = o3 /\ w[5] = o5
  BY <1>3
<1>6. QED
  BY <1>3, <1>4, <1>5 DEF o3, o5

\* The steps that delete a stream, with mappings found and without.
LEMMA DeleteIs ==
  ASSUME NEW s \in Streams, NEW found \in SUBSET MapsTo(s), NEW w, w = DeleteOps(s, found)
  PROVE  /\ w \in Seq(Ops)
         /\ found = {} =>
              /\ Len(w) = 3
              /\ w[1] = Put(OfStream(s), {}, "rc") /\ w[2] = Test("rc", 1) /\ w[3] = Apply("rc")
         /\ found # {} =>
              /\ Len(w) = 5
              /\ w[1] = Put(found, {}, "rc") /\ w[2] = Test("rc", 3)
              /\ w[3] = Put(OfStream(s), {}, "rc") /\ w[4] = Test("rc", 1) /\ w[5] = Apply("rc")
<1>1. OfStream(s) \in SUBSET Facts /\ found \in SUBSET Facts /\ {} \in SUBSET Facts
  BY PartsAreFacts
<1>2. /\ Put(OfStream(s), {}, "rc") \in Ops /\ Put(found, {}, "rc") \in Ops
      /\ Test("rc", 1) \in Ops /\ Test("rc", 3) \in Ops /\ Apply("rc") \in Ops
  BY <1>1, StepsAreTyped
<1>3. CASE found = {}
  <2>1. w = <<>> \o <<Put(OfStream(s), {}, "rc"), Test("rc", 1), Apply("rc")>>
    BY <1>3 DEF DeleteOps
  <2>2. w = <<Put(OfStream(s), {}, "rc"), Test("rc", 1), Apply("rc")>>
    BY <2>1, <1>2, ConcatEmptySeq
  <2>3. QED
    BY <2>2, <1>2, <1>3
<1>4. CASE found # {}
  <2>1. w = <<Put(found, {}, "rc"), Test("rc", 3)>>
              \o <<Put(OfStream(s), {}, "rc"), Test("rc", 1), Apply("rc")>>
    BY <1>4 DEF DeleteOps
  <2> DEFINE w1 == <<Put(found, {}, "rc"), Test("rc", 3)>>
             w2 == <<Put(OfStream(s), {}, "rc"), Test("rc", 1), Apply("rc")>>
  <2>2. w1 \in Seq(Ops) /\ w2 \in Seq(Ops) /\ Len(w1) = 2 /\ Len(w2) = 3
    BY <1>2
  <2>3. /\ w1[1] = Put(found, {}, "rc") /\ w1[2] = Test("rc", 3)
        /\ w2[1] = Put(OfStream(s), {}, "rc") /\ w2[2] = Test("rc", 1) /\ w2[3] = Apply("rc")
    OBVIOUS
  <2>4. w = w1 \o w2
    BY <2>1
  <2> HIDE DEF w1, w2
  <2>5. Join(w, w1, w2, 2, 3)
    BY <2>2, <2>4, Joined
  <2>6. /\ w \in Seq(Ops) /\ Len(w) = 5 /\ w[1] = w1[1] /\ w[2] = w1[2]
        /\ w[3] = w2[1] /\ w[4] = w2[2] /\ w[5] = w2[3]
    BY <2>5 DEF Join
  <2>7. QED
    BY <2>3, <2>6, <1>4
<1>5. QED
  BY <1>3, <1>4

\* Setting and updating an application add the steps that commit it.
LEMMA AppIs ==
  ASSUME NEW a \in Apps, NEW image \in Imaged, NEW S \in SUBSET Streams, NEW good \in BOOLEAN
  PROVE  /\ SetSteps(SetOps(a, image, S, good), WriteApp(a, image, S, good))
         /\ UpdateSteps(UpdateOps(a, image, S, good), WriteApp(a, image, S, good))
<1> DEFINE v == WriteApp(a, image, S, good)
<1>1. v \in Seq(Ops) /\ Len(v) = 10
  BY WriteAppIs DEF TenSteps
<1>2. /\ Test("ret", 1) \in Ops /\ Apply("ret") \in Ops /\ Copy \in Ops
      /\ Test("rc", 1) \in Ops /\ Apply("rc") \in Ops
  BY StepsAreTyped
<1> HIDE DEF v
<1>3. SetSteps(v \o <<Test("ret", 1), Apply("ret")>>, v)
  <2> DEFINE u == <<Test("ret", 1), Apply("ret")>>
  <2>1. u \in Seq(Ops) /\ Len(u) = 2 /\ u[1] = Test("ret", 1) /\ u[2] = Apply("ret")
    BY <1>2
  <2> HIDE DEF u
  <2> DEFINE w == v \o u
  <2>2. Join(w, v, u, 10, 2)
    BY <1>1, <2>1, Joined
  <2> HIDE DEF w
  <2>3. w \in Seq(Ops) /\ Len(w) = 12 /\ w[11] = u[1] /\ w[12] = u[2] /\ \A i \in 1..10 : w[i] = v[i]
    BY <2>2 DEF Join
  <2>4. SetSteps(v \o u, v)
    BY <2>1, <2>3 DEF SetSteps, w
  <2>5. QED
    BY <2>4 DEF u
<1>4. UpdateSteps(v \o <<Copy, Test("rc", 1), Apply("rc")>>, v)
  <2> DEFINE u == <<Copy, Test("rc", 1), Apply("rc")>>
  <2>1. u \in Seq(Ops) /\ Len(u) = 3
    BY <1>2
  <2>2. u[1] = Copy /\ u[2] = Test("rc", 1) /\ u[3] = Apply("rc")
    OBVIOUS
  <2> HIDE DEF u
  <2> DEFINE w == v \o u
  <2>3. Join(w, v, u, 10, 3)
    BY <1>1, <2>1, Joined
  <2> HIDE DEF w
  <2>4. /\ w \in Seq(Ops) /\ Len(w) = 13 /\ w[11] = u[1] /\ w[12] = u[2] /\ w[13] = u[3]
        /\ \A i \in 1..10 : w[i] = v[i]
    BY <2>3 DEF Join
  <2>5. UpdateSteps(v \o u, v)
    BY <2>2, <2>4 DEF UpdateSteps, w
  <2>6. QED
    BY <2>5 DEF u
<1>5. QED
  BY <1>3, <1>4 DEF SetOps, UpdateOps, v

\* Discovering an application removes all others first.
LEMMA AppsIs ==
  ASSUME NEW a \in Apps, NEW image \in Images, NEW good \in BOOLEAN
  PROVE  AppsSteps(AppsOps(a, image, good), WriteApp(a, {image}, {}, good))
<1> DEFINE v == WriteApp(a, {image}, {}, good)
<1>1. v \in Seq(Ops) /\ Len(v) = 10
  <2>1. {image} \in Imaged /\ {} \in SUBSET Streams
    BY DEF Imaged
  <2>2. QED
    BY <2>1, WriteAppIs DEF TenSteps
<1> DEFINE D == UNION {OfApp(x) : x \in Apps}
<1>2. D \in SUBSET Facts
  BY PartsAreFacts
<1>3. AppsOps(a, image, good)
        = (<<Put(D, {}, "ret"), Test("ret", 12)>> \o v) \o <<Test("rc", 1), Apply("ret")>>
  BY DEF AppsOps
<1> HIDE DEF D, v
<1>4. /\ Put(D, {}, "ret") \in Ops /\ Test("ret", 12) \in Ops
      /\ Test("rc", 1) \in Ops /\ Apply("ret") \in Ops
  BY <1>2, StepsAreTyped
<1> DEFINE u == <<Put(D, {}, "ret"), Test("ret", 12)>>
           x == <<Test("rc", 1), Apply("ret")>>
           y == u \o v
           w == y \o x
<1>5. /\ u \in Seq(Ops) /\ Len(u) = 2 /\ u[1] = Put(D, {}, "ret") /\ u[2] = Test("ret", 12)
      /\ x \in Seq(Ops) /\ Len(x) = 2 /\ x[1] = Test("rc", 1) /\ x[2] = Apply("ret")
  BY <1>4
<1>6. AppsOps(a, image, good) = w
  BY <1>3
<1> HIDE DEF u, x
<1>7. Join(y, u, v, 2, 10)
  BY <1>1, <1>5, Joined
<1> HIDE DEF y
<1>8. /\ y \in Seq(Ops) /\ Len(y) = 12 /\ y[1] = u[1] /\ y[2] = u[2]
      /\ \A j \in 3..12 : y[j] = v[j - 2]
  <2>1. \A i \in 1..10 : y[2 + i] = v[i]
    BY <1>7 DEF Join
  <2>2. ASSUME NEW j \in 3..12 PROVE y[j] = v[j - 2]
    BY <2>1, j - 2 \in 1..10, 2 + (j - 2) = j
  <2>3. QED
    BY <1>7, <2>2 DEF Join
<1>9. Join(w, y, x, 12, 2)
  BY <1>5, <1>8, Joined
<1> HIDE DEF w
<1>10. w \in Seq(Ops) /\ Len(w) = 14 /\ w[13] = x[1] /\ w[14] = x[2] /\ \A i \in 1..12 : w[i] = y[i]
  BY <1>9 DEF Join
<1>11. \A j \in 3..12 : w[j] = v[j - 2]
  BY <1>8, <1>10
<1>12. AppsSteps(w, v)
  BY <1>5, <1>8, <1>10, <1>11 DEF AppsSteps, D
<1>13. QED
  BY <1>6, <1>12 DEF v


\* What the steps of a program write: PutsOf names, for each kind of call, the
\* facts a put of it removes and adds.
PutsOf(kind, on, D, F) ==
  /\ kind # "read"
  /\ kind = "request" => D = {} /\ F \subseteq OfStream(on)
  /\ kind = "delete" => F = {} /\ (D \subseteq MapsTo(on) \/ D = OfStream(on))
  /\ kind = "app" => D \subseteq OfApp(on) /\ F \subseteq OfApp(on)
  /\ kind = "remove" => D = OfApp(on) /\ F = {}
  /\ kind = "topology" => D \subseteq Topology /\ F \subseteq Topology
  /\ kind = "attributes" => D = {} /\ F \subseteq Attributes
  /\ kind = "images" => D \subseteq Image(Images) /\ F \subseteq Image(Images)
  /\ kind = "apps" =>
       /\ D \subseteq UNION {OfApp(a) : a \in Apps}
       /\ \E a \in Apps : F \subseteq App(a) \cup Params(a) \cup Refs(a)

\* A call commits at its end: its last step is the transaction whose result it
\* returns, and a test leads to the end only if that result is an error.
Commits(ops, back) ==
  /\ Len(ops) > 0 /\ ops[Len(ops)] = Apply(back)
  /\ \A i \in 1..Len(ops) : ops[i].op = "test" =>
       \/ i + ops[i].skip < Len(ops)
       \/ i + ops[i].skip = Len(ops) /\ ops[i].to = back

\* The only transaction is at the end, to which every test leads.
Straight(ops) ==
  \A i \in 1..Len(ops) :
    /\ ops[i].op = "apply" => i = Len(ops)
    /\ ops[i].op = "test" => i + ops[i].skip = Len(ops)

Puts(kind, on, ops) ==
  \A i \in 1..Len(ops) : ops[i].op = "put" => PutsOf(kind, on, ops[i].del, ops[i].add)

\* A step by its fields.
LEMMA FieldsOfSteps ==
  /\ \A D, F, to : /\ Put(D, F, to).op = "put" /\ Put(D, F, to).to = to
                   /\ Put(D, F, to).del = D /\ Put(D, F, to).add = F
  /\ \A D, F, to, good :
       /\ PutOrNot(D, F, to, good).to = to
       /\ PutOrNot(D, F, to, good).op \in {"put", "refused"}
       /\ PutOrNot(D, F, to, good).op = "put" => PutOrNot(D, F, to, good) = Put(D, F, to)
  /\ \A to : Apply(to).op = "apply" /\ Apply(to).to = to
  /\ \A to : Unset(to).op = "unset" /\ Unset(to).to = to
  /\ \A to : Refused(to).op = "refused" /\ Refused(to).to = to
  /\ \A to, skip : Test(to, skip).op = "test" /\ Test(to, skip).to = to /\ Test(to, skip).skip = skip
  /\ Copy.op = "copy" /\ Copy.to = "rc"
  BY DEF Put, PutOrNot, Apply, Unset, Refused, Test, Copy

\* The seven steps that write a request, by their fields.
SevenFields(w, s) ==
  /\ w \in Seq(Ops) /\ Len(w) = 7
  /\ w[1].op = "put" /\ w[1].to = "rc" /\ w[1].del = {} /\ w[1].add = Stream(s)
  /\ w[2].op = "test" /\ w[2].to = "rc" /\ w[2].skip = 5
  /\ w[3].op \in {"put", "refused"} /\ w[3].to = "rc"
  /\ w[3].op = "put" => w[3].del = {} /\ w[3].add = Stream(s) \cup Talker(s)
  /\ w[4].op = "test" /\ w[4].to = "rc" /\ w[4].skip = 3
  /\ w[5].op \in {"put", "refused"} /\ w[5].to = "rc"
  /\ w[5].op = "put" => w[5].del = {} /\ w[5].add = OfStream(s)
  /\ w[6].op = "test" /\ w[6].to = "rc" /\ w[6].skip = 1
  /\ w[7].op = "apply" /\ w[7].to = "rc"

\* They are those of a request.
LEMMA SevenStepsFields ==
  ASSUME NEW s \in Streams, NEW refused
  PROVE  SevenFields(RequestOps(s, refused), s)
<1> DEFINE w == RequestOps(s, refused)
<1>1. /\ w \in Seq(Ops) /\ Len(w) = 7
      /\ w[1] = Put({}, Stream(s), "rc") /\ w[2] = Test("rc", 5)
      /\ w[3] = PutOrNot({}, Stream(s) \cup Talker(s), "rc", refused # "talker")
      /\ w[4] = Test("rc", 3)
      /\ w[5] = PutOrNot({}, OfStream(s), "rc", refused # "rest")
      /\ w[6] = Test("rc", 1) /\ w[7] = Apply("rc")
  BY RequestIs
<1> HIDE DEF w
<1>2. QED
  <2>1. /\ w[1].op = "put" /\ w[1].del = {} /\ w[1].add = Stream(s)
        /\ w[2].op = "test" /\ w[2].skip = 5 /\ w[2].to = "rc"
        /\ w[4].op = "test" /\ w[4].skip = 3 /\ w[4].to = "rc"
        /\ w[6].op = "test" /\ w[6].skip = 1 /\ w[6].to = "rc"
        /\ w[7].op = "apply" /\ w[7].to = "rc" /\ w[1].to = "rc"
    BY <1>1, FieldsOfSteps
  <2>2. ASSUME NEW D, NEW F, NEW good, NEW o, o = PutOrNot(D, F, "rc", good)
        PROVE  o.op \in {"put", "refused"} /\ o.to = "rc" /\ (o.op = "put" => o.del = D /\ o.add = F)
    BY <2>2, FieldsOfSteps
  <2>3. /\ w[3].op \in {"put", "refused"} /\ w[3].to = "rc"
        /\ w[3].op = "put" => w[3].del = {} /\ w[3].add = Stream(s) \cup Talker(s)
    <3> DEFINE F == Stream(s) \cup Talker(s)
    <3>1. w[3] = PutOrNot({}, F, "rc", refused # "talker")
      BY <1>1
    <3> HIDE DEF F
    <3>2. /\ w[3].op \in {"put", "refused"} /\ w[3].to = "rc"
          /\ (w[3].op = "put" => w[3].del = {} /\ w[3].add = F)
      BY <3>1, <2>2
    <3>3. QED
      BY <3>2 DEF F
  <2>4. /\ w[5].op \in {"put", "refused"} /\ w[5].to = "rc"
        /\ w[5].op = "put" => w[5].del = {} /\ w[5].add = OfStream(s)
    BY <1>1, <2>2
  <2>5. SevenFields(w, s)
    BY <1>1, <2>1, <2>3, <2>4 DEF SevenFields
  <2>6. QED
    BY <2>5 DEF w

\* The steps of a call that writes a request.
LEMMA RequestSteps ==
  ASSUME NEW s \in Streams, NEW refused, NEW w, w = RequestOps(s, refused)
  PROVE  w \in Seq(Ops) /\ Commits(w, "rc") /\ Straight(w) /\ Puts("request", s, w)
<1>1. SevenFields(w, s)
  BY SevenStepsFields
<1>2. w[7] = Apply("rc")
  BY RequestIs
<1>3. ASSUME NEW i \in 1..7
      PROVE  /\ w[i].op = "put" => w[i].del = {} /\ w[i].add \subseteq OfStream(s)
             /\ w[i].op = "apply" => i = 7
             /\ w[i].op = "test" => i + w[i].skip = 7 /\ w[i].to = "rc"
  <2>1. i \in {1, 2, 3, 4, 5, 6, 7}
    OBVIOUS
  <2>2. QED
    BY <2>1, <1>1, PartsAreFacts DEF SevenFields
<1>4. QED
  BY <1>1, <1>2, <1>3 DEF Commits, Straight, Puts, PutsOf, SevenFields

\* The steps of a call that deletes a stream.
LEMMA DeleteSteps ==
  ASSUME NEW s \in Streams, NEW found \in SUBSET MapsTo(s), NEW w, w = DeleteOps(s, found)
  PROVE  /\ w \in Seq(Ops) /\ Commits(w, "rc") /\ Straight(w) /\ Puts("delete", s, w)
         /\ \E i \in 1..Len(w) : w[i].op = "put" /\ w[i].del = OfStream(s)
         /\ found # {} => \E i \in 1..Len(w) : w[i].op = "put" /\ w[i].del = found
<1>1. /\ w \in Seq(Ops)
      /\ found = {} =>
           /\ Len(w) = 3
           /\ w[1] = Put(OfStream(s), {}, "rc") /\ w[2] = Test("rc", 1) /\ w[3] = Apply("rc")
      /\ found # {} =>
           /\ Len(w) = 5
           /\ w[1] = Put(found, {}, "rc") /\ w[2] = Test("rc", 3)
           /\ w[3] = Put(OfStream(s), {}, "rc") /\ w[4] = Test("rc", 1) /\ w[5] = Apply("rc")
  BY DeleteIs
<1>2. CASE found = {}
  <2>1. /\ Len(w) = 3 /\ w[1].op = "put" /\ w[1].del = OfStream(s) /\ w[1].add = {}
        /\ w[2].op = "test" /\ w[2].skip = 1 /\ w[2].to = "rc" /\ w[3].op = "apply"
    BY <1>1, <1>2, FieldsOfSteps
  <2>2. ASSUME NEW i \in 1..3
        PROVE  /\ w[i].op = "put" => w[i].del = OfStream(s) /\ w[i].add = {}
               /\ w[i].op = "apply" => i = 3
               /\ w[i].op = "test" => i + w[i].skip = 3 /\ w[i].to = "rc"
    BY <2>1, i \in {1, 2, 3}
  <2>3. QED
    BY <1>1, <1>2, <2>1, <2>2 DEF Commits, Straight, Puts, PutsOf
<1>3. CASE found # {}
  <2>1. /\ Len(w) = 5 /\ w[1].op = "put" /\ w[1].del = found /\ w[1].add = {}
        /\ w[2].op = "test" /\ w[2].skip = 3 /\ w[2].to = "rc"
        /\ w[3].op = "put" /\ w[3].del = OfStream(s) /\ w[3].add = {}
        /\ w[4].op = "test" /\ w[4].skip = 1 /\ w[4].to = "rc" /\ w[5].op = "apply"
    BY <1>1, <1>3, FieldsOfSteps
  <2>2. ASSUME NEW i \in 1..5
        PROVE  /\ w[i].op = "put" => w[i].del \in {found, OfStream(s)} /\ w[i].add = {}
               /\ w[i].op = "apply" => i = 5
               /\ w[i].op = "test" => i + w[i].skip = 5 /\ w[i].to = "rc"
    BY <2>1, i \in {1, 2, 3, 4, 5}
  <2>3. QED
    BY <1>1, <1>3, <2>1, <2>2 DEF Commits, Straight, Puts, PutsOf
<1>4. QED
  BY <1>2, <1>3

\* The ten steps that write an application by their fields.
TenFields(w, a, S) ==
  /\ w \in Seq(Ops) /\ Len(w) = 10
  /\ w[1].op = "put" /\ w[1].to = "ret"
  /\ w[2].op = "test" /\ w[2].to = "ret" /\ w[2].skip = 8
  /\ w[3].op \in {"put", "refused"} /\ w[3].to = "ret"
  /\ w[4].op = "test" /\ w[4].to = "ret" /\ w[4].skip = 6
  /\ w[5].op = "put" /\ w[5].to = "rc"
  /\ w[6].op = "test" /\ w[6].to = "rc" /\ w[6].skip = 4
  /\ w[7].op = "apply" /\ w[7].to = "rc"
  /\ w[8].op = "put" /\ w[8].to = "ret" /\ w[8].del = {} /\ w[8].add = App(a) \cup Params(a)
  /\ w[9].op = "test" /\ w[9].to = "ret" /\ w[9].skip = 1
  /\ w[10].op \in {"put", "unset"} /\ w[10].to = "rc"
  /\ w[10].op = "put" => w[10].del = {} /\ S # {}
  /\ \A i \in 1..10 : w[i].op = "put" =>
       /\ w[i].del \subseteq Params(a) \cup Refs(a)
       /\ w[i].add \subseteq App(a) \cup Params(a) \cup Refs(a) \cup Maps(a, S)

\* They are those of _write_app.
LEMMA TenStepsFields ==
  ASSUME NEW a \in Apps, NEW image \in Imaged, NEW S \in SUBSET Streams, NEW good \in BOOLEAN
  PROVE  TenFields(WriteApp(a, image, S, good), a, S)
<1> DEFINE w == WriteApp(a, image, S, good)
<1>1. TenSteps(w, a, image, S, good)
  BY WriteAppIs
<1> HIDE DEF w
<1> DEFINE D == IF image = {} THEN {} ELSE Refs(a)
           F == App(a) \cup {f \in Refs(a) : f[3] \in image}
<1>2. D \subseteq Refs(a) /\ F \subseteq App(a) \cup Refs(a)
  OBVIOUS
<1>3. /\ w \in Seq(Ops) /\ Len(w) = 10
      /\ w[1] = Put({}, App(a), "ret") /\ w[2] = Test("ret", 8)
      /\ w[3] = PutOrNot(D, F, "ret", good)
      /\ w[4] = Test("ret", 6)
      /\ w[5] = Put(Params(a), {}, "rc") /\ w[6] = Test("rc", 4) /\ w[7] = Apply("rc")
      /\ w[8] = Put({}, App(a) \cup Params(a), "ret") /\ w[9] = Test("ret", 1)
      /\ w[10] = IF S = {} THEN Unset("rc") ELSE Put({}, App(a) \cup Maps(a, S), "rc")
  BY <1>1 DEF TenSteps
<1> HIDE DEF D, F
<1>4. /\ w[1].op = "put" /\ w[1].to = "ret" /\ w[1].del = {} /\ w[1].add = App(a)
      /\ w[2].op = "test" /\ w[2].to = "ret" /\ w[2].skip = 8
      /\ w[4].op = "test" /\ w[4].to = "ret" /\ w[4].skip = 6
      /\ w[5].op = "put" /\ w[5].to = "rc" /\ w[5].del = Params(a) /\ w[5].add = {}
      /\ w[6].op = "test" /\ w[6].to = "rc" /\ w[6].skip = 4
      /\ w[7].op = "apply" /\ w[7].to = "rc"
      /\ w[8].op = "put" /\ w[8].to = "ret" /\ w[8].del = {} /\ w[8].add = App(a) \cup Params(a)
      /\ w[9].op = "test" /\ w[9].to = "ret" /\ w[9].skip = 1
  BY <1>3, FieldsOfSteps
<1>5. /\ w[3].op \in {"put", "refused"} /\ w[3].to = "ret"
      /\ w[3].op = "put" => w[3].del = D /\ w[3].add = F
  BY <1>3, FieldsOfSteps
<1>6. /\ w[10].op \in {"put", "unset"} /\ w[10].to = "rc"
      /\ w[10].op = "put" => w[10].del = {} /\ w[10].add = App(a) \cup Maps(a, S) /\ S # {}
  <2>1. CASE S = {}
    BY <1>3, <2>1, FieldsOfSteps
  <2>2. CASE S # {}
    BY <1>3, <2>2, FieldsOfSteps
  <2>3. QED
    BY <2>1, <2>2
<1>7. ASSUME NEW i \in 1..10, w[i].op = "put"
      PROVE  /\ w[i].del \subseteq Params(a) \cup Refs(a)
             /\ w[i].add \subseteq App(a) \cup Params(a) \cup Refs(a) \cup Maps(a, S)
  <2>1. i \in {1, 2, 3, 4, 5, 6, 7, 8, 9, 10}
    OBVIOUS
  <2>2. w[2].op # "put" /\ w[4].op # "put" /\ w[6].op # "put" /\ w[7].op # "put" /\ w[9].op # "put"
    BY <1>4
  <2>3. i \in {1, 3, 5, 8, 10}
    BY <2>1, <2>2, <1>7
  <2>4. CASE i \in {1, 5, 8}
    BY <2>4, <1>4
  <2>5. CASE i = 3
    BY <2>5, <1>5, <1>7, <1>2
  <2>6. CASE i = 10
    BY <2>6, <1>6, <1>7
  <2>7. QED
    BY <2>3, <2>4, <2>5, <2>6
<1>8. QED
  <2>1. TenFields(w, a, S)
    BY <1>3, <1>4, <1>5, <1>6, <1>7 DEF TenFields
  <2>2. QED
    BY <2>1 DEF w

\* The steps of a call that sets or updates an application.
LEMMA AppSteps ==
  ASSUME NEW a \in Apps, NEW image \in Imaged, NEW S \in SUBSET Streams, NEW good \in BOOLEAN,
         NEW w, NEW back,
         \/ back = "ret" /\ w = SetOps(a, image, S, good)
         \/ back = "rc" /\ w = UpdateOps(a, image, S, good)
  PROVE  /\ w \in Seq(Ops) /\ Commits(w, back) /\ Puts("app", a, w)
<1> DEFINE v == WriteApp(a, image, S, good)
<1>0. TenFields(v, a, S)
  BY TenStepsFields
<1>1. /\ v[1].op = "put" /\ v[1].to = "ret"
      /\ v[2].op = "test" /\ v[2].to = "ret" /\ v[2].skip = 8
      /\ v[3].op \in {"put", "refused"} /\ v[3].to = "ret"
      /\ v[4].op = "test" /\ v[4].to = "ret" /\ v[4].skip = 6
      /\ v[5].op = "put" /\ v[5].to = "rc"
      /\ v[6].op = "test" /\ v[6].to = "rc" /\ v[6].skip = 4
      /\ v[7].op = "apply" /\ v[7].to = "rc"
      /\ v[8].op = "put" /\ v[9].op = "test" /\ v[9].to = "ret" /\ v[9].skip = 1
      /\ v[10].op \in {"put", "unset"} /\ v[10].to = "rc"
  BY <1>0 DEF TenFields
<1>2. \A i \in 1..10 : v[i].op = "put" => v[i].del \subseteq OfApp(a) /\ v[i].add \subseteq OfApp(a)
  <2>1. Maps(a, S) \subseteq Maps(a, Streams)
    BY DEF Maps
  <2>2. \A i \in 1..10 : v[i].op = "put" =>
          /\ v[i].del \subseteq Params(a) \cup Refs(a)
          /\ v[i].add \subseteq App(a) \cup Params(a) \cup Refs(a) \cup Maps(a, S)
    BY <1>0 DEF TenFields
  <2>3. QED
    BY <2>1, <2>2, PartsAreFacts
<1>3. \A i \in 1..10 : v[i].op = "test" => v[i].skip \in Nat /\ i + v[i].skip = 10
  <2>1. ASSUME NEW i \in 1..10, v[i].op = "test" PROVE v[i].skip \in Nat /\ i + v[i].skip = 10
    BY <1>1, <2>1, i \in {1, 2, 3, 4, 5, 6, 7, 8, 9, 10}
  <2>2. QED
    BY <2>1
<1>4. CASE back = "ret" /\ w = SetOps(a, image, S, good)
  <2>1. SetSteps(w, v)
    BY <1>4, AppIs
  <2> HIDE DEF v
  <2>2. /\ w \in Seq(Ops) /\ Len(w) = 12 /\ \A i \in 1..10 : w[i] = v[i]
        /\ w[11] = Test("ret", 1) /\ w[12] = Apply("ret")
    BY <2>1 DEF SetSteps
  <2>3. w[11].op = "test" /\ w[11].to = "ret" /\ w[11].skip = 1 /\ w[12].op = "apply"
    BY <2>2, FieldsOfSteps
  <2>4. ASSUME NEW i \in 1..12
        PROVE  /\ w[i].op = "put" => w[i].del \subseteq OfApp(a) /\ w[i].add \subseteq OfApp(a)
               /\ w[i].op = "test" =>
                    i + w[i].skip < 12 \/ (i + w[i].skip = 12 /\ w[i].to = "ret")
    <3>1. CASE i \in 1..10
      <4>1. w[i] = v[i]
        BY <3>1, <2>2
      <4>2. w[i].op = "put" => w[i].del \subseteq OfApp(a) /\ w[i].add \subseteq OfApp(a)
        BY <3>1, <4>1, <1>2
      <4>3. w[i].op = "test" => w[i].skip \in Nat /\ i + w[i].skip = 10
        BY <3>1, <4>1, <1>3
      <4>4. QED
        BY <4>2, <4>3, 10 < 12
    <3>2. QED
      BY <3>1, <2>2, <2>3, FieldsOfSteps, i \in 1..10 \/ i = 11 \/ i = 12
  <2>5. QED
    BY <1>4, <2>2, <2>4 DEF Commits, Puts, PutsOf
<1>5. CASE back = "rc" /\ w = UpdateOps(a, image, S, good)
  <2>1. UpdateSteps(w, v)
    BY <1>5, AppIs
  <2> HIDE DEF v
  <2>2. /\ w \in Seq(Ops) /\ Len(w) = 13 /\ \A i \in 1..10 : w[i] = v[i]
        /\ w[11] = Copy /\ w[12] = Test("rc", 1) /\ w[13] = Apply("rc")
    BY <2>1 DEF UpdateSteps
  <2>3. /\ w[11].op = "copy"
        /\ w[12].op = "test" /\ w[12].to = "rc" /\ w[12].skip = 1 /\ w[13].op = "apply"
    BY <2>2, FieldsOfSteps
  <2>4. ASSUME NEW i \in 1..13
        PROVE  /\ w[i].op = "put" => w[i].del \subseteq OfApp(a) /\ w[i].add \subseteq OfApp(a)
               /\ w[i].op = "test" =>
                    i + w[i].skip < 13 \/ (i + w[i].skip = 13 /\ w[i].to = "rc")
    <3>1. CASE i \in 1..10
      <4>1. w[i] = v[i]
        BY <3>1, <2>2
      <4>2. w[i].op = "put" => w[i].del \subseteq OfApp(a) /\ w[i].add \subseteq OfApp(a)
        BY <3>1, <4>1, <1>2
      <4>3. w[i].op = "test" => w[i].skip \in Nat /\ i + w[i].skip = 10
        BY <3>1, <4>1, <1>3
      <4>4. QED
        BY <4>2, <4>3, 10 < 13
    <3>2. QED
      BY <3>1, <2>2, <2>3, FieldsOfSteps, i \in 1..10 \/ i = 11 \/ i = 12 \/ i = 13
  <2>5. QED
    BY <1>5, <2>2, <2>4 DEF Commits, Puts, PutsOf
<1>6. QED
  BY <1>4, <1>5

\* The steps of a call that discovers an application.
LEMMA DiscoverySteps ==
  ASSUME NEW a \in Apps, NEW image \in Images, NEW good \in BOOLEAN,
         NEW w, w = AppsOps(a, image, good)
  PROVE  w \in Seq(Ops) /\ Puts("apps", "all", w)
<1> DEFINE v == WriteApp(a, {image}, {}, good)
<1>1. AppsSteps(w, v)
  BY AppsIs
<1>2. \A i \in 1..10 : v[i].op = "put" =>
        /\ v[i].del \subseteq Params(a) \cup Refs(a)
        /\ v[i].add \subseteq App(a) \cup Params(a) \cup Refs(a) \cup Maps(a, {})
  <2>1. {image} \in Imaged /\ {} \in SUBSET Streams
    BY DEF Imaged
  <2>2. QED
    <3>1. TenFields(v, a, {})
      BY <2>1, TenStepsFields
    <3>2. QED
      BY <3>1 DEF TenFields
<1> HIDE DEF v
<1>3. Maps(a, {}) = {}
  BY DEF Maps
<1>4. /\ w \in Seq(Ops) /\ Len(w) = 14
      /\ w[1] = Put(UNION {OfApp(x) : x \in Apps}, {}, "ret") /\ w[2] = Test("ret", 12)
      /\ \A j \in 3..12 : w[j] = v[j - 2]
      /\ w[13] = Test("rc", 1) /\ w[14] = Apply("ret")
  BY <1>1 DEF AppsSteps
<1> DEFINE D == UNION {OfApp(x) : x \in Apps}
<1>5. Params(a) \cup Refs(a) \subseteq D
  BY PartsAreFacts
<1> HIDE DEF D
<1>6. /\ w[1].del = D /\ w[1].add = {}
      /\ w[2].op = "test" /\ w[13].op = "test" /\ w[14].op = "apply"
  BY <1>4, FieldsOfSteps DEF D
<1>7. ASSUME NEW i \in 1..14, w[i].op = "put"
      PROVE  w[i].del \subseteq D /\ w[i].add \subseteq App(a) \cup Params(a) \cup Refs(a)
  <2>1. i \in 3..12 \/ i = 1
    BY <1>6, <1>7
  <2>2. CASE i \in 3..12
    <3>1. i - 2 \in 1..10 /\ w[i] = v[i - 2]
      BY <2>2, <1>4
    <3>2. QED
      BY <3>1, <1>2, <1>3, <1>5, <1>7
  <2>3. QED
    BY <2>1, <2>2, <1>6
<1>8. QED
  BY <1>4, <1>7 DEF Puts, PutsOf, D

\* The steps of the other calls of the RESTModule.
LEMMA OtherRestSteps ==
  /\ \A a \in Apps : /\ RemoveOps(a) \in Seq(Ops) /\ Commits(RemoveOps(a), "ret")
                     /\ Puts("remove", a, RemoveOps(a))
  /\ \A T \in {{}, Topology}, good \in BOOLEAN : \A on :
       /\ TopologyOps(T, good) \in Seq(Ops) /\ Commits(TopologyOps(T, good), "rc")
       /\ Puts("topology", on, TopologyOps(T, good))
  /\ \A good \in BOOLEAN : \A on :
       /\ DeviceOps(good) \in Seq(Ops) /\ Commits(DeviceOps(good), "rc")
       /\ Puts("topology", on, DeviceOps(good))
  /\ \A on : /\ AttributesOps \in Seq(Ops) /\ Commits(AttributesOps, "rc")
             /\ Puts("attributes", on, AttributesOps)
  /\ \A on : MaskOps \in Seq(Ops) /\ Puts("attributes", on, MaskOps)
<1>0. /\ Topology \in SUBSET Facts /\ Attributes \in SUBSET Facts /\ {} \in SUBSET Facts
      /\ \A a \in Apps : OfApp(a) \in SUBSET Facts
      /\ Test("rc", 1) \in Ops /\ Test("rc", 3) \in Ops /\ Test("ret", 1) \in Ops
      /\ Apply("rc") \in Ops /\ Apply("ret") \in Ops
  BY PartsAreFacts, StepsAreTyped
<1>1. ASSUME NEW a \in Apps
      PROVE  /\ RemoveOps(a) \in Seq(Ops) /\ Commits(RemoveOps(a), "ret")
             /\ Puts("remove", a, RemoveOps(a))
  <2> DEFINE w == RemoveOps(a)
  <2>1. Put(OfApp(a), {}, "ret") \in Ops
    BY <1>0, StepsAreTyped
  <2>2. /\ w \in Seq(Ops) /\ Len(w) = 3
        /\ w[1] = Put(OfApp(a), {}, "ret") /\ w[2] = Test("ret", 1) /\ w[3] = Apply("ret")
    BY <1>0, <2>1 DEF RemoveOps
  <2> HIDE DEF w
  <2>3. /\ w[1].op = "put" /\ w[1].del = OfApp(a) /\ w[1].add = {}
        /\ w[2].op = "test" /\ w[2].skip = 1 /\ w[2].to = "ret" /\ w[3].op = "apply"
    BY <2>2, FieldsOfSteps
  <2>4. ASSUME NEW i \in 1..3
        PROVE  /\ w[i].op = "put" => w[i].del = OfApp(a) /\ w[i].add = {}
               /\ w[i].op = "test" => i + w[i].skip = 3 /\ w[i].to = "ret"
    BY <2>3, i \in {1, 2, 3}
  <2>5. Commits(w, "ret") /\ Puts("remove", a, w)
    BY <2>2, <2>4 DEF Commits, Puts, PutsOf
  <2>6. QED
    BY <2>2, <2>5 DEF w
<1>2. ASSUME NEW T \in {{}, Topology}, NEW good \in BOOLEAN, NEW on
      PROVE  /\ TopologyOps(T, good) \in Seq(Ops) /\ Commits(TopologyOps(T, good), "rc")
             /\ Puts("topology", on, TopologyOps(T, good))
  <2> DEFINE w == TopologyOps(T, good)
  <2>1. T \in SUBSET Facts /\ T \subseteq Topology
    BY <1>0
  <2>2. Put(Topology, {}, "rc") \in Ops /\ PutOrNot({}, T, "rc", good) \in Ops
    BY <1>0, <2>1, StepsAreTyped
  <2>3. /\ w \in Seq(Ops) /\ Len(w) = 5
        /\ w[1] = Put(Topology, {}, "rc") /\ w[2] = Test("rc", 3)
        /\ w[3] = PutOrNot({}, T, "rc", good) /\ w[4] = Test("rc", 1) /\ w[5] = Apply("rc")
    BY <1>0, <2>2 DEF TopologyOps
  <2> HIDE DEF w
  <2>4. /\ w[1].op = "put" /\ w[1].del = Topology /\ w[1].add = {}
        /\ w[2].op = "test" /\ w[2].skip = 3 /\ w[2].to = "rc"
        /\ w[4].op = "test" /\ w[4].skip = 1 /\ w[4].to = "rc" /\ w[5].op = "apply"
    BY <2>3, FieldsOfSteps
  <2>5. /\ w[3].op \in {"put", "refused"}
        /\ w[3].op = "put" => w[3].del = {} /\ w[3].add = T
    BY <2>3, FieldsOfSteps
  <2>6. ASSUME NEW i \in 1..5
        PROVE  /\ w[i].op = "put" => w[i].del \subseteq Topology /\ w[i].add \subseteq Topology
               /\ w[i].op = "test" => i + w[i].skip = 5 /\ w[i].to = "rc"
    BY <2>1, <2>4, <2>5, i \in {1, 2, 3, 4, 5}
  <2>7. Commits(w, "rc") /\ Puts("topology", on, w)
    BY <2>3, <2>6 DEF Commits, Puts, PutsOf
  <2>8. QED
    BY <2>3, <2>7 DEF w
<1>3. ASSUME NEW good \in BOOLEAN, NEW on
      PROVE  /\ DeviceOps(good) \in Seq(Ops) /\ Commits(DeviceOps(good), "rc")
             /\ Puts("topology", on, DeviceOps(good))
  <2> DEFINE w == DeviceOps(good)
  <2>1. PutOrNot({}, Topology, "rc", good) \in Ops
    BY <1>0, StepsAreTyped
  <2>2. /\ w \in Seq(Ops) /\ Len(w) = 3
        /\ w[1] = PutOrNot({}, Topology, "rc", good) /\ w[2] = Test("rc", 1) /\ w[3] = Apply("rc")
    BY <1>0, <2>1 DEF DeviceOps
  <2> HIDE DEF w
  <2>3. /\ w[1].op \in {"put", "refused"}
        /\ w[1].op = "put" => w[1].del = {} /\ w[1].add = Topology
        /\ w[2].op = "test" /\ w[2].skip = 1 /\ w[2].to = "rc" /\ w[3].op = "apply"
    BY <2>2, FieldsOfSteps
  <2>4. ASSUME NEW i \in 1..3
        PROVE  /\ w[i].op = "put" => w[i].del \subseteq Topology /\ w[i].add \subseteq Topology
               /\ w[i].op = "test" => i + w[i].skip = 3 /\ w[i].to = "rc"
    BY <2>3, i \in {1, 2, 3}
  <2>5. Commits(w, "rc") /\ Puts("topology", on, w)
    BY <2>2, <2>4 DEF Commits, Puts, PutsOf
  <2>6. QED
    BY <2>2, <2>5 DEF w
<1>4. Put({}, Attributes, "rc") \in Ops
  BY <1>0, StepsAreTyped
<1>5. ASSUME NEW on
      PROVE  /\ AttributesOps \in Seq(Ops) /\ Commits(AttributesOps, "rc")
             /\ Puts("attributes", on, AttributesOps)
  <2> DEFINE w == AttributesOps
  <2>1. /\ w \in Seq(Ops) /\ Len(w) = 5
        /\ w[1] = Put({}, Attributes, "rc") /\ w[2] = Test("rc", 3)
        /\ w[3] = Put({}, Attributes, "rc") /\ w[4] = Test("rc", 1) /\ w[5] = Apply("rc")
    BY <1>0, <1>4 DEF AttributesOps
  <2> HIDE DEF w
  <2>2. /\ w[1].op = "put" /\ w[1].del = {} /\ w[1].add = Attributes
        /\ w[2].op = "test" /\ w[2].skip = 3 /\ w[2].to = "rc"
        /\ w[3].op = "put" /\ w[3].del = {} /\ w[3].add = Attributes
        /\ w[4].op = "test" /\ w[4].skip = 1 /\ w[4].to = "rc" /\ w[5].op = "apply"
    BY <2>1, FieldsOfSteps
  <2>3. ASSUME NEW i \in 1..5
        PROVE  /\ w[i].op = "put" => w[i].del = {} /\ w[i].add = Attributes
               /\ w[i].op = "test" => i + w[i].skip = 5 /\ w[i].to = "rc"
    BY <2>2, i \in {1, 2, 3, 4, 5}
  <2>4. Commits(w, "rc") /\ Puts("attributes", on, w)
    BY <2>1, <2>3 DEF Commits, Puts, PutsOf
  <2>5. QED
    BY <2>1, <2>4 DEF w
<1>6. ASSUME NEW on PROVE MaskOps \in Seq(Ops) /\ Puts("attributes", on, MaskOps)
  <2>1. MaskOps \in Seq(Ops) /\ Len(MaskOps) = 1 /\ MaskOps[1] = Put({}, Attributes, "rc")
    BY <1>4 DEF MaskOps
  <2>2. MaskOps[1].del = {} /\ MaskOps[1].add = Attributes
    BY <2>1, FieldsOfSteps
  <2>3. QED
    BY <2>1, <2>2 DEF Puts, PutsOf
<1>7. QED
  BY <1>1, <1>2, <1>3, <1>5, <1>6

\* The five steps that set the images, by their fields.
ImagesFields(w) ==
  /\ w \in Seq(Ops) /\ Len(w) = 5
  /\ w[1].op = "put" /\ w[1].to = "ret"
  /\ w[2].op = "test" /\ w[2].to = "ret" /\ w[2].skip = 3
  /\ w[3].op = "put" /\ w[3].to = "ret"
  /\ w[4].op = "test" /\ w[4].to = "rc" /\ w[4].skip = 1
  /\ w[5].op = "apply" /\ w[5].to = "ret"

\* The steps of the other calls of the ContainerModule.
LEMMA OtherContainerSteps ==
  /\ \A I \in SUBSET Images : ImagesFields(ImagesOps(I)) /\ Puts("images", "all", ImagesOps(I))
  /\ ReadOps \in Seq(Ops) /\ Puts("read", "all", ReadOps) /\ Len(ReadOps) = 1
<1>1. ASSUME NEW I \in SUBSET Images
      PROVE  ImagesFields(ImagesOps(I)) /\ Puts("images", "all", ImagesOps(I))
  <2> DEFINE w == ImagesOps(I)
  <2>1. /\ Image(I) \in SUBSET Facts /\ Image(Images) \in SUBSET Facts /\ {} \in SUBSET Facts
        /\ Image(I) \subseteq Image(Images)
    BY PartsAreFacts DEF Image
  <2>2. /\ Put(Image(Images), {}, "ret") \in Ops /\ Put({}, Image(I), "ret") \in Ops
        /\ Test("ret", 3) \in Ops /\ Test("rc", 1) \in Ops /\ Apply("ret") \in Ops
    BY <2>1, StepsAreTyped
  <2>3. /\ w \in Seq(Ops) /\ Len(w) = 5
        /\ w[1] = Put(Image(Images), {}, "ret") /\ w[2] = Test("ret", 3)
        /\ w[3] = Put({}, Image(I), "ret") /\ w[4] = Test("rc", 1) /\ w[5] = Apply("ret")
    BY <2>2 DEF ImagesOps
  <2> HIDE DEF w
  <2>4. /\ w[1].op = "put" /\ w[1].to = "ret"
        /\ w[1].del = Image(Images) /\ w[1].add = {}
        /\ w[2].op = "test" /\ w[2].to = "ret" /\ w[2].skip = 3
        /\ w[3].op = "put" /\ w[3].to = "ret" /\ w[3].del = {} /\ w[3].add = Image(I)
        /\ w[4].op = "test" /\ w[4].to = "rc" /\ w[4].skip = 1
        /\ w[5].op = "apply" /\ w[5].to = "ret"
    BY <2>3, FieldsOfSteps
  <2>5. ASSUME NEW i \in 1..5, w[i].op = "put"
        PROVE  w[i].del \subseteq Image(Images) /\ w[i].add \subseteq Image(Images)
    BY <2>1, <2>4, <2>5, i \in {1, 2, 3, 4, 5}
  <2>6. ImagesFields(w)
    BY <2>3, <2>4 DEF ImagesFields
  <2>7. Puts("images", "all", w)
    BY <2>3, <2>5 DEF Puts, PutsOf
  <2>8. QED
    BY <2>6, <2>7 DEF w
<1>2. ReadOps \in Seq(Ops) /\ Puts("read", "all", ReadOps) /\ Len(ReadOps) = 1
  <2>1. Unset("rc") \in Ops
    BY StepsAreTyped
  <2>2. ReadOps \in Seq(Ops) /\ Len(ReadOps) = 1 /\ ReadOps[1] = Unset("rc")
    BY <2>1 DEF ReadOps
  <2>3. ReadOps[1].op = "unset"
    BY <2>2, FieldsOfSteps
  <2>4. QED
    BY <2>2, <2>3 DEF Puts
<1>3. QED
  BY <1>1, <1>2

\* What every call has in common.
LEMMA Programs ==
  ASSUME NEW t \in Threads, NEW kind, NEW on, NEW ops, NEW back, Program(t, kind, on, ops, back)
  PROVE  /\ kind \in Kinds /\ on \in Ons /\ ops \in Seq(Ops) /\ back \in To
         /\ Puts(kind, on, ops)
         /\ kind \in {"request", "delete"} => on \in Streams
         /\ kind \in {"app", "remove"} => on \in Apps
         /\ kind \in {"images", "apps", "read"} <=> t = Container
         /\ kind \notin {"images", "apps", "read"} /\ on # "mask" => Commits(ops, back)
         /\ kind = "images" => ImagesFields(ops) /\ back = "ret"
         /\ kind = "read" => Len(ops) = 1
<1>0. \A x : x \in RestThreads => x # Container
  BY ThreadsAssumption
<1>1. CASE /\ kind = "request" /\ on \in Streams /\ back = "rc" /\ t \in RestThreads
           /\ \E refused \in {"talker", "rest", "nothing"} : ops = RequestOps(on, refused)
  BY <1>0, <1>1, RequestSteps DEF Kinds, Ons, To
<1>2. CASE /\ kind = "delete" /\ on \in Streams /\ back = "rc" /\ t \in RestThreads
           /\ \E found \in SUBSET MapsTo(on) : ops = DeleteOps(on, found)
  BY <1>0, <1>2, DeleteSteps DEF Kinds, Ons, To
<1>3. CASE /\ kind = "app" /\ on \in Apps /\ t \in RestThreads
           /\ \E image \in Imaged, S \in SUBSET Streams, good \in BOOLEAN :
                \/ back = "ret" /\ ops = SetOps(on, image, S, good)
                \/ back = "rc" /\ ops = UpdateOps(on, image, S, good)
  BY <1>0, <1>3, AppSteps DEF Kinds, Ons, To
<1>4. CASE kind = "remove" /\ on \in Apps /\ back = "ret" /\ t \in RestThreads /\ ops = RemoveOps(on)
  BY <1>0, <1>4, OtherRestSteps DEF Kinds, Ons, To
<1>5. CASE /\ kind = "topology" /\ on \in {"graph", "device"} /\ back = "rc" /\ t \in RestThreads
           /\ \E good \in BOOLEAN :
                \/ \E T \in {{}, Topology} : ops = TopologyOps(T, good)
                \/ ops = DeviceOps(good)
  BY <1>0, <1>5, OtherRestSteps DEF Kinds, Ons, To
<1>6. CASE /\ kind = "attributes" /\ back = "rc" /\ t \in RestThreads
           /\ \/ on = "all" /\ ops = AttributesOps
              \/ on = "mask" /\ ops = MaskOps
  BY <1>0, <1>6, OtherRestSteps DEF Kinds, Ons, To
<1>7. CASE /\ kind = "images" /\ on = "all" /\ back = "ret" /\ t = Container
           /\ \E I \in SUBSET Images : ops = ImagesOps(I)
  BY <1>7, OtherContainerSteps DEF Kinds, Ons, To, ImagesFields
<1>8. CASE /\ kind = "apps" /\ on = "all" /\ back = "ret" /\ t = Container
           /\ \E a \in Apps, i \in Images, good \in BOOLEAN : ops = AppsOps(a, i, good)
  BY <1>8, DiscoverySteps DEF Kinds, Ons, To
<1>9. CASE kind = "read" /\ on = "all" /\ back = "rc" /\ t = Container /\ ops = ReadOps
  BY <1>9, OtherContainerSteps DEF Kinds, Ons, To
<1>10. QED
  BY <1>1, <1>2, <1>3, <1>4, <1>5, <1>6, <1>7, <1>8, <1>9 DEF Program

(***************************************************************************)
(* Steps                                                                   *)
(***************************************************************************)

\* A thread enters a call.
Begins(t, kind, on, ops, back) ==
  /\ Begin(t, kind, on, ops, back) /\ Program(t, kind, on, ops, back)
  /\ rc' = rc \/ (t \in RestThreads /\ rc' = [rc EXCEPT ![Home(t)] = "ok"])
  /\ kind = "delete" =>
       \A f \in View(Home(t)) \cap MapsTo(on) :
         \E i \in 1..Len(ops) : ops[i].op = "put" /\ f \in ops[i].del

\* The next step, when the variable of this one is given the value res.
After(t, res) ==
  /\ run'[t].pc = run[t].pc + 1
  /\ Now(t).to = "rc" => rc'[Home(t)] = res /\ run'[t].ret = run[t].ret
  /\ Now(t).to = "ret" => rc' = rc /\ run'[t].ret = res

\* A thread takes a step of its call.
Moves(t) ==
  /\ run[t] # Idle /\ run[t] \in Calls /\ run[t].pc \in 1..Len(run[t].ops) /\ Now(t) \in Ops
  /\ told' = told /\ shared' = shared
  /\ run' \in [Threads -> {Idle} \cup Calls] /\ run'[t] # Idle
  /\ run'[t].kind = run[t].kind /\ run'[t].n = run[t].n
  /\ run'[t].ops = run[t].ops /\ run'[t].back = run[t].back
  /\ \A u \in Threads \ {t} : run'[u] = run[u]
  /\ rc' \in [Procs -> Results] /\ \A p \in Procs \ {Home(t)} : rc'[p] = rc[p]

\* The processes of the threads.
LEMMA Homes ==
  /\ \A t \in Threads : Home(t) \in Procs
  /\ \A t \in RestThreads : Home(t) = "rest" /\ t \in Threads /\ t # Container
  /\ Home(Container) = "container" /\ Container \in Threads
  /\ \A t \in Threads : t # Container => t \in RestThreads
  /\ Procs = {"rest", "container"}
  BY ThreadsAssumption DEF Home, Threads, Procs

\* A call is not the state without one.
LEMMA CallsAreNotIdle == \A c \in Calls : c # Idle /\ c.kind # "none"
  BY DEF Calls, Idle, Kinds

\* The next-state relation starts a call or takes a step of one.
LEMMA NextIs ==
  ASSUME TypeInv, Next
  PROVE  \/ \E t \in Threads, kind \in Kinds, on \in Ons, ops \in Seq(Ops), back \in To :
              Begins(t, kind, on, ops, back)
         \/ \E t \in Threads : Step(t)
<1>1. ASSUME NEW t \in Threads, NEW kind, NEW on, NEW ops, NEW back,
             Begins(t, kind, on, ops, back)
      PROVE  \E u \in Threads, k \in Kinds, o \in Ons, s \in Seq(Ops), b \in To :
               Begins(u, k, o, s, b)
  <2>1. kind \in Kinds /\ on \in Ons /\ ops \in Seq(Ops) /\ back \in To
    BY <1>1, Programs DEF Begins
  <2>2. QED
    BY <1>1, <2>1
<1>2. ASSUME NEW t \in RestThreads, RestCall(t)
      PROVE  \E kind, on, ops, back : Begins(t, kind, on, ops, back)
  <2>1. CASE \E s \in Streams, refused \in {"talker", "rest", "nothing"} : WriteRequest(t, s, refused)
    <3>1. PICK s \in Streams, refused \in {"talker", "rest", "nothing"} : WriteRequest(t, s, refused)
      BY <2>1
    <3>2. Begin(t, "request", s, RequestOps(s, refused), "rc") /\ rc' = rc
      BY <3>1 DEF WriteRequest, RequestOps
    <3>3. Program(t, "request", s, RequestOps(s, refused), "rc")
      BY <1>2 DEF Program
    <3>4. Begins(t, "request", s, RequestOps(s, refused), "rc")
      BY <3>2, <3>3 DEF Begins
    <3>5. QED
      BY <3>4
  <2>2. CASE \E s \in Streams : DeleteStream(t, s)
    <3>1. PICK s \in Streams : DeleteStream(t, s)
      BY <2>2
    <3> DEFINE found == {f \in View(Home(t)) : f[1] = "maps" /\ f[3] = s}
    <3>2. /\ Begin(t, "delete", s, DeleteOps(s, found), "rc")
          /\ rc' = [rc EXCEPT ![Home(t)] = "ok"]
      BY <3>1 DEF DeleteStream, DeleteOps
    <3>3. View(Home(t)) \subseteq Facts
      BY <1>2, Homes DEF TypeInv, View, Sessions
    <3>4. found \in SUBSET MapsTo(s) /\ View(Home(t)) \cap MapsTo(s) \subseteq found
      BY <3>3 DEF MapsTo
    <3> HIDE DEF found
    <3>5. Program(t, "delete", s, DeleteOps(s, found), "rc")
      BY <1>2, <3>4 DEF Program
    <3>6. ASSUME NEW f \in View(Home(t)) \cap MapsTo(s)
          PROVE  \E i \in 1..Len(DeleteOps(s, found)) :
                   DeleteOps(s, found)[i].op = "put" /\ f \in DeleteOps(s, found)[i].del
      <4>1. f \in found
        BY <3>4
      <4> DEFINE w == DeleteOps(s, found)
      <4>2. \E i \in 1..Len(w) : w[i].op = "put" /\ w[i].del = found
        BY <3>4, <4>1, DeleteSteps
      <4>3. QED
        BY <4>1, <4>2
    <3>7. Begins(t, "delete", s, DeleteOps(s, found), "rc")
      BY <1>2, <3>2, <3>5, <3>6 DEF Begins
    <3>8. QED
      BY <3>7
  <2>3. CASE \E a \in Apps, image \in Imaged, S \in SUBSET Streams, good \in BOOLEAN :
               SetApp(t, a, image, S, good)
    <3>1. PICK a \in Apps, image \in Imaged, S \in SUBSET Streams, good \in BOOLEAN :
            SetApp(t, a, image, S, good)
      BY <2>3
    <3>2. Begin(t, "app", a, SetOps(a, image, S, good), "ret") /\ rc' = rc
      BY <3>1 DEF SetApp, SetOps
    <3>3. Program(t, "app", a, SetOps(a, image, S, good), "ret")
      BY <1>2 DEF Program
    <3>4. Begins(t, "app", a, SetOps(a, image, S, good), "ret")
      BY <3>2, <3>3 DEF Begins
    <3>5. QED
      BY <3>4
  <2>4. CASE \E a \in Apps, image \in Imaged, S \in SUBSET Streams, good \in BOOLEAN :
               UpdateApp(t, a, image, S, good)
    <3>1. PICK a \in Apps, image \in Imaged, S \in SUBSET Streams, good \in BOOLEAN :
            UpdateApp(t, a, image, S, good)
      BY <2>4
    <3>2. Begin(t, "app", a, UpdateOps(a, image, S, good), "rc") /\ rc' = rc
      BY <3>1 DEF UpdateApp, UpdateOps
    <3>3. Program(t, "app", a, UpdateOps(a, image, S, good), "rc")
      BY <1>2 DEF Program
    <3>4. Begins(t, "app", a, UpdateOps(a, image, S, good), "rc")
      BY <3>2, <3>3 DEF Begins
    <3>5. QED
      BY <3>4
  <2>5. CASE \E a \in Apps : RemoveApp(t, a)
    <3>1. PICK a \in Apps : RemoveApp(t, a)
      BY <2>5
    <3>2. Begin(t, "remove", a, RemoveOps(a), "ret") /\ rc' = rc
      BY <3>1 DEF RemoveApp, RemoveOps
    <3>3. Begins(t, "remove", a, RemoveOps(a), "ret")
      BY <1>2, <3>2 DEF Begins, Program
    <3>4. QED
      BY <3>3
  <2>6. CASE \E good \in BOOLEAN, T \in {{}, Topology} : SetTopology(t, T, good)
    <3>1. PICK good \in BOOLEAN, T \in {{}, Topology} : SetTopology(t, T, good)
      BY <2>6
    <3>2. Begin(t, "topology", "graph", TopologyOps(T, good), "rc") /\ rc' = rc
      BY <3>1 DEF SetTopology, TopologyOps
    <3>3. Program(t, "topology", "graph", TopologyOps(T, good), "rc")
      BY <1>2 DEF Program
    <3>4. Begins(t, "topology", "graph", TopologyOps(T, good), "rc")
      BY <3>2, <3>3 DEF Begins
    <3>5. QED
      BY <3>4
  <2>7. CASE \E good \in BOOLEAN : UpdateDevice(t, good)
    <3>1. PICK good \in BOOLEAN : UpdateDevice(t, good)
      BY <2>7
    <3>2. Begin(t, "topology", "device", DeviceOps(good), "rc") /\ rc' = rc
      BY <3>1 DEF UpdateDevice, DeviceOps
    <3>3. Program(t, "topology", "device", DeviceOps(good), "rc")
      BY <1>2 DEF Program
    <3>4. Begins(t, "topology", "device", DeviceOps(good), "rc")
      BY <3>2, <3>3 DEF Begins
    <3>5. QED
      BY <3>4
  <2>8. CASE \E others \in BOOLEAN : UpdateAttributes(t, others)
    <3>1. PICK others \in BOOLEAN : UpdateAttributes(t, others)
      BY <2>8
    <3>2. CASE others
      <4>1. Begin(t, "attributes", "all", AttributesOps, "rc") /\ rc' = rc
        BY <3>1, <3>2 DEF UpdateAttributes, AttributesOps
      <4>2. Begins(t, "attributes", "all", AttributesOps, "rc")
        BY <1>2, <4>1 DEF Begins, Program
      <4>3. QED
        BY <4>2
    <3>3. CASE ~others
      <4>1. Begin(t, "attributes", "mask", MaskOps, "rc") /\ rc' = rc
        BY <3>1, <3>3 DEF UpdateAttributes, MaskOps
      <4>2. Begins(t, "attributes", "mask", MaskOps, "rc")
        BY <1>2, <4>1 DEF Begins, Program
      <4>3. QED
        BY <4>2
    <3>4. QED
      BY <3>2, <3>3
  <2>9. QED
    BY <1>2, <2>1, <2>2, <2>3, <2>4, <2>5, <2>6, <2>7, <2>8 DEF RestCall, Imaged
<1>3. ASSUME ContainerCall
      PROVE  \E kind, on, ops, back : Begins(Container, kind, on, ops, back)
  <2>1. CASE \E I \in (SUBSET Images) \ {{}} : SetImages(I)
    <3>1. PICK I \in SUBSET Images : SetImages(I)
      BY <2>1
    <3>2. Begin(Container, "images", "all", ImagesOps(I), "ret") /\ rc' = rc
      BY <3>1 DEF SetImages, ImagesOps
    <3>3. Begins(Container, "images", "all", ImagesOps(I), "ret")
      BY <3>2 DEF Begins, Program
    <3>4. QED
      BY <3>3
  <2>2. CASE \E a \in Apps, i \in Images, good \in BOOLEAN : SetApps(a, i, good)
    <3>1. PICK a \in Apps, i \in Images, good \in BOOLEAN : SetApps(a, i, good)
      BY <2>2
    <3>2. Begin(Container, "apps", "all", AppsOps(a, i, good), "ret") /\ rc' = rc
      BY <3>1 DEF SetApps, AppsOps
    <3>3. Program(Container, "apps", "all", AppsOps(a, i, good), "ret")
      BY DEF Program
    <3>4. Begins(Container, "apps", "all", AppsOps(a, i, good), "ret")
      BY <3>2, <3>3 DEF Begins
    <3>5. QED
      BY <3>4
  <2>3. CASE ReadDevices
    <3>1. Begin(Container, "read", "all", ReadOps, "rc") /\ rc' = rc
      BY <2>3 DEF ReadDevices, ReadOps
    <3>2. Begins(Container, "read", "all", ReadOps, "rc")
      BY <3>1 DEF Begins, Program
    <3>3. QED
      BY <3>2
  <2>4. QED
    BY <1>3, <2>1, <2>2, <2>3 DEF ContainerCall
<1>4. CASE \E t \in RestThreads : RestCall(t)
  BY <1>4, <1>1, <1>2, Homes
<1>5. CASE ContainerCall
  BY <1>5, <1>1, <1>3, Homes
<1>6. QED
  BY <1>4, <1>5 DEF Next

\* What is so after a thread has entered a call.
Entered(t, kind, on, ops, back, n) ==
  /\ n = Begun + 1 /\ n \in 1..MaxCalls /\ Begun' = n
  /\ run[t] = Idle /\ told[n].kind = "none"
  /\ run' \in [Threads -> {Idle} \cup Calls]
  /\ run'[t] = [kind |-> kind, n |-> n, ops |-> ops, pc |-> 1, ret |-> "ok", back |-> back]
  /\ \A u \in Threads \ {t} : run'[u] = run[u]
  /\ told' \in [1..MaxCalls -> Told]
  /\ told'[n] = [kind |-> kind, on |-> on, result |-> "none", stale |-> rc[Home(t)]]
  /\ \A m \in (1..MaxCalls) \ {n} : told'[m] = told[m]
  /\ \A u \in Mates(t) : n \in shared' /\ run[u].n \in shared'
  /\ shared \subseteq shared' /\ shared' \subseteq 1..n
  /\ store' = store /\ pend' = pend /\ rc' \in [Procs -> Results]
  /\ \A p \in Procs \ {"rest"} : rc'[p] = rc[p]
  /\ \A p \in Procs \ {Home(t)} : rc'[p] = rc[p]

\* A call that begins is the next one of all.
LEMMA EnteredByBegin ==
  ASSUME TypeInv, NEW t \in Threads, NEW kind \in Kinds, NEW on \in Ons, NEW ops \in Seq(Ops),
         NEW back \in To, Begins(t, kind, on, ops, back)
  PROVE  Entered(t, kind, on, ops, back, Begun + 1)
<1> DEFINE n == Begun + 1
<1>1. Begun \in 0..MaxCalls /\ {m \in 1..MaxCalls : told[m].kind # "none"} = 1..Begun
  BY DEF TypeInv
<1>2. /\ run[t] = Idle /\ n <= MaxCalls
      /\ run' = [run EXCEPT ![t] = [kind |-> kind, n |-> n, ops |-> ops, pc |-> 1,
                                    ret |-> "ok", back |-> back]]
      /\ told' = [told EXCEPT ![n] = [kind |-> kind, on |-> on, result |-> "none",
                                      stale |-> rc[Home(t)]]]
      /\ shared' = shared \cup (IF Mates(t) = {} THEN {}
                                ELSE {n} \cup {run[u].n : u \in Mates(t)})
      /\ store' = store /\ pend' = pend
  BY DEF Begins, Begin
<1>3. n \in 1..MaxCalls /\ n \notin 1..Begun
  BY <1>1, <1>2, BoundAssumption
<1>4. told[n].kind = "none"
  BY <1>1, <1>3
<1>5. /\ told \in [1..MaxCalls -> Told] /\ rc \in [Procs -> Results]
      /\ run \in [Threads -> {Idle} \cup Calls] /\ shared \subseteq 1..Begun
      /\ \A u \in Threads : run[u] # Idle => run[u].n \in 1..Begun
  BY DEF TypeInv
<1>6. n \in Nat
  BY <1>3
<1> HIDE DEF n
<1> DEFINE call == [kind |-> kind, n |-> n, ops |-> ops, pc |-> 1, ret |-> "ok", back |-> back]
           record == [kind |-> kind, on |-> on, result |-> "none", stale |-> rc[Home(t)]]
<1>7. call \in Calls
  BY <1>6 DEF Calls, Results
<1>8. record \in Told
  <2>1. rc[Home(t)] \in Results
    BY <1>5, Homes
  <2>2. QED
    BY <2>1 DEF Told
<1>9. /\ run' \in [Threads -> {Idle} \cup Calls] /\ run'[t] = call
      /\ \A u \in Threads \ {t} : run'[u] = run[u]
  <2> HIDE DEF call
  <2>1. run' = [run EXCEPT ![t] = call]
    BY <1>2 DEF call
  <2>2. QED
    BY <2>1, <1>5, <1>7
<1>10. /\ told' \in [1..MaxCalls -> Told] /\ told'[n] = record
       /\ \A m \in (1..MaxCalls) \ {n} : told'[m] = told[m]
  <2> HIDE DEF record
  <2>1. told' = [told EXCEPT ![n] = record]
    BY <1>2 DEF record
  <2>2. QED
    BY <2>1, <1>3, <1>5, <1>8
<1>11. /\ \A u \in Mates(t) : n \in shared' /\ run[u].n \in shared'
       /\ shared \subseteq shared' /\ shared' \subseteq 1..n
  <2>1. \A u \in Mates(t) : run[u].n \in 1..Begun
    BY <1>5 DEF Mates
  <2>2. 1..Begun \subseteq 1..n /\ n \in 1..n
    BY <1>1, <1>3 DEF n
  <2>3. QED
    BY <1>2, <1>5, <2>1, <2>2
<1>12. Begun' = n
  <2>1. record.kind # "none"
    BY DEF Kinds
  <2>2. DOMAIN told' = 1..MaxCalls
    BY <1>10
  <2>3. {m \in 1..MaxCalls : told'[m].kind # "none"} = (1..Begun) \cup {n}
    <3>1. told'[n].kind # "none"
      BY <1>10, <2>1
    <3>2. \A m \in (1..MaxCalls) \ {n} : told'[m].kind # "none" <=> m \in 1..Begun
      BY <1>1, <1>10
    <3>3. 1..Begun \subseteq 1..MaxCalls
      BY <1>1, BoundAssumption
    <3>4. QED
      BY <3>1, <3>2, <3>3, <1>3
  <2>4. (1..Begun) \cup {n} = 1..n
    BY <1>1 DEF n
  <2>5. Begun' = Cardinality(1..n)
    BY <2>2, <2>3, <2>4 DEF Begun
  <2>6. QED
    BY <2>5, <1>3, FS_Interval
<1>13. /\ rc' \in [Procs -> Results]
       /\ \A p \in Procs \ {"rest"} : rc'[p] = rc[p]
       /\ \A p \in Procs \ {Home(t)} : rc'[p] = rc[p]
  BY <1>5, Homes DEF Begins, Results
<1>14. QED
  BY <1>2, <1>3, <1>4, <1>9, <1>10, <1>11, <1>12, <1>13 DEF Entered, n

\* A session reads facts.
LEMMA ViewIsTyped == ASSUME TypeInv, NEW p \in Procs PROVE View(p) \subseteq Facts
  BY DEF TypeInv, View, Sessions

\* The steps that are not returns move a thread on in its call; only a put and a
\* transaction change the session.
LEMMA StepsMove ==
  ASSUME TypeInv, NEW t \in Threads, Step(t), ~Return(t)
  PROVE  /\ Moves(t)
         /\ \/ /\ Now(t).op = "put" /\ After(t, "ok") /\ store' = store
               /\ pend' = [pend EXCEPT ![Home(t)] =
                             [del |-> pend[Home(t)].del \cup Now(t).del,
                              add |-> (pend[Home(t)].add \ Now(t).del) \cup Now(t).add,
                              by |-> pend[Home(t)].by \cup {run[t].n}]]
            \/ /\ Now(t).op = "apply" /\ Valid(View(Home(t))) /\ After(t, "ok")
               /\ store' = View(Home(t)) /\ pend' = [pend EXCEPT ![Home(t)] = Empty]
            \/ /\ Now(t).op = "apply" /\ ~Valid(View(Home(t))) /\ After(t, "err")
               /\ store' = store /\ pend' = pend
            \/ /\ Now(t).op = "refused" /\ After(t, "err") /\ store' = store /\ pend' = pend
            \/ /\ Now(t).op = "unset" /\ (After(t, "ok") \/ After(t, "err"))
               /\ store' = store /\ pend' = pend
            \/ /\ Now(t).op = "copy" /\ After(t, run[t].ret) /\ store' = store /\ pend' = pend
            \/ /\ Now(t).op = "test" /\ store' = store /\ pend' = pend /\ rc' = rc
               /\ run'[t].ret = run[t].ret
               /\ run'[t].pc = run[t].pc
                    + (IF (IF Now(t).to = "rc" THEN rc[Home(t)] ELSE run[t].ret) = "ok"
                       THEN 1 ELSE Now(t).skip + 1)
<1> DEFINE p == Home(t)
<1>0. /\ run \in [Threads -> {Idle} \cup Calls] /\ rc \in [Procs -> Results] /\ p \in Procs
      /\ pend \in [Procs -> Sessions]
  BY Homes DEF TypeInv
<1>1. ASSUME NEW op, At(t, op)
      PROVE  /\ run[t] # Idle /\ run[t] \in Calls /\ run[t].pc \in 1..Len(run[t].ops)
             /\ Now(t) \in Ops /\ Now(t).op = op
  <2>1. run[t] # Idle /\ run[t] \in Calls /\ run[t].pc <= Len(run[t].ops)
    BY <1>0, <1>1 DEF At
  <2>2. run[t].pc \in Nat \ {0} /\ run[t].ops \in Seq(Ops)
    BY <2>1 DEF Calls
  <2>3. run[t].pc \in 1..Len(run[t].ops)
    BY <2>1, <2>2, LenProperties
  <2>4. Now(t) \in Ops
    BY <2>2, <2>3, ElementOfSeq DEF Now
  <2>5. QED
    BY <1>1, <2>1, <2>3, <2>4 DEF At, Now
<1>2. ASSUME NEW op, At(t, op), NEW res \in Results, Result(t, res), told' = told, shared' = shared
      PROVE  Moves(t) /\ After(t, res)
  <2>1. /\ run[t] # Idle /\ run[t] \in Calls /\ run[t].pc \in 1..Len(run[t].ops)
        /\ Now(t) \in Ops
    BY <1>1, <1>2
  <2>2. Now(t).to \in To
    BY <2>1 DEF Ops
  <2> DEFINE c == [run[t] EXCEPT !.pc = @ + 1]
             d == [run[t] EXCEPT !.pc = @ + 1, !.ret = res]
  <2>3. /\ c \in Calls /\ c.kind = run[t].kind /\ c.n = run[t].n /\ c.ops = run[t].ops
        /\ c.back = run[t].back /\ c.pc = run[t].pc + 1 /\ c.ret = run[t].ret
    BY <2>1 DEF Calls
  <2>4. /\ d \in Calls /\ d.kind = run[t].kind /\ d.n = run[t].n /\ d.ops = run[t].ops
        /\ d.back = run[t].back /\ d.pc = run[t].pc + 1 /\ d.ret = res
    <3>1. d = [c EXCEPT !.ret = res]
      BY <2>1 DEF Calls
    <3> HIDE DEF c, d
    <3>2. QED
      BY <2>3, <3>1 DEF Calls
  <2>5. CASE Now(t).to = "rc"
    <3>1. rc' = [rc EXCEPT ![p] = res] /\ run' = [run EXCEPT ![t] = c]
      BY <1>2, <2>5 DEF Result
    <3> HIDE DEF c, d
    <3>2. /\ rc' \in [Procs -> Results] /\ rc'[p] = res /\ \A q \in Procs \ {p} : rc'[q] = rc[q]
      BY <3>1, <1>0, <1>2
    <3>3. /\ run' \in [Threads -> {Idle} \cup Calls] /\ run'[t] = c
          /\ \A u \in Threads \ {t} : run'[u] = run[u]
      BY <3>1, <1>0, <2>3
    <3>4. QED
      BY <1>2, <2>1, <2>3, <2>5, <3>2, <3>3, CallsAreNotIdle DEF Moves, After
  <2>6. CASE Now(t).to = "ret"
    <3>1. rc' = rc /\ run' = [run EXCEPT ![t] = d]
      BY <1>2, <2>6 DEF Result
    <3> HIDE DEF c, d
    <3>2. /\ run' \in [Threads -> {Idle} \cup Calls] /\ run'[t] = d
          /\ \A u \in Threads \ {t} : run'[u] = run[u]
      BY <3>1, <1>0, <2>4
    <3>3. QED
      BY <1>0, <1>2, <2>1, <2>4, <2>6, <3>1, <3>2, CallsAreNotIdle DEF Moves, After
  <2>7. QED
    BY <2>2, <2>5, <2>6 DEF To
<1>3. CASE PutStep(t)
  BY <1>3, <1>1, <1>2 DEF PutStep, Results
<1>4. CASE RefusedStep(t)
  BY <1>4, <1>1, <1>2 DEF RefusedStep, Results
<1>5. CASE UnsetStep(t)
  BY <1>5, <1>1, <1>2 DEF UnsetStep, Results
<1>6. CASE CopyStep(t)
  <2>1. run[t].ret \in Results
    BY <1>0, <1>1, <1>6 DEF CopyStep, Calls
  <2>2. QED
    BY <1>6, <1>1, <1>2, <2>1 DEF CopyStep
<1>7. CASE TestStep(t)
  <2> DEFINE value == IF Now(t).to = "rc" THEN rc[p] ELSE run[t].ret
             k == IF value = "ok" THEN 1 ELSE Now(t).skip + 1
             c == [run[t] EXCEPT !.pc = @ + k]
  <2>1. /\ At(t, "test") /\ run' = [run EXCEPT ![t] = c]
        /\ store' = store /\ pend' = pend /\ rc' = rc /\ told' = told /\ shared' = shared
    BY <1>7 DEF TestStep
  <2>2. /\ run[t] # Idle /\ run[t] \in Calls /\ run[t].pc \in 1..Len(run[t].ops)
        /\ Now(t) \in Ops /\ Now(t).op = "test"
    BY <1>1, <2>1
  <2>3. Now(t).skip \in Nat
    BY <2>2 DEF Ops
  <2>4. k \in Nat
    BY <2>3
  <2>5. /\ c \in Calls /\ c.kind = run[t].kind /\ c.n = run[t].n /\ c.ops = run[t].ops
        /\ c.back = run[t].back /\ c.pc = run[t].pc + k /\ c.ret = run[t].ret
    <3> HIDE DEF k
    <3>1. QED
      BY <2>2, <2>4 DEF Calls
  <2>6. /\ run' \in [Threads -> {Idle} \cup Calls] /\ run'[t] = c
        /\ \A u \in Threads \ {t} : run'[u] = run[u]
    <3> HIDE DEF c
    <3>1. QED
      BY <1>0, <2>1, <2>5
  <2>7. Moves(t)
    <3> HIDE DEF c
    <3>1. QED
      BY <1>0, <2>1, <2>2, <2>5, <2>6, CallsAreNotIdle DEF Moves
  <2>8. run'[t].pc = run[t].pc + k /\ run'[t].ret = run[t].ret
    <3> HIDE DEF c
    <3>1. QED
      BY <2>5, <2>6
  <2>9. QED
    BY <2>1, <2>2, <2>7, <2>8
<1>8. CASE ApplyStep(t)
  BY <1>8, <1>1, <1>2 DEF ApplyStep, Results
<1>9. QED
  BY <1>3, <1>4, <1>5, <1>6, <1>7, <1>8 DEF Step

\* What is so after a thread has returned.
Returned(t) ==
  /\ run[t] # Idle /\ run[t] \in Calls /\ Ended(t)
  /\ run' \in [Threads -> {Idle} \cup Calls] /\ run'[t] = Idle
  /\ \A u \in Threads \ {t} : run'[u] = run[u]
  /\ told' \in [1..MaxCalls -> Told]
  /\ told'[run[t].n].kind = told[run[t].n].kind /\ told'[run[t].n].on = told[run[t].n].on
  /\ told'[run[t].n].stale = told[run[t].n].stale
  /\ told'[run[t].n].result = IF Value(t) = "ok" THEN "ok" ELSE "fail"
  /\ \A m \in (1..MaxCalls) \ {run[t].n} : told'[m] = told[m]
  /\ store' = store /\ pend' = pend /\ rc' = rc /\ shared' = shared

\* A thread returns when it is through its steps.
LEMMA ReturnedByReturn ==
  ASSUME TypeInv, NEW t \in Threads, Return(t)
  PROVE  Returned(t)
<1> DEFINE n == run[t].n
           value == IF Value(t) = "ok" THEN "ok" ELSE "fail"
           record == [told[n] EXCEPT !.result = value]
<1>1. /\ run[t] # Idle /\ Ended(t) /\ store' = store /\ pend' = pend /\ rc' = rc /\ shared' = shared
      /\ told' = [told EXCEPT ![n] = record] /\ run' = [run EXCEPT ![t] = Idle]
  BY DEF Return, Ended, Value
<1>2. /\ run \in [Threads -> {Idle} \cup Calls] /\ told \in [1..MaxCalls -> Told]
      /\ n \in 1..MaxCalls /\ told[n].kind # "none"
  BY <1>1 DEF TypeInv
<1>3. told[n] \in [kind : Kinds, on : Ons, result : {"none", "ok", "fail"}, stale : Results]
  BY <1>2 DEF Told
<1>4. /\ record \in Told /\ record.kind = told[n].kind /\ record.on = told[n].on
      /\ record.stale = told[n].stale /\ record.result = value
  BY <1>3 DEF Told
<1> HIDE DEF record, n
<1>5. /\ told' \in [1..MaxCalls -> Told] /\ told'[n] = record
      /\ \A m \in (1..MaxCalls) \ {n} : told'[m] = told[m]
  BY <1>1, <1>2, <1>4
<1>6. /\ run' \in [Threads -> {Idle} \cup Calls] /\ run'[t] = Idle
      /\ \A u \in Threads \ {t} : run'[u] = run[u]
  BY <1>1, <1>2
<1>7. QED
  BY <1>1, <1>2, <1>4, <1>5, <1>6 DEF Returned, n

(***************************************************************************)
(* Types are kept                                                          *)
(***************************************************************************)

\* Calls are not counted twice.
LEMMA BegunKept ==
  ASSUME TypeInv, told' \in [1..MaxCalls -> Told],
         \A m \in 1..MaxCalls : told'[m].kind = told[m].kind
  PROVE  /\ Begun' = Begun /\ Begun' \in 0..MaxCalls
         /\ {m \in 1..MaxCalls : told'[m].kind # "none"} = 1..Begun'
<1>1. DOMAIN told = 1..MaxCalls /\ DOMAIN told' = 1..MaxCalls
  BY DEF TypeInv
<1>2. {m \in 1..MaxCalls : told'[m].kind # "none"} = {m \in 1..MaxCalls : told[m].kind # "none"}
  OBVIOUS
<1>3. Begun' = Begun
  BY <1>1, <1>2 DEF Begun
<1>4. QED
  BY <1>2, <1>3 DEF TypeInv

\* Every step keeps the types.
LEMMA TypeKept == TypeInv /\ [Next]_vars => TypeInv'
<1> SUFFICES ASSUME TypeInv, [Next]_vars PROVE TypeInv'
  OBVIOUS
<1>1. ASSUME NEW t \in Threads, NEW kind \in Kinds, NEW on \in Ons, NEW ops \in Seq(Ops),
             NEW back \in To, Begins(t, kind, on, ops, back)
      PROVE  TypeInv'
  <2>1. PICK n : Entered(t, kind, on, ops, back, n)
    BY <1>1, EnteredByBegin
  <2>2. Begun \in 0..MaxCalls /\ {m \in 1..MaxCalls : told[m].kind # "none"} = 1..Begun
    BY DEF TypeInv
  <2>3. n = Begun + 1 /\ n \in 1..MaxCalls /\ Begun' = n
    BY <2>1 DEF Entered
  <2>4. 1..n = (1..Begun) \cup {n}
    BY <2>2, <2>3
  <2>5. {m \in 1..MaxCalls : told'[m].kind # "none"} = 1..Begun'
    <3>1. told'[n].kind # "none"
      BY <2>1 DEF Entered, Kinds
    <3>2. \A m \in (1..MaxCalls) \ {n} : told'[m].kind # "none" <=> m \in 1..Begun
      BY <2>1, <2>2 DEF Entered
    <3>3. 1..Begun \subseteq 1..MaxCalls
      BY <2>2, BoundAssumption
    <3>4. {m \in 1..MaxCalls : told'[m].kind # "none"} = (1..Begun) \cup {n}
      BY <3>1, <3>2, <3>3, <2>3
    <3>5. QED
      BY <3>4, <2>3, <2>4
  <2>6. \A u \in Threads : run'[u] # Idle => run'[u].n \in 1..Begun'
    <3>1. run'[t].n = n
      BY <2>1 DEF Entered
    <3>2. \A u \in Threads \ {t} : run'[u] # Idle => run'[u].n \in 1..Begun
      BY <2>1 DEF Entered, TypeInv
    <3>3. QED
      BY <3>1, <3>2, <2>3, <2>4
  <2>7. \A p \in Procs : pend'[p].by \subseteq 1..Begun'
    BY <2>1, <2>3, <2>4 DEF Entered, TypeInv
  <2>8. Begun' \in 0..MaxCalls
    BY <2>3, BoundAssumption
  <2>9. /\ run' \in [Threads -> {Idle} \cup Calls] /\ told' \in [1..MaxCalls -> Told]
        /\ shared' \subseteq 1..Begun' /\ store' = store /\ pend' = pend
        /\ rc' \in [Procs -> Results]
    BY <2>1 DEF Entered
  <2>10. store' \in SUBSET Facts /\ Valid(store)' /\ pend' \in [Procs -> Sessions]
    BY <2>9 DEF TypeInv, Valid
  <2>11. QED
    BY <2>5, <2>6, <2>7, <2>8, <2>9, <2>10 DEF TypeInv
<1>2. ASSUME NEW t \in Threads, Step(t), ~Return(t)
      PROVE  TypeInv'
  <2> DEFINE p == Home(t)
  <2>1. Moves(t)
    BY <1>2, StepsMove
  <2>2. told' = told /\ shared' = shared
    BY <2>1 DEF Moves
  <2>3. /\ Begun' = Begun /\ Begun' \in 0..MaxCalls
        /\ {m \in 1..MaxCalls : told'[m].kind # "none"} = 1..Begun'
    <3>1. told' \in [1..MaxCalls -> Told] /\ \A m \in 1..MaxCalls : told'[m].kind = told[m].kind
      BY <2>2 DEF TypeInv
    <3>2. QED
      BY <3>1, BegunKept
  <2>4. run[t].n \in 1..Begun /\ 1..Begun \subseteq 1..MaxCalls
    BY <2>1, BoundAssumption DEF Moves, TypeInv
  <2>5. \A u \in Threads : run'[u] # Idle => run'[u].n \in 1..Begun'
    BY <2>1, <2>3 DEF Moves, TypeInv
  <2>6. /\ pend \in [Procs -> Sessions] /\ p \in Procs /\ \A q \in Procs : pend[q].by \subseteq 1..Begun
        /\ store \in SUBSET Facts /\ Valid(store)
    BY Homes DEF TypeInv
  <2>7. pend' \in [Procs -> Sessions] /\ \A q \in Procs : pend'[q].by \subseteq 1..Begun
    <3>1. CASE Now(t).op = "put"
      <4> DEFINE new == [del |-> pend[p].del \cup Now(t).del,
                         add |-> (pend[p].add \ Now(t).del) \cup Now(t).add,
                         by |-> pend[p].by \cup {run[t].n}]
      <4>1. pend' = [pend EXCEPT ![p] = new]
        BY <1>2, <3>1, StepsMove
      <4>2. Now(t).del \in SUBSET Facts /\ Now(t).add \in SUBSET Facts
        BY <2>1, <3>1 DEF Moves, Ops
      <4>3. new \in Sessions /\ new.by \subseteq 1..Begun
        BY <2>4, <2>6, <4>2 DEF Sessions
      <4> HIDE DEF new
      <4>4. QED
        BY <2>6, <4>1, <4>3
    <3>2. CASE Now(t).op = "apply"
      <4>1. Empty \in Sessions /\ Empty.by = {}
        BY DEF Empty, Sessions
      <4>2. pend' = pend \/ pend' = [pend EXCEPT ![p] = Empty]
        BY <1>2, <3>2, StepsMove
      <4>3. QED
        BY <2>6, <4>1, <4>2
    <3>3. CASE Now(t).op \notin {"put", "apply"}
      BY <1>2, <2>6, <3>3, StepsMove
    <3>4. QED
      BY <3>1, <3>2, <3>3
  <2>8. store' \in SUBSET Facts /\ Valid(store')
    <3>1. store' = store \/ (Valid(View(p)) /\ store' = View(p))
      BY <1>2, StepsMove
    <3>2. QED
      BY <2>6, <3>1, ViewIsTyped
  <2>9. Valid(store)'
    BY <2>8 DEF Valid
  <2>10. run' \in [Threads -> {Idle} \cup Calls] /\ rc' \in [Procs -> Results]
    BY <2>1 DEF Moves
  <2>11. QED
    BY <2>2, <2>3, <2>5, <2>7, <2>8, <2>9, <2>10 DEF TypeInv
<1>3. ASSUME NEW t \in Threads, Return(t)
      PROVE  TypeInv'
  <2>1. Returned(t)
    BY <1>3, ReturnedByReturn
  <2>2. \A m \in 1..MaxCalls : told'[m].kind = told[m].kind
    BY <2>1 DEF Returned
  <2>3. /\ Begun' = Begun /\ Begun' \in 0..MaxCalls
        /\ {m \in 1..MaxCalls : told'[m].kind # "none"} = 1..Begun'
    BY <2>1, <2>2, BegunKept DEF Returned
  <2>4. \A u \in Threads : run'[u] # Idle => run'[u].n \in 1..Begun'
    BY <2>1, <2>3 DEF Returned, TypeInv
  <2>5. /\ store' = store /\ pend' = pend /\ rc' = rc /\ shared' = shared
        /\ run' \in [Threads -> {Idle} \cup Calls] /\ told' \in [1..MaxCalls -> Told]
    BY <2>1 DEF Returned
  <2>6. Valid(store)'
    BY <2>5 DEF TypeInv, Valid
  <2>7. QED
    BY <2>3, <2>4, <2>5, <2>6 DEF TypeInv
<1>4. CASE UNCHANGED vars
  BY <1>4 DEF TypeInv, vars, Begun, Valid
<1>5. CASE Next
  BY <1>5, <1>1, <1>2, <1>3, NextIs
<1>6. QED
  BY <1>4, <1>5

\* At first nothing has been called.
LEMMA TypeInit == Init => TypeInv
<1> SUFFICES ASSUME Init PROVE TypeInv
  OBVIOUS
<1>1. /\ store = Installed /\ pend = [p \in Procs |-> Empty] /\ rc = [p \in Procs |-> "ok"]
      /\ run = [t \in Threads |-> Idle] /\ shared = {}
      /\ told = [n \in 1..MaxCalls |-> [kind |-> "none", result |-> "none"]]
  BY DEF Init
<1>2. {n \in 1..MaxCalls : told[n].kind # "none"} = {} /\ DOMAIN told = 1..MaxCalls
  BY <1>1
<1>3. Begun = 0
  <2>1. Begun = Cardinality({n \in 1..MaxCalls : told[n].kind # "none"})
    BY <1>2 DEF Begun
  <2>2. QED
    BY <2>1, <1>2, FS_EmptySet
<1>4. told \in [1..MaxCalls -> Told]
  BY <1>1 DEF Told
<1>5. Empty \in Sessions /\ Empty.by = {}
  BY DEF Empty, Sessions
<1>6. pend \in [Procs -> Sessions] /\ \A p \in Procs : pend[p].by = {}
  BY <1>1, <1>5
<1>7. /\ rc \in [Procs -> Results] /\ run \in [Threads -> {Idle} \cup Calls]
      /\ \A t \in Threads : run[t] = Idle
  BY <1>1 DEF Results
<1>8. 1..0 = {} /\ 0 \in 0..MaxCalls
  BY BoundAssumption
<1>9. QED
  BY <1>1, <1>2, <1>3, <1>4, <1>6, <1>7, <1>8, InstalledAssumption DEF TypeInv

\* Every variable stays in its range, the datastore stays valid, and a session
\* knows whose changes it holds.
THEOREM TypeCorrect == Spec => []TypeOK
<1>1. TypeInv => TypeOK
  BY DEF TypeInv, TypeOK, Sessions, Results, Calls
<1>2. QED
  BY <1>1, TypeInit, TypeKept, PTL DEF Spec

(***************************************************************************)
(* Calls                                                                   *)
(***************************************************************************)

\* The calls that run have begun and have a place in told.
LEMMA RunningCalls ==
  ASSUME TypeInv, NEW t \in Threads, run[t] # Idle
  PROVE  /\ run[t] \in Calls /\ run[t].n \in 1..Begun /\ run[t].n \in 1..MaxCalls
         /\ 1..Begun \subseteq 1..MaxCalls
  BY BoundAssumption DEF TypeInv

\* Every step keeps the calls apart and the sessions with their processes.
LEMMA CallKept == TypeInv /\ CallInv /\ [Next]_vars => CallInv'
<1> SUFFICES ASSUME TypeInv, CallInv, [Next]_vars PROVE CallInv'
  OBVIOUS
<1>0. /\ \A t \in Threads : run[t] # Idle =>
           /\ told[run[t].n].kind = run[t].kind /\ told[run[t].n].result = "none"
           /\ Program(t, run[t].kind, On(t), run[t].ops, run[t].back)
           /\ \A u \in Threads : run[u] # Idle /\ run[u].n = run[t].n => u = t
           /\ \A p \in Procs : run[t].n \in pend[p].by => p = Home(t)
      /\ \A t \in Threads : Alone(t) => Mates(t) = {}
      /\ \A p \in Procs : pend[p].by = {} => pend[p] = Empty
  BY DEF CallInv
<1>1. ASSUME NEW t \in Threads, NEW kind \in Kinds, NEW on \in Ons, NEW ops \in Seq(Ops),
             NEW back \in To, Begins(t, kind, on, ops, back)
      PROVE  CallInv'
  <2>1. PICK n : Entered(t, kind, on, ops, back, n)
    BY <1>1, EnteredByBegin
  <2>2. /\ n = Begun + 1 /\ n \in 1..MaxCalls /\ run[t] = Idle /\ pend' = pend
        /\ run'[t] = [kind |-> kind, n |-> n, ops |-> ops, pc |-> 1, ret |-> "ok", back |-> back]
        /\ \A u \in Threads \ {t} : run'[u] = run[u]
        /\ told'[n] = [kind |-> kind, on |-> on, result |-> "none", stale |-> rc[Home(t)]]
        /\ \A m \in (1..MaxCalls) \ {n} : told'[m] = told[m]
    BY <2>1 DEF Entered
  <2>3. n \notin 1..Begun /\ Begun \in Nat
    BY <2>2 DEF TypeInv
  <2>4. ASSUME NEW u \in Threads \ {t}, run'[u] # Idle
        PROVE  /\ run[u] # Idle /\ run'[u] = run[u] /\ run[u].n # n
               /\ told'[run[u].n] = told[run[u].n]
    BY <2>2, <2>3, <2>4, RunningCalls
  <2>5. \A p \in Procs : n \notin pend[p].by
    BY <2>3 DEF TypeInv
  <2>6. ASSUME NEW u \in Threads, run'[u] # Idle
        PROVE  /\ told'[run'[u].n].kind = run'[u].kind /\ told'[run'[u].n].result = "none"
               /\ Program(u, run'[u].kind, told'[run'[u].n].on, run'[u].ops, run'[u].back)
               /\ \A v \in Threads : run'[v] # Idle /\ run'[v].n = run'[u].n => v = u
               /\ \A p \in Procs : run'[u].n \in pend'[p].by => p = Home(u)
    <3>1. CASE u = t
      <4>1. Program(t, kind, on, ops, back)
        BY <1>1 DEF Begins
      <4>2. run'[t].kind = kind /\ run'[t].n = n /\ run'[t].ops = ops /\ run'[t].back = back
        BY <2>2
      <4>3. told'[n].kind = kind /\ told'[n].result = "none" /\ told'[n].on = on
        BY <2>2
      <4>4. QED
        BY <2>2, <2>4, <2>5, <3>1, <4>1, <4>2, <4>3
    <3>2. CASE u # t
      <4>1. run'[t].n = n
        BY <2>2
      <4>2. QED
        BY <1>0, <2>2, <2>4, <2>6, <3>2, <4>1 DEF On
    <3>3. QED
      BY <3>1, <3>2
  <2>7. ASSUME NEW u \in Threads, run'[u] # Idle, run'[u].n \notin shared'
        PROVE  \A v \in Threads \ {u} : Home(v) = Home(u) => run'[v] = Idle
    <3>1. shared \subseteq shared' /\ \A v \in Mates(t) : n \in shared' /\ run[v].n \in shared'
      BY <2>1 DEF Entered
    <3>2. CASE u = t
      <4>1. Mates(t) = {}
        BY <2>2, <2>7, <3>1, <3>2
      <4>2. QED
        BY <2>2, <3>2, <4>1 DEF Mates
    <3>3. CASE u # t
      <4>1. run[u] # Idle /\ run'[u] = run[u] /\ run[u].n \notin shared
        BY <2>4, <2>7, <3>1, <3>3
      <4>2. Mates(u) = {}
        BY <1>0, <4>1 DEF Alone
      <4>3. Home(t) # Home(u)
        BY <2>7, <3>1, <3>3, <4>1 DEF Mates
      <4>4. QED
        BY <2>2, <4>2, <4>3 DEF Mates
    <3>4. QED
      BY <3>2, <3>3
  <2>8. \A p \in Procs : pend'[p].by = {} => pend'[p] = Empty
    BY <1>0, <2>2
  <2>9. QED
    BY <2>6, <2>7, <2>8 DEF CallInv, On, Alone, Mates
<1>2. ASSUME NEW t \in Threads, Step(t), ~Return(t)
      PROVE  CallInv'
  <2> DEFINE p == Home(t)
  <2>1. Moves(t)
    BY <1>2, StepsMove
  <2>2. /\ told' = told /\ shared' = shared /\ run[t] # Idle /\ run'[t] # Idle
        /\ run'[t].kind = run[t].kind /\ run'[t].n = run[t].n
        /\ run'[t].ops = run[t].ops /\ run'[t].back = run[t].back
        /\ \A u \in Threads \ {t} : run'[u] = run[u]
    BY <2>1 DEF Moves
  <2>3. \A u \in Threads : /\ run'[u] # Idle <=> run[u] # Idle
                           /\ run'[u].kind = run[u].kind /\ run'[u].n = run[u].n
                           /\ run'[u].ops = run[u].ops /\ run'[u].back = run[u].back
    BY <2>2
  <2>4. pend \in [Procs -> Sessions] /\ p \in Procs
    BY Homes DEF TypeInv
  <2>5. /\ \A q \in Procs : pend'[q].by = {} => pend'[q] = Empty
        /\ \A q \in Procs \ {p} : pend'[q] = pend[q]
        /\ pend'[p].by \subseteq pend[p].by \cup {run[t].n}
    <3>1. CASE Now(t).op = "put"
      <4> DEFINE new == [del |-> pend[p].del \cup Now(t).del,
                         add |-> (pend[p].add \ Now(t).del) \cup Now(t).add,
                         by |-> pend[p].by \cup {run[t].n}]
      <4>1. pend' = [pend EXCEPT ![p] = new]
        BY <1>2, <3>1, StepsMove
      <4>2. new.by = pend[p].by \cup {run[t].n}
        OBVIOUS
      <4> HIDE DEF new
      <4>3. QED
        BY <1>0, <2>4, <4>1, <4>2
    <3>2. CASE Now(t).op = "apply"
      <4>1. Empty.by = {}
        BY DEF Empty
      <4>2. pend' = pend \/ pend' = [pend EXCEPT ![p] = Empty]
        BY <1>2, <3>2, StepsMove
      <4>3. QED
        BY <1>0, <2>4, <4>1, <4>2
    <3>3. CASE Now(t).op \notin {"put", "apply"}
      BY <1>0, <1>2, <3>3, StepsMove
    <3>4. QED
      BY <3>1, <3>2, <3>3
  <2>6. ASSUME NEW u \in Threads, run'[u] # Idle
        PROVE  /\ told'[run'[u].n].kind = run'[u].kind /\ told'[run'[u].n].result = "none"
               /\ Program(u, run'[u].kind, told'[run'[u].n].on, run'[u].ops, run'[u].back)
               /\ \A v \in Threads : run'[v] # Idle /\ run'[v].n = run'[u].n => v = u
    BY <1>0, <2>2, <2>3, <2>6 DEF On
  <2>7. ASSUME NEW u \in Threads, run'[u] # Idle, NEW q \in Procs, run'[u].n \in pend'[q].by
        PROVE  q = Home(u)
    <3>1. run[u] # Idle /\ run'[u].n = run[u].n
      BY <2>3, <2>7
    <3>2. CASE run[u].n \in pend[q].by
      BY <1>0, <3>1, <3>2
    <3>3. CASE run[u].n \notin pend[q].by
      <4>1. q = p /\ run[u].n = run[t].n
        BY <2>5, <2>7, <3>1, <3>3
      <4>2. QED
        BY <1>0, <2>2, <3>1, <4>1
    <3>4. QED
      BY <3>2, <3>3
  <2>8. ASSUME NEW u \in Threads, run'[u] # Idle, run'[u].n \notin shared'
        PROVE  \A v \in Threads \ {u} : Home(v) = Home(u) => run'[v] = Idle
    BY <1>0, <2>2, <2>3, <2>8 DEF Alone, Mates
  <2>9. QED
    BY <2>5, <2>6, <2>7, <2>8 DEF CallInv, On, Alone, Mates
<1>3. ASSUME NEW t \in Threads, Return(t)
      PROVE  CallInv'
  <2>1. Returned(t)
    BY <1>3, ReturnedByReturn
  <2>2. /\ run[t] # Idle /\ run'[t] = Idle /\ \A u \in Threads \ {t} : run'[u] = run[u]
        /\ \A m \in (1..MaxCalls) \ {run[t].n} : told'[m] = told[m]
        /\ pend' = pend /\ shared' = shared
    BY <2>1 DEF Returned
  <2>3. ASSUME NEW u \in Threads, run'[u] # Idle
        PROVE  run[u] # Idle /\ run'[u] = run[u] /\ told'[run[u].n] = told[run[u].n]
    <3>1. u # t /\ run[u] # Idle /\ run'[u] = run[u]
      BY <2>2, <2>3
    <3>2. run[u].n # run[t].n
      BY <1>0, <2>2, <3>1
    <3>3. QED
      BY <2>2, <3>1, <3>2, RunningCalls
  <2>4. ASSUME NEW u \in Threads, run'[u] # Idle
        PROVE  /\ told'[run'[u].n].kind = run'[u].kind /\ told'[run'[u].n].result = "none"
               /\ Program(u, run'[u].kind, told'[run'[u].n].on, run'[u].ops, run'[u].back)
               /\ \A v \in Threads : run'[v] # Idle /\ run'[v].n = run'[u].n => v = u
               /\ \A p \in Procs : run'[u].n \in pend'[p].by => p = Home(u)
    BY <1>0, <2>2, <2>3, <2>4 DEF On
  <2>5. ASSUME NEW u \in Threads, run'[u] # Idle, run'[u].n \notin shared'
        PROVE  \A v \in Threads \ {u} : Home(v) = Home(u) => run'[v] = Idle
    BY <1>0, <2>2, <2>3, <2>5 DEF Alone, Mates
  <2>6. \A p \in Procs : pend'[p].by = {} => pend'[p] = Empty
    BY <1>0, <2>2
  <2>7. QED
    BY <2>4, <2>5, <2>6 DEF CallInv, On, Alone, Mates
<1>4. CASE UNCHANGED vars
  BY <1>4 DEF CallInv, vars, On, Alone, Mates
<1>5. CASE Next
  BY <1>5, <1>1, <1>2, <1>3, NextIs
<1>6. QED
  BY <1>4, <1>5

\* A put and a transaction change the session of the process, nothing else does.
LEMMA SessionsMove ==
  ASSUME TypeInv, NEW t \in Threads, Step(t), ~Return(t), NEW p, p = Home(t)
  PROVE  /\ p \in Procs /\ \A q \in Procs \ {p} : pend'[q] = pend[q]
         /\ pend'[p].by \subseteq pend[p].by \cup {run[t].n}
         /\ Now(t).op = "put" =>
              /\ pend'[p].del = pend[p].del \cup Now(t).del
              /\ pend'[p].add = (pend[p].add \ Now(t).del) \cup Now(t).add
              /\ pend'[p].by = pend[p].by \cup {run[t].n}
              /\ store' = store /\ After(t, "ok")
         /\ Now(t).op = "apply" =>
              \/ /\ Valid(View(p)) /\ After(t, "ok") /\ store' = View(p)
                 /\ pend'[p].del = {} /\ pend'[p].add = {} /\ pend'[p].by = {}
              \/ ~Valid(View(p)) /\ After(t, "err") /\ store' = store /\ pend' = pend
         /\ Now(t).op \notin {"put", "apply"} => store' = store /\ pend' = pend
<1>1. pend \in [Procs -> Sessions] /\ p \in Procs
  BY Homes DEF TypeInv
<1>2. CASE Now(t).op = "put"
  <2> DEFINE new == [del |-> pend[p].del \cup Now(t).del,
                     add |-> (pend[p].add \ Now(t).del) \cup Now(t).add,
                     by |-> pend[p].by \cup {run[t].n}]
  <2>1. pend' = [pend EXCEPT ![p] = new] /\ store' = store /\ After(t, "ok")
    BY <1>2, StepsMove
  <2>2. /\ new.del = pend[p].del \cup Now(t).del
        /\ new.add = (pend[p].add \ Now(t).del) \cup Now(t).add
        /\ new.by = pend[p].by \cup {run[t].n}
    OBVIOUS
  <2> HIDE DEF new
  <2>3. pend'[p] = new /\ \A q \in Procs \ {p} : pend'[q] = pend[q]
    BY <1>1, <2>1
  <2>4. QED
    BY <1>1, <1>2, <2>1, <2>2, <2>3
<1>3. CASE Now(t).op = "apply"
  <2>1. \/ /\ Valid(View(p)) /\ After(t, "ok") /\ store' = View(p)
           /\ pend' = [pend EXCEPT ![p] = Empty]
        \/ ~Valid(View(p)) /\ After(t, "err") /\ store' = store /\ pend' = pend
    BY <1>3, StepsMove
  <2>2. Empty.del = {} /\ Empty.add = {} /\ Empty.by = {}
    BY DEF Empty
  <2>3. QED
    BY <1>1, <1>3, <2>1, <2>2
<1>4. CASE Now(t).op \notin {"put", "apply"}
  BY <1>1, <1>4, StepsMove
<1>5. QED
  BY <1>2, <1>3, <1>4

\* A thread goes on by one step, or a test leads it away from an error.
LEMMA StepsAdvance ==
  ASSUME TypeInv, NEW t \in Threads, Step(t), ~Return(t)
  PROVE  \/ run'[t].pc = run[t].pc + 1
         \/ /\ Now(t).op = "test" /\ run'[t].pc = run[t].pc + Now(t).skip + 1
            /\ rc' = rc /\ run'[t].ret = run[t].ret /\ Now(t).skip \in Nat
            /\ (IF Now(t).to = "rc" THEN rc[Home(t)] ELSE run[t].ret) # "ok"
<1>1. Moves(t)
  BY StepsMove
<1>2. CASE Now(t).op # "test"
  BY <1>2, StepsMove DEF After
<1>3. CASE Now(t).op = "test"
  <2>1. Now(t).skip \in Nat /\ run[t].pc \in Nat
    BY <1>1, <1>3 DEF Moves, Ops, Calls
  <2> DEFINE value == IF Now(t).to = "rc" THEN rc[Home(t)] ELSE run[t].ret
  <2>2. /\ rc' = rc /\ run'[t].ret = run[t].ret
        /\ run'[t].pc = run[t].pc + (IF value = "ok" THEN 1 ELSE Now(t).skip + 1)
    BY <1>3, StepsMove
  <2>3. QED
    BY <1>3, <2>1, <2>2
<1>4. QED
  BY <1>2, <1>3

\* While a call that is alone runs, other threads neither set the variable of its
\* process nor touch the session.
LEMMA AloneIsUntouched ==
  ASSUME TypeInv, CallInv, NEW t \in Threads, NEW u \in Threads \ {t}, Alone(u),
         Step(t), ~Return(t)
  PROVE  /\ Home(u) # Home(t) /\ Home(u) \in Procs
         /\ rc'[Home(u)] = rc[Home(u)] /\ pend'[Home(u)] = pend[Home(u)] /\ run'[u] = run[u]
<1>1. Moves(t)
  BY StepsMove
<1>2. Home(u) # Home(t)
  BY <1>1 DEF Moves, CallInv, Mates
<1>3. QED
  BY <1>1, <1>2, Homes, SessionsMove DEF Moves

\* The same when another thread enters a call.
LEMMA AloneStaysAlone ==
  ASSUME TypeInv, CallInv, NEW t \in Threads, NEW kind \in Kinds, NEW on \in Ons,
         NEW ops \in Seq(Ops), NEW back \in To, NEW n, Entered(t, kind, on, ops, back, n),
         NEW u \in Threads \ {t}, Alone(u)'
  PROVE  /\ Alone(u) /\ run'[u] = run[u] /\ Home(u) # Home(t)
         /\ rc'[Home(u)] = rc[Home(u)] /\ told'[run[u].n] = told[run[u].n]
<1>1. run'[u] = run[u] /\ run'[u] # Idle /\ run'[u].n \notin shared' /\ shared \subseteq shared'
  BY DEF Entered, Alone
<1>2. Alone(u)
  BY <1>1 DEF Alone
<1>3. Home(u) # Home(t)
  BY <1>1 DEF Entered, Mates
<1>4. run[u].n \in 1..Begun /\ run[u].n \in 1..MaxCalls /\ Begun \in Nat
  BY <1>1, RunningCalls DEF TypeInv
<1>5. QED
  BY <1>1, <1>2, <1>3, <1>4, Homes DEF Entered

\* What is so of every call that runs.
LEMMA RunningPrograms ==
  ASSUME TypeInv, CallInv, NEW t \in Threads, run[t] # Idle
  PROVE  /\ run[t] \in Calls /\ run[t].n \in 1..MaxCalls
         /\ told[run[t].n].kind = run[t].kind /\ told[run[t].n].result = "none"
         /\ Program(t, run[t].kind, On(t), run[t].ops, run[t].back)
         /\ Len(run[t].ops) \in Nat /\ DOMAIN run[t].ops = 1..Len(run[t].ops)
  BY RunningCalls, LenProperties DEF CallInv, Calls

(***************************************************************************)
(* Success is commitment                                                   *)
(***************************************************************************)

\* A call that commits at its end and is through with success has nothing left
\* in its session.
LEMMA CommitsAtEnd ==
  ASSUME TypeInv, NEW t \in Threads, Step(t), ~Return(t),
         Commits(run[t].ops, run[t].back), Ended(t)', Value(t)' = "ok"
  PROVE  pend'[Home(t)].by = {}
<1> DEFINE L == Len(run[t].ops)
<1>1. Moves(t)
  BY StepsMove
<1>2. /\ run[t].pc \in 1..L /\ Now(t) \in Ops /\ run'[t].ops = run[t].ops
      /\ run'[t].back = run[t].back /\ run[t] \in Calls /\ rc \in [Procs -> Results]
      /\ Now(t) = run[t].ops[run[t].pc] /\ rc' \in [Procs -> Results]
  BY <1>1 DEF Moves, TypeInv, Now
<1>3. L \in Nat /\ run[t].back \in To
  BY <1>2, LenProperties DEF Calls
<1>4. run'[t].pc > L
  BY <1>2 DEF Ended
<1>5. Value(t)' = IF run[t].back = "rc" THEN rc'[Home(t)] ELSE run'[t].ret
  BY <1>2 DEF Value
<1>6. /\ L > 0 /\ run[t].ops[L] = Apply(run[t].back)
      /\ Now(t).op = "test" =>
           \/ run[t].pc + Now(t).skip < L
           \/ run[t].pc + Now(t).skip = L /\ Now(t).to = run[t].back
  BY <1>2 DEF Commits
<1> HIDE DEF L
<1>7. CASE run'[t].pc = run[t].pc + 1
  <2>1. run[t].pc = L
    BY <1>2, <1>3, <1>4, <1>7
  <2>2. Now(t).op = "apply" /\ Now(t).to = run[t].back
    BY <1>2, <1>6, <2>1, FieldsOfSteps
  <2>3. ~After(t, "err")
    BY <1>3, <1>5, <2>2 DEF After, To
  <2>4. QED
    BY <2>2, <2>3, SessionsMove
<1>8. CASE /\ Now(t).op = "test" /\ run'[t].pc = run[t].pc + Now(t).skip + 1
           /\ rc' = rc /\ run'[t].ret = run[t].ret /\ Now(t).skip \in Nat
           /\ (IF Now(t).to = "rc" THEN rc[Home(t)] ELSE run[t].ret) # "ok"
  <2>1. Now(t).to = run[t].back
    BY <1>2, <1>3, <1>4, <1>6, <1>8
  <2>2. Value(t)' # "ok"
    BY <1>5, <1>8, <2>1
  <2>3. QED
    BY <2>2
<1>9. QED
  BY <1>7, <1>8, StepsAdvance

\* So is the call that sets the images, unless it finds an error in rc.
LEMMA ImagesAtEnd ==
  ASSUME TypeInv, NEW t \in Threads, Step(t), ~Return(t),
         ImagesFields(run[t].ops), run[t].back = "ret"
  PROVE  /\ rc'[Home(t)] = rc[Home(t)]
         /\ Ended(t)' /\ Value(t)' = "ok" /\ rc[Home(t)] = "ok" => pend'[Home(t)].by = {}
<1>1. Moves(t)
  BY StepsMove
<1>2. /\ run[t].pc \in 1..5 /\ run'[t].ops = run[t].ops /\ run'[t].back = "ret"
      /\ Now(t) = run[t].ops[run[t].pc] /\ Len(run[t].ops) = 5
  BY <1>1 DEF Moves, Now, ImagesFields
<1>3. /\ Now(t).op \in {"put", "test", "apply"} /\ (Now(t).op # "test" => Now(t).to = "ret")
      /\ Now(t).op = "apply" => run[t].pc = 5
      /\ run[t].pc = 5 => Now(t).op = "apply"
      /\ Now(t).op = "test" => \/ run[t].pc = 2 /\ Now(t).to = "ret"
                               \/ run[t].pc = 4 /\ Now(t).to = "rc"
  BY <1>2, run[t].pc \in {1, 2, 3, 4, 5} DEF ImagesFields
<1>4. rc' = rc
  BY <1>3, StepsMove DEF After
<1>5. ASSUME Ended(t)', Value(t)' = "ok", rc[Home(t)] = "ok"
      PROVE  pend'[Home(t)].by = {}
  <2>1. run'[t].pc > 5 /\ run'[t].ret = "ok"
    BY <1>2, <1>5 DEF Ended, Value
  <2>2. Now(t).op # "test"
    BY <1>2, <1>3, <1>5, <2>1, StepsAdvance
  <2>3. run[t].pc = 5
    BY <1>2, <2>1, <2>2, StepsAdvance
  <2>4. Now(t).op = "apply" /\ ~After(t, "err")
    BY <1>3, <2>1, <2>3 DEF After
  <2>5. QED
    BY <2>4, SessionsMove
<1>6. QED
  BY <1>4, <1>5

\* Every step keeps what is said of calls that are alone at their end.
LEMMA CommitKept == TypeInv /\ CallInv /\ CommitInv /\ [Next]_vars => CommitInv'
<1> SUFFICES ASSUME TypeInv, CallInv, CommitInv, [Next]_vars PROVE CommitInv'
  OBVIOUS
<1>0. /\ \A t \in Threads : Alone(t) =>
           /\ Ended(t) /\ Value(t) = "ok" /\ run[t].n \in pend[Home(t)].by => Excepted(told[run[t].n])
           /\ run[t].kind = "images" => rc[Home(t)] = told[run[t].n].stale
           /\ run[t].kind = "read" => run[t].n \notin pend[Home(t)].by
      /\ \A n \in 1..MaxCalls : told[n].result = "ok" /\ n \notin shared =>
           \A p \in Procs : n \in pend[p].by => Excepted(told[n])
  BY DEF CommitInv, OkIsCommitted, Called, Excepted, TypeInv
<1>a. ASSUME told' \in [1..MaxCalls -> Told],
             \A t \in Threads : Alone(t)' =>
               /\ /\ Ended(t)' /\ Value(t)' = "ok" /\ run'[t].n \in pend'[Home(t)].by
                  => Excepted(told'[run'[t].n])
               /\ run'[t].kind = "images" => rc'[Home(t)] = told'[run'[t].n].stale
               /\ run'[t].kind = "read" => run'[t].n \notin pend'[Home(t)].by,
             \A n \in 1..MaxCalls : told'[n].result = "ok" /\ n \notin shared' =>
               \A p \in Procs : n \in pend'[p].by => Excepted(told'[n])
      PROVE  CommitInv'
  BY <1>a DEF CommitInv, OkIsCommitted, Called, Excepted
<1>1. ASSUME NEW t \in Threads, NEW kind \in Kinds, NEW on \in Ons, NEW ops \in Seq(Ops),
             NEW back \in To, Begins(t, kind, on, ops, back)
      PROVE  CommitInv'
  <2>1. PICK n : Entered(t, kind, on, ops, back, n)
    BY <1>1, EnteredByBegin
  <2>2. /\ n = Begun + 1 /\ n \in 1..MaxCalls /\ pend' = pend
        /\ run'[t] = [kind |-> kind, n |-> n, ops |-> ops, pc |-> 1, ret |-> "ok", back |-> back]
        /\ told'[n] = [kind |-> kind, on |-> on, result |-> "none", stale |-> rc[Home(t)]]
        /\ \A m \in (1..MaxCalls) \ {n} : told'[m] = told[m]
        /\ shared \subseteq shared' /\ told' \in [1..MaxCalls -> Told]
        /\ \A p \in Procs \ {"rest"} : rc'[p] = rc[p]
    BY <2>1 DEF Entered
  <2>3. \A p \in Procs : n \notin pend[p].by
    BY <2>2 DEF TypeInv
  <2>4. ASSUME NEW u \in Threads, Alone(u)'
        PROVE  /\ /\ Ended(u)' /\ Value(u)' = "ok" /\ run'[u].n \in pend'[Home(u)].by
                  => Excepted(told'[run'[u].n])
               /\ run'[u].kind = "images" => rc'[Home(u)] = told'[run'[u].n].stale
               /\ run'[u].kind = "read" => run'[u].n \notin pend'[Home(u)].by
    <3>1. CASE u = t
      <4>1. run'[t].n = n /\ run'[t].kind = kind /\ told'[n].stale = rc[Home(t)]
        BY <2>2
      <4>2. kind = "images" => t = Container
        BY <1>1, Programs DEF Begins
      <4>3. kind = "images" => rc'[Home(t)] = rc[Home(t)]
        BY <2>2, <4>2, Homes
      <4>4. QED
        BY <2>2, <2>3, <3>1, <4>1, <4>3, Homes
    <3>2. CASE u # t
      <4>1. /\ Alone(u) /\ run'[u] = run[u] /\ rc'[Home(u)] = rc[Home(u)]
            /\ told'[run[u].n] = told[run[u].n]
        BY <2>1, <2>4, <3>2, AloneStaysAlone
      <4>2. Ended(u)' = Ended(u) /\ Value(u)' = Value(u)
        BY <4>1 DEF Ended, Value
      <4>3. Excepted(told'[run[u].n]) = Excepted(told[run[u].n])
        BY <4>1 DEF Excepted
      <4>4. Excepted(told'[run'[u].n]) = Excepted(told[run[u].n])
        BY <4>1, <4>3 DEF Excepted
      <4>5. QED
        BY <1>0, <2>2, <4>1, <4>2, <4>4
    <3>3. QED
      BY <3>1, <3>2
  <2>5. ASSUME NEW m \in 1..MaxCalls, told'[m].result = "ok", m \notin shared',
               NEW p \in Procs, m \in pend'[p].by
        PROVE  Excepted(told'[m])
    <3>1. m # n
      BY <2>2, <2>3, <2>5
    <3>2. told'[m] = told[m] /\ m \notin shared
      BY <2>2, <2>5, <3>1
    <3>3. Excepted(told[m])
      BY <1>0, <2>2, <2>5, <3>2
    <3>4. QED
      BY <3>2, <3>3 DEF Excepted
  <2>6. QED
    BY <1>a, <2>2, <2>4, <2>5
<1>2. ASSUME NEW t \in Threads, Step(t), ~Return(t)
      PROVE  CommitInv'
  <2>1. Moves(t)
    BY <1>2, StepsMove
  <2>2. /\ told' = told /\ shared' = shared /\ run[t] # Idle /\ run'[t] # Idle
        /\ run'[t].kind = run[t].kind /\ run'[t].n = run[t].n
        /\ run'[t].ops = run[t].ops /\ run'[t].back = run[t].back
        /\ run[t].pc \in 1..Len(run[t].ops) /\ Now(t) = run[t].ops[run[t].pc]
    BY <2>1 DEF Moves, Now
  <2>3. /\ Home(t) \in Procs /\ \A q \in Procs \ {Home(t)} : pend'[q] = pend[q]
        /\ pend'[Home(t)].by \subseteq pend[Home(t)].by \cup {run[t].n}
    BY <1>2, SessionsMove
  <2>4. ASSUME NEW u \in Threads, Alone(u)'
        PROVE  /\ /\ Ended(u)' /\ Value(u)' = "ok" /\ run'[u].n \in pend'[Home(u)].by
                  => Excepted(told'[run'[u].n])
               /\ run'[u].kind = "images" => rc'[Home(u)] = told'[run'[u].n].stale
               /\ run'[u].kind = "read" => run'[u].n \notin pend'[Home(u)].by
    <3>1. CASE u # t
      <4>1. Alone(u)
        BY <2>1, <2>4, <3>1 DEF Alone, Moves
      <4>2. rc'[Home(u)] = rc[Home(u)] /\ pend'[Home(u)] = pend[Home(u)] /\ run'[u] = run[u]
        BY <1>2, <3>1, <4>1, AloneIsUntouched
      <4>3. Ended(u)' = Ended(u) /\ Value(u)' = Value(u)
        BY <4>2 DEF Ended, Value
      <4>4. Excepted(told'[run'[u].n]) = Excepted(told[run[u].n])
        BY <2>2, <4>2 DEF Excepted
      <4>5. QED
        BY <1>0, <2>2, <4>1, <4>2, <4>3, <4>4
    <3>2. CASE u = t
      <4>1. Alone(t)
        BY <2>2, <2>4, <3>2 DEF Alone
      <4>2. /\ told[run[t].n].kind = run[t].kind
            /\ Program(t, run[t].kind, On(t), run[t].ops, run[t].back)
        BY <2>2, RunningPrograms
      <4>3. Excepted(told'[run'[t].n]) = Excepted(told[run[t].n])
        BY <2>2 DEF Excepted
      <4>4. CASE run[t].kind = "apps" \/ On(t) = "mask"
        <5>1. Excepted(told[run[t].n])
          BY <4>2, <4>4 DEF Excepted, On
        <5>2. run[t].kind = "apps" \/ run[t].kind \notin {"images", "apps", "read"}
          BY <4>2, <4>4, <4>2 DEF Program
        <5>3. QED
          BY <2>2, <3>2, <4>3, <5>1, <5>2
      <4>5. CASE run[t].kind = "read"
        <5>1. Puts(run[t].kind, On(t), run[t].ops)
          BY <4>2, Programs
        <5>2. Now(t).op # "put"
          BY <2>2, <4>5, <5>1 DEF Puts, PutsOf
        <5>3. pend'[Home(t)].by \subseteq pend[Home(t)].by
          BY <1>2, <2>3, <5>2, SessionsMove
        <5>4. run[t].n \notin pend'[Home(t)].by
          BY <1>0, <4>1, <4>5, <5>3
        <5>5. QED
          BY <2>2, <3>2, <4>5, <5>4
      <4>6. CASE run[t].kind = "images"
        <5>1. ImagesFields(run[t].ops) /\ run[t].back = "ret"
          BY <4>2, <4>6, Programs
        <5>2. /\ rc'[Home(t)] = rc[Home(t)]
              /\ Ended(t)' /\ Value(t)' = "ok" /\ rc[Home(t)] = "ok" => pend'[Home(t)].by = {}
          BY <1>2, <5>1, ImagesAtEnd
        <5>3. rc[Home(t)] = told[run[t].n].stale
          BY <1>0, <4>1, <4>6
        <5>4. rc[Home(t)] = "err" => Excepted(told[run[t].n])
          BY <4>2, <4>6, <5>3 DEF Excepted
        <5>5. rc[Home(t)] \in {"ok", "err"}
          BY <2>3 DEF TypeInv, Results
        <5>6. QED
          BY <2>2, <3>2, <4>3, <4>6, <5>2, <5>3, <5>4, <5>5
      <4>7. CASE run[t].kind \notin {"apps", "read", "images"} /\ On(t) # "mask"
        <5>1. Commits(run[t].ops, run[t].back)
          BY <4>2, <4>7, Programs
        <5>2. Ended(t)' /\ Value(t)' = "ok" => pend'[Home(t)].by = {}
          BY <1>2, <5>1, CommitsAtEnd
        <5>3. QED
          BY <2>2, <3>2, <4>7, <5>2
      <4>8. QED
        BY <4>4, <4>5, <4>6, <4>7
    <3>3. QED
      BY <3>1, <3>2
  <2>5. ASSUME NEW m \in 1..MaxCalls, told'[m].result = "ok", m \notin shared',
               NEW p \in Procs, m \in pend'[p].by
        PROVE  Excepted(told'[m])
    <3>1. m # run[t].n
      BY <2>2, <2>5, RunningPrograms
    <3>2. m \in pend[p].by
      BY <2>3, <2>5, <3>1
    <3>3. Excepted(told[m])
      BY <1>0, <2>2, <2>5, <3>2
    <3>4. QED
      BY <2>2, <3>3 DEF Excepted
  <2>6. told' \in [1..MaxCalls -> Told]
    BY <2>2 DEF TypeInv
  <2>7. QED
    BY <1>a, <2>4, <2>5, <2>6
<1>3. ASSUME NEW t \in Threads, Return(t)
      PROVE  CommitInv'
  <2>1. Returned(t)
    BY <1>3, ReturnedByReturn
  <2> DEFINE n == run[t].n
  <2>2. /\ run[t] # Idle /\ Ended(t) /\ run'[t] = Idle
        /\ \A u \in Threads \ {t} : run'[u] = run[u]
        /\ told' \in [1..MaxCalls -> Told]
        /\ told'[n].kind = told[n].kind /\ told'[n].on = told[n].on
        /\ told'[n].stale = told[n].stale
        /\ told'[n].result = IF Value(t) = "ok" THEN "ok" ELSE "fail"
        /\ \A m \in (1..MaxCalls) \ {n} : told'[m] = told[m]
        /\ pend' = pend /\ rc' = rc /\ shared' = shared
    BY <2>1 DEF Returned
  <2>3. n \in 1..MaxCalls
    BY <2>2, RunningCalls
  <2>4. \A m \in 1..MaxCalls : Excepted(told'[m]) = Excepted(told[m])
    BY <2>2 DEF Excepted
  <2>5. ASSUME NEW u \in Threads, Alone(u)'
        PROVE  /\ /\ Ended(u)' /\ Value(u)' = "ok" /\ run'[u].n \in pend'[Home(u)].by
                  => Excepted(told'[run'[u].n])
               /\ run'[u].kind = "images" => rc'[Home(u)] = told'[run'[u].n].stale
               /\ run'[u].kind = "read" => run'[u].n \notin pend'[Home(u)].by
    <3>1. u # t /\ run'[u] = run[u] /\ Alone(u)
      BY <2>2, <2>5 DEF Alone
    <3>2. Ended(u)' = Ended(u) /\ Value(u)' = Value(u)
      BY <2>2, <3>1 DEF Ended, Value
    <3>3. run[u].n \in 1..MaxCalls /\ told'[run[u].n].stale = told[run[u].n].stale
      BY <2>2, <3>1, RunningCalls DEF Alone
    <3>4. Excepted(told'[run'[u].n]) = Excepted(told[run[u].n])
      BY <2>4, <3>1, <3>3 DEF Excepted
    <3>5. QED
      BY <1>0, <2>2, <3>1, <3>2, <3>3, <3>4
  <2>6. ASSUME NEW m \in 1..MaxCalls, told'[m].result = "ok", m \notin shared',
               NEW p \in Procs, m \in pend'[p].by
        PROVE  Excepted(told'[m])
    <3>1. CASE m # n
      BY <1>0, <2>2, <2>4, <2>6, <3>1
    <3>2. CASE m = n
      <4>1. Value(t) = "ok" /\ Alone(t)
        BY <2>2, <2>6, <3>2 DEF Alone
      <4>2. p = Home(t) /\ n \in pend[p].by
        BY <2>2, <2>6, <3>2 DEF CallInv
      <4>3. Excepted(told[n])
        BY <1>0, <2>2, <4>1, <4>2
      <4>4. QED
        BY <2>3, <2>4, <3>2, <4>3
    <3>3. QED
      BY <3>1, <3>2
  <2>7. QED
    BY <1>a, <2>2, <2>5, <2>6
<1>4. CASE UNCHANGED vars
  BY <1>4 DEF CommitInv, OkIsCommitted, Called, Alone, Ended, Value, Excepted, vars
<1>5. CASE Next
  BY <1>5, <1>1, <1>2, <1>3, NextIs
<1>6. QED
  BY <1>4, <1>5

(***************************************************************************)
(* What puts leave alone                                                   *)
(***************************************************************************)

\* Only a request for a stream adds the stream, and whatever takes the request away
\* takes the stream away too.
LEMMA PutsKeepStreams ==
  ASSUME NEW kind, NEW on, NEW D, NEW F, PutsOf(kind, on, D, F), kind \in Kinds,
         NEW s \in Streams, ~(kind = "request" /\ on = s)
  PROVE  Stream(s) \cap F = {} /\ (Request(s) \cap D = {} \/ Stream(s) \subseteq D)
<1>1. /\ \A f \in Stream(s) : f[1] = "stream" /\ f[2] = s
      /\ \A f \in Request(s) : f[1] = "request" /\ f[2] = s
  BY TagsOfFacts
<1>2. \A x : \A f \in OfStream(x) : f[1] \in {"stream", "talker", "request"} /\ f[2] = x
  BY TagsOfFacts DEF OfStream
<1>3. \A a : \A f \in OfApp(a) : f[1] \in {"app", "params", "ref", "maps"}
  BY TagsOfFacts DEF OfApp
<1>4. CASE kind = "request"
  BY <1>1, <1>2, <1>4 DEF PutsOf
<1>5. CASE kind = "delete"
  <2>1. F = {} /\ (D \subseteq MapsTo(on) \/ D = OfStream(on))
    BY <1>5 DEF PutsOf
  <2>2. CASE D \subseteq MapsTo(on)
    BY <1>1, <2>1, <2>2 DEF MapsTo
  <2>3. CASE D = OfStream(on) /\ on # s
    BY <1>1, <1>2, <2>1, <2>3
  <2>4. CASE D = OfStream(on) /\ on = s
    BY <2>1, <2>4 DEF OfStream
  <2>5. QED
    BY <2>1, <2>2, <2>3, <2>4
<1>6. CASE kind \in {"app", "remove"}
  BY <1>1, <1>3, <1>6 DEF PutsOf
<1>7. CASE kind \in {"topology", "attributes", "images"}
  BY <1>1, <1>7, TagsOfFacts DEF PutsOf
<1>8. CASE kind = "apps"
  BY <1>1, <1>3, <1>8, TagsOfFacts DEF PutsOf
<1>9. QED
  BY <1>4, <1>5, <1>6, <1>7, <1>8 DEF PutsOf, Kinds

\* Only writing an application adds it, discoveries aside, and whatever else takes
\* the parameters away takes the application away too.
LEMMA PutsKeepApps ==
  ASSUME NEW kind, NEW on, NEW D, NEW F, PutsOf(kind, on, D, F), kind \in Kinds,
         NEW a \in Apps, ~(kind = "app" /\ on = a), kind # "apps"
  PROVE  App(a) \cap F = {} /\ (Params(a) \cap D = {} \/ App(a) \subseteq D)
<1>1. /\ \A f \in App(a) : f[1] = "app" /\ f[2] = a
      /\ \A f \in Params(a) : f[1] = "params" /\ f[2] = a
  BY TagsOfFacts
<1>2. \A x : \A f \in OfStream(x) : f[1] \in {"stream", "talker", "request"}
  BY TagsOfFacts DEF OfStream
<1>3. \A x : \A f \in OfApp(x) :
        \/ f[1] \in {"app", "params"} /\ f[2] = x
        \/ f[1] \in {"ref", "maps"}
  BY TagsOfFacts DEF OfApp
<1>4. CASE kind = "request"
  BY <1>1, <1>2, <1>4 DEF PutsOf
<1>5. CASE kind = "delete"
  <2>1. F = {} /\ (D \subseteq MapsTo(on) \/ D = OfStream(on))
    BY <1>5 DEF PutsOf
  <2>2. QED
    BY <1>1, <1>2, <2>1 DEF MapsTo
<1>6. CASE kind = "app"
  BY <1>1, <1>3, <1>6 DEF PutsOf
<1>7. CASE kind = "remove"
  <2>1. D = OfApp(on) /\ F = {}
    BY <1>7 DEF PutsOf
  <2>2. CASE on = a
    BY <2>1, <2>2 DEF OfApp
  <2>3. CASE on # a
    BY <1>1, <1>3, <2>1, <2>3
  <2>4. QED
    BY <2>2, <2>3
<1>8. CASE kind \in {"topology", "attributes", "images"}
  BY <1>1, <1>8, TagsOfFacts DEF PutsOf
<1>9. QED
  BY <1>4, <1>5, <1>6, <1>7, <1>8 DEF PutsOf, Kinds

\* A whole stream, or application, stays whole under such puts.
LEMMA WholeStays ==
  ASSUME NEW V, NEW D, NEW F
  PROVE  /\ \A s : /\ WholeStream(V, s) /\ Stream(s) \cap F = {}
                   /\ Request(s) \cap D = {} \/ Stream(s) \subseteq D
                   => WholeStream((V \ D) \cup F, s)
         /\ \A a : /\ WholeApp(V, a) /\ App(a) \cap F = {}
                   /\ Params(a) \cap D = {} \/ App(a) \subseteq D
                   => WholeApp((V \ D) \cup F, a)
<1>1. \A s : Stream(s) # {}
  BY DEF Stream
<1>2. \A a : App(a) # {}
  BY DEF App
<1>3. QED
  BY <1>1, <1>2 DEF WholeStream, WholeApp

\* How a session reads the datastore after a step of one of its threads.
LEMMA ViewsMove ==
  ASSUME TypeInv, NEW t \in Threads, Step(t), ~Return(t), NEW p, p = Home(t)
  PROVE  /\ Now(t).op = "put" => View(p)' = (View(p) \ Now(t).del) \cup Now(t).add
         /\ Now(t).op # "put" => View(p)' = View(p)
         /\ store' = store \/ store' = View(p)
         /\ Now(t).op # "apply" => store' = store
<1>1. CASE Now(t).op = "put"
  <2>1. /\ pend'[p].del = pend[p].del \cup Now(t).del
        /\ pend'[p].add = (pend[p].add \ Now(t).del) \cup Now(t).add /\ store' = store
    BY <1>1, SessionsMove
  <2>2. View(p)' = (store \ (pend[p].del \cup Now(t).del))
                     \cup ((pend[p].add \ Now(t).del) \cup Now(t).add)
    BY <2>1 DEF View
  <2>3. QED
    BY <1>1, <2>1, <2>2 DEF View
<1>2. CASE Now(t).op = "apply"
  <2>1. \/ store' = View(p) /\ pend'[p].del = {} /\ pend'[p].add = {}
        \/ store' = store /\ pend' = pend
    BY <1>2, SessionsMove
  <2>2. QED
    BY <1>2, <2>1 DEF View
<1>3. CASE Now(t).op \notin {"put", "apply"}
  BY <1>3, SessionsMove DEF View
<1>4. QED
  BY <1>1, <1>2, <1>3

(***************************************************************************)
(* The session of the ContainerModule                                      *)
(***************************************************************************)

\* Its calls touch no streams, and only discoveries touch applications.
LEMMA ContainerPuts ==
  ASSUME NEW kind \in {"images", "apps", "read"}, NEW on, NEW D, NEW F, PutsOf(kind, on, D, F)
  PROVE  /\ \A s \in Streams : (D \cup F) \cap (Stream(s) \cup Request(s)) = {}
         /\ \A s \in Streams : F \cap MapsTo(s) = {}
         /\ kind # "apps" => \A a \in Apps : (D \cup F) \cap (App(a) \cup Params(a)) = {}
<1>1. CASE kind = "images"
  <2>1. \A f \in D \cup F : f[1] = "image"
    BY <1>1, TagsOfFacts DEF PutsOf
  <2>2. QED
    BY <1>1, <2>1, TagsOfFacts DEF MapsTo
<1>2. CASE kind = "apps"
  <2>1. \A a : \A f \in OfApp(a) : f[1] \in {"app", "params", "ref", "maps"}
    BY TagsOfFacts DEF OfApp
  <2>2. \A f \in D : f[1] \in {"app", "params", "ref", "maps"}
    BY <1>2, <2>1 DEF PutsOf
  <2>3. \A f \in F : f[1] \in {"app", "params", "ref"}
    BY <1>2, TagsOfFacts DEF PutsOf
  <2>4. QED
    BY <1>2, <2>2, <2>3, TagsOfFacts DEF MapsTo
<1>3. QED
  BY <1>1, <1>2 DEF PutsOf

\* A discovery stays one.
LEMMA DiscoveredStays ==
  ASSUME TypeInv, [Next]_vars, Discovered
  PROVE  Discovered'
<1>1. PICK n \in 1..MaxCalls : told[n].kind = "apps"
  BY DEF Discovered, TypeInv
<1>a. told' \in [1..MaxCalls -> Told] /\ told'[n].kind = "apps" => Discovered'
  BY DEF Discovered
<1>2. ASSUME NEW t \in Threads, NEW kind \in Kinds, NEW on \in Ons, NEW ops \in Seq(Ops),
             NEW back \in To, Begins(t, kind, on, ops, back)
      PROVE  Discovered'
  BY <1>a, <1>1, <1>2, EnteredByBegin DEF Entered
<1>3. ASSUME NEW t \in Threads, Step(t), ~Return(t)
      PROVE  Discovered'
  BY <1>a, <1>1, <1>3, StepsMove DEF Moves, TypeInv
<1>4. ASSUME NEW t \in Threads, Return(t)
      PROVE  Discovered'
  BY <1>a, <1>1, <1>4, ReturnedByReturn DEF Returned
<1>5. CASE UNCHANGED vars
  BY <1>5 DEF vars, Discovered
<1>6. QED
  BY <1>2, <1>3, <1>4, <1>5, NextIs

\* Every step keeps the streams out of the session of the ContainerModule.
LEMMA ContainerKept == TypeInv /\ CallInv /\ ContainerInv /\ [Next]_vars => ContainerInv'
<1> SUFFICES ASSUME TypeInv, CallInv, ContainerInv, [Next]_vars PROVE ContainerInv'
  OBVIOUS
<1>1. CASE pend'["container"] = pend["container"]
  BY <1>1, DiscoveredStays DEF ContainerInv
<1>2. ASSUME NEW t \in Threads, Step(t), ~Return(t), pend'["container"] # pend["container"]
      PROVE  ContainerInv'
  <2>1. Home(t) = "container" /\ t = Container
    BY <1>2, SessionsMove, Homes
  <2>2. Moves(t)
    BY <1>2, StepsMove
  <2>3. run[t] # Idle /\ run[t].pc \in 1..Len(run[t].ops) /\ Now(t) = run[t].ops[run[t].pc]
    BY <2>2 DEF Moves, Now
  <2>4. /\ told[run[t].n].kind = run[t].kind /\ run[t].n \in 1..MaxCalls
        /\ Program(t, run[t].kind, On(t), run[t].ops, run[t].back)
    BY <2>3, RunningPrograms
  <2>5. run[t].kind \in {"images", "apps", "read"} /\ Puts(run[t].kind, On(t), run[t].ops)
    BY <2>1, <2>4, Programs
  <2>6. \/ Now(t).op = "put"
        \/ pend'["container"].del = {} /\ pend'["container"].add = {}
    BY <1>2, <2>1, SessionsMove
  <2>7. CASE Now(t).op = "put"
    <3> DEFINE D == Now(t).del
               F == Now(t).add
    <3>1. PutsOf(run[t].kind, On(t), D, F)
      BY <2>3, <2>5, <2>7 DEF Puts
    <3>2. /\ pend'["container"].del = pend["container"].del \cup D
          /\ pend'["container"].add = (pend["container"].add \ D) \cup F
      BY <1>2, <2>1, <2>7, SessionsMove
    <3> HIDE DEF D, F
    <3>3. /\ \A s \in Streams : (D \cup F) \cap (Stream(s) \cup Request(s)) = {}
          /\ \A s \in Streams : F \cap MapsTo(s) = {}
          /\ run[t].kind # "apps" =>
               \A a \in Apps : (D \cup F) \cap (App(a) \cup Params(a)) = {}
      BY <2>5, <3>1, ContainerPuts
    <3>4. run[t].kind = "apps" => Discovered'
      BY <2>4, DiscoveredStays DEF Discovered, TypeInv
    <3>5. /\ \A s \in Streams : (pend'["container"].del \cup pend'["container"].add)
                                  \cap (Stream(s) \cup Request(s)) = {}
          /\ \A s \in Streams : pend'["container"].add \cap MapsTo(s) = {}
      BY <3>2, <3>3 DEF ContainerInv
    <3>6. \/ Discovered'
          \/ \A a \in Apps : (pend'["container"].del \cup pend'["container"].add)
                               \cap (App(a) \cup Params(a)) = {}
      BY <3>2, <3>3, <3>4, DiscoveredStays DEF ContainerInv
    <3>7. QED
      BY <3>5, <3>6 DEF ContainerInv
  <2>8. CASE pend'["container"].del = {} /\ pend'["container"].add = {}
    BY <2>8 DEF ContainerInv
  <2>9. QED
    BY <2>6, <2>7, <2>8
<1>3. CASE \E t \in Threads : Step(t) /\ ~Return(t)
  BY <1>1, <1>2, <1>3
<1>4. ASSUME NEW t \in Threads, NEW kind \in Kinds, NEW on \in Ons, NEW ops \in Seq(Ops),
             NEW back \in To, Begins(t, kind, on, ops, back)
      PROVE  ContainerInv'
  BY <1>1, <1>4, EnteredByBegin DEF Entered
<1>5. ASSUME NEW t \in Threads, Return(t)
      PROVE  ContainerInv'
  BY <1>1, <1>5, ReturnedByReturn DEF Returned
<1>6. CASE UNCHANGED vars
  BY <1>1, <1>6 DEF vars
<1>7. QED
  BY <1>3, <1>4, <1>5, <1>6, NextIs

\* What a step of the ContainerModule leaves alone in the datastore and in the
\* session of the RESTModule.
LEMMA ContainerLeaves ==
  ASSUME TypeInv, CallInv, ContainerInv, Step(Container), ~Return(Container), NEW P,
         (pend["container"].del \cup pend["container"].add) \cap P = {}
  PROVE  store' \cap P = store \cap P /\ View("rest")' \cap P = View("rest") \cap P
<1>1. store' = store \/ store' = View("container")
  BY Homes, ViewsMove
<1>2. pend'["rest"] = pend["rest"]
  BY Homes, SessionsMove
<1>3. View("container") \cap P = store \cap P
  BY DEF View
<1>4. store' \cap P = store \cap P
  BY <1>1, <1>3
<1>5. QED
  BY <1>2, <1>4 DEF View

(***************************************************************************)
(* Whole requests                                                          *)
(***************************************************************************)

\* Calls that failed or were shared stay so.
LEMMA RecordsStay ==
  ASSUME TypeInv, CallInv, [Next]_vars, NEW n \in 1..MaxCalls, told[n].kind # "none",
         told[n].result = "fail" \/ n \in shared
  PROVE  /\ told'[n].kind = told[n].kind /\ told'[n].on = told[n].on
         /\ told'[n].result = "fail" \/ n \in shared'
         /\ told' \in [1..MaxCalls -> Told]
<1>1. ASSUME NEW t \in Threads, NEW kind \in Kinds, NEW on \in Ons, NEW ops \in Seq(Ops),
             NEW back \in To, NEW m, Entered(t, kind, on, ops, back, m)
      PROVE  /\ told'[n].kind = told[n].kind /\ told'[n].on = told[n].on
             /\ told'[n].result = "fail" \/ n \in shared'
             /\ told' \in [1..MaxCalls -> Told]
  BY <1>1 DEF Entered
<1>2. ASSUME NEW t \in Threads, Returned(t)
      PROVE  /\ told'[n].kind = told[n].kind /\ told'[n].on = told[n].on
             /\ told'[n].result = "fail" \/ n \in shared'
             /\ told' \in [1..MaxCalls -> Told]
  <2>1. told[run[t].n].result = "none"
    BY <1>2, RunningPrograms DEF Returned
  <2>2. n = run[t].n => n \in shared
    BY <2>1
  <2>3. QED
    BY <1>2, <2>2 DEF Returned
<1>3. ASSUME told' = told, shared' = shared
      PROVE  /\ told'[n].kind = told[n].kind /\ told'[n].on = told[n].on
             /\ told'[n].result = "fail" \/ n \in shared'
             /\ told' \in [1..MaxCalls -> Told]
  BY <1>3 DEF TypeInv
<1>4. CASE UNCHANGED vars
  BY <1>3, <1>4 DEF vars
<1>5. CASE \E t \in Threads : Step(t) /\ ~Return(t)
  BY <1>3, <1>5, StepsMove DEF Moves
<1>6. CASE \E t \in Threads : Return(t)
  BY <1>2, <1>6, ReturnedByReturn
<1>7. CASE \E t \in Threads, kind \in Kinds, on \in Ons, ops \in Seq(Ops), back \in To :
             Begins(t, kind, on, ops, back)
  BY <1>1, <1>7, EnteredByBegin
<1>8. QED
  BY <1>4, <1>5, <1>6, <1>7, NextIs

\* A request that failed or was shared stays one.
LEMMA HalvedStays ==
  ASSUME TypeInv, CallInv, [Next]_vars, NEW s, Halved(s) PROVE Halved(s)'
<1>1. PICK n \in 1..MaxCalls : /\ told[n].kind = "request" /\ told[n].on = s
                               /\ told[n].result = "fail" \/ n \in shared
  BY DEF Halved, TypeInv
<1>2. /\ told'[n].kind = "request" /\ told'[n].on = s
      /\ told'[n].result = "fail" \/ n \in shared'
      /\ told' \in [1..MaxCalls -> Told]
  BY <1>1, RecordsStay
<1>3. QED
  BY <1>2 DEF Halved

\* What the seven steps do, by their number.
StepOfRequest(o, i, s) ==
  /\ o.op \in {"put", "refused", "test", "apply"} /\ o.to = "rc"
  /\ (o.op = "apply") <=> (i = 7)
  /\ (o.op = "test") <=> (i \in {2, 4, 6})
  /\ o.op = "test" => i + o.skip = 7
  /\ o.op = "put" => o.del = {} /\ o.add \subseteq OfStream(s)
  /\ o.op = "put" /\ i = 3 => Talker(s) \subseteq o.add
  /\ o.op = "put" /\ i = 5 => o.add = OfStream(s)

\* They are those of SevenFields.
LEMMA SevenStepsAre ==
  ASSUME NEW s \in Streams, NEW w, SevenFields(w, s), NEW i \in 1..7
  PROVE  StepOfRequest(w[i], i, s)
<1>1. CASE i \in {1, 3, 5}
  BY <1>1, PartsAreFacts DEF SevenFields, StepOfRequest
<1>2. CASE i \in {2, 4, 6}
  BY <1>2 DEF SevenFields, StepOfRequest
<1>3. CASE i = 7
  BY <1>3 DEF SevenFields, StepOfRequest
<1>4. QED
  BY <1>1, <1>2, <1>3, i \in {1, 2, 3, 4, 5, 6, 7}

\* The steps of a call that writes the request of s and is alone.
LEMMA RequestMoves ==
  ASSUME TypeInv, CallInv, NEW t \in RestThreads, NEW s, Step(t), ~Return(t), Requests(t, s)
  PROVE  /\ Half(t) \/ run[t].pc \in {1, 6, 7}
         /\ \/ Half(t)'
            \/ run[t].pc = 5 /\ View("rest")' = View("rest") \cup OfStream(s)
            \/ ~Half(t) /\ View("rest")' = View("rest")
         /\ run[t].pc # 7 => store' = store
         /\ s \in Streams
<1>0. /\ t \in Threads /\ Home(t) = "rest" /\ Alone(t) /\ run[t] # Idle /\ On(t) = s
      /\ run[t].kind = "request"
  BY Homes DEF Requests, Alone
<1>1. Moves(t)
  BY <1>0, StepsMove
<1>2. s \in Streams /\ \E refused \in {"talker", "rest", "nothing"} : run[t].ops = RequestOps(s, refused)
  <2>1. Program(t, "request", s, run[t].ops, run[t].back)
    BY <1>0, RunningPrograms
  <2>2. QED
    BY <2>1 DEF Program
<1>3. SevenFields(run[t].ops, s)
  BY <1>2, SevenStepsFields
<1>4. /\ run[t].pc \in 1..7 /\ Now(t) = run[t].ops[run[t].pc] /\ rc' \in [Procs -> Results]
      /\ rc \in [Procs -> Results]
  BY <1>1, <1>3 DEF Moves, Now, SevenFields, TypeInv
<1>5. /\ Now(t).op \in {"put", "refused", "test", "apply"} /\ Now(t).to = "rc"
      /\ Now(t).op = "apply" <=> run[t].pc = 7
      /\ Now(t).op = "test" <=> run[t].pc \in {2, 4, 6}
      /\ Now(t).op = "test" => run[t].pc + Now(t).skip = 7
      /\ Now(t).op = "put" /\ run[t].pc = 5 => Now(t).del = {} /\ Now(t).add = OfStream(s)
  BY <1>2, <1>3, <1>4, SevenStepsAre DEF StepOfRequest
<1>6. run[t].pc # 7 => store' = store
  BY <1>0, <1>5, ViewsMove
<1>7. rc'["rest"] \in {"ok", "err"} /\ rc["rest"] \in {"ok", "err"}
  BY <1>4, Homes DEF Results
<1>8. CASE run[t].pc \in {1, 3}
  <2>1. run'[t].pc = run[t].pc + 1
    BY <1>0, <1>5, <1>8, StepsAdvance
  <2>2. QED
    BY <1>2, <1>6, <1>8, <2>1 DEF Half
<1>9. CASE run[t].pc \in {2, 4, 6}
  <2>1. \/ run'[t].pc = run[t].pc + 1
        \/ run'[t].pc = 8 /\ rc'["rest"] = rc["rest"] /\ rc["rest"] # "ok"
    BY <1>0, <1>4, <1>5, <1>9, StepsAdvance
  <2>2. View("rest")' = View("rest")
    BY <1>0, <1>5, <1>9, ViewsMove
  <2>3. CASE run'[t].pc = 8 /\ rc'["rest"] = rc["rest"] /\ rc["rest"] # "ok"
    BY <1>0, <1>2, <1>6, <1>7, <1>9, <2>3 DEF Half
  <2>4. CASE run'[t].pc = run[t].pc + 1 /\ run[t].pc \in {2, 4}
    BY <1>2, <1>6, <2>4 DEF Half
  <2>5. CASE run'[t].pc = run[t].pc + 1 /\ run[t].pc = 6
    <3>1. rc["rest"] = "ok"
      <4>1. Now(t).op = "test" /\ Now(t).to = "rc"
        BY <1>5, <2>5
      <4>2. run'[t].pc = run[t].pc + (IF rc[Home(t)] = "ok" THEN 1 ELSE Now(t).skip + 1)
        BY <1>0, <4>1, StepsMove
      <4>3. Now(t).skip = 1
        BY <1>3, <1>4, <2>5 DEF SevenFields
      <4>4. QED
        BY <1>0, <2>5, <4>2, <4>3
    <3>2. ~Half(t)
      BY <1>0, <2>5, <3>1 DEF Half
    <3>3. QED
      BY <1>2, <1>6, <2>2, <2>5, <3>2
  <2>6. QED
    BY <1>9, <2>1, <2>3, <2>4, <2>5
<1>10. CASE run[t].pc = 5
  <2>1. run'[t].pc = 6
    BY <1>0, <1>5, <1>10, StepsAdvance
  <2>2. CASE Now(t).op = "put"
    <3>1. View("rest")' = View("rest") \cup OfStream(s)
      BY <1>0, <1>5, <1>10, <2>2, ViewsMove
    <3>2. QED
      BY <1>2, <1>6, <1>10, <3>1 DEF Half
  <2>3. CASE Now(t).op = "refused"
    <3>1. rc'["rest"] = "err"
      BY <1>0, <1>5, <2>3, StepsMove DEF After
    <3>2. QED
      BY <1>0, <1>2, <1>6, <1>10, <2>1, <3>1 DEF Half
  <2>4. QED
    BY <1>5, <1>10, <2>2, <2>3
<1>11. CASE run[t].pc = 7
  <2>1. View("rest")' = View("rest")
    BY <1>0, <1>5, <1>11, ViewsMove
  <2>2. ~Half(t)
    BY <1>11 DEF Half
  <2>3. QED
    BY <1>2, <1>11, <2>1, <2>2
<1>12. QED
  BY <1>4, <1>8, <1>9, <1>10, <1>11, run[t].pc \in {1, 2, 3, 4, 5, 6, 7}


\* Of the threads of the RESTModule only the one that is alone is in a call.
LEMMA AloneIsOnlyOne ==
  ASSUME CallInv, NEW t \in RestThreads, NEW u \in RestThreads, Alone(u), run[t] # Idle
  PROVE  t = u
<1>1. Mates(u) = {}
  BY Homes DEF CallInv
<1>2. QED
  BY <1>1, Homes DEF Mates

\* A whole stream stays whole, and so it is in the session but while its request
\* is written.
LEMMA StreamKept ==
  TypeInv /\ CallInv /\ ContainerInv /\ StreamInv /\ [Next]_vars => StreamInv'
<1> SUFFICES ASSUME TypeInv, CallInv, ContainerInv, StreamInv, [Next]_vars,
                    NEW s \in Streams, ~Halved(s)'
             PROVE  KeptStream(s)'
  BY DEF StreamInv
<1>1. ~Halved(s) /\ KeptStream(s)
  BY HalvedStays DEF StreamInv
<1>2. ASSUME NEW n \in 1..MaxCalls, told' \in [1..MaxCalls -> Told],
             told'[n].kind = "request", told'[n].on = s
      PROVE  told'[n].result # "fail" /\ n \notin shared'
  BY <1>2 DEF Halved
<1>3. ASSUME NEW u \in RestThreads, Requests(u, s)
      PROVE  /\ u \in Threads /\ run[u] # Idle /\ Home(u) = "rest" /\ run[u].n \in 1..MaxCalls
             /\ run[u].n \notin shared /\ run[u].kind = "request" /\ On(u) = s
             /\ told[run[u].n].kind = "request" /\ told[run[u].n].on = s
  BY <1>3, Homes, RunningPrograms DEF Requests, Alone, On
<1>4. ASSUME NEW t \in Threads, NEW kind \in Kinds, NEW on \in Ons, NEW ops \in Seq(Ops),
             NEW back \in To, Begins(t, kind, on, ops, back)
      PROVE  KeptStream(s)'
  <2>1. PICK n : Entered(t, kind, on, ops, back, n)
    BY <1>4, EnteredByBegin
  <2>2. store' = store /\ View("rest")' = View("rest")
    BY <2>1 DEF Entered, View
  <2>3. ASSUME NEW u \in RestThreads, Requests(u, s), Half(u)
        PROVE  Requests(u, s)' /\ Half(u)'
    <3>1. u # t /\ run'[u] = run[u] /\ told'[run[u].n] = told[run[u].n]
      BY <1>3, <2>1, <2>3 DEF Entered
    <3>2. run[u].n \notin shared'
      BY <1>2, <1>3, <2>1, <2>3, <3>1 DEF Entered
    <3>3. Home(t) # "rest"
      BY <1>3, <2>1, <2>3, <3>1, <3>2 DEF Entered, Mates
    <3>4. rc'["rest"] = rc["rest"]
      BY <2>1, <3>3, Homes DEF Entered
    <3>5. Home(u) = "rest"
      BY <1>3, <2>3
    <3>6. QED
      BY <2>3, <3>1, <3>2, <3>4, <3>5 DEF Requests, Alone, On, Half
  <2>4. QED
    BY <1>1, <2>2, <2>3 DEF KeptStream
<1>5. CASE Step(Container) /\ ~Return(Container)
  <2>1. Moves(Container)
    BY <1>5, StepsMove, Homes
  <2> DEFINE P == Stream(s) \cup Request(s)
  <2>2. (pend["container"].del \cup pend["container"].add) \cap P = {}
    BY DEF ContainerInv
  <2> HIDE DEF P
  <2>3. store' \cap P = store \cap P /\ View("rest")' \cap P = View("rest") \cap P
    BY <1>5, <2>2, ContainerLeaves
  <2>4. ASSUME NEW V, NEW W, V \cap P = W \cap P, WholeStream(W, s)
        PROVE  WholeStream(V, s)
    BY <2>4 DEF WholeStream, P
  <2>5. WholeStream(store, s)' /\ (WholeStream(View("rest"), s) => WholeStream(View("rest"), s)')
    BY <1>1, <2>3, <2>4 DEF KeptStream, WholeStream
  <2>6. ASSUME NEW u \in RestThreads, Requests(u, s), Half(u)
        PROVE  Requests(u, s)' /\ Half(u)'
    <3>1. u # Container /\ Home(u) = "rest" /\ Home(Container) # "rest" /\ "rest" \in Procs
      BY Homes
    <3>2. run'[u] = run[u] /\ told' = told /\ shared' = shared /\ rc'["rest"] = rc["rest"]
      BY <2>1, <3>1, Homes DEF Moves
    <3>3. QED
      BY <2>6, <3>1, <3>2 DEF Requests, Alone, On, Half
  <2>7. QED
    BY <1>1, <2>5, <2>6 DEF KeptStream
<1>6. ASSUME NEW t \in RestThreads, Step(t), ~Return(t), Requests(t, s)
      PROVE  KeptStream(s)'
  <2>1. Moves(t) /\ run[t] # Idle /\ t \in Threads /\ Home(t) = "rest"
    BY <1>3, <1>6, StepsMove
  <2>2. ~Half(t) => WholeStream(View("rest"), s)
    BY <1>1, <2>1, AloneIsOnlyOne DEF KeptStream, Requests
  <2>3. /\ Half(t) \/ run[t].pc \in {1, 6, 7}
        /\ \/ Half(t)'
           \/ run[t].pc = 5 /\ View("rest")' = View("rest") \cup OfStream(s)
           \/ ~Half(t) /\ View("rest")' = View("rest")
        /\ run[t].pc # 7 => store' = store
    BY <1>6, RequestMoves
  <2>4. store' = store \/ store' = View("rest")
    BY <1>6, <2>1, ViewsMove
  <2>5. WholeStream(store, s)'
    <3>1. CASE store' = store
      BY <1>1, <3>1 DEF KeptStream, WholeStream
    <3>2. CASE store' = View("rest") /\ run[t].pc = 7
      <4>1. ~Half(t)
        BY <3>2 DEF Half
      <4>2. QED
        BY <2>2, <3>2, <4>1 DEF WholeStream
    <3>3. QED
      BY <2>3, <2>4, <3>1, <3>2
  <2>6. Requests(t, s)'
    BY <1>6, <2>1 DEF Requests, Alone, On, Moves
  <2>7. WholeStream(View("rest"), s)' \/ Half(t)'
    <3>1. CASE View("rest")' = View("rest") \cup OfStream(s)
      BY <3>1, PartsAreFacts DEF WholeStream
    <3>2. CASE ~Half(t) /\ View("rest")' = View("rest")
      BY <2>2, <3>2 DEF WholeStream
    <3>3. QED
      BY <2>3, <3>1, <3>2
  <2>8. QED
    BY <2>5, <2>6, <2>7 DEF KeptStream
<1>7. ASSUME NEW t \in RestThreads, Step(t), ~Return(t), ~Requests(t, s)
      PROVE  KeptStream(s)'
  <2>1. Moves(t) /\ run[t] # Idle /\ t \in Threads /\ Home(t) = "rest"
    BY <1>7, StepsMove, Homes DEF Moves
  <2>2. WholeStream(store, s) /\ WholeStream(View("rest"), s)
    BY <1>1, <1>7, <2>1, AloneIsOnlyOne DEF KeptStream, Requests
  <2>3. /\ run[t].pc \in 1..Len(run[t].ops) /\ Now(t) = run[t].ops[run[t].pc]
        /\ run[t].n \in 1..MaxCalls /\ told[run[t].n].kind = run[t].kind
        /\ Program(t, run[t].kind, On(t), run[t].ops, run[t].back)
    BY <2>1, RunningPrograms DEF Moves, Now
  <2>4. run[t].kind \in Kinds /\ Puts(run[t].kind, On(t), run[t].ops)
    BY <2>1, <2>3, Programs
  <2>5. ~(run[t].kind = "request" /\ On(t) = s)
    BY <1>1, <1>7, <2>1, <2>3 DEF Halved, Requests, Alone, On, TypeInv
  <2>6. WholeStream(View("rest"), s)'
    <3>1. CASE Now(t).op = "put"
      <4> DEFINE D == Now(t).del
                 F == Now(t).add
      <4>1. PutsOf(run[t].kind, On(t), D, F)
        BY <2>3, <2>4, <3>1 DEF Puts
      <4>2. View("rest")' = (View("rest") \ D) \cup F
        BY <1>7, <2>1, <3>1, ViewsMove
      <4> HIDE DEF D, F
      <4>3. Stream(s) \cap F = {} /\ (Request(s) \cap D = {} \/ Stream(s) \subseteq D)
        BY <2>4, <2>5, <4>1, PutsKeepStreams
      <4>4. WholeStream((View("rest") \ D) \cup F, s)
        BY <2>2, <4>3, WholeStays
      <4>5. QED
        BY <4>2, <4>4 DEF WholeStream
    <3>2. CASE Now(t).op # "put"
      <4>1. View("rest")' = View("rest")
        BY <1>7, <2>1, <3>2, ViewsMove
      <4>2. QED
        BY <2>2, <4>1 DEF WholeStream
    <3>3. QED
      BY <3>1, <3>2
  <2>7. WholeStream(store, s)'
    <3>1. store' = store \/ store' = View("rest")
      BY <1>7, <2>1, ViewsMove
    <3>2. QED
      BY <2>2, <3>1 DEF WholeStream
  <2>8. QED
    BY <2>6, <2>7 DEF KeptStream
<1>8. ASSUME NEW t \in Threads, Return(t)
      PROVE  KeptStream(s)'
  <2>1. Returned(t)
    BY <1>8, ReturnedByReturn
  <2>2. store' = store /\ View("rest")' = View("rest") /\ rc' = rc /\ shared' = shared
    BY <2>1 DEF Returned, View
  <2>3. ASSUME NEW u \in RestThreads, Requests(u, s), Half(u)
        PROVE  u # t /\ Requests(u, s)' /\ Half(u)'
    <3>1. Program(u, "request", s, run[u].ops, run[u].back) /\ run[u] \in Calls
      BY <1>3, <2>3, RunningPrograms
    <3>2. run[u].back = "rc" /\ Len(run[u].ops) = 7
      BY <3>1, SevenStepsFields DEF Program, SevenFields
    <3>3. CASE u = t
      <4>1. run[u].pc > 7 /\ run[u].pc \in Nat
        BY <2>1, <3>1, <3>2, <3>3 DEF Returned, Ended, Calls
      <4>2. rc["rest"] = "err"
        BY <1>3, <2>3, <4>1 DEF Half
      <4>3. Value(u) # "ok"
        BY <1>3, <2>3, <3>2, <4>2 DEF Value
      <4>4. /\ told' \in [1..MaxCalls -> Told] /\ told'[run[u].n].kind = "request"
            /\ told'[run[u].n].on = s /\ told'[run[u].n].result = "fail"
        BY <1>3, <2>1, <2>3, <3>3, <4>3 DEF Returned
      <4>5. QED
        BY <1>2, <1>3, <2>3, <4>4
    <3>4. CASE u # t
      <4>1. /\ run'[u] = run[u]
            /\ told'[run[u].n].kind = "request" /\ told'[run[u].n].on = s
        BY <1>3, <2>1, <2>3, <3>4 DEF Returned
      <4>2. QED
        BY <2>2, <2>3, <3>4, <4>1 DEF Requests, Alone, On, Half
    <3>5. QED
      BY <3>3, <3>4
  <2>4. QED
    BY <1>1, <2>2, <2>3 DEF KeptStream, WholeStream
<1>9. CASE UNCHANGED vars
  <2>1. View("rest")' = View("rest")
    BY <1>9 DEF vars, View
  <2>2. QED
    BY <1>1, <1>9, <2>1
      DEF vars, KeptStream, WholeStream, Requests, Alone, On, Half
<1>10. QED
  BY <1>4, <1>5, <1>6, <1>7, <1>8, <1>9, NextIs, Homes


(***************************************************************************)
(* Parameters                                                              *)
(***************************************************************************)

\* The steps that set or update an application, by their fields.
WriteFields(w, a, back) ==
  /\ Len(w) = IF back = "ret" THEN 12 ELSE 13
  /\ w[1].op = "put" /\ w[3].op \in {"put", "refused"} /\ w[5].op = "put" /\ w[5].to = "rc"
  /\ w[2].op = "test" /\ w[2].to = "ret" /\ w[2].skip = 8
  /\ w[4].op = "test" /\ w[4].to = "ret" /\ w[4].skip = 6
  /\ w[6].op = "test" /\ w[6].to = "rc" /\ w[6].skip = 4
  /\ w[7].op = "apply" /\ w[8].op = "put" /\ w[8].add = App(a) \cup Params(a)
  /\ w[9].op = "test" /\ w[9].skip = 1
  /\ w[10].op \in {"put", "unset"} /\ (w[10].op = "put" => w[10].del = {})
  /\ back = "ret" => /\ w[11].op = "test" /\ w[11].to = "ret" /\ w[11].skip = 1
                     /\ w[12].op = "apply" /\ w[12].to = "ret"
  /\ back = "rc" => /\ w[11].op = "copy" /\ w[11].to = "rc"
                    /\ w[12].op = "test" /\ w[12].to = "rc" /\ w[12].skip = 1
                    /\ w[13].op = "apply" /\ w[13].to = "rc"

\* They are those of set and update.
LEMMA WriteStepsFields ==
  ASSUME NEW a \in Apps, NEW image \in Imaged, NEW S \in SUBSET Streams, NEW good \in BOOLEAN,
         NEW w, NEW back,
         \/ back = "ret" /\ w = SetOps(a, image, S, good)
         \/ back = "rc" /\ w = UpdateOps(a, image, S, good)
  PROVE  WriteFields(w, a, back)
<1> DEFINE v == WriteApp(a, image, S, good)
<1>1. TenFields(v, a, S)
  BY TenStepsFields
<1>2. /\ back = "ret" => SetSteps(w, v)
      /\ back = "rc" => UpdateSteps(w, v)
  BY AppIs
<1> HIDE DEF v
<1>3. /\ back = "ret" => /\ Len(w) = 12 /\ \A i \in 1..10 : w[i] = v[i]
                         /\ w[11] = Test("ret", 1) /\ w[12] = Apply("ret")
      /\ back = "rc" => /\ Len(w) = 13 /\ \A i \in 1..10 : w[i] = v[i]
                        /\ w[11] = Copy /\ w[12] = Test("rc", 1) /\ w[13] = Apply("rc")
      /\ back \in {"ret", "rc"}
  BY <1>2 DEF SetSteps, UpdateSteps
<1>4. /\ w[1] = v[1] /\ w[2] = v[2] /\ w[3] = v[3] /\ w[4] = v[4] /\ w[5] = v[5]
      /\ w[6] = v[6] /\ w[7] = v[7] /\ w[8] = v[8] /\ w[9] = v[9] /\ w[10] = v[10]
  BY <1>3
<1>5. /\ v[1].op = "put" /\ v[3].op \in {"put", "refused"} /\ v[5].op = "put" /\ v[5].to = "rc"
      /\ v[2].op = "test" /\ v[2].to = "ret" /\ v[2].skip = 8
      /\ v[4].op = "test" /\ v[4].to = "ret" /\ v[4].skip = 6
      /\ v[6].op = "test" /\ v[6].to = "rc" /\ v[6].skip = 4
      /\ v[7].op = "apply" /\ v[8].op = "put" /\ v[8].add = App(a) \cup Params(a)
      /\ v[9].op = "test" /\ v[9].skip = 1
      /\ v[10].op \in {"put", "unset"} /\ (v[10].op = "put" => v[10].del = {})
  BY <1>1 DEF TenFields
<1>6. /\ back = "ret" => /\ w[11].op = "test" /\ w[11].to = "ret" /\ w[11].skip = 1
                         /\ w[12].op = "apply" /\ w[12].to = "ret"
      /\ back = "rc" => /\ w[11].op = "copy" /\ w[11].to = "rc"
                        /\ w[12].op = "test" /\ w[12].to = "rc" /\ w[12].skip = 1
                        /\ w[13].op = "apply" /\ w[13].to = "rc"
  BY <1>3, FieldsOfSteps
<1>7. QED
  BY <1>3, <1>4, <1>5, <1>6 DEF WriteFields

\* What a step of a call that writes the application a leads to.
WriteMoved(t, a) ==
  /\ run'[t].pc = 6 => rc'["rest"] = "ok"
  /\ \/ run[t].pc \in {9, 10} /\ ~(Params(a) \subseteq View("rest"))
     \/ /\ run'[t].pc \in {9, 10} => Params(a) \subseteq View("rest")'
        /\ \/ Bare(t)'
           \/ Params(a) \subseteq View("rest")'
           \/ ~Bare(t) /\ View("rest")' = View("rest")
  /\ Ended(t)' /\ Value(t)' = "ok" => ~Bare(t) /\ store' = View("rest")

\* A call that is alone goes on like this.
LEMMA WriteMoves ==
  ASSUME TypeInv, CallInv, NEW t \in RestThreads, NEW a, Step(t), ~Return(t), Writes(t, a),
         run[t].pc = 6 => rc["rest"] = "ok"
  PROVE  a \in Apps /\ WriteMoved(t, a)
<1>0. /\ t \in Threads /\ Home(t) = "rest" /\ Alone(t) /\ run[t] # Idle /\ On(t) = a
      /\ run[t].kind = "app"
  BY Homes DEF Writes, Alone
<1>1. Moves(t)
  BY <1>0, StepsMove
<1>2. /\ a \in Apps /\ run[t].back \in {"ret", "rc"}
      /\ WriteFields(run[t].ops, a, run[t].back)
  <2>1. Program(t, "app", a, run[t].ops, run[t].back)
    BY <1>0, RunningPrograms
  <2>2. QED
    BY <2>1, WriteStepsFields DEF Program
<1> DEFINE w == run[t].ops
           k == run[t].pc
           m == run'[t].pc
<1>3. /\ k \in 1..Len(w) /\ Now(t) = w[k] /\ run'[t].ops = w /\ run'[t].back = run[t].back
      /\ Len(w) = IF run[t].back = "ret" THEN 12 ELSE 13
  BY <1>1, <1>2 DEF Moves, Now, WriteFields
<1>4. /\ rc["rest"] \in {"ok", "err"} /\ rc'["rest"] \in {"ok", "err"}
      /\ run[t].ret \in {"ok", "err"} /\ run'[t].ret \in {"ok", "err"}
  BY <1>0, <1>1, Homes, RunningCalls DEF TypeInv, Moves, Calls, Results
<1>5. /\ Ended(t)' <=> m > Len(w)
      /\ Value(t)' = IF run[t].back = "rc" THEN rc'["rest"] ELSE run'[t].ret
  BY <1>0, <1>3 DEF Ended, Value
<1>6. /\ \/ m = k + 1
         \/ /\ w[k].op = "test" /\ m = k + w[k].skip + 1
            /\ rc' = rc /\ run'[t].ret = run[t].ret
            /\ (IF w[k].to = "rc" THEN rc["rest"] ELSE run[t].ret) # "ok"
      /\ w[k].op = "test" /\ m = k + 1 /\ w[k].skip # 0 =>
           /\ rc' = rc /\ run'[t].ret = run[t].ret
           /\ (IF w[k].to = "rc" THEN rc["rest"] ELSE run[t].ret) = "ok"
  <2>1. \/ m = k + 1
        \/ /\ w[k].op = "test" /\ m = k + w[k].skip + 1
           /\ rc' = rc /\ run'[t].ret = run[t].ret
           /\ (IF w[k].to = "rc" THEN rc["rest"] ELSE run[t].ret) # "ok"
    BY <1>0, <1>3, StepsAdvance
  <2> DEFINE value == IF w[k].to = "rc" THEN rc["rest"] ELSE run[t].ret
  <2>2. CASE w[k].op = "test" /\ m = k + 1 /\ w[k].skip # 0
    <3>1. /\ rc' = rc /\ run'[t].ret = run[t].ret
          /\ m = k + (IF value = "ok" THEN 1 ELSE w[k].skip + 1)
      BY <1>0, <1>3, <2>2, StepsMove
    <3>2. w[k].skip \in Nat /\ k \in Nat
      BY <1>1, <1>3, <2>2 DEF Moves, Ops, Calls
    <3> HIDE DEF value
    <3>3. value = "ok"
      BY <2>2, <3>1, <3>2
    <3>4. QED
      BY <2>1, <3>1, <3>3 DEF value
  <2>3. QED
    BY <2>1, <2>2
<1>7. /\ w[k].op # "put" => View("rest")' = View("rest")
      /\ w[k].op = "put" => View("rest")' = (View("rest") \ w[k].del) \cup w[k].add
  BY <1>0, <1>3, ViewsMove
<1>8. /\ w[k].op = "put" /\ w[k].to = "rc" => rc'["rest"] = "ok"
      /\ w[k].op = "copy" /\ w[k].to = "rc" => rc'["rest"] = run[t].ret
      /\ w[k].op = "apply" /\ w[k].to = "rc" =>
           \/ store' = View("rest")
           \/ rc'["rest"] = "err"
      /\ w[k].op = "apply" /\ w[k].to = "ret" =>
           \/ store' = View("rest")
           \/ run'[t].ret = "err"
  BY <1>0, <1>3, StepsMove DEF After
<1>9. Home(t)' = "rest"
  BY <1>0 DEF Home
<1> HIDE DEF w, k, m
<1>10. Bare(t)' <=> \/ m \in 2..8
                    \/ m = 11 /\ run'[t].ret = "err"
                    \/ run[t].back = "rc" /\ m \in {12, 14} /\ rc'["rest"] = "err"
                    \/ run[t].back = "ret" /\ m = 13 /\ run'[t].ret = "err"
  BY <1>0, <1>3 DEF Bare, m
<1>11. Bare(t) <=> \/ k \in 2..8
                   \/ k = 11 /\ run[t].ret = "err"
                   \/ run[t].back = "rc" /\ k \in {12, 14} /\ rc["rest"] = "err"
                   \/ run[t].back = "ret" /\ k = 13 /\ run[t].ret = "err"
  BY <1>0 DEF Bare, k
<1>12. CASE k \in {1, 3}
  <2>1. m \in {2, 4}
    BY <1>2, <1>6, <1>12 DEF WriteFields, w
  <2>2. QED
    BY <1>2, <1>3, <1>5, <1>10, <2>1 DEF WriteMoved, m
<1>13. CASE k \in {2, 4}
  <2>1. m \in {3, 5} \/ (m = 11 /\ run'[t].ret = "err")
    <3>1. CASE k = 2
      <4>1. w[k].op = "test" /\ w[k].to = "ret" /\ w[k].skip = 8
        BY <1>2, <3>1 DEF WriteFields, w
      <4>2. m = k + 1 \/ (m = k + 8 + 1 /\ run'[t].ret = run[t].ret /\ run[t].ret # "ok")
        BY <1>6, <4>1
      <4>3. QED
        BY <1>4, <3>1, <4>2
    <3>2. CASE k = 4
      <4>1. w[k].op = "test" /\ w[k].to = "ret" /\ w[k].skip = 6
        BY <1>2, <3>2 DEF WriteFields, w
      <4>2. m = k + 1 \/ (m = k + 6 + 1 /\ run'[t].ret = run[t].ret /\ run[t].ret # "ok")
        BY <1>6, <4>1
      <4>3. QED
        BY <1>4, <3>2, <4>2
    <3>3. QED
      BY <1>13, <3>1, <3>2
  <2>2. QED
    BY <1>2, <1>3, <1>5, <1>10, <2>1 DEF WriteMoved, m
<1>14. CASE k \in {5, 6, 7}
  <2>1. m \in {6, 7, 8} /\ (m = 6 => rc'["rest"] = "ok")
    <3>1. CASE k = 5
      BY <1>2, <1>6, <1>8, <3>1 DEF WriteFields, w
    <3>2. CASE k = 6
      <4>1. rc["rest"] = "ok"
        BY <3>2 DEF k
      <4>2. m = 7
        BY <1>2, <1>6, <3>2, <4>1 DEF WriteFields, w
      <4>3. QED
        BY <4>2
    <3>3. CASE k = 7
      BY <1>2, <1>6, <3>3 DEF WriteFields, w
    <3>4. QED
      BY <1>14, <3>1, <3>2, <3>3
  <2>2. QED
    BY <1>2, <1>3, <1>5, <1>10, <2>1 DEF WriteMoved, m
<1>15. CASE k \in {8, 9, 10}
  <2>1. m \in {9, 10, 11}
    <3>1. CASE k = 8
      <4>1. w[k].op # "test"
        BY <1>2, <3>1 DEF WriteFields, w
      <4>2. QED
        BY <1>6, <3>1, <4>1
    <3>2. CASE k = 9
      BY <1>2, <1>6, <3>2 DEF WriteFields, w
    <3>3. CASE k = 10
      <4>1. w[k].op # "test"
        BY <1>2, <3>3 DEF WriteFields, w
      <4>2. QED
        BY <1>6, <3>3, <4>1
    <3>4. QED
      BY <1>15, <3>1, <3>2, <3>3
  <2>2. Params(a) \subseteq View("rest")' \/ (k \in {9, 10} /\ ~(Params(a) \subseteq View("rest")))
    <3>1. CASE k = 8
      BY <1>2, <1>7, <3>1 DEF WriteFields, w
    <3>2. CASE k = 9
      BY <1>2, <1>7, <3>2 DEF WriteFields, w
    <3>3. CASE k = 10
      <4>1. \/ View("rest")' = View("rest")
            \/ View("rest")' = (View("rest") \ {}) \cup w[k].add
        BY <1>2, <1>7, <3>3 DEF WriteFields, w
      <4>2. QED
        BY <3>3, <4>1
    <3>4. QED
      BY <1>15, <3>1, <3>2, <3>3
  <2>3. QED
    BY <1>2, <1>3, <1>5, <2>1, <2>2 DEF WriteMoved, m, k
<1>16. CASE run[t].back = "ret" /\ k \in {11, 12}
  <2>1. View("rest")' = View("rest")
    BY <1>2, <1>7, <1>16 DEF WriteFields, w
  <2>2. CASE k = 11
    <3>1. \/ m = 12 /\ run[t].ret = "ok"
          \/ m = 13 /\ run'[t].ret = "err"
      BY <1>2, <1>4, <1>6, <1>16, <2>2 DEF WriteFields, w
    <3>2. QED
      BY <1>2, <1>3, <1>5, <1>10, <1>11, <1>16, <2>1, <2>2, <3>1 DEF WriteMoved, m
  <2>3. CASE k = 12
    <3>1. m = 13 /\ (store' = View("rest") \/ run'[t].ret = "err")
      BY <1>2, <1>6, <1>8, <1>16, <2>3 DEF WriteFields, w
    <3>2. QED
      BY <1>2, <1>3, <1>5, <1>10, <1>11, <1>16, <2>1, <2>3, <3>1 DEF WriteMoved, m
  <2>4. QED
    BY <1>16, <2>2, <2>3
<1>17. CASE run[t].back = "rc" /\ k \in {11, 12, 13}
  <2>1. View("rest")' = View("rest")
    BY <1>2, <1>7, <1>17 DEF WriteFields, w
  <2>2. CASE k = 11
    <3>1. m = 12 /\ rc'["rest"] = run[t].ret
      BY <1>2, <1>6, <1>8, <1>17, <2>2 DEF WriteFields, w
    <3>2. QED
      BY <1>2, <1>3, <1>4, <1>5, <1>10, <1>11, <1>17, <2>1, <2>2, <3>1 DEF WriteMoved, m
  <2>3. CASE k = 12
    <3>1. \/ m = 13 /\ rc["rest"] = "ok"
          \/ m = 14 /\ rc'["rest"] = "err"
      BY <1>2, <1>4, <1>6, <1>17, <2>3 DEF WriteFields, w
    <3>2. QED
      BY <1>2, <1>3, <1>5, <1>10, <1>11, <1>17, <2>1, <2>3, <3>1 DEF WriteMoved, m
  <2>4. CASE k = 13
    <3>1. m = 14 /\ (store' = View("rest") \/ rc'["rest"] = "err")
      BY <1>2, <1>6, <1>8, <1>17, <2>4 DEF WriteFields, w
    <3>2. QED
      BY <1>2, <1>3, <1>5, <1>10, <1>11, <1>17, <2>1, <2>4, <3>1 DEF WriteMoved, m
  <2>5. QED
    BY <1>17, <2>2, <2>3, <2>4
<1>18. \/ k \in {1, 3} \/ k \in {2, 4} \/ k \in {5, 6, 7} \/ k \in {8, 9, 10}
       \/ run[t].back = "ret" /\ k \in {11, 12}
       \/ run[t].back = "rc" /\ k \in {11, 12, 13}
  BY <1>2, <1>3
<1>19. QED
  BY <1>12, <1>13, <1>14, <1>15, <1>16, <1>17, <1>18


\* A call alone that writes an application has no error in rc before it commits
\* the removal of the parameters.
LEMMA SixKept ==
  ASSUME TypeInv, CallInv, AppInv, [Next]_vars, NEW u \in RestThreads,
         Alone(u)', run'[u].kind = "app", run'[u].pc = 6
  PROVE  rc'[Home(u)] = "ok"
<1>0. u \in Threads /\ Home(u) = "rest"
  BY Homes
<1>1. ASSUME NEW t \in Threads, NEW kind \in Kinds, NEW on \in Ons, NEW ops \in Seq(Ops),
             NEW back \in To, Begins(t, kind, on, ops, back)
      PROVE  rc'[Home(u)] = "ok"
  <2>1. PICK n : Entered(t, kind, on, ops, back, n)
    BY <1>1, EnteredByBegin
  <2>2. u # t
    BY <2>1 DEF Entered
  <2>3. Alone(u) /\ run'[u] = run[u] /\ rc'[Home(u)] = rc[Home(u)]
    BY <1>0, <2>1, <2>2, AloneStaysAlone
  <2>4. QED
    BY <2>3 DEF AppInv
<1>2. ASSUME NEW t \in Threads, Step(t), ~Return(t)
      PROVE  rc'[Home(u)] = "ok"
  <2>1. Moves(t)
    BY <1>2, StepsMove
  <2>2. CASE u = t
    <3>1. run[u] # Idle /\ run[u].kind = "app" /\ Alone(u)
      BY <2>1, <2>2 DEF Moves, Alone
    <3>2. Writes(u, On(u)) /\ (run[u].pc = 6 => rc["rest"] = "ok")
      BY <1>0, <3>1 DEF Writes, AppInv
    <3> DEFINE a == On(u)
    <3> HIDE DEF a
    <3>3. WriteMoved(u, a)
      BY <1>2, <2>2, <3>2, WriteMoves DEF a
    <3>4. QED
      BY <1>0, <3>3 DEF WriteMoved
  <2>3. CASE u # t
    <3>1. run'[u] = run[u] /\ Alone(u)
      BY <1>0, <2>1, <2>3 DEF Moves, Alone
    <3>2. rc'[Home(u)] = rc[Home(u)]
      BY <1>0, <1>2, <2>3, <3>1, AloneIsUntouched
    <3>3. QED
      BY <3>1, <3>2 DEF AppInv
  <2>4. QED
    BY <2>2, <2>3
<1>3. ASSUME NEW t \in Threads, Return(t)
      PROVE  rc'[Home(u)] = "ok"
  <2>1. Returned(t)
    BY <1>3, ReturnedByReturn
  <2>2. u # t
    BY <2>1 DEF Returned, Alone
  <2>3. run'[u] = run[u] /\ Alone(u) /\ rc' = rc
    BY <1>0, <2>1, <2>2 DEF Returned, Alone
  <2>4. QED
    BY <2>3 DEF AppInv
<1>4. CASE UNCHANGED vars
  BY <1>4 DEF vars, AppInv, Alone
<1>5. QED
  BY <1>1, <1>2, <1>3, <1>4, NextIs

\* A call that wrote the application and failed or was shared stays one.
LEMMA StrippedStays ==
  ASSUME TypeInv, CallInv, [Next]_vars, NEW a, Stripped(a) PROVE Stripped(a)'
<1>1. PICK n \in 1..MaxCalls : /\ told[n].kind = "app" /\ told[n].on = a
                               /\ told[n].result = "fail" \/ n \in shared
  BY DEF Stripped, TypeInv
<1>2. /\ told'[n].kind = "app" /\ told'[n].on = a
      /\ told'[n].result = "fail" \/ n \in shared'
      /\ told' \in [1..MaxCalls -> Told]
  BY <1>1, RecordsStay
<1>3. QED
  BY <1>2 DEF Stripped

\* A whole application stays whole, in the datastore but while it is written, in
\* the session but while its parameters are removed and written again.
LEMMA KeptAppKept ==
  ASSUME TypeInv, CallInv, ContainerInv, AppInv, [Next]_vars,
         NEW a \in Apps, ~Discovered', ~Stripped(a)'
  PROVE  KeptApp(a)'
<1>1. ~Discovered /\ ~Stripped(a) /\ KeptApp(a)
  BY DiscoveredStays, StrippedStays DEF AppInv
<1>2. ASSUME NEW n \in 1..MaxCalls, told' \in [1..MaxCalls -> Told],
             told'[n].kind = "app", told'[n].on = a
      PROVE  told'[n].result # "fail" /\ n \notin shared'
  BY <1>2 DEF Stripped
<1>3. ASSUME NEW u \in RestThreads, Writes(u, a)
      PROVE  /\ u \in Threads /\ run[u] # Idle /\ Home(u) = "rest" /\ run[u].n \in 1..MaxCalls
             /\ run[u].n \notin shared /\ run[u].kind = "app" /\ On(u) = a
             /\ told[run[u].n].kind = "app" /\ told[run[u].n].on = a
  BY <1>3, Homes, RunningPrograms DEF Writes, Alone, On
<1>c. ASSUME NEW u \in RestThreads, Writes(u, a), run'[u] = run[u],
             told'[run[u].n] = told[run[u].n], run[u].n \notin shared',
             rc'["rest"] = rc["rest"]
      PROVE  /\ Writes(u, a)'
             /\ Bare(u) => Bare(u)'
             /\ ~(Ended(u) /\ Value(u) = "ok") => ~(Ended(u)' /\ Value(u)' = "ok")
  <2>1. Home(u) = "rest" /\ Home(u)' = "rest"
    BY Homes DEF Home
  <2>2. QED
    BY <1>c, <2>1 DEF Writes, Alone, On, Bare, Ended, Value
<1>4. ASSUME NEW t \in Threads, NEW kind \in Kinds, NEW on \in Ons, NEW ops \in Seq(Ops),
             NEW back \in To, Begins(t, kind, on, ops, back)
      PROVE  KeptApp(a)'
  <2>1. PICK n : Entered(t, kind, on, ops, back, n)
    BY <1>4, EnteredByBegin
  <2>2. store' = store /\ View("rest")' = View("rest")
    BY <2>1 DEF Entered, View
  <2>3. ASSUME NEW u \in RestThreads, Writes(u, a)
        PROVE  /\ Writes(u, a)'
               /\ Bare(u) => Bare(u)'
               /\ ~(Ended(u) /\ Value(u) = "ok") => ~(Ended(u)' /\ Value(u)' = "ok")
    <3>1. u # t /\ run'[u] = run[u] /\ told'[run[u].n] = told[run[u].n]
      BY <1>3, <2>1, <2>3 DEF Entered
    <3>2. run[u].n \notin shared'
      BY <1>2, <1>3, <2>1, <2>3, <3>1 DEF Entered
    <3>3. Home(t) # "rest"
      BY <1>3, <2>1, <2>3, <3>1, <3>2 DEF Entered, Mates
    <3>4. rc'["rest"] = rc["rest"]
      BY <2>1, <3>3, Homes DEF Entered
    <3>5. QED
      BY <1>c, <2>3, <3>1, <3>2, <3>4
  <2>4. ASSUME NEW u \in RestThreads, Writes(u, a)', run'[u].pc \in {9, 10}
        PROVE  Writes(u, a) /\ run'[u] = run[u]
    <3>1. u # t /\ u \in Threads /\ Alone(u)'
      BY <2>1, <2>4, Homes DEF Entered, Writes
    <3>2. Alone(u) /\ run'[u] = run[u] /\ told'[run[u].n] = told[run[u].n]
      BY <2>1, <3>1, AloneStaysAlone
    <3>3. QED
      BY <2>4, <3>2 DEF Writes, On
  <2>5. QED
    BY <1>1, <2>2, <2>3, <2>4 DEF KeptApp
<1>5. CASE Step(Container) /\ ~Return(Container)
  <2>1. Moves(Container)
    BY <1>5, StepsMove, Homes
  <2> DEFINE P == App(a) \cup Params(a)
  <2>2. (pend["container"].del \cup pend["container"].add) \cap P = {}
    BY <1>1 DEF ContainerInv
  <2> HIDE DEF P
  <2>3. store' \cap P = store \cap P /\ View("rest")' \cap P = View("rest") \cap P
    BY <1>5, <2>2, ContainerLeaves
  <2>4. ASSUME NEW V, NEW W, V \cap P = W \cap P
        PROVE  /\ WholeApp(W, a) => WholeApp(V, a)
               /\ Params(a) \subseteq W => Params(a) \subseteq V
    BY <2>4 DEF WholeApp, P
  <2>5. /\ WholeApp(store, a) => WholeApp(store, a)'
        /\ WholeApp(View("rest"), a) => WholeApp(View("rest"), a)'
        /\ Params(a) \subseteq View("rest") => Params(a) \subseteq View("rest")'
    BY <2>3, <2>4 DEF WholeApp
  <2>6. ASSUME NEW u \in RestThreads
        PROVE  /\ run'[u] = run[u] /\ told' = told /\ shared' = shared
               /\ rc'["rest"] = rc["rest"]
    <3>1. u # Container /\ Home(u) = "rest" /\ Home(Container) # "rest" /\ "rest" \in Procs
      BY Homes
    <3>2. QED
      BY <2>1, <3>1, Homes DEF Moves
  <2>7. ASSUME NEW u \in RestThreads, Writes(u, a)
        PROVE  /\ Writes(u, a)'
               /\ Bare(u) => Bare(u)'
               /\ ~(Ended(u) /\ Value(u) = "ok") => ~(Ended(u)' /\ Value(u)' = "ok")
    BY <1>3, <1>c, <2>6, <2>7
  <2>8. ASSUME NEW u \in RestThreads, Writes(u, a)' PROVE Writes(u, a)
    BY <2>6, <2>8 DEF Writes, Alone, On
  <2>9. QED
    BY <1>1, <2>5, <2>6, <2>7, <2>8 DEF KeptApp
<1>6. ASSUME NEW t \in RestThreads, Step(t), ~Return(t), Writes(t, a)
      PROVE  KeptApp(a)'
  <2>1. Moves(t) /\ run[t] # Idle /\ t \in Threads /\ Home(t) = "rest"
    BY <1>3, <1>6, StepsMove
  <2>2. ~Bare(t) => WholeApp(View("rest"), a)
    BY <1>1, <2>1, AloneIsOnlyOne DEF KeptApp, Writes
  <2>3. run[t].pc \in {9, 10} => Params(a) \subseteq View("rest")
    BY <1>1, <1>6 DEF KeptApp
  <2>4. run[t].pc = 6 => rc["rest"] = "ok"
    BY <1>6, <2>1 DEF AppInv, Writes
  <2>5. WriteMoved(t, a)
    BY <1>6, <2>4, WriteMoves
  <2>6. Writes(t, a)'
    BY <1>6, <2>1 DEF Writes, Alone, On, Moves
  <2>7. WholeApp(store, a)' \/ ~(Ended(t)' /\ Value(t)' = "ok")
    BY <2>2, <2>5 DEF WriteMoved, WholeApp
  <2>8. WholeApp(View("rest"), a)' \/ Bare(t)'
    <3>1. CASE Params(a) \subseteq View("rest")'
      BY <3>1 DEF WholeApp
    <3>2. CASE ~Bare(t) /\ View("rest")' = View("rest")
      BY <2>2, <3>2 DEF WholeApp
    <3>3. QED
      BY <2>3, <2>5, <3>1, <3>2 DEF WriteMoved
  <2>9. ASSUME NEW u \in RestThreads, Writes(u, a)', run'[u].pc \in {9, 10}
        PROVE  Params(a) \subseteq View("rest")'
    <3>1. u = t
      <4>1. SUFFICES ASSUME u # t PROVE FALSE
        OBVIOUS
      <4>2. run'[u] = run[u] /\ Alone(u)
        BY <2>1, <2>9, <4>1, Homes DEF Moves, Writes, Alone
      <4>3. QED
        BY <2>1, <4>1, <4>2, AloneIsOnlyOne
    <3>2. QED
      BY <2>3, <2>5, <2>9, <3>1 DEF WriteMoved
  <2>10. QED
    BY <2>6, <2>7, <2>8, <2>9 DEF KeptApp
<1>7. ASSUME NEW t \in RestThreads, Step(t), ~Return(t), ~Writes(t, a)
      PROVE  KeptApp(a)'
  <2>1. Moves(t) /\ run[t] # Idle /\ t \in Threads /\ Home(t) = "rest"
    BY <1>7, StepsMove, Homes DEF Moves
  <2>2. WholeApp(store, a) /\ WholeApp(View("rest"), a)
    BY <1>1, <1>7, <2>1, AloneIsOnlyOne DEF KeptApp, Writes
  <2>3. /\ run[t].pc \in 1..Len(run[t].ops) /\ Now(t) = run[t].ops[run[t].pc]
        /\ run[t].n \in 1..MaxCalls /\ told[run[t].n].kind = run[t].kind
        /\ Program(t, run[t].kind, On(t), run[t].ops, run[t].back)
    BY <2>1, RunningPrograms DEF Moves, Now
  <2>4. run[t].kind \in Kinds /\ Puts(run[t].kind, On(t), run[t].ops) /\ run[t].kind # "apps"
    BY <2>1, <2>3, Programs, Homes
  <2>5. ~(run[t].kind = "app" /\ On(t) = a)
    BY <1>1, <1>7, <2>1, <2>3 DEF Stripped, Writes, Alone, On, TypeInv
  <2>6. WholeApp(View("rest"), a)'
    <3>1. CASE Now(t).op = "put"
      <4> DEFINE D == Now(t).del
                 F == Now(t).add
      <4>1. PutsOf(run[t].kind, On(t), D, F)
        BY <2>3, <2>4, <3>1 DEF Puts
      <4>2. View("rest")' = (View("rest") \ D) \cup F
        BY <1>7, <2>1, <3>1, ViewsMove
      <4> HIDE DEF D, F
      <4>3. App(a) \cap F = {} /\ (Params(a) \cap D = {} \/ App(a) \subseteq D)
        BY <2>4, <2>5, <4>1, PutsKeepApps
      <4>4. WholeApp((View("rest") \ D) \cup F, a)
        BY <2>2, <4>3, WholeStays
      <4>5. QED
        BY <4>2, <4>4 DEF WholeApp
    <3>2. CASE Now(t).op # "put"
      <4>1. View("rest")' = View("rest")
        BY <1>7, <2>1, <3>2, ViewsMove
      <4>2. QED
        BY <2>2, <4>1 DEF WholeApp
    <3>3. QED
      BY <3>1, <3>2
  <2>7. WholeApp(store, a)'
    <3>1. store' = store \/ store' = View("rest")
      BY <1>7, <2>1, ViewsMove
    <3>2. QED
      BY <2>2, <3>1 DEF WholeApp
  <2>8. ASSUME NEW u \in RestThreads, Writes(u, a)' PROVE FALSE
    <3>1. CASE u = t
      BY <1>7, <2>1, <2>8, <3>1 DEF Moves, Writes, Alone, On
    <3>2. CASE u # t
      <4>1. run'[u] = run[u] /\ Alone(u)
        BY <2>1, <2>8, <3>2, Homes DEF Moves, Writes, Alone
      <4>2. QED
        BY <2>1, <3>2, <4>1, AloneIsOnlyOne
    <3>3. QED
      BY <3>1, <3>2
  <2>9. QED
    BY <2>6, <2>7, <2>8 DEF KeptApp
<1>8. ASSUME NEW t \in Threads, Return(t)
      PROVE  KeptApp(a)'
  <2>1. Returned(t)
    BY <1>8, ReturnedByReturn
  <2>2. store' = store /\ View("rest")' = View("rest") /\ rc' = rc /\ shared' = shared
    BY <2>1 DEF Returned, View
  <2>3. ASSUME NEW u \in RestThreads, Writes(u, a), u # t
        PROVE  /\ Writes(u, a)'
               /\ Bare(u) => Bare(u)'
               /\ ~(Ended(u) /\ Value(u) = "ok") => ~(Ended(u)' /\ Value(u)' = "ok")
    <3>1. /\ run'[u] = run[u]
          /\ told'[run[u].n].kind = "app" /\ told'[run[u].n].on = a
      BY <1>3, <2>1, <2>3 DEF Returned
    <3>2. Writes(u, a)'
      BY <2>2, <2>3, <3>1 DEF Writes, Alone, On
    <3>3. QED
      BY <2>2, <2>3, <3>1, <3>2 DEF Bare, Ended, Value, Home
  <2>4. ASSUME NEW u \in RestThreads, Writes(u, a), u = t
        PROVE  Ended(u) /\ Value(u) = "ok" /\ ~Bare(u)
    <3>1. Program(u, "app", a, run[u].ops, run[u].back) /\ run[u] \in Calls
      BY <1>3, <2>4, RunningPrograms
    <3>2. run[u].back \in {"ret", "rc"} /\ WriteFields(run[u].ops, a, run[u].back)
      BY <3>1, WriteStepsFields DEF Program
    <3>3. Ended(u) /\ run[u].pc \in Nat /\ Len(run[u].ops) = IF run[u].back = "ret" THEN 12 ELSE 13
      BY <2>1, <2>4, <3>1, <3>2 DEF Returned, WriteFields, Calls
    <3>4. Value(u) = "ok"
      BY <1>2, <1>3, <2>1, <2>4 DEF Returned
    <3>5. QED
      BY <1>3, <2>4, <3>2, <3>3, <3>4 DEF Ended, Value, Bare
  <2>5. ASSUME NEW u \in RestThreads, Writes(u, a)'
        PROVE  Writes(u, a) /\ run'[u] = run[u]
    <3>1. u # t /\ u \in Threads
      BY <2>1, <2>5, Homes DEF Returned, Writes, Alone
    <3>2. run'[u] = run[u] /\ run[u] # Idle
      BY <2>1, <2>5, <3>1 DEF Returned, Writes, Alone
    <3>3. run[u].n # run[t].n /\ run[u].n \in 1..MaxCalls
      BY <2>1, <3>1, <3>2, RunningPrograms DEF Returned, CallInv
    <3>4. told'[run[u].n] = told[run[u].n]
      BY <2>1, <3>3 DEF Returned
    <3>5. QED
      BY <2>1, <2>5, <3>2, <3>4 DEF Returned, Writes, Alone, On
  <2>6. QED
    BY <1>1, <2>2, <2>3, <2>4, <2>5 DEF KeptApp, WholeApp
<1>9. CASE UNCHANGED vars
  <2>1. View("rest")' = View("rest")
    BY <1>9 DEF vars, View
  <2>2. QED
    BY <1>1, <1>9, <2>1
      DEF vars, KeptApp, WholeApp, Writes, Alone, On, Bare, Ended, Value
<1>10. QED
  BY <1>4, <1>5, <1>6, <1>7, <1>8, <1>9, NextIs, Homes

\* What AppInv says of the parameters is kept.
LEMMA AppKept == TypeInv /\ CallInv /\ ContainerInv /\ AppInv /\ [Next]_vars => AppInv'
<1> SUFFICES ASSUME TypeInv, CallInv, ContainerInv, AppInv, [Next]_vars PROVE AppInv'
  OBVIOUS
<1>1. \A t \in RestThreads :
        Alone(t)' /\ run'[t].kind = "app" /\ run'[t].pc = 6 => rc'[Home(t)] = "ok"
  BY SixKept
<1>2. \A a \in Apps : ~Discovered' /\ ~Stripped(a)' => KeptApp(a)'
  BY KeptAppKept
<1>3. QED
  BY <1>1, <1>2 DEF AppInv, Home


(***************************************************************************)
(* Refusals                                                                *)
(***************************************************************************)

\* The step of a call that writes a request and is alone.
LEMMA RequestSessionMoves ==
  ASSUME TypeInv, CallInv, NEW t \in RestThreads, Step(t), ~Return(t), Alone(t),
         run[t].kind = "request", pend'["rest"].by \subseteq {run[t].n},
         pend["rest"].by \subseteq {run[t].n} => RequestSession(t)
  PROVE  RequestSession(t)'
<1> DEFINE s == On(t)
           k == run[t].pc
           m == run'[t].pc
<1>0. t \in Threads /\ Home(t) = "rest" /\ Home(t)' = "rest" /\ run[t] # Idle
  BY Homes DEF Alone, Home
<1>1. Moves(t) /\ On(t)' = s
  BY <1>0, StepsMove DEF Moves, On
<1>2. s \in Streams /\ SevenFields(run[t].ops, s)
  BY <1>0, RunningPrograms, SevenStepsFields DEF Program
<1>3. k \in 1..7 /\ StepOfRequest(Now(t), k, s)
  BY <1>1, <1>2, SevenStepsAre DEF Moves, Now, SevenFields
<1> HIDE DEF s
<1>4. rc["rest"] \in {"ok", "err"}
  BY Homes DEF TypeInv, Results
<1>5. RequestSession(t) <=>
        /\ pend["rest"].del = {} /\ pend["rest"].add \subseteq OfStream(s)
        /\ \/ Talker(s) \subseteq pend["rest"].add
           \/ k \in {1, 2, 3, 8}
           \/ k = 4 /\ rc["rest"] = "err"
  BY <1>0 DEF RequestSession, s
<1>6. RequestSession(t)' <=>
        /\ pend'["rest"].del = {} /\ pend'["rest"].add \subseteq OfStream(s)
        /\ \/ Talker(s) \subseteq pend'["rest"].add
           \/ m \in {1, 2, 3, 8}
           \/ m = 4 /\ rc'["rest"] = "err"
  BY <1>0, <1>1 DEF RequestSession
<1>7. CASE Now(t).op = "put"
  <2> DEFINE F == Now(t).add
  <2>1. /\ pend'["rest"].del = pend["rest"].del \cup {}
        /\ pend'["rest"].add = (pend["rest"].add \ {}) \cup F
        /\ pend'["rest"].by = pend["rest"].by \cup {run[t].n}
    BY <1>0, <1>3, <1>7, SessionsMove DEF StepOfRequest
  <2>2. F \subseteq OfStream(s) /\ (k = 3 => Talker(s) \subseteq F) /\ k \in {1, 3, 5}
    BY <1>3, <1>7 DEF StepOfRequest
  <2>3. m = k + 1
    BY <1>0, <1>7, StepsAdvance
  <2> HIDE DEF F, k, m
  <2>4. RequestSession(t)
    BY <2>1
  <2>5. pend'["rest"].del = {} /\ pend'["rest"].add \subseteq OfStream(s)
    BY <1>5, <2>1, <2>2, <2>4
  <2>6. Talker(s) \subseteq pend'["rest"].add \/ m = 2
    BY <1>5, <2>1, <2>2, <2>3, <2>4
  <2>7. QED
    BY <1>6, <2>5, <2>6
<1>8. CASE Now(t).op = "apply"
  <2>1. k = 7 /\ m = 8
    BY <1>0, <1>3, <1>8, StepsAdvance DEF StepOfRequest
  <2>2. \/ pend'["rest"].del = {} /\ pend'["rest"].add = {}
        \/ pend' = pend
    BY <1>0, <1>8, SessionsMove
  <2> HIDE DEF k, m
  <2>3. QED
    BY <1>5, <1>6, <2>1, <2>2
<1>9. CASE Now(t).op = "refused"
  <2>1. pend' = pend /\ rc'["rest"] = "err" /\ m = k + 1 /\ k \in {1, 3, 5}
    BY <1>0, <1>3, <1>9, StepsMove DEF StepOfRequest, After
  <2> HIDE DEF k, m
  <2>2. QED
    BY <1>5, <1>6, <2>1
<1>10. CASE Now(t).op = "test"
  <2>1. /\ pend' = pend /\ k \in {2, 4, 6} /\ k + Now(t).skip = 7 /\ Now(t).to = "rc"
        /\ m = k + (IF rc["rest"] = "ok" THEN 1 ELSE Now(t).skip + 1)
    BY <1>0, <1>3, <1>10, StepsMove DEF StepOfRequest
  <2>2. Now(t).skip \in Nat
    BY <1>1, <1>10 DEF Moves, Ops
  <2> HIDE DEF k, m
  <2>3. m = 8 \/ (m = k + 1 /\ rc["rest"] = "ok")
    BY <2>1, <2>2
  <2>4. QED
    BY <1>5, <1>6, <2>1, <2>3
<1>11. QED
  BY <1>3, <1>7, <1>8, <1>9, <1>10 DEF StepOfRequest

\* The step of a call that deletes a stream and is alone.
LEMMA DeleteSessionMoves ==
  ASSUME TypeInv, CallInv, NEW t \in RestThreads, Step(t), ~Return(t), Alone(t),
         run[t].kind = "delete", pend'["rest"].by \subseteq {run[t].n},
         pend["rest"].by \subseteq {run[t].n} => DeleteSession(t)
  PROVE  DeleteSession(t)'
<1> DEFINE s == On(t)
           w == run[t].ops
           k == run[t].pc
           m == run'[t].pc
<1>0. t \in Threads /\ Home(t) = "rest" /\ Home(t)' = "rest" /\ run[t] # Idle
  BY Homes DEF Alone, Home
<1>1. Moves(t) /\ On(t)' = s /\ run'[t].ops = w /\ k \in 1..Len(w) /\ Now(t) = w[k]
  BY <1>0, StepsMove DEF Moves, On, Now
<1>2. s \in Streams /\ Straight(w) /\ Puts("delete", s, w) /\ Len(w) \in Nat
  <2>1. Program(t, "delete", s, w, run[t].back) /\ Len(w) \in Nat
    BY <1>0, RunningPrograms
  <2>2. QED
    BY <2>1, DeleteSteps DEF Program
<1> HIDE DEF s, w, k, m
<1>3. DeleteSession(t) <=>
        /\ pend["rest"].add = {} /\ pend["rest"].del \subseteq OfStream(s) \cup MapsTo(s)
        /\ ~(k > Len(w)) =>
             /\ \A i \in 1..k - 1 : w[i].op = "put" => w[i].del \subseteq pend["rest"].del
             /\ \A f \in store \cap MapsTo(s) :
                  \E i \in 1..Len(w) : w[i].op = "put" /\ f \in w[i].del
  BY <1>0 DEF DeleteSession, Ended, s, w, k
<1>4. DeleteSession(t)' <=>
        /\ pend'["rest"].add = {} /\ pend'["rest"].del \subseteq OfStream(s) \cup MapsTo(s)
        /\ ~(m > Len(w)) =>
             /\ \A i \in 1..m - 1 : w[i].op = "put" => w[i].del \subseteq pend'["rest"].del
             /\ \A f \in store' \cap MapsTo(s) :
                  \E i \in 1..Len(w) : w[i].op = "put" /\ f \in w[i].del
  BY <1>0, <1>1 DEF DeleteSession, Ended, m
<1>5. /\ k \in 1..Len(w)
      /\ w[k].op = "apply" => k = Len(w)
      /\ w[k].op = "test" => k + w[k].skip = Len(w)
  BY <1>1, <1>2 DEF Straight
<1>6. m = k + 1 \/ m > Len(w)
  <2>1. \/ m = k + 1
        \/ w[k].op = "test" /\ m = k + w[k].skip + 1 /\ w[k].skip \in Nat
    BY <1>0, <1>1, StepsAdvance DEF k, m
  <2>2. QED
    BY <1>2, <1>5, <2>1
<1>7. CASE w[k].op = "put"
  <2> DEFINE D == w[k].del
  <2>1. w[k].add = {} /\ D \subseteq OfStream(s) \cup MapsTo(s)
    BY <1>2, <1>5, <1>7, PartsAreFacts DEF Puts, PutsOf
  <2>2. /\ pend'["rest"].del = pend["rest"].del \cup D
        /\ pend'["rest"].add = (pend["rest"].add \ D) \cup {}
        /\ pend'["rest"].by = pend["rest"].by \cup {run[t].n} /\ store' = store
    BY <1>0, <1>1, <1>7, <2>1, SessionsMove
  <2>3. DeleteSession(t)
    BY <2>2
  <2>4. pend'["rest"].add = {} /\ pend'["rest"].del \subseteq OfStream(s) \cup MapsTo(s)
    BY <1>3, <2>1, <2>2, <2>3
  <2>5. ASSUME ~(m > Len(w)), NEW i \in 1..m - 1, w[i].op = "put"
        PROVE  w[i].del \subseteq pend'["rest"].del
    <3>1. m = k + 1 /\ k \in Nat
      BY <1>2, <1>5, <1>6, <2>5
    <3>2. i = k \/ i \in 1..k - 1
      BY <3>1
    <3>3. ~(k > Len(w))
      BY <1>2, <1>5
    <3>4. QED
      BY <1>3, <2>2, <2>3, <2>5, <3>2, <3>3
  <2>6. ~(k > Len(w))
    BY <1>2, <1>5
  <2>7. QED
    BY <1>3, <1>4, <2>2, <2>3, <2>4, <2>5, <2>6
<1>8. CASE w[k].op = "apply"
  <2>1. m > Len(w)
    BY <1>2, <1>5, <1>6, <1>8
  <2>2. \/ pend'["rest"].del = {} /\ pend'["rest"].add = {}
        \/ pend' = pend
    BY <1>0, <1>1, <1>8, SessionsMove
  <2>3. QED
    BY <1>3, <1>4, <2>1, <2>2
<1>9. CASE w[k].op \notin {"put", "apply"}
  <2>1. store' = store /\ pend' = pend
    BY <1>0, <1>1, <1>9, SessionsMove
  <2>2. DeleteSession(t)
    BY <2>1
  <2>3. ASSUME ~(m > Len(w)), NEW i \in 1..m - 1, w[i].op = "put"
        PROVE  w[i].del \subseteq pend'["rest"].del
    <3>1. m = k + 1 /\ k \in Nat
      BY <1>2, <1>5, <1>6, <2>3
    <3>2. i \in 1..k - 1
      BY <1>9, <2>3, <3>1
    <3>3. ~(k > Len(w))
      BY <1>2, <1>5
    <3>4. QED
      BY <1>3, <2>1, <2>2, <2>3, <3>2, <3>3
  <2>4. ~(k > Len(w))
    BY <1>2, <1>5
  <2>5. QED
    BY <1>3, <1>4, <2>1, <2>2, <2>3, <2>4
<1>10. QED
  BY <1>7, <1>8, <1>9

\* The step of a call for the topology, for attributes or to remove an application.
LEMMA LooseSessionMoves ==
  ASSUME TypeInv, CallInv, NEW t \in RestThreads, Step(t), ~Return(t), Alone(t),
         run[t].kind \in {"remove", "topology", "attributes"},
         pend'["rest"].by \subseteq {run[t].n},
         pend["rest"].by \subseteq {run[t].n} => LooseSession(t)
  PROVE  LooseSession(t)'
<1>0. t \in Threads /\ Home(t) = "rest" /\ Home(t)' = "rest" /\ run[t] # Idle
  BY Homes DEF Alone, Home
<1>1. /\ run[t].pc \in 1..Len(run[t].ops) /\ Now(t) = run[t].ops[run[t].pc]
      /\ Puts(run[t].kind, On(t), run[t].ops) /\ (run[t].kind = "remove" => On(t) \in Apps)
  BY <1>0, StepsMove, RunningPrograms, Programs DEF Moves, Now
<1>2. CASE Now(t).op = "put"
  <2> DEFINE D == Now(t).del
             F == Now(t).add
  <2>1. PutsOf(run[t].kind, On(t), D, F)
    BY <1>1, <1>2 DEF Puts
  <2>2. /\ pend'["rest"].del = pend["rest"].del \cup D
        /\ pend'["rest"].add = (pend["rest"].add \ D) \cup F
        /\ pend'["rest"].by = pend["rest"].by \cup {run[t].n}
    BY <1>0, <1>2, SessionsMove
  <2> HIDE DEF D, F
  <2>3. D \subseteq Loose /\ F \subseteq Plain
    <3>1. CASE run[t].kind = "remove"
      <4>1. D = OfApp(On(t)) /\ F = {} /\ On(t) \in Apps
        BY <1>1, <2>1, <3>1 DEF PutsOf
      <4>2. \A f \in OfApp(On(t)) : f[1] \in {"app", "params", "ref", "maps"}
        BY TagsOfFacts DEF OfApp
      <4>3. OfApp(On(t)) \subseteq Facts
        BY <4>1, PartsAreFacts
      <4>4. QED
        BY <4>1, <4>2, <4>3 DEF Loose
    <3>2. CASE run[t].kind = "topology"
      BY <2>1, <3>2, TagsOfFacts, PartsAreFacts DEF PutsOf, Loose, Plain
    <3>3. CASE run[t].kind = "attributes"
      BY <2>1, <3>3, TagsOfFacts, PartsAreFacts DEF PutsOf, Loose, Plain
    <3>4. QED
      BY <3>1, <3>2, <3>3
  <2>4. pend["rest"].del \subseteq Loose /\ pend["rest"].add \subseteq Plain
    BY <1>0, <2>2 DEF LooseSession
  <2>5. QED
    BY <1>0, <2>2, <2>3, <2>4 DEF LooseSession
<1>3. CASE Now(t).op # "put"
  <2>1. \/ pend'["rest"].del = {} /\ pend'["rest"].add = {}
        \/ pend' = pend
    BY <1>0, <1>3, SessionsMove
  <2>2. QED
    BY <1>0, <2>1 DEF LooseSession
<1>4. QED
  BY <1>2, <1>3


\* What is said of the session of a call that is alone stays true while others
\* leave the session alone and map no application to the stream.
LEMMA SessionStays ==
  ASSUME NEW u \in RestThreads, SessionOf(u), run'[u] = run[u],
         told'[run[u].n] = told[run[u].n], rc'["rest"] = rc["rest"],
         pend'["rest"] = pend["rest"],
         run[u].kind = "delete" => store' \cap MapsTo(On(u)) \subseteq store
  PROVE  SessionOf(u)'
<1>1. Home(u) = "rest" /\ Home(u)' = "rest" /\ On(u)' = On(u)
  BY Homes DEF Home, On
<1> DEFINE s == On(u)
<1>2. On(u)' = s
  BY <1>1
<1> HIDE DEF s
<1>3. CASE run[u].kind = "request"
  <2>1. RequestSession(u)
    BY <1>3 DEF SessionOf
  <2>2. RequestSession(u)'
    BY <1>1, <1>2, <2>1 DEF RequestSession, s
  <2>3. QED
    BY <1>3, <2>2 DEF SessionOf
<1>4. CASE run[u].kind = "delete"
  <2>1. DeleteSession(u)
    BY <1>4 DEF SessionOf
  <2>2. \A f \in store' \cap MapsTo(s) : f \in store \cap MapsTo(s)
    BY <1>4 DEF s
  <2>3. DeleteSession(u)'
    BY <1>1, <1>2, <2>1, <2>2 DEF DeleteSession, Ended, s
  <2>4. QED
    BY <1>4, <2>3 DEF SessionOf
<1>5. CASE run[u].kind \notin {"request", "delete"}
  BY <1>1, <1>5 DEF SessionOf, LooseSession
<1>6. QED
  BY <1>3, <1>4, <1>5

\* What is said of the sessions of calls that are alone is kept.
LEMMA RefusalKept ==
  TypeInv /\ CallInv /\ ContainerInv /\ RefusalInv /\ [Next]_vars => RefusalInv'
<1> SUFFICES ASSUME TypeInv, CallInv, ContainerInv, RefusalInv, [Next]_vars,
                    NEW u \in RestThreads, Alone(u)', pend'["rest"].by \subseteq {run'[u].n}
             PROVE  SessionOf(u)'
  <2>1. \A t \in RestThreads : Home(t)' = "rest"
    BY Homes DEF Home
  <2>2. QED
    BY <2>1 DEF RefusalInv
<1>0. u \in Threads /\ Home(u) = "rest" /\ "rest" \in Procs
  BY Homes
<1>1. ASSUME NEW t \in Threads, NEW kind \in Kinds, NEW on \in Ons, NEW ops \in Seq(Ops),
             NEW back \in To, Begins(t, kind, on, ops, back)
      PROVE  SessionOf(u)'
  <2>1. PICK n : n = Begun + 1 /\ Entered(t, kind, on, ops, back, n)
    BY <1>1, EnteredByBegin
  <2>2. CASE u = t
    <3>1. pend["rest"].by \subseteq {n} /\ pend["rest"].by \subseteq 1..Begun /\ Begun \in Nat
      BY <1>0, <2>1, <2>2, BoundAssumption DEF Entered, TypeInv
    <3>2. pend["rest"].by = {}
      BY <2>1, <3>1
    <3>3. pend["rest"].del = {} /\ pend["rest"].add = {}
      BY <1>0, <3>2 DEF CallInv, Empty
    <3>4. /\ pend'["rest"].del = {} /\ pend'["rest"].add = {} /\ store' = store
          /\ run'[u].kind = kind /\ run'[u].ops = ops /\ run'[u].pc = 1 /\ On(u)' = on
      BY <2>1, <2>2, <3>3 DEF Entered, On
    <3>5. Home(u)' = "rest"
      BY <1>0 DEF Home
    <3>6. RequestSession(u)'
      BY <3>4, <3>5 DEF RequestSession
    <3>7. kind = "delete" => DeleteSession(u)'
      <4>1. View("rest") = store
        BY <3>3 DEF View
      <4>2. kind = "delete" =>
              \A f \in store' \cap MapsTo(on) :
                \E i \in 1..Len(ops) : ops[i].op = "put" /\ f \in ops[i].del
        BY <1>0, <1>1, <2>2, <3>4, <4>1 DEF Begins
      <4>3. 1..(1 - 1) = {}
        OBVIOUS
      <4>4. QED
        BY <3>4, <3>5, <4>2, <4>3 DEF DeleteSession
    <3>8. LooseSession(u)'
      BY <3>4, <3>5 DEF LooseSession
    <3>9. QED
      BY <3>4, <3>6, <3>7, <3>8 DEF SessionOf
  <2>3. CASE u # t
    <3>1. /\ Alone(u) /\ run'[u] = run[u] /\ rc'["rest"] = rc["rest"]
          /\ told'[run[u].n] = told[run[u].n]
      BY <1>0, <2>1, <2>3, AloneStaysAlone
    <3>2. store' = store /\ pend' = pend
      BY <2>1 DEF Entered
    <3>3. SessionOf(u)
      BY <1>0, <3>1, <3>2 DEF RefusalInv
    <3>4. QED
      BY <3>1, <3>2, <3>3, SessionStays
  <2>4. QED
    BY <2>2, <2>3
<1>2. ASSUME NEW t \in Threads, Step(t), ~Return(t)
      PROVE  SessionOf(u)'
  <2>1. Moves(t)
    BY <1>2, StepsMove
  <2>2. CASE u = t
    <3>1. Alone(u) /\ run'[u].kind = run[u].kind /\ run'[u].n = run[u].n
      BY <2>1, <2>2 DEF Moves, Alone
    <3>2. pend["rest"].by \subseteq {run[u].n} => SessionOf(u)
      BY <1>0, <3>1 DEF RefusalInv
    <3>3. run[u].kind = "request" => RequestSession(u)'
      BY <1>2, <2>2, <3>1, <3>2, RequestSessionMoves DEF SessionOf
    <3>4. run[u].kind = "delete" => DeleteSession(u)'
      BY <1>2, <2>2, <3>1, <3>2, DeleteSessionMoves DEF SessionOf
    <3>5. run[u].kind \in {"remove", "topology", "attributes"} => LooseSession(u)'
      BY <1>2, <2>2, <3>1, <3>2, LooseSessionMoves DEF SessionOf
    <3>6. QED
      BY <3>1, <3>3, <3>4, <3>5 DEF SessionOf
  <2>3. CASE u # t
    <3>1. run'[u] = run[u] /\ Alone(u) /\ told' = told
      BY <1>0, <2>1, <2>3 DEF Moves, Alone
    <3>2. Home(t) # "rest" /\ rc'["rest"] = rc["rest"] /\ pend'["rest"] = pend["rest"]
      BY <1>0, <1>2, <2>3, <3>1, AloneIsUntouched
    <3>3. t = Container /\ Home(t) = "container"
      BY <3>2, Homes
    <3>4. SessionOf(u)
      BY <1>0, <3>1, <3>2 DEF RefusalInv
    <3>5. run[u].kind = "delete" => store' \cap MapsTo(On(u)) \subseteq store
      <4>1. store' = store \/ store' = View("container")
        BY <1>2, <3>3, ViewsMove
      <4>2. run[u].kind = "delete" => On(u) \in Streams
        BY <1>0, <3>1, RunningPrograms, Programs DEF Alone
      <4>3. QED
        BY <4>1, <4>2 DEF ContainerInv, View
    <3>6. QED
      BY <3>1, <3>2, <3>4, <3>5, SessionStays
  <2>4. QED
    BY <2>2, <2>3
<1>3. ASSUME NEW t \in Threads, Return(t)
      PROVE  SessionOf(u)'
  <2>1. Returned(t)
    BY <1>3, ReturnedByReturn
  <2>2. u # t
    BY <2>1 DEF Returned, Alone
  <2>3. run'[u] = run[u] /\ Alone(u) /\ rc' = rc /\ pend' = pend /\ store' = store
    BY <1>0, <2>1, <2>2 DEF Returned, Alone
  <2>4. run[u].n # run[t].n /\ run[u].n \in 1..MaxCalls
    BY <1>0, <2>1, <2>2, <2>3, RunningPrograms DEF Returned, CallInv, Alone
  <2>5. told'[run[u].n] = told[run[u].n]
    BY <2>1, <2>4 DEF Returned
  <2>6. SessionOf(u)
    BY <1>0, <2>3 DEF RefusalInv
  <2>7. QED
    BY <2>3, <2>5, <2>6, SessionStays
<1>4. CASE UNCHANGED vars
  <2>1. Alone(u) /\ SessionOf(u)
    BY <1>0, <1>4 DEF vars, RefusalInv, Alone
  <2>2. QED
    BY <1>4, <2>1, SessionStays DEF vars
<1>5. QED
  BY <1>1, <1>2, <1>3, <1>4, NextIs

\* What a fact refers to.
LEMMA TargetsAre ==
  ASSUME NEW f
  PROVE  /\ f[1] = "ref" => Targets(f) = {<<"image", f[3]>>}
         /\ f[1] = "maps" => Targets(f) = {<<"stream", f[3]>>}
         /\ f[1] = "stream" => Targets(f) = {<<"talker", f[2]>>}
         /\ f[1] \notin {"ref", "maps", "stream"} => Targets(f) = {}
         /\ \A g \in Targets(f) : g[1] \in {"image", "stream", "talker"}
<1>1. f[1] = "ref" => Targets(f) = {<<"image", f[3]>>}
  BY DEF Targets
<1>2. f[1] = "maps" => Targets(f) = {<<"stream", f[3]>>}
  BY DEF Targets
<1>3. f[1] = "stream" => Targets(f) = {<<"talker", f[2]>>}
  BY DEF Targets
<1>4. f[1] \notin {"ref", "maps", "stream"} => Targets(f) = {}
  BY DEF Targets
<1>5. QED
  BY <1>1, <1>2, <1>3, <1>4

\* A valid store stays valid with parts of a stream that have its talker.
LEMMA RequestsAreValid ==
  ASSUME NEW s, NEW S, NEW F, Valid(S), F \subseteq OfStream(s), Talker(s) \subseteq F
  PROVE  Valid(S \cup F)
<1>1. ASSUME NEW f \in F PROVE Targets(f) \subseteq F
  <2>1. f[1] \in {"stream", "talker", "request"} /\ f[2] = s
    BY TagsOfFacts DEF OfStream
  <2>2. CASE f[1] = "stream"
    BY <2>1, <2>2, TargetsAre DEF Talker
  <2>3. CASE f[1] \in {"talker", "request"}
    BY <2>3, TargetsAre
  <2>4. QED
    BY <2>1, <2>2, <2>3
<1>2. QED
  BY <1>1 DEF Valid

\* A valid store stays valid without a stream and all that is mapped to it.
LEMMA DeletionsAreValid ==
  ASSUME NEW s \in Streams, NEW S \in SUBSET Facts, NEW D, Valid(S),
         D \subseteq OfStream(s) \cup MapsTo(s), OfStream(s) \subseteq D,
         S \cap MapsTo(s) \subseteq D
  PROVE  Valid(S \ D)
<1> SUFFICES ASSUME NEW f \in S \ D, NEW g \in Targets(f) PROVE g \in S \ D
  BY DEF Valid
<1>1. g \in S /\ g[1] \in {"image", "stream", "talker"}
  BY TargetsAre DEF Valid
<1>2. \A h \in D : h[1] \in {"stream", "talker", "request", "maps"} /\ (h[1] # "maps" => h[2] = s)
  BY TagsOfFacts DEF OfStream, MapsTo
<1>3. CASE f[1] = "ref"
  BY <1>1, <1>2, <1>3, TargetsAre
<1>4. CASE f[1] = "maps"
  <2>1. f[3] # s
    BY <1>4 DEF MapsTo
  <2>2. g = <<"stream", f[3]>>
    BY <1>4, TargetsAre
  <2>3. QED
    BY <1>1, <1>2, <2>1, <2>2
<1>5. CASE f[1] = "stream"
  <2>1. g = <<"talker", f[2]>>
    BY <1>5, TargetsAre
  <2>2. f[2] # s
    <3>1. \A r \in Streams : \A h \in OfStream(r) : h[1] = "stream" => h = <<"stream", h[2]>> /\ h[2] = r
      BY TagsOfFacts DEF OfStream, Stream
    <3>2. \A a \in Apps : \A h \in OfApp(a) : h[1] # "stream"
      BY TagsOfFacts DEF OfApp
    <3>3. \A h \in Image(Images) \cup Topology \cup Attributes : h[1] # "stream"
      BY TagsOfFacts
    <3>4. \E r \in Streams : f \in OfStream(r)
      BY <1>5, <3>2, <3>3 DEF Facts
    <3>5. QED
      BY <1>5, <3>1, <3>4
  <2>3. QED
    BY <1>1, <1>2, <2>1, <2>2
<1>6. CASE f[1] \notin {"ref", "maps", "stream"}
  BY <1>6, TargetsAre
<1>7. QED
  BY <1>3, <1>4, <1>5, <1>6

\* It stays valid if no fact that goes is referred to and none that comes refers.
LEMMA LooseChangesAreValid ==
  ASSUME NEW S, NEW D, NEW F, Valid(S), D \subseteq Loose, F \subseteq Plain
  PROVE  Valid((S \ D) \cup F)
<1>1. \A f \in F : Targets(f) = {}
  BY TargetsAre DEF Plain
<1>2. \A f : Targets(f) \cap D = {}
  BY TargetsAre DEF Loose
<1>3. QED
  BY <1>1, <1>2 DEF Valid

\* A call that is alone, in a session of its own changes, commits them, unless it
\* sets references or takes away images.
LEMMA OwnChangesAreValid ==
  ASSUME TypeInv, CallInv, RefusalInv, NEW t \in Threads, At(t, "apply"),
         pend[Home(t)].by = {run[t].n}, run[t].n \notin shared,
         run[t].kind \notin {"app", "apps", "images"}
  PROVE  Valid(View(Home(t)))
<1>0. /\ run[t] # Idle /\ Alone(t) /\ run[t].pc \in 1..Len(run[t].ops)
      /\ run[t].ops[run[t].pc].op = "apply" /\ Valid(store) /\ store \subseteq Facts
  BY RunningPrograms DEF At, Alone, Calls, TypeInv
<1>1. Program(t, run[t].kind, On(t), run[t].ops, run[t].back) /\ Len(run[t].ops) \in Nat
  BY <1>0, RunningPrograms
<1>2. run[t].kind \in Kinds /\ run[t].kind # "read"
  <2>1. run[t].kind \in Kinds
    BY <1>1, Programs
  <2>2. CASE run[t].kind = "read"
    <3>1. run[t].ops = <<Unset("rc")>>
      BY <1>1, <2>2 DEF Program, ReadOps
    <3>2. run[t].pc = 1
      BY <1>0, <3>1
    <3>3. QED
      BY <1>0, <3>1, <3>2, FieldsOfSteps
  <2>3. QED
    BY <2>1, <2>2
<1>3. t \in RestThreads /\ Home(t) = "rest"
  BY <1>1, <1>2, Programs, Homes
<1>4. SessionOf(t)
  BY <1>0, <1>3 DEF RefusalInv
<1>5. CASE run[t].kind = "request"
  <2>1. On(t) \in Streams /\ SevenFields(run[t].ops, On(t))
    BY <1>1, <1>5, SevenStepsFields DEF Program
  <2>2. run[t].pc = 7
    BY <1>0, <2>1, SevenStepsAre DEF SevenFields, StepOfRequest
  <2>3. /\ pend["rest"].del = {} /\ pend["rest"].add \subseteq OfStream(On(t))
        /\ Talker(On(t)) \subseteq pend["rest"].add
    BY <1>3, <1>4, <1>5, <2>2 DEF SessionOf, RequestSession
  <2>4. Valid(store \cup pend["rest"].add)
    BY <1>0, <2>3, RequestsAreValid
  <2>5. View("rest") = store \cup pend["rest"].add
    BY <2>3 DEF View
  <2>6. QED
    BY <1>3, <2>4, <2>5
<1>6. CASE run[t].kind = "delete"
  <2> DEFINE s == On(t)
             w == run[t].ops
             D == pend["rest"].del
  <2>1. /\ s \in Streams /\ Straight(w)
        /\ \E i \in 1..Len(w) : w[i].op = "put" /\ w[i].del = OfStream(s)
    BY <1>1, <1>6, DeleteSteps DEF Program
  <2>2. run[t].pc = Len(w) /\ ~Ended(t)
    BY <1>0, <1>1, <2>1 DEF Straight, Ended
  <2>3. /\ pend["rest"].add = {} /\ D \subseteq OfStream(s) \cup MapsTo(s)
        /\ \A i \in 1..run[t].pc - 1 : w[i].op = "put" => w[i].del \subseteq D
        /\ \A f \in store \cap MapsTo(s) : \E i \in 1..Len(w) : w[i].op = "put" /\ f \in w[i].del
    BY <1>3, <1>4, <1>6, <2>2 DEF SessionOf, DeleteSession
  <2>4. w[Len(w)].op = "apply"
    BY <1>0, <2>2
  <2>5. run[t].pc - 1 = Len(w) - 1
    BY <2>2
  <2> HIDE DEF s, w, D
  <2>6. ASSUME NEW i \in 1..Len(w), w[i].op = "put" PROVE w[i].del \subseteq D
    <3>1. i # Len(w)
      BY <2>4, <2>6
    <3>2. i \in 1..Len(w) - 1
      BY <1>1, <3>1 DEF w
    <3>3. QED
      BY <2>3, <2>5, <2>6, <3>2
  <2>7. OfStream(s) \subseteq D /\ store \cap MapsTo(s) \subseteq D
    BY <2>1, <2>3, <2>6
  <2>8. Valid(store \ D)
    BY <1>0, <2>1, <2>3, <2>7, DeletionsAreValid
  <2>9. View("rest") = store \ D
    BY <2>3 DEF View, D
  <2>10. QED
    BY <1>3, <2>8, <2>9
<1>7. CASE run[t].kind \in {"remove", "topology", "attributes"}
  BY <1>0, <1>3, <1>4, <1>7, LooseChangesAreValid DEF SessionOf, LooseSession, View
<1>8. QED
  BY <1>2, <1>5, <1>6, <1>7 DEF Kinds

(***************************************************************************)
(* The theorems                                                            *)
(***************************************************************************)

\* At first no call runs and no session has changes.
LEMMA CallsInit == Init => CallInv /\ CommitInv /\ ContainerInv
<1> SUFFICES ASSUME Init PROVE CallInv /\ CommitInv /\ ContainerInv
  OBVIOUS
<1>1. /\ \A t \in Threads : run[t] = Idle
      /\ \A p \in Procs : pend[p] = Empty
      /\ \A n \in DOMAIN told : told[n].result = "none"
  BY DEF Init
<1>2. CallInv
  BY <1>1 DEF CallInv, Alone
<1>3. CommitInv
  BY <1>1 DEF CommitInv, OkIsCommitted, Called, Alone
<1>4. pend["container"].del = {} /\ pend["container"].add = {}
  BY <1>1, Homes DEF Empty
<1>5. ContainerInv
  BY <1>4 DEF ContainerInv
<1>6. QED
  BY <1>2, <1>3, <1>5

\* At first every request and all parameters are there.
LEMMA PartsInit == Complete(Installed) /\ Init => StreamInv /\ AppInv
<1> SUFFICES ASSUME Complete(Installed), Init PROVE StreamInv /\ AppInv
  OBVIOUS
<1>1. /\ \A t \in Threads : run[t] = Idle
      /\ store = Installed /\ View("rest") = Installed
  BY Homes DEF Init, View, Empty
<1>2. \A s \in Streams : KeptStream(s)
  BY <1>1 DEF KeptStream, WholeStream, Complete
<1>3. \A a \in Apps : KeptApp(a)
  BY <1>1, Homes DEF KeptApp, WholeApp, Complete, Writes, Alone
<1>4. QED
  BY <1>1, <1>2, <1>3, Homes DEF StreamInv, AppInv, Alone

\* A call that reports success has left nothing uncommitted in its session, but
\* for the calls that overlapped and the kinds of call the property names.
THEOREM SuccessIsCommitted == Spec => []OkIsCommitted
<1>1. Init => TypeInv /\ CallInv /\ CommitInv
  BY TypeInit, CallsInit
<1>2. TypeInv /\ CallInv /\ CommitInv /\ [Next]_vars => (TypeInv /\ CallInv /\ CommitInv)'
  BY TypeKept, CallKept, CommitKept
<1>3. TypeInv /\ CallInv /\ CommitInv => OkIsCommitted
  BY DEF CommitInv
<1>4. QED
  BY <1>1, <1>2, <1>3, PTL DEF Spec

\* A stream has its whole request, unless the request failed half way or it
\* overlapped with another call.
THEOREM RequestsStayWhole ==
  ASSUME Complete(Installed) PROVE Spec => []RequestBesideStream
<1> DEFINE Inv == TypeInv /\ CallInv /\ ContainerInv /\ StreamInv
<1>1. Init => Inv
  BY TypeInit, CallsInit, PartsInit
<1>2. Inv /\ [Next]_vars => Inv'
  BY TypeKept, CallKept, ContainerKept, StreamKept
<1>3. Inv => RequestBesideStream
  BY DEF StreamInv, KeptStream, WholeStream, Halved, RequestBesideStream
<1> HIDE DEF Inv
<1>4. QED
  BY <1>1, <1>2, <1>3, PTL DEF Spec

\* An application is without its parameters only while it is written, or after
\* writing it failed, overlapped with another call or was a discovery.
THEOREM ParametersStay ==
  ASSUME Complete(Installed) PROVE Spec => []ParametersBesideApp
<1> DEFINE Inv == TypeInv /\ CallInv /\ ContainerInv /\ AppInv
<1>1. Init => Inv
  BY TypeInit, CallsInit, PartsInit
<1>2. Inv /\ [Next]_vars => Inv'
  BY TypeKept, CallKept, ContainerKept, AppKept
<1>3. Inv => ParametersBesideApp
  <2> SUFFICES ASSUME Inv, NEW a \in Apps, App(a) \subseteq store, ~(Params(a) \subseteq store)
               PROVE  \E n \in DOMAIN told :
                        \/ told[n].kind = "apps"
                        \/ /\ told[n].kind = "app" /\ told[n].on = a
                           /\ told[n].result = "fail" \/ n \in shared \/ Running(n)
    BY DEF ParametersBesideApp
  <2>1. CASE Discovered \/ Stripped(a)
    BY <2>1 DEF Discovered, Stripped
  <2>2. CASE ~Discovered /\ ~Stripped(a)
    <3>1. PICK t \in RestThreads : Writes(t, a)
      BY <2>2 DEF AppInv, KeptApp, WholeApp
    <3>2. run[t] # Idle /\ t \in Threads
      BY <3>1, Homes DEF Writes, Alone
    <3>3. /\ run[t].n \in 1..MaxCalls /\ told[run[t].n].kind = "app" /\ told[run[t].n].on = a
      BY <3>1, <3>2, RunningPrograms DEF Writes, On
    <3>4. DOMAIN told = 1..MaxCalls
      BY DEF TypeInv
    <3>5. Running(run[t].n)
      BY <3>2 DEF Running
    <3>6. QED
      BY <3>3, <3>4, <3>5
  <2>3. QED
    BY <2>1, <2>2
<1> HIDE DEF Inv
<1>4. QED
  BY <1>1, <1>2, <1>3, PTL DEF Spec


\* A transaction with the changes of one call only, which overlapped with no other,
\* is refused only if the call sets references or takes away images.
THEOREM RefusalsAreForLeftovers == Spec => []RefusedForLeftovers
<1> DEFINE Inv == TypeInv /\ CallInv /\ ContainerInv /\ RefusalInv
<1>1. Init => RefusalInv
  BY Homes DEF Init, RefusalInv, Alone
<1>2. Init => Inv
  BY <1>1, TypeInit, CallsInit
<1>3. Inv /\ [Next]_vars => Inv'
  BY TypeKept, CallKept, ContainerKept, RefusalKept
<1>4. Inv => RefusedForLeftovers
  BY OwnChangesAreValid DEF RefusedForLeftovers
<1> HIDE DEF Inv
<1>5. QED
  BY <1>2, <1>3, <1>4, PTL DEF Spec
=============================================================================
