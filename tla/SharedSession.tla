--------------------------- MODULE SharedSession ---------------------------
(***************************************************************************)
(* How the calls of the client library reach the datastore.  All threads   *)
(* of a process build their changes in one session, and one by one the     *)
(* functions of Sysrepo put their results into one global variable rc or   *)
(* into a variable of the call, ret.  A call is the list of the steps it   *)
(* takes; the steps of the threads of a process, and the transactions of   *)
(* the processes, interleave.                                              *)
(*                                                                         *)
(* The datastore is a set of facts.  What a fact says beyond its name is   *)
(* left out, but for what Sysrepo checks: the references from an           *)
(* application to its image and to the streams it is mapped to, and that a *)
(* stream has the lists of its talker, which must not be empty.            *)
(*                                                                         *)
(* Sysrepo is external.  Each of its functions is atomic; a session reads  *)
(* the datastore with its own changes; a transaction is refused if the     *)
(* result would not be valid, and its changes then stay in the session.    *)
(* Deleting what is not there is no error, and writing below an entry of a *)
(* list creates the entry.                                                 *)
(***************************************************************************)
EXTENDS Naturals, Sequences, FiniteSets

CONSTANTS
  RestThreads,  \* threads of the RESTModule that handle requests
  Container,    \* the thread of the ContainerModule that handles events
  Images, Apps, Streams,   \* ids
  Installed,    \* the facts at first
  MaxCalls      \* bound: calls

Threads == RestThreads \cup {Container}
Procs == {"rest", "container"}
Home(t) == IF t = Container THEN "container" ELSE "rest"

(***************************************************************************)
(* Facts                                                                   *)
(***************************************************************************)
Stream(s) == {<<"stream", s>>}        \* the entry of a stream,
Talker(s) == {<<"talker", s>>}        \* the lists of the talker's interfaces
                                      \* and frames in its request,
Request(s) == {<<"request", s>>}      \* and the rest of the request
OfStream(s) == Stream(s) \cup Talker(s) \cup Request(s)
App(a) == {<<"app", a>>}
Params(a) == {<<"params", a>>}
Refs(a) == {<<"ref", a, i>> : i \in Images}
Maps(a, S) == {<<"maps", a, s>> : s \in S}
Image(I) == {<<"image", i>> : i \in I}
Topology == {<<"topology">>}
Attributes == {<<"attributes">>}      \* of some module

OfApp(a) == App(a) \cup Params(a) \cup Refs(a) \cup Maps(a, Streams)
Facts ==
  (UNION {OfApp(a) : a \in Apps}) \cup Image(Images) \cup Topology \cup Attributes
    \cup (UNION {OfStream(s) : s \in Streams})

ASSUME BoundAssumption == MaxCalls \in Nat
ASSUME ThreadsAssumption == Container \notin RestThreads

\* Sysrepo's validation: every reference has its target, and the lists with
\* min-elements 1 have one.
Targets(f) ==
  CASE f[1] = "ref" -> {<<"image", f[3]>>}
    [] f[1] = "maps" -> {<<"stream", f[3]>>}
    [] f[1] = "stream" -> {<<"talker", f[2]>>}
    [] OTHER -> {}
Valid(S) == \A f \in S : Targets(f) \subseteq S

ASSUME InstalledAssumption == Installed \subseteq Facts /\ Valid(Installed)

VARIABLES
  store,    \* the facts in the datastore
  pend,     \* pend[p]: the changes in the session of p, and the calls they are of
  rc,       \* rc[p]: the global result variable
  run,      \* run[t]: the call the thread is in
  told,     \* told[n]: what call n has returned
  shared    \* history: calls that ran while another thread of the process did

vars == <<store, pend, rc, run, told, shared>>

(***************************************************************************)
(* Steps of a call                                                         *)
(***************************************************************************)

\* sr_delete_item and sr_set_item: the facts D go, then F come.
Put(D, F, to) == [op |-> "put", del |-> D, add |-> F, to |-> to]
\* A value the schema does not allow.
Refused(to) == [op |-> "refused", to |-> to]
PutOrNot(D, F, to, good) == IF good THEN Put(D, F, to) ELSE Refused(to)
Apply(to) == [op |-> "apply", to |-> to]
\* A function whose result nobody has set, and one that may fail or not.
Unset(to) == [op |-> "unset", to |-> to]
\* rc takes the result of a function that has returned ret.
Copy == [op |-> "copy", to |-> "rc"]
\* if (of != SR_ERR_OK) goto cleanup: leaves out the next steps.
Test(of, skip) == [op |-> "test", to |-> of, skip |-> skip]

Idle == [kind |-> "none"]
Called == {n \in DOMAIN told : told[n].result # "none"}
Running(n) == \E t \in Threads : run[t] # Idle /\ run[t].n = n
Begun == Cardinality({n \in DOMAIN told : told[n].kind # "none"})
Mates(t) == {u \in Threads \ {t} : Home(u) = Home(t) /\ run[u] # Idle}
View(p) == (store \ pend[p].del) \cup pend[p].add

\* A thread enters a call that returns the variable back.
Begin(t, kind, on, ops, back) ==
  LET n == Begun + 1 IN
  /\ run[t] = Idle /\ n <= MaxCalls
  /\ run' = [run EXCEPT ![t] = [kind |-> kind, n |-> n, ops |-> ops, pc |-> 1,
                                ret |-> "ok", back |-> back]]
  /\ told' = [told EXCEPT ![n] = [kind |-> kind, on |-> on, result |-> "none",
                                  stale |-> rc[Home(t)]]]
  /\ shared' = shared \cup (IF Mates(t) = {} THEN {}
                            ELSE {n} \cup {run[u].n : u \in Mates(t)})
  /\ UNCHANGED <<store, pend>>

(***************************************************************************)
(* Calls of the RESTModule                                                 *)
(***************************************************************************)

\* Mutant of WriteRequest: what is valid is committed before the rest.
WriteRequestEarly(t, s, refused) ==
  /\ Begin(t, "request", s,
       <<Put({}, Stream(s), "rc"), Test("rc", 7),
         PutOrNot({}, Stream(s) \cup Talker(s), "rc", refused # "talker"), Test("rc", 5),
         Apply("rc"), Test("rc", 3),
         PutOrNot({}, OfStream(s), "rc", refused # "rest"), Test("rc", 1), Apply("rc")>>, "rc")
  /\ UNCHANGED rc

\* refused: the part of the request with a value that is not allowed.
WriteRequest(t, s, refused) ==
  /\ Begin(t, "request", s,
       <<Put({}, Stream(s), "rc"), Test("rc", 5),
         PutOrNot({}, Stream(s) \cup Talker(s), "rc", refused # "talker"), Test("rc", 3),
         PutOrNot({}, OfStream(s), "rc", refused # "rest"), Test("rc", 1), Apply("rc")>>, "rc")
  /\ UNCHANGED rc

\* Mutant of DeleteStream: the mappings of the stream are left.
DeleteStreamMapped(t, s) ==
  /\ Begin(t, "delete", s,
       <<Put(OfStream(s), {}, "rc"), Test("rc", 1), Apply("rc")>>, "rc")
  /\ rc' = [rc EXCEPT ![Home(t)] = "ok"]

\* The applications are read first; the mappings that were found are removed.
DeleteStream(t, s) ==
  LET found == {f \in View(Home(t)) : f[1] = "maps" /\ f[3] = s} IN
  /\ Begin(t, "delete", s,
       (IF found = {} THEN <<>> ELSE <<Put(found, {}, "rc"), Test("rc", 3)>>)
       \o <<Put(OfStream(s), {}, "rc"), Test("rc", 1), Apply("rc")>>, "rc")
  /\ rc' = [rc EXCEPT ![Home(t)] = "ok"]

\* Mutant of WriteApp: the parameters are not written again.
WriteAppBare(a, image, S, good) ==
  <<Put({}, App(a), "ret"), Test("ret", 8),
    PutOrNot(IF image = {} THEN {} ELSE Refs(a),
             App(a) \cup {f \in Refs(a) : f[3] \in image}, "ret", good), Test("ret", 6),
    Put(Params(a), {}, "rc"), Test("rc", 4), Apply("rc"),
    Put({}, App(a), "ret"), Test("ret", 1),
    IF S = {} THEN Unset("rc") ELSE Put({}, App(a) \cup Maps(a, S), "rc")>>

\* _write_app: the removal of the parameters is committed before they are
\* written; the results for it and for the mapping are in rc while ret is what
\* is returned; without a mapping the result was never set.
WriteApp(a, image, S, good) ==
  <<Put({}, App(a), "ret"), Test("ret", 8),
    PutOrNot(IF image = {} THEN {} ELSE Refs(a),
             App(a) \cup {f \in Refs(a) : f[3] \in image}, "ret", good), Test("ret", 6),
    Put(Params(a), {}, "rc"), Test("rc", 4), Apply("rc"),
    Put({}, App(a) \cup Params(a), "ret"), Test("ret", 1),
    IF S = {} THEN Unset("rc") ELSE Put({}, App(a) \cup Maps(a, S), "rc")>>

SetApp(t, a, image, S, good) ==
  /\ Begin(t, "app", a, WriteApp(a, image, S, good)
       \o <<Test("ret", 1), Apply("ret")>>, "ret")
  /\ UNCHANGED rc
UpdateApp(t, a, image, S, good) ==
  /\ Begin(t, "app", a, WriteApp(a, image, S, good)
       \o <<Copy, Test("rc", 1), Apply("rc")>>, "rc")
  /\ UNCHANGED rc
RemoveApp(t, a) ==
  /\ Begin(t, "remove", a,
       <<Put(OfApp(a), {}, "ret"), Test("ret", 1), Apply("ret")>>, "ret")
  /\ UNCHANGED rc

\* Mutant of SetTopology: the changes are not committed.
SetTopologyOnly(t, T, good) ==
  /\ Begin(t, "topology", "graph",
       <<Put(Topology, {}, "rc"), Test("rc", 1), PutOrNot({}, T, "rc", good)>>, "rc")
  /\ UNCHANGED rc

\* The topology or its graph, removed and written in one; or cleared.
SetTopology(t, T, good) ==
  /\ Begin(t, "topology", "graph",
       <<Put(Topology, {}, "rc"), Test("rc", 3),
         PutOrNot({}, T, "rc", good), Test("rc", 1), Apply("rc")>>, "rc")
  /\ UNCHANGED rc
\* The data of an end device, over what is there.
UpdateDevice(t, good) ==
  /\ Begin(t, "topology", "device",
       <<PutOrNot({}, Topology, "rc", good), Test("rc", 1), Apply("rc")>>, "rc")
  /\ UNCHANGED rc

\* The mask is always set, and what is set is only committed if there are other
\* attributes: the mask is unsigned, so the condition mask >= -1 holds of no mask
\* but the one of all ones, which is left out.
UpdateAttributes(t, others) ==
  /\ Begin(t, "attributes", IF others THEN "all" ELSE "mask",
       IF others
       THEN <<Put({}, Attributes, "rc"), Test("rc", 3),
              Put({}, Attributes, "rc"), Test("rc", 1), Apply("rc")>>
       ELSE <<Put({}, Attributes, "rc")>>, "rc")
  /\ UNCHANGED rc

(***************************************************************************)
(* Calls of the ContainerModule                                            *)
(***************************************************************************)

\* The images and the applications that were discovered take the place of all
\* others; the results are in ret, but rc is looked at.
SetImages(I) ==
  /\ Begin(Container, "images", "all",
       <<Put(Image(Images), {}, "ret"), Test("ret", 3),
         Put({}, Image(I), "ret"), Test("rc", 1), Apply("ret")>>, "ret")
  /\ UNCHANGED rc
\* Of a discovered application the leaves that nobody has set may be refused.
SetApps(a, i, good) ==
  /\ Begin(Container, "apps", "all",
       <<Put(UNION {OfApp(x) : x \in Apps}, {}, "ret"), Test("ret", 12)>>
       \o WriteApp(a, {i}, {}, good) \o <<Test("rc", 1), Apply("ret")>>, "ret")
  /\ UNCHANGED rc
\* An end device without one of its leaves makes the reading fail.
ReadDevices ==
  /\ Begin(Container, "read", "all", <<Unset("rc")>>, "rc")
  /\ UNCHANGED rc

(***************************************************************************)
(* Steps                                                                   *)
(***************************************************************************)
At(t, op) ==
  /\ run[t] # Idle /\ run[t].pc <= Len(run[t].ops)
  /\ run[t].ops[run[t].pc].op = op
Now(t) == run[t].ops[run[t].pc]

\* The next step, after the variable of this one has been given its result.
Result(t, res) ==
  IF Now(t).to = "rc"
  THEN /\ rc' = [rc EXCEPT ![Home(t)] = res]
       /\ run' = [run EXCEPT ![t].pc = @ + 1]
  ELSE /\ run' = [run EXCEPT ![t].pc = @ + 1, ![t].ret = res]
       /\ UNCHANGED rc

PutStep(t) ==
  LET p == Home(t) IN
  /\ At(t, "put")
  /\ pend' = [pend EXCEPT ![p] =
                [del |-> @.del \cup Now(t).del,
                 add |-> (@.add \ Now(t).del) \cup Now(t).add,
                 by |-> @.by \cup {run[t].n}]]
  /\ Result(t, "ok")
  /\ UNCHANGED <<store, told, shared>>

RefusedStep(t) ==
  /\ At(t, "refused")
  /\ Result(t, "err")
  /\ UNCHANGED <<store, pend, told, shared>>

\* Mutant of UnsetStep: any value may be in the variable.
UnsetStepWild(t) ==
  /\ At(t, "unset")
  /\ \E res \in {"ok", "err", "wild"} : Result(t, res)
  /\ UNCHANGED <<store, pend, told, shared>>

\* Only whether the value is SR_ERR_OK is looked at, so two values stand for all.
UnsetStep(t) ==
  /\ At(t, "unset")
  /\ \E res \in {"ok", "err"} : Result(t, res)
  /\ UNCHANGED <<store, pend, told, shared>>

CopyStep(t) ==
  /\ At(t, "copy")
  /\ Result(t, run[t].ret)
  /\ UNCHANGED <<store, pend, told, shared>>

TestStep(t) ==
  LET value == IF Now(t).to = "rc" THEN rc[Home(t)] ELSE run[t].ret IN
  /\ At(t, "test")
  /\ run' = [run EXCEPT ![t].pc = @ + (IF value = "ok" THEN 1 ELSE Now(t).skip + 1)]
  /\ UNCHANGED <<store, pend, rc, told, shared>>

Empty == [del |-> {}, add |-> {}, by |-> {}]
ApplyStep(t) ==
  LET p == Home(t) IN
  /\ At(t, "apply")
  /\ \/ /\ Valid(View(p))
        /\ store' = View(p)
        /\ pend' = [pend EXCEPT ![p] = Empty]
        /\ Result(t, "ok")
     \/ /\ ~Valid(View(p))
        /\ Result(t, "err")
        /\ UNCHANGED <<store, pend>>
  /\ UNCHANGED <<told, shared>>

Return(t) ==
  LET value == IF run[t].back = "rc" THEN rc[Home(t)] ELSE run[t].ret IN
  /\ run[t] # Idle /\ run[t].pc > Len(run[t].ops)
  /\ told' = [told EXCEPT ![run[t].n].result = IF value = "ok" THEN "ok" ELSE "fail"]
  /\ run' = [run EXCEPT ![t] = Idle]
  /\ UNCHANGED <<store, pend, rc, shared>>

(***************************************************************************)
(* Specification                                                           *)
(***************************************************************************)
Init ==
  /\ store = Installed
  /\ pend = [p \in Procs |-> Empty]
  /\ rc = [p \in Procs |-> "ok"]
  /\ run = [t \in Threads |-> Idle]
  /\ told = [n \in 1..MaxCalls |-> [kind |-> "none", result |-> "none"]]
  /\ shared = {}

RestCall(t) ==
  \/ \E s \in Streams :
       \/ \E refused \in {"talker", "rest", "nothing"} : WriteRequest(t, s, refused)
       \/ DeleteStream(t, s)
  \/ \E a \in Apps :
       \/ \E image \in {{}} \cup {{i} : i \in Images}, S \in SUBSET Streams, good \in BOOLEAN :
            SetApp(t, a, image, S, good) \/ UpdateApp(t, a, image, S, good)
       \/ RemoveApp(t, a)
  \/ \E good \in BOOLEAN :
       (\E T \in {{}, Topology} : SetTopology(t, T, good)) \/ UpdateDevice(t, good)
  \/ \E others \in BOOLEAN : UpdateAttributes(t, others)

ContainerCall ==
  \/ \E I \in (SUBSET Images) \ {{}} : SetImages(I)
  \/ \E a \in Apps, i \in Images, good \in BOOLEAN : SetApps(a, i, good)
  \/ ReadDevices

Step(t) ==
  \/ PutStep(t) \/ RefusedStep(t) \/ UnsetStep(t) \/ CopyStep(t)
  \/ TestStep(t) \/ ApplyStep(t) \/ Return(t)

Next ==
  \/ \E t \in RestThreads : RestCall(t)
  \/ ContainerCall
  \/ \E t \in Threads : Step(t)

Spec == Init /\ [][Next]_vars

(***************************************************************************)
(* Properties                                                              *)
(***************************************************************************)

\* Every variable stays in its range, and a session knows whose changes it
\* holds.
TypeOK ==
  /\ store \subseteq Facts /\ Valid(store)
  /\ \A p \in Procs :
       /\ pend[p].del \subseteq Facts /\ pend[p].add \subseteq Facts
       /\ pend[p].by \subseteq 1..Begun
       /\ rc[p] \in {"ok", "err"}
  /\ \A t \in Threads : run[t] # Idle => run[t].ret \in {"ok", "err"} /\ run[t].n \in 1..Begun
  /\ shared \subseteq 1..Begun

\* A call that reports success has left nothing uncommitted in its session,
\* unless it overlapped with another one, changed the mask of a module alone,
\* discovered images with an error of an earlier call in rc, or discovered an
\* application, whose mapping leaves rc unset.
OkIsCommitted ==
  \A n \in Called \ shared :
    told[n].result = "ok" /\ (\E p \in Procs : n \in pend[p].by)
      => \/ told[n].kind = "apps" \/ told[n].on = "mask"
         \/ told[n].kind = "images" /\ told[n].stale = "err"

\* The facts hold every request and all parameters of what they have.  The next
\* two properties ask it of Installed: they say what is lost from then on.
Complete(S) ==
  /\ \A s \in Streams : Stream(s) \subseteq S => Request(s) \subseteq S
  /\ \A a \in Apps : App(a) \subseteq S => Params(a) \subseteq S

\* A stream has its whole request, unless the request failed half way and what
\* it left was committed later, or it overlapped with a call that did.
RequestBesideStream ==
  \A s \in Streams :
    Stream(s) \subseteq store /\ ~(Request(s) \subseteq store)
      => \E n \in DOMAIN told :
           /\ told[n].kind = "request" /\ told[n].on = s
           /\ told[n].result = "fail" \/ n \in shared

\* An application is without its parameters only while it is written, or after
\* writing it failed, overlapped with another call or was a discovery.
ParametersBesideApp ==
  \A a \in Apps :
    App(a) \subseteq store /\ ~(Params(a) \subseteq store)
      => \E n \in DOMAIN told :
           \/ told[n].kind = "apps"
           \/ /\ told[n].kind = "app" /\ told[n].on = a
              /\ told[n].result = "fail" \/ n \in shared \/ Running(n)

\* A transaction that holds the changes of one call only, which overlapped with
\* no other, is refused only if the call sets references, or takes away the images
\* that are referred to.  All else that is refused is refused for what other
\* calls have left in the session, or did in between.
RefusedForLeftovers ==
  \A t \in Threads :
    At(t, "apply") /\ ~Valid(View(Home(t)))
      /\ pend[Home(t)].by = {run[t].n} /\ run[t].n \notin shared
      => run[t].kind \in {"app", "apps", "images"}
============================================================================
