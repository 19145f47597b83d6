------------------------- MODULE SystemData_proofs -------------------------
(***************************************************************************)
(* Proofs about SystemData: what a client or another process reads of the  *)
(* modules, the topology, the images and the applications is what was      *)
(* written last.  The invariant says of every part of the datastore what   *)
(* its leaves are; an operation touches one or two parts, and the others   *)
(* stay because their paths part from what is written.                     *)
(***************************************************************************)
EXTENDS SystemData, Datastore_proofs

(***************************************************************************)
(* The parts of the datastore                                              *)
(***************************************************************************)
Roots == {StreamsPath, ModulesPath, GraphPath, EnddevicesPath, SwitchesPath, AppsPath, ImagesPath}

\* Of the parts in W something may have changed from s to t, of the others
\* nothing.
OnlyIn(W, s, t) == Leafed(t) /\ \A R \in Roots \ W : Alike(t, s, R)

\* The parts are found at paths of which no two lead on from each other.
LEMMA RootsPart ==
  \A R \in Roots : Path(R) /\ \A Q \in Roots : R # Q => Split(R, Q)
<1> DEFINE Names == {"streams", "modules", "topology", "graph", "devices", "enddevices",
                     "switches", "application", "apps", "images"}
<1>1. /\ StreamsPath \in Seq(Names) /\ ModulesPath \in Seq(Names) /\ GraphPath \in Seq(Names)
      /\ EnddevicesPath \in Seq(Names) /\ SwitchesPath \in Seq(Names)
      /\ AppsPath \in Seq(Names) /\ ImagesPath \in Seq(Names)
  BY DEF StreamsPath, ModulesPath, GraphPath, EnddevicesPath, SwitchesPath, AppsPath, ImagesPath,
         TopologyPath, ++
<1>2. \A R \in Roots : Path(R)
  BY <1>1 DEF Roots, Path
<1>3. /\ Len(StreamsPath) = 1 /\ StreamsPath[1] = "streams"
      /\ Len(ModulesPath) = 1 /\ ModulesPath[1] = "modules"
  BY DEF StreamsPath, ModulesPath
<1>4. /\ Len(GraphPath) = 2 /\ GraphPath[1] = "topology" /\ GraphPath[2] = "graph"
  BY DEF GraphPath, TopologyPath, ++
<1>5. /\ Len(EnddevicesPath) = 3 /\ EnddevicesPath[1] = "topology"
      /\ EnddevicesPath[2] = "devices" /\ EnddevicesPath[3] = "enddevices"
  BY DEF EnddevicesPath, TopologyPath, ++
<1>6. /\ Len(SwitchesPath) = 3 /\ SwitchesPath[1] = "topology"
      /\ SwitchesPath[2] = "devices" /\ SwitchesPath[3] = "switches"
  BY DEF SwitchesPath, TopologyPath, ++
<1>7. /\ Len(AppsPath) = 2 /\ AppsPath[1] = "application" /\ AppsPath[2] = "apps"
      /\ Len(ImagesPath) = 2 /\ ImagesPath[1] = "application" /\ ImagesPath[2] = "images"
  BY DEF AppsPath, ImagesPath
<1>8. ASSUME NEW R \in Roots, NEW Q \in Roots,
             NEW i \in 1..3, i <= Len(R), i <= Len(Q), R[i] # Q[i], R[i] \notin CaseNames,
             \A j \in 1..3 : j < i => R[j] = Q[j], Len(R) \in 1..3
      PROVE  Split(R, Q)
  BY <1>8 DEF Split
<1>9. /\ "streams" \notin CaseNames /\ "modules" \notin CaseNames /\ "topology" \notin CaseNames
      /\ "graph" \notin CaseNames /\ "devices" \notin CaseNames /\ "enddevices" \notin CaseNames
      /\ "switches" \notin CaseNames /\ "application" \notin CaseNames
      /\ "apps" \notin CaseNames /\ "images" \notin CaseNames
  BY DEF CaseNames
<1>10. ASSUME NEW R \in Roots PROVE Len(R) \in 1..3 /\ R[1] \notin CaseNames
                                   /\ (Len(R) > 1 => R[2] \notin CaseNames)
                                   /\ (Len(R) > 2 => R[3] \notin CaseNames)
  BY <1>3, <1>4, <1>5, <1>6, <1>7, <1>9 DEF Roots
<1>11. ASSUME NEW R \in Roots, NEW Q \in Roots, R[1] # Q[1] PROVE Split(R, Q)
  BY <1>8, <1>10, <1>11
<1>12. ASSUME NEW R \in Roots, NEW Q \in Roots, Len(R) > 1, Len(Q) > 1,
              R[1] = Q[1], R[2] # Q[2]
       PROVE  Split(R, Q)
  BY <1>8, <1>10, <1>12
<1>13. ASSUME NEW R \in Roots, NEW Q \in Roots, Len(R) > 2, Len(Q) > 2,
              R[1] = Q[1], R[2] = Q[2], R[3] # Q[3]
       PROVE  Split(R, Q)
  BY <1>8, <1>10, <1>13
<1>14. ASSUME NEW R \in Roots, NEW Q \in Roots, R # Q, R[1] = Q[1]
       PROVE  /\ Len(R) > 1 /\ Len(Q) > 1
              /\ R[2] # Q[2] \/ (Len(R) > 2 /\ Len(Q) > 2 /\ R[3] # Q[3])
  BY <1>3, <1>4, <1>5, <1>6, <1>7, <1>14 DEF Roots
<1>15. ASSUME NEW R \in Roots, NEW Q \in Roots, R # Q PROVE Split(R, Q)
  BY <1>11, <1>12, <1>13, <1>14, <1>15
<1> QED  BY <1>2, <1>15

\* Setting leaves of some parts only.
LEMMA MergeIn ==
  ASSUME NEW s, Leafed(s), NEW W \in SUBSET Roots, NEW doc,
         \A q \in DOMAIN doc : Path(q) /\ \E R \in W : Below(R, q)
  PROVE  OnlyIn(W, s, Merge(s, doc))
<1>1. Leafed(doc)
  BY DEF Leafed
<1>2. ASSUME NEW Q \in Roots \ W PROVE Path(Q) /\ \A q \in DOMAIN doc : Split(Q, q)
  BY RootsPart, SplitFurther
<1> QED  BY <1>1, <1>2, MergeApart, MergeHas DEF OnlyIn

\* Deleting in some parts only.
LEMMA DeleteIn ==
  ASSUME NEW s, Leafed(s), NEW W \in SUBSET Roots, NEW paths,
         \A q \in paths : Path(q) /\ \E R \in W : Below(R, q)
  PROVE  OnlyIn(W, s, Delete(s, paths))
<1>1. ASSUME NEW Q \in Roots \ W PROVE Path(Q) /\ \A q \in paths : Split(Q, q)
  BY RootsPart, SplitFurther
<1> QED  BY <1>1, DeleteApart, DeleteLeaves DEF OnlyIn

\* One after the other.
LEMMA InTurn ==
  ASSUME NEW W, NEW s, NEW t, NEW u, OnlyIn(W, s, t), OnlyIn(W, t, u)
  PROVE  OnlyIn(W, s, u)
BY AlikeTurns DEF OnlyIn

\* The same for a document or a path below a single part.
LEMMA InOne ==
  ASSUME NEW s, Leafed(s), NEW R \in Roots
  PROVE  /\ \A doc : Under(doc, R) => OnlyIn({R}, s, Merge(s, doc))
         /\ \A q : Path(q) /\ Below(R, q) => OnlyIn({R}, s, Delete(s, {q}))
<1>1. ASSUME NEW doc, Under(doc, R) PROVE OnlyIn({R}, s, Merge(s, doc))
  BY <1>1, MergeIn DEF Under
<1>2. ASSUME NEW q, Path(q), Below(R, q) PROVE OnlyIn({R}, s, Delete(s, {q}))
  BY <1>2, DeleteIn
<1> QED  BY <1>1, <1>2

(***************************************************************************)
(* What the parts hold                                                     *)
(***************************************************************************)
\* A list of values, each with its type.
ValuesHeld(s, p, fields, x) ==
  /\ Keys(s, p) = DOMAIN x
  /\ \A k \in DOMAIN x : /\ Holds(s, p ++ k, fields, x[k])
                         /\ Get(s, p ++ k ++ "value") = TextOf(x[k].type, x[k].value)

ModuleIs(s, data) ==
  /\ Keys(s, ModulesPath) = {Module}
  /\ Holds(s, ModulePath(Module), ModuleLeaves, Registered)
  /\ ValuesHeld(s, ModulePath(Module) ++ "data", DataLeaves, data)

DevicesAre(s, x) ==
  /\ Keys(s, EnddevicesPath) = DOMAIN x
  /\ \A m \in DOMAIN x :
        /\ Holds(s, EnddevicePath(m), EnddeviceLeaves, x[m])
        /\ x[m].has_app = 1 => Keys(s, EnddevicePath(m) ++ "apps") = x[m].apps

GraphIs(s, x) ==
  /\ Keys(s, GraphPath) = DOMAIN x
  /\ \A c \in DOMAIN x : /\ Holds(s, GraphPath ++ c, Connection, x[c])
                         /\ Get(s, GraphPath ++ c ++ "id") = x[c].id

SwitchesRead(s) ==
  \A w \in Keys(s, SwitchesPath) : \A f \in Switch :
     Get(s, SwitchesPath ++ w ++ f) \notin {Fail, Crash}

ImageOf(i) == [id |-> i, name |-> i, version |-> "latest", description |-> "N/A"]
ImagesAre(s, registry) ==
  /\ Keys(s, ImagesPath) = registry
  /\ \A i \in registry : Holds(s, ImagesPath ++ i, Image, ImageOf(i))

\* What the datastore has of an application: its leaves, and the address and
\* the image if it says that it has them.
HeaderIs(s, x) ==
  /\ Holds(s, AppPath(x.id), AppLeaves, x)
  /\ x.has_mac = 1 => Get(s, AppPath(x.id) ++ "mac") = x.mac
  /\ x.has_image = 1 => Get(s, AppPath(x.id) ++ "image_ref") = x.image_ref

Roles == {"egress", "ingress"}
MappingIs(s, id, mapping) ==
  /\ mapping = [role \in Roles |-> mapping[role]]
  /\ \A role \in Roles : Keys(s, AppPath(id) ++ "stream_mapping" ++ role) = mapping[role]

\* Values written where there were none.
LEMMA ValuesWritten ==
  ASSUME NEW p, Path(p), NEW fields, "value" \notin fields, NEW x
  PROVE  LET d == Union({Union({PutLeaves(p ++ k, fields, x[k]),
                                PutLeaf(p ++ k ++ "value", TextOf(x[k].type, x[k].value))}) :
                         k \in DOMAIN x})
         IN Under(d, p) /\ Leafed(d) /\ ValuesHeld(d, p, fields, x)
<1> DEFINE D == [k \in DOMAIN x |-> Union({PutLeaves(p ++ k, fields, x[k]),
                                PutLeaf(p ++ k ++ "value", TextOf(x[k].type, x[k].value))})]
           docs == {D[k] : k \in DOMAIN x}
           d == Union(docs)
<1>1. \A k \in DOMAIN x : D[k] = Union({PutLeaves(p ++ k, fields, x[k]),
                                PutLeaf(p ++ k ++ "value", TextOf(x[k].type, x[k].value))})
  OBVIOUS
<1>2. d = Union({Union({PutLeaves(p ++ k, fields, x[k]),
                        PutLeaf(p ++ k ++ "value", TextOf(x[k].type, x[k].value))}) :
                 k \in DOMAIN x})
  OBVIOUS
<1>7. \A e : e \in docs <=> \E k \in DOMAIN x : e = D[k]
  OBVIOUS
<1> HIDE DEF D, docs
<1>3. ASSUME NEW k \in DOMAIN x
      PROVE  /\ Path(p ++ k) /\ Under(D[k], p ++ k) /\ DOMAIN D[k] # {}
             /\ Holds(D[k], p ++ k, fields, x[k])
             /\ Get(D[k], p ++ k ++ "value") = TextOf(x[k].type, x[k].value)
  <2> DEFINE e == p ++ k
             y == x[k]
             v == TextOf(x[k].type, x[k].value)
  <2>1. D[k] = Union({PutLeaves(e, fields, y), PutLeaf(e ++ "value", v)})
    BY <1>1
  <2>2. Path(e)
    BY Longer
  <2> HIDE DEF e, v, y
  <2>3. /\ Under(D[k], e) /\ DOMAIN D[k] # {} /\ Holds(D[k], e, fields, y)
        /\ Get(D[k], e ++ "value") = v
    BY <2>1, <2>2, LeavesAndLeaf
  <2> QED  BY <2>2, <2>3 DEF e, v, y
<1>4. /\ Under(d, p) /\ Leafed(d) /\ \A k \in DOMAIN x : Alike(d, D[k], p ++ k)
      /\ \A k : k \in Keys(d, p) <=> k \in DOMAIN x /\ DOMAIN D[k] # {}
  <2> DEFINE K == DOMAIN x
  <2>1. AreEntries(docs, p, K, D)
    BY <1>3, <1>7 DEF AreEntries
  <2> HIDE DEF K
  <2>2. LET u == Union(docs)
        IN /\ Under(u, p) /\ Leafed(u) /\ \A k \in K : Alike(u, D[k], p ++ k)
           /\ \A k : k \in Keys(u, p) <=> k \in K /\ DOMAIN D[k] # {}
    BY <2>1, EntriesAre
  <2> QED  BY <2>2 DEF K
<1> HIDE DEF d
<1>5. ASSUME NEW k \in DOMAIN x
      PROVE  /\ Holds(d, p ++ k, fields, x[k])
             /\ Get(d, p ++ k ++ "value") = TextOf(x[k].type, x[k].value)
  BY <1>3, <1>4, HoldsStill, AlikeFurther, AlikeRead
<1>6. Keys(d, p) = DOMAIN x
  BY <1>3, <1>4
<1> QED  BY <1>2, <1>4, <1>5, <1>6 DEF ValuesHeld

\* Values stay where the entries stay.
LEMMA ValuesStay ==
  ASSUME NEW s, NEW t, NEW p, Path(p), \A k : Alike(s, t, p ++ k),
         NEW fields, NEW x, ValuesHeld(t, p, fields, x)
  PROVE  ValuesHeld(s, p, fields, x)
<1>1. Keys(s, p) = DOMAIN x
  BY KeysOfEntries DEF ValuesHeld
<1>2. ASSUME NEW k \in DOMAIN x
      PROVE  /\ Holds(s, p ++ k, fields, x[k])
             /\ Get(s, p ++ k ++ "value") = TextOf(x[k].type, x[k].value)
  BY HoldsStill, AlikeFurther, AlikeRead DEF ValuesHeld
<1> QED  BY <1>1, <1>2 DEF ValuesHeld

(***************************************************************************)
(* What is written of the topology and the images                          *)
(***************************************************************************)
\* An end device: its leaves, and a list of applications if it has some.
LEMMA DeviceWritten ==
  ASSUME NEW p, Path(p), NEW x
  PROVE  LET d == WriteEnddevice(p, x)
         IN /\ Under(d, p) /\ Leafed(d) /\ DOMAIN d # {} /\ Holds(d, p, EnddeviceLeaves, x)
            /\ x.has_app = 1 => Keys(d, p ++ "apps") = x.apps
<1> DEFINE a == PutLeaves(p, EnddeviceLeaves, x)
           b == IF x.has_app = 1 THEN PutValues(p ++ "apps", x.apps) ELSE << >>
           d == Union({a, b})
<1>1. d = WriteEnddevice(p, x)
  BY DEF WriteEnddevice
<1>2. /\ Under(a, p) /\ Leafed(a) /\ \A f \in EnddeviceLeaves : p ++ f \in DOMAIN a /\ a[p ++ f] = x[f]
      /\ \A f : f \notin EnddeviceLeaves => Blank(a, p ++ f)
  BY LeavesAre
<1>3. "apps" \notin EnddeviceLeaves /\ "mac" \in EnddeviceLeaves /\ \A f : Path(p ++ f)
  BY Longer DEF EnddeviceLeaves
<1>4. Under(b, p ++ "apps") /\ (x.has_app = 1 => Keys(b, p ++ "apps") = x.apps)
  BY <1>3, ValuesAre DEF Under
<1>5. Under(b, p) /\ Leafed(b) /\ \A f \in EnddeviceLeaves : Blank(b, p ++ f)
  <2>1. \A f \in EnddeviceLeaves : Split(p ++ f, p ++ "apps")
    BY <1>3, SiblingsSplit DEF CaseNames
  <2> QED  BY <1>3, <1>4, <2>1, UnderFurther, UnderBlank
<1> HIDE DEF a, b
<1>6. Under(d, p)
  BY <1>2, <1>5, UnderUnion
<1>7. ASSUME NEW f \in EnddeviceLeaves PROVE Alike(d, a, p ++ f)
  BY <1>2, <1>3, <1>5, UnionAlike
<1>8. Alike(d, b, p ++ "apps")
  BY <1>2, <1>3, <1>5, UnionAlike
<1>9. Holds(d, p, EnddeviceLeaves, x)
  BY <1>2, <1>7, AlikeRead DEF Holds, Get
<1>10. DOMAIN d # {}
  BY <1>2, <1>3, UnionHas
<1>11. x.has_app = 1 => Keys(d, p ++ "apps") = x.apps
  BY <1>4, <1>8, AlikeRead
<1> HIDE DEF d
<1> QED  BY <1>1, <1>6, <1>9, <1>10, <1>11, UnderBlank

\* All end devices.
LEMMA DevicesWritten ==
  ASSUME NEW x
  PROVE  LET d == PutEntries(EnddevicesPath, WriteEnddevice, x)
         IN Under(d, EnddevicesPath) /\ Leafed(d) /\ DevicesAre(d, x)
<1> DEFINE K == DOMAIN x
           D == [k \in K |-> WriteEnddevice(EnddevicesPath ++ k, x[k])]
           docs == {D[k] : k \in K}
           u == Union(docs)
<1>1. u = PutEntries(EnddevicesPath, WriteEnddevice, x)
  BY DEF PutEntries
<1>2. Path(EnddevicesPath)
  BY RootsPart DEF Roots
<1>3. \A k \in K : D[k] = WriteEnddevice(EnddevicesPath ++ k, x[k])
  OBVIOUS
<1>4. \A e : e \in docs <=> \E k \in K : e = D[k]
  OBVIOUS
<1> HIDE DEF K, D, docs
<1>5. ASSUME NEW k \in K
      PROVE  /\ Path(EnddevicesPath ++ k) /\ Under(D[k], EnddevicesPath ++ k) /\ DOMAIN D[k] # {}
             /\ Holds(D[k], EnddevicesPath ++ k, EnddeviceLeaves, x[k])
             /\ x[k].has_app = 1 => Keys(D[k], EnddevicesPath ++ k ++ "apps") = x[k].apps
  <2> DEFINE e == EnddevicesPath ++ k
             y == x[k]
  <2>1. Path(e) /\ D[k] = WriteEnddevice(e, y)
    BY <1>2, <1>3, Longer
  <2> HIDE DEF e, y
  <2>2. /\ Under(D[k], e) /\ DOMAIN D[k] # {} /\ Holds(D[k], e, EnddeviceLeaves, y)
        /\ y.has_app = 1 => Keys(D[k], e ++ "apps") = y.apps
    BY <2>1, DeviceWritten
  <2> QED  BY <2>1, <2>2 DEF e, y
<1>6. AreEntries(docs, EnddevicesPath, K, D)
  BY <1>4, <1>5 DEF AreEntries
<1>7. /\ Under(u, EnddevicesPath) /\ Leafed(u) /\ \A k \in K : Alike(u, D[k], EnddevicesPath ++ k)
      /\ \A k : k \in Keys(u, EnddevicesPath) <=> k \in K /\ DOMAIN D[k] # {}
  BY <1>2, <1>6, EntriesAre
<1> HIDE DEF u
<1>8. ASSUME NEW k \in K
      PROVE  /\ Holds(u, EnddevicesPath ++ k, EnddeviceLeaves, x[k])
             /\ x[k].has_app = 1 => Keys(u, EnddevicesPath ++ k ++ "apps") = x[k].apps
  BY <1>5, <1>7, HoldsStill, AlikeFurther, AlikeRead
<1>9. Keys(u, EnddevicesPath) = K
  BY <1>5, <1>7
<1> QED  BY <1>1, <1>7, <1>8, <1>9 DEF DevicesAre, EnddevicePath, K

\* The connections.
LEMMA GraphWritten ==
  ASSUME NEW x
  PROVE  Under(WriteGraph(x), GraphPath) /\ Leafed(WriteGraph(x)) /\ GraphIs(WriteGraph(x), x)
<1> DEFINE K == DOMAIN x
           D == [k \in K |-> WriteConnection(GraphPath ++ k, x[k])]
           docs == {D[k] : k \in K}
           u == Union(docs)
<1>1. u = WriteGraph(x)
  BY DEF PutEntries, WriteGraph
<1>2. Path(GraphPath)
  BY RootsPart DEF Roots
<1>3. \A k \in K : D[k] = WriteConnection(GraphPath ++ k, x[k])
  OBVIOUS
<1>4. \A e : e \in docs <=> \E k \in K : e = D[k]
  OBVIOUS
<1> HIDE DEF K, D, docs
<1>5. ASSUME NEW k \in K
      PROVE  /\ Path(GraphPath ++ k) /\ Under(D[k], GraphPath ++ k) /\ DOMAIN D[k] # {}
             /\ Holds(D[k], GraphPath ++ k, Connection, x[k])
             /\ Get(D[k], GraphPath ++ k ++ "id") = x[k].id
  <2> DEFINE e == GraphPath ++ k
             y == x[k]
  <2>1. D[k] = Union({PutLeaves(e, Connection, y), PutLeaf(e ++ "id", y.id)})
    BY <1>3 DEF WriteConnection
  <2>2. Path(e) /\ "id" \notin Connection
    BY <1>2, Longer DEF Connection
  <2> HIDE DEF e, y
  <2>3. /\ Under(D[k], e) /\ DOMAIN D[k] # {} /\ Holds(D[k], e, Connection, y)
        /\ Get(D[k], e ++ "id") = y.id
    BY <2>1, <2>2, LeavesAndLeaf
  <2> QED  BY <2>2, <2>3 DEF e, y
<1>6. AreEntries(docs, GraphPath, K, D)
  BY <1>4, <1>5 DEF AreEntries
<1>7. /\ Under(u, GraphPath) /\ Leafed(u) /\ \A k \in K : Alike(u, D[k], GraphPath ++ k)
      /\ \A k : k \in Keys(u, GraphPath) <=> k \in K /\ DOMAIN D[k] # {}
  BY <1>2, <1>6, EntriesAre
<1> HIDE DEF u
<1>8. ASSUME NEW k \in K
      PROVE  /\ Holds(u, GraphPath ++ k, Connection, x[k])
             /\ Get(u, GraphPath ++ k ++ "id") = x[k].id
  BY <1>5, <1>7, HoldsStill, AlikeFurther, AlikeRead
<1>9. Keys(u, GraphPath) = K
  BY <1>5, <1>7
<1> QED  BY <1>1, <1>7, <1>8, <1>9 DEF GraphIs, K

\* Lists whose entries have nothing but leaves: the switches and the images.
LEMMA LeavesWritten ==
  ASSUME NEW p, Path(p), NEW fields, fields # {}, NEW x, NEW docs,
         \A d : d \in docs <=> \E k \in DOMAIN x : d = PutLeaves(p ++ k, fields, x[k])
  PROVE  LET u == Union(docs)
         IN /\ Under(u, p) /\ Leafed(u) /\ Keys(u, p) = DOMAIN x
            /\ \A k \in DOMAIN x : Holds(u, p ++ k, fields, x[k])
<1> DEFINE K == DOMAIN x
           D == [k \in K |-> PutLeaves(p ++ k, fields, x[k])]
           u == Union(docs)
<1>1. \A k \in K : D[k] = PutLeaves(p ++ k, fields, x[k])
  OBVIOUS
<1>2. \A e : e \in docs <=> \E k \in K : e = D[k]
  OBVIOUS
<1> HIDE DEF K, D
<1>3. ASSUME NEW k \in K
      PROVE  /\ Path(p ++ k) /\ Under(D[k], p ++ k) /\ DOMAIN D[k] # {}
             /\ Holds(D[k], p ++ k, fields, x[k])
  <2> DEFINE e == p ++ k
             y == x[k]
  <2>1. D[k] = PutLeaves(e, fields, y) /\ Path(e)
    BY <1>1, Longer
  <2> HIDE DEF e, y
  <2>2. Under(D[k], e) /\ \A f \in fields : e ++ f \in DOMAIN D[k] /\ D[k][e ++ f] = y[f]
    BY <2>1, LeavesAre
  <2> QED  BY <2>1, <2>2 DEF e, y, Holds, Get
<1>4. AreEntries(docs, p, K, D)
  BY <1>2, <1>3 DEF AreEntries
<1>5. /\ Under(u, p) /\ Leafed(u) /\ \A k \in K : Alike(u, D[k], p ++ k)
      /\ \A k : k \in Keys(u, p) <=> k \in K /\ DOMAIN D[k] # {}
  BY <1>4, EntriesAre
<1> HIDE DEF u
<1>6. \A k \in K : Holds(u, p ++ k, fields, x[k])
  BY <1>3, <1>5, HoldsStill
<1>7. Keys(u, p) = K
  BY <1>3, <1>5
<1> QED  BY <1>5, <1>6, <1>7 DEF K, u

(***************************************************************************)
(* A part that is alike holds the same                                     *)
(***************************************************************************)
LEMMA PartsStay ==
  ASSUME NEW s, NEW t
  PROVE  /\ \A x : Alike(s, t, ModulesPath) /\ ModuleIs(t, x) => ModuleIs(s, x)
         /\ \A x : Alike(s, t, EnddevicesPath) /\ DevicesAre(t, x) => DevicesAre(s, x)
         /\ \A x : Alike(s, t, GraphPath) /\ GraphIs(t, x) => GraphIs(s, x)
         /\ Alike(s, t, SwitchesPath) /\ SwitchesRead(t) => SwitchesRead(s)
         /\ \A x : Alike(s, t, ImagesPath) /\ ImagesAre(t, x) => ImagesAre(s, x)
<1>1. ASSUME NEW x, Alike(s, t, ModulesPath), ModuleIs(t, x) PROVE ModuleIs(s, x)
  <2>1. Alike(s, t, ModulePath(Module)) /\ Keys(s, ModulesPath) = Keys(t, ModulesPath)
    BY <1>1, KeysStay DEF ModulePath
  <2>2. /\ Alike(s, t, ModulePath(Module) ++ "data")
        /\ \A k : Alike(s, t, ModulePath(Module) ++ "data" ++ k)
    BY <2>1, AlikeFurther
  <2>3. Path(ModulePath(Module) ++ "data")
    BY <2>2 DEF Alike
  <2>4. Holds(s, ModulePath(Module), ModuleLeaves, Registered)
    BY <1>1, <2>1, HoldsStill DEF ModuleIs
  <2>5. ValuesHeld(s, ModulePath(Module) ++ "data", DataLeaves, x)
    BY <1>1, <2>2, <2>3, ValuesStay DEF ModuleIs
  <2> QED  BY <1>1, <2>1, <2>4, <2>5 DEF ModuleIs
<1>2. ASSUME NEW x, Alike(s, t, EnddevicesPath), DevicesAre(t, x) PROVE DevicesAre(s, x)
  <2>1. Keys(s, EnddevicesPath) = DOMAIN x
    BY <1>2, KeysStay DEF DevicesAre
  <2>2. ASSUME NEW m \in DOMAIN x
        PROVE  /\ Holds(s, EnddevicePath(m), EnddeviceLeaves, x[m])
               /\ x[m].has_app = 1 => Keys(s, EnddevicePath(m) ++ "apps") = x[m].apps
    <3>1. Alike(s, t, EnddevicePath(m)) /\ Alike(s, t, EnddevicePath(m) ++ "apps")
      BY <1>2, AlikeFurther DEF EnddevicePath
    <3>2. /\ Holds(t, EnddevicePath(m), EnddeviceLeaves, x[m])
          /\ x[m].has_app = 1 => Keys(t, EnddevicePath(m) ++ "apps") = x[m].apps
      BY <1>2 DEF DevicesAre
    <3> QED  BY <3>1, <3>2, HoldsStill, AlikeRead
  <2> QED  BY <2>1, <2>2 DEF DevicesAre
<1>3. ASSUME NEW x, Alike(s, t, GraphPath), GraphIs(t, x) PROVE GraphIs(s, x)
  <2>1. Keys(s, GraphPath) = DOMAIN x
    BY <1>3, KeysStay DEF GraphIs
  <2>2. ASSUME NEW c \in DOMAIN x
        PROVE  /\ Holds(s, GraphPath ++ c, Connection, x[c])
               /\ Get(s, GraphPath ++ c ++ "id") = x[c].id
    <3>1. Alike(s, t, GraphPath ++ c) /\ Alike(s, t, GraphPath ++ c ++ "id")
      BY <1>3, AlikeFurther
    <3>2. Holds(t, GraphPath ++ c, Connection, x[c]) /\ Get(t, GraphPath ++ c ++ "id") = x[c].id
      BY <1>3 DEF GraphIs
    <3> QED  BY <3>1, <3>2, HoldsStill, AlikeRead
  <2> QED  BY <2>1, <2>2 DEF GraphIs
<1>4. ASSUME Alike(s, t, SwitchesPath), SwitchesRead(t) PROVE SwitchesRead(s)
  <2>1. Keys(s, SwitchesPath) = Keys(t, SwitchesPath)
    BY <1>4, KeysStay
  <2>2. \A w, f : Get(s, SwitchesPath ++ w ++ f) = Get(t, SwitchesPath ++ w ++ f)
    BY <1>4, AlikeFurther, AlikeRead
  <2> QED  BY <1>4, <2>1, <2>2 DEF SwitchesRead
<1>5. ASSUME NEW x, Alike(s, t, ImagesPath), ImagesAre(t, x) PROVE ImagesAre(s, x)
  <2>1. Keys(s, ImagesPath) = x
    BY <1>5, KeysStay DEF ImagesAre
  <2>2. ASSUME NEW i \in x PROVE Holds(s, ImagesPath ++ i, Image, ImageOf(i))
    <3>1. Alike(s, t, ImagesPath ++ i) /\ Holds(t, ImagesPath ++ i, Image, ImageOf(i))
      BY <1>5, AlikeFurther DEF ImagesAre
    <3> QED  BY <3>1, HoldsStill
  <2> QED  BY <2>1, <2>2 DEF ImagesAre
<1> QED  BY <1>1, <1>2, <1>3, <1>4, <1>5

(***************************************************************************)
(* The data of the module                                                  *)
(***************************************************************************)
\* The module is where its leaves are.
LEMMA ModulePlace ==
  /\ Path(ModulesPath) /\ Path(ModulePath(Module)) /\ Path(ModulePath(Module) ++ "data")
  /\ Below(ModulePath(Module), ModulePath(Module) ++ "data")
  /\ Below(ModulesPath, ModulePath(Module)) /\ Below(ModulesPath, ModulePath(Module) ++ "data")
  /\ Module \notin CaseNames /\ "data" \notin CaseNames /\ "data" \notin ModuleLeaves
  /\ "id" \in ModuleLeaves /\ Registered["id"] # Fail
<1>1. Path(ModulesPath)
  BY RootsPart DEF Roots
<1>2. /\ Path(ModulePath(Module)) /\ Path(ModulePath(Module) ++ "data")
      /\ Below(ModulePath(Module), ModulePath(Module) ++ "data")
      /\ Below(ModulesPath, ModulePath(Module))
  BY <1>1, Longer, BelowIs DEF ModulePath
<1>3. Below(ModulesPath, ModulePath(Module) ++ "data")
  BY <1>1, <1>2, BelowOn
<1>4. Registered["id"] = "0"
  BY DEF Registered, Module
<1>6. "0" \in OwnTexts
  BY DEF OwnTexts, Module
<1>5. Registered["id"] # Fail
  BY <1>4, <1>6, MarksDiffer, MarksDistinct
<1> QED  BY <1>1, <1>2, <1>3, <1>5 DEF Module, CaseNames, ModuleLeaves

\* The module stays where its own leaves stay and its data are known.
LEMMA ModuleStays ==
  ASSUME NEW s, Leafed(s), NEW t, Leafed(t), NEW x, ModuleIs(s, x), NEW y,
         \A j : j # Module => Alike(t, s, ModulesPath ++ j),
         \A f : f # "data" => Alike(t, s, ModulePath(Module) ++ f),
         ValuesHeld(t, ModulePath(Module) ++ "data", DataLeaves, y)
  PROVE  ModuleIs(t, y)
<1>1. \A f \in ModuleLeaves : Get(t, ModulePath(Module) ++ f) = Get(s, ModulePath(Module) ++ f)
  BY ModulePlace, AlikeRead
<1>2. Holds(t, ModulePath(Module), ModuleLeaves, Registered)
  BY <1>1 DEF ModuleIs, Holds
<1>3. Get(t, ModulesPath ++ Module ++ "id") # Fail
  BY <1>2, ModulePlace DEF Holds, ModulePath
<1>4. Module \in Keys(t, ModulesPath)
  BY <1>3, ModulePlace, LeafMakesKey
<1>5. \A j : j # Module => (j \in Keys(t, ModulesPath) <=> j \in Keys(s, ModulesPath))
  BY ModulePlace, KeysBut
<1>6. Keys(t, ModulesPath) = {Module}
  BY <1>4, <1>5 DEF ModuleIs
<1> QED  BY <1>2, <1>6 DEF ModuleIs

\* The first commit of an update leaves the module without data.
LEMMA ModuleCleared ==
  ASSUME NEW s, Leafed(s), NEW x, ModuleIs(s, x)
  PROVE  /\ OnlyIn({ModulesPath}, s, DataCleared(s, Module))
         /\ ModuleIs(DataCleared(s, Module), << >>)
<1> DEFINE m == ModulePath(Module)
           t == Delete(s, {m ++ "data"})
<1>1. t = DataCleared(s, Module)
  BY DEF DataCleared
<1>2. OnlyIn({ModulesPath}, s, t)
  BY ModulePlace, InOne DEF Roots
<1>3. /\ Leafed(t) /\ Blank(t, m ++ "data")
      /\ \A f : f # "data" => Alike(t, s, m ++ f)
  BY ModulePlace, DeleteKey, BelowIs
<1>4. \A j : j # Module => Alike(t, s, ModulesPath ++ j)
  <2> DEFINE r == m ++ "data"
  <2>1. Path(r) /\ Path(ModulesPath) /\ Below(ModulesPath ++ Module, r)
    BY ModulePlace DEF ModulePath
  <2> HIDE DEF r
  <2>2. \A j : j # Module => Alike(Delete(s, {r}), s, ModulesPath ++ j)
    BY <2>1, DeleteKey
  <2> QED  BY <2>2 DEF r
<1> HIDE DEF t
<1>5. Keys(t, m ++ "data") = {}
  BY <1>3, ModulePlace, BlankIs
<1>6. ValuesHeld(t, m ++ "data", DataLeaves, << >>)
  BY <1>5 DEF ValuesHeld
<1>7. ModuleIs(t, << >>)
  BY <1>3, <1>4, <1>6, ModuleStays
<1> QED  BY <1>1, <1>2, <1>7

\* The second one writes what was sent.
LEMMA ModuleWritten ==
  ASSUME NEW s, Leafed(s), ModuleIs(s, << >>), NEW x
  PROVE  /\ OnlyIn({ModulesPath}, s, DataWritten(s, Module, x))
         /\ ModuleIs(DataWritten(s, Module, x), x)
<1> DEFINE m == ModulePath(Module)
           p == m ++ "data"
           doc == WriteModuleData(p, x)
           t == Merge(s, doc)
<1>1. t = DataWritten(s, Module, x)
  BY DEF DataWritten
<1>2. Under(doc, p) /\ Leafed(doc) /\ ValuesHeld(doc, p, DataLeaves, x)
  <2>1. "value" \notin DataLeaves
    BY DEF DataLeaves
  <2> QED  BY <2>1, ModulePlace, ValuesWritten DEF WriteModuleData, WriteModuleDataEntry, PutEntries
<1>3. Under(doc, m) /\ Under(doc, ModulesPath)
  BY <1>2, ModulePlace, UnderFurther DEF ModulePath
<1> HIDE DEF doc
<1>4. OnlyIn({ModulesPath}, s, t)
  BY <1>3, InOne DEF Roots
<1>5. Leafed(t)
  BY <1>4 DEF OnlyIn
<1>6. ASSUME NEW f, f # "data" PROVE Alike(t, s, m ++ f)
  <2>1. Path(m ++ f) /\ Split(m ++ f, p)
    BY <1>6, ModulePlace, Longer, SiblingsSplit
  <2> QED  BY <1>2, <2>1, ModulePlace, MergeElsewhere
<1>7. ASSUME NEW j, j # Module PROVE Alike(t, s, ModulesPath ++ j)
  <2>1. Path(ModulesPath ++ j) /\ Split(ModulesPath ++ j, m)
    BY <1>7, ModulePlace, Longer, SiblingsSplit DEF ModulePath
  <2> QED  BY <1>3, <2>1, ModulePlace, MergeElsewhere
<1>8. Keys(s, p) = {}
  BY DEF ModuleIs, ValuesHeld
<1>9. ValuesHeld(t, p, DataLeaves, x)
  BY <1>2, <1>8, ModulePlace, MergeNoEntries, ValuesStay
<1> HIDE DEF t
<1>10. ModuleIs(t, x)
  BY <1>5, <1>6, <1>7, <1>9, ModuleStays
<1> QED  BY <1>1, <1>4, <1>10

(***************************************************************************)
(* The topology                                                            *)
(***************************************************************************)
\* Writing one end device changes it alone, its references included.
LEMMA DeviceUpdated ==
  ASSUME NEW s, Leafed(s), NEW y, DevicesAre(s, y),
         NEW x, IsDevice(x), x.mac \notin CaseNames
  PROVE  /\ OnlyIn({EnddevicesPath}, s, UpdateEnddevice(s, x))
         /\ DevicesAre(UpdateEnddevice(s, x), With(y, x.mac, x))
<1> DEFINE mac == x.mac
           E == EnddevicesPath
           p == E ++ mac
           r == p ++ "apps"
           u == Delete(s, {r})
           doc == WriteEnddevice(p, x)
           t == Merge(u, doc)
<1>1. t = UpdateEnddevice(s, x)
  BY DEF UpdateEnddevice, EnddevicePath
<1>2. /\ E \in Roots /\ Path(E) /\ Path(p) /\ Path(r) /\ Below(E, p) /\ Below(p, r) /\ Below(E, r)
  <2>1. E \in Roots /\ Path(E)
    BY RootsPart DEF Roots
  <2>2. Path(p) /\ Path(r) /\ Below(E, p) /\ Below(p, r)
    BY <2>1, Longer, BelowIs
  <2> QED  BY <2>1, <2>2, BelowOn
<1>3. /\ Under(doc, p) /\ Leafed(doc) /\ DOMAIN doc # {} /\ Holds(doc, p, EnddeviceLeaves, x)
      /\ x.has_app = 1 => Keys(doc, r) = x.apps
  BY <1>2, DeviceWritten
<1>4. Under(doc, E)
  BY <1>2, <1>3, UnderFurther
<1> HIDE DEF r, doc
<1>5. OnlyIn({E}, s, u)
  BY <1>2, InOne
<1>6. Leafed(u) /\ Blank(u, r) /\ (\A j : j # mac => Alike(u, s, E ++ j))
      /\ \A j : j # mac => (j \in Keys(u, E) <=> j \in Keys(s, E))
  BY <1>2, DeleteKey
<1> HIDE DEF u
<1>7. OnlyIn({E}, u, t)
  BY <1>2, <1>4, <1>6, InOne
<1>8. OnlyIn({E}, s, t)
  BY <1>5, <1>7, InTurn
<1>9. /\ \A j : j # mac => Alike(t, u, E ++ j)
      /\ Keys(t, E) = Keys(u, E) \cup {mac}
  BY <1>2, <1>3, <1>6, MergeKey
<1>10. Holds(t, p, EnddeviceLeaves, x)
  <2>1. \A f \in EnddeviceLeaves : x[f] # Fail
    BY DEF IsDevice, Filled
  <2> QED  BY <1>3, <1>6, <2>1, MergeHolds
<1>11. x.has_app = 1 => Keys(t, r) = x.apps
  <2>1. Alike(t, doc, r)
    BY <1>2, <1>3, <1>6, MergeBlank
  <2> QED  BY <1>3, <2>1, AlikeRead
<1>12. \A j : j # mac => Alike(t, s, E ++ j)
  BY <1>6, <1>9, AlikeTurns
<1> HIDE DEF t
<1>13. Keys(t, E) = DOMAIN y \cup {mac}
  BY <1>6, <1>9 DEF DevicesAre
<1>14. ASSUME NEW m \in DOMAIN y, m # mac
       PROVE  /\ Holds(t, EnddevicePath(m), EnddeviceLeaves, y[m])
              /\ y[m].has_app = 1 => Keys(t, EnddevicePath(m) ++ "apps") = y[m].apps
  <2>1. Alike(t, s, EnddevicePath(m)) /\ Alike(t, s, EnddevicePath(m) ++ "apps")
    BY <1>12, <1>14, AlikeFurther DEF EnddevicePath
  <2>2. /\ Holds(s, EnddevicePath(m), EnddeviceLeaves, y[m])
        /\ y[m].has_app = 1 => Keys(s, EnddevicePath(m) ++ "apps") = y[m].apps
    BY DEF DevicesAre
  <2> QED  BY <2>1, <2>2, HoldsStill, AlikeRead
<1>15. /\ Holds(t, EnddevicePath(mac), EnddeviceLeaves, x)
       /\ x.has_app = 1 => Keys(t, EnddevicePath(mac) ++ "apps") = x.apps
  BY <1>10, <1>11 DEF EnddevicePath, r
<1> DEFINE z == With(y, mac, x)
<1>16. DOMAIN z = DOMAIN y \cup {mac} /\ z[mac] = x /\ \A m \in DOMAIN y : m # mac => z[m] = y[m]
  BY DEF With
<1> HIDE DEF z, mac
<1>17. ASSUME NEW m \in DOMAIN z
       PROVE  /\ Holds(t, EnddevicePath(m), EnddeviceLeaves, z[m])
              /\ z[m].has_app = 1 => Keys(t, EnddevicePath(m) ++ "apps") = z[m].apps
  <2>1. CASE m = mac
    BY <1>15, <1>16, <2>1
  <2>2. CASE m # mac
    BY <1>14, <1>16, <2>2
  <2> QED  BY <2>1, <2>2
<1>18. DevicesAre(t, z)
  BY <1>13, <1>16, <1>17 DEF DevicesAre
<1> QED  BY <1>1, <1>8, <1>18 DEF z, mac

\* A new graph replaces the old one.
LEMMA GraphUpdated ==
  ASSUME NEW s, Leafed(s), NEW x
  PROVE  /\ OnlyIn({GraphPath}, s, SetTopologyGraph(s, x))
         /\ GraphIs(SetTopologyGraph(s, x), x)
<1> DEFINE u == Delete(s, {GraphPath})
           doc == WriteGraph(x)
           t == Merge(u, doc)
<1>1. t = SetTopologyGraph(s, x)
  BY DEF SetTopologyGraph, GraphRemoved
<1>2. GraphPath \in Roots /\ Path(GraphPath) /\ Below(GraphPath, GraphPath)
  BY RootsPart, BelowIs DEF Roots
<1>3. Under(doc, GraphPath) /\ Leafed(doc) /\ GraphIs(doc, x)
  BY GraphWritten
<1> HIDE DEF doc
<1>4. Alike(t, doc, GraphPath)
  BY <1>2, <1>3, Replaced
<1>5. OnlyIn({GraphPath}, s, u)
  BY <1>2, InOne
<1> HIDE DEF u
<1>6. OnlyIn({GraphPath}, s, t)
  BY <1>2, <1>3, <1>5, InOne, InTurn DEF OnlyIn
<1> QED  BY <1>1, <1>3, <1>4, <1>6, PartsStay

\* A topology that was discovered replaces devices, switches and graph.
LEMMA TopologyUpdated ==
  ASSUME NEW s, Leafed(s), NEW x,
         \A w \in DOMAIN x.devices.switches : Filled(x.devices.switches[w], Switch)
  PROVE  LET t == SetTopology(s, x)
         IN /\ OnlyIn({EnddevicesPath, SwitchesPath, GraphPath}, s, t)
            /\ DevicesAre(t, x.devices.enddevices) /\ SwitchesRead(t) /\ GraphIs(t, x.graph)
<1> DEFINE W == {EnddevicesPath, SwitchesPath, GraphPath}
           a == PutEntries(EnddevicesPath, WriteEnddevice, x.devices.enddevices)
           b == PutEntries(SwitchesPath, WriteSwitch, x.devices.switches)
           c == WriteGraph(x.graph)
           ab == Union({a, b})
           doc == Union({ab, c})
           u == Delete(s, {TopologyPath})
           t == Merge(u, doc)
<1>1. t = SetTopology(s, x)
  BY DEF SetTopology, TopologyRemoved, WriteTopology, WriteDevices
<1>2. W \subseteq Roots /\ \A R \in W : Path(R)
  BY RootsPart DEF Roots
<1>3. Path(TopologyPath) /\ \A R \in W : Below(TopologyPath, R)
  <2>1. TopologyPath \in Seq({"topology"})
    BY DEF TopologyPath
  <2>2. Path(TopologyPath)
    BY <2>1 DEF Path
  <2>3. Below(TopologyPath, GraphPath)
    BY <2>2, BelowIs DEF GraphPath
  <2>4. /\ Path(TopologyPath ++ "devices") /\ Below(TopologyPath, TopologyPath ++ "devices")
        /\ Below(TopologyPath ++ "devices", EnddevicesPath)
        /\ Below(TopologyPath ++ "devices", SwitchesPath)
    BY <2>2, Longer, BelowIs DEF EnddevicesPath, SwitchesPath
  <2> QED  BY <1>2, <2>2, <2>3, <2>4, BelowOn
<1>4. \A Q \in Roots \ W : Path(Q) /\ Split(Q, TopologyPath)
  <2>1. ASSUME NEW Q \in Roots \ W PROVE Split(Q, TopologyPath)
    <3>1. /\ 1 \in 1..Len(Q) /\ Q[1] # "topology" /\ Q[1] \notin CaseNames
      BY DEF Roots, StreamsPath, ModulesPath, AppsPath, ImagesPath, CaseNames
    <3>2. Len(TopologyPath) = 1 /\ TopologyPath[1] = "topology"
      BY DEF TopologyPath
    <3>3. \A j \in 1..Len(Q) : ~(j < 1)
      OBVIOUS
    <3> QED  BY <3>1, <3>2, <3>3 DEF Split
  <2> QED  BY <2>1, RootsPart
<1>5. /\ Leafed(u) /\ Blank(u, TopologyPath) /\ \A Q \in Roots \ W : Alike(u, s, Q)
  <2>1. \A r \in {TopologyPath} : Path(r)
    BY <1>3
  <2>2. Leafed(u) /\ Blank(u, TopologyPath)
    BY <2>1, DeleteLeaves
  <2>3. \A Q \in Roots \ W : Alike(u, s, Q)
    BY <1>4, <2>1, DeleteApart
  <2> QED  BY <2>2, <2>3
<1>6. Under(a, EnddevicesPath) /\ Leafed(a) /\ DevicesAre(a, x.devices.enddevices)
  BY DevicesWritten
<1>7. Under(b, SwitchesPath) /\ Leafed(b) /\ SwitchesRead(b)
  <2> DEFINE y == x.devices.switches
             docs == {WriteSwitch(SwitchesPath ++ k, y[k]) : k \in DOMAIN y}
  <2>1. b = Union(docs)
    BY DEF PutEntries
  <2>2. \A d : d \in docs <=> \E k \in DOMAIN y : d = PutLeaves(SwitchesPath ++ k, Switch, y[k])
    BY DEF WriteSwitch
  <2>3. Switch # {}
    BY DEF Switch
  <2>4. \A w \in DOMAIN y : Filled(y[w], Switch)
    OBVIOUS
  <2> HIDE DEF docs, b, y
  <2>5. /\ Under(b, SwitchesPath) /\ Leafed(b) /\ Keys(b, SwitchesPath) = DOMAIN y
        /\ \A k \in DOMAIN y : Holds(b, SwitchesPath ++ k, Switch, y[k])
    BY <1>2, <2>1, <2>2, <2>3, LeavesWritten
  <2>6. SwitchesRead(b)
    BY <2>4, <2>5 DEF SwitchesRead, Holds, Filled
  <2> QED  BY <2>5, <2>6
<1>8. Under(c, GraphPath) /\ Leafed(c) /\ GraphIs(c, x.graph)
  BY GraphWritten
<1>9. /\ EnddevicesPath # SwitchesPath /\ EnddevicesPath # GraphPath /\ SwitchesPath # GraphPath
  <2>1. EnddevicesPath[3] = "enddevices" /\ SwitchesPath[3] = "switches" /\ Len(EnddevicesPath) = 3
        /\ Len(SwitchesPath) = 3 /\ Len(GraphPath) = 2
    BY DEF EnddevicesPath, SwitchesPath, GraphPath, TopologyPath, ++
  <2> QED  BY <2>1
<1>10. \A R \in W, Q \in W : R # Q => Split(R, Q)
  BY <1>2, RootsPart
<1> HIDE DEF a, b, c, u
<1>11. Leafed(ab) /\ Alike(ab, a, EnddevicesPath) /\ Alike(ab, b, SwitchesPath) /\ Blank(ab, GraphPath)
  <2>1. Blank(b, EnddevicesPath) /\ Blank(a, SwitchesPath) /\ Blank(a, GraphPath) /\ Blank(b, GraphPath)
    BY <1>2, <1>6, <1>7, <1>9, <1>10, UnderBlank
  <2>2. Leafed(ab) /\ Alike(ab, a, EnddevicesPath)
    BY <1>2, <1>6, <1>7, <2>1, UnionAlike
  <2>3. Alike(ab, b, SwitchesPath)
    BY <1>2, <1>6, <1>7, <2>1, UnionAlike
  <2>4. Blank(ab, GraphPath)
    BY <2>1, UnionBlank
  <2> QED  BY <2>2, <2>3, <2>4
<1> HIDE DEF ab
<1>12. /\ Leafed(doc) /\ Alike(doc, ab, EnddevicesPath) /\ Alike(doc, ab, SwitchesPath)
       /\ Alike(doc, c, GraphPath)
  <2>1. Blank(c, EnddevicesPath) /\ Blank(c, SwitchesPath)
    BY <1>2, <1>8, <1>9, <1>10, UnderBlank
  <2>2. Leafed(doc) /\ Alike(doc, ab, EnddevicesPath)
    BY <1>2, <1>8, <1>11, <2>1, UnionAlike
  <2>3. Alike(doc, ab, SwitchesPath)
    BY <1>2, <1>8, <1>11, <2>1, UnionAlike
  <2>4. Alike(doc, c, GraphPath)
    BY <1>2, <1>8, <1>11, UnionAlike
  <2> QED  BY <2>2, <2>3, <2>4
<1>13. \A q \in DOMAIN doc : Path(q) /\ \E R \in W : Below(R, q)
  <2>1. ASSUME NEW q \in DOMAIN doc PROVE q \in DOMAIN a \/ q \in DOMAIN b \/ q \in DOMAIN c
    BY DEF Union, ab
  <2> QED  BY <1>6, <1>7, <1>8, <2>1 DEF Under
<1> HIDE DEF doc
<1>14. \A R \in W : Blank(u, R)
  BY <1>2, <1>3, <1>5, BelowOn DEF Blank, Leafed
<1>15. \A R \in W : Alike(t, doc, R)
  BY <1>2, <1>5, <1>12, <1>14, MergeBlank
<1>16. OnlyIn(W, s, t)
  <2>1. OnlyIn(W, u, t)
    BY <1>2, <1>5, <1>13, MergeIn
  <2>2. OnlyIn(W, s, u)
    BY <1>5 DEF OnlyIn
  <2> QED  BY <2>1, <2>2, InTurn
<1> HIDE DEF t
<1>17. DevicesAre(t, x.devices.enddevices) /\ SwitchesRead(t) /\ GraphIs(t, x.graph)
  <2>1. Alike(t, a, EnddevicesPath) /\ Alike(t, b, SwitchesPath) /\ Alike(t, c, GraphPath)
    BY <1>11, <1>12, <1>15, AlikeTurns
  <2> QED  BY <1>6, <1>7, <1>8, <2>1, PartsStay
<1> QED  BY <1>1, <1>16, <1>17

(***************************************************************************)
(* Images and streams                                                      *)
(***************************************************************************)
\* The images of a registry replace those that were there.
LEMMA ImagesUpdated ==
  ASSUME NEW s, Leafed(s), NEW registry, registry # {}
  PROVE  LET t == SetApplicationImages(s, DeserializeImages([repositories |-> registry]))
         IN OnlyIn({ImagesPath}, s, t) /\ ImagesAre(t, registry)
<1> DEFINE x == DeserializeImages([repositories |-> registry])
           docs == {WriteImage(ImagesPath ++ k, x[k]) : k \in DOMAIN x}
           doc == Union(docs)
           u == Delete(s, {ImagesPath})
           t == Merge(u, doc)
<1>1. t = SetApplicationImages(s, x)
  BY DEF SetApplicationImages, WriteImages, PutEntries
<1>2. DOMAIN x = registry /\ \A i \in registry : x[i] = ImageOf(i)
  BY DEF DeserializeImages, ImageOf
<1>3. \A d : d \in docs <=> \E k \in DOMAIN x : d = PutLeaves(ImagesPath ++ k, Image, x[k])
  BY DEF WriteImage
<1>4. ImagesPath \in Roots /\ Path(ImagesPath) /\ Below(ImagesPath, ImagesPath) /\ Image # {}
  BY RootsPart, BelowIs DEF Roots, Image
<1> HIDE DEF docs, x
<1>5. /\ Under(doc, ImagesPath) /\ Leafed(doc) /\ Keys(doc, ImagesPath) = DOMAIN x
      /\ \A k \in DOMAIN x : Holds(doc, ImagesPath ++ k, Image, x[k])
  BY <1>3, <1>4, LeavesWritten
<1>6. ImagesAre(doc, registry)
  BY <1>2, <1>5 DEF ImagesAre
<1> HIDE DEF doc
<1>7. Alike(t, doc, ImagesPath)
  BY <1>4, <1>5, Replaced
<1>8. OnlyIn({ImagesPath}, s, u)
  BY <1>4, InOne
<1> HIDE DEF u
<1>9. OnlyIn({ImagesPath}, s, t)
  BY <1>4, <1>5, <1>8, InOne, InTurn DEF OnlyIn
<1> HIDE DEF t
<1>10. ImagesAre(t, registry)
  BY <1>6, <1>7, PartsStay
<1> QED  BY <1>1, <1>9, <1>10 DEF x

\* A new stream is one more key.
LEMMA StreamAdded ==
  ASSUME NEW s, Leafed(s), NEW id, id \notin CaseNames
  PROVE  LET t == Merge(s, PutLeaf(StreamLeaf(id), id))
         IN /\ OnlyIn({StreamsPath}, s, t)
            /\ Keys(t, StreamsPath) = Keys(s, StreamsPath) \cup {id}
<1> DEFINE p == StreamsPath ++ id
           d == PutLeaf(p ++ "stream_id", id)
<1>1. d = PutLeaf(StreamLeaf(id), id)
  BY DEF StreamLeaf, StreamPath
<1>2. StreamsPath \in Roots /\ Path(StreamsPath) /\ Path(p)
  BY RootsPart, Longer DEF Roots
<1>3. Under(d, p) /\ Leafed(d) /\ DOMAIN d # {}
  <2> DEFINE f == "stream_id"
             e == PutLeaf(p ++ f, id)
  <2>1. d = e
    OBVIOUS
  <2> HIDE DEF d, p, f
  <2>2. Under(e, p) /\ Leafed(e) /\ DOMAIN e = {p ++ f}
    BY <1>2, LeafIs
  <2> QED  BY <2>1, <2>2
<1>4. Under(d, StreamsPath)
  BY <1>2, <1>3, UnderFurther
<1> HIDE DEF d
<1>5. OnlyIn({StreamsPath}, s, Merge(s, d))
  BY <1>2, <1>4, InOne
<1>6. Keys(Merge(s, d), StreamsPath) = Keys(s, StreamsPath) \cup {id}
  BY <1>2, <1>3, MergeKey
<1> QED  BY <1>1, <1>5, <1>6

(***************************************************************************)
(* Applications                                                            *)
(***************************************************************************)
\* Where an application and its parts are.
LEMMA AppPlace ==
  /\ AppsPath \in Roots /\ Path(AppsPath)
  /\ \A id : /\ Path(AppPath(id)) /\ Below(AppsPath, AppPath(id))
             /\ \A f : /\ Path(AppPath(id) ++ f) /\ Below(AppPath(id), AppPath(id) ++ f)
                       /\ Below(AppsPath, AppPath(id) ++ f)
                       /\ \A g : /\ Path(AppPath(id) ++ f ++ g)
                                 /\ Below(AppPath(id) ++ f, AppPath(id) ++ f ++ g)
                                 /\ Below(AppPath(id), AppPath(id) ++ f ++ g)
<1>1. AppsPath \in Roots /\ Path(AppsPath)
  BY RootsPart DEF Roots
<1>2. ASSUME NEW id PROVE Path(AppPath(id)) /\ Below(AppsPath, AppPath(id))
  BY <1>1, Longer, BelowIs DEF AppPath
<1>3. ASSUME NEW id, NEW f PROVE /\ Path(AppPath(id) ++ f) /\ Below(AppPath(id), AppPath(id) ++ f)
                                /\ Below(AppsPath, AppPath(id) ++ f)
  <2>1. Path(AppPath(id) ++ f) /\ Below(AppPath(id), AppPath(id) ++ f)
    BY <1>2, Longer, BelowIs
  <2> QED  BY <1>1, <1>2, <2>1, BelowOn
<1>4. ASSUME NEW id, NEW f, NEW g
      PROVE  /\ Path(AppPath(id) ++ f ++ g) /\ Below(AppPath(id) ++ f, AppPath(id) ++ f ++ g)
             /\ Below(AppPath(id), AppPath(id) ++ f ++ g)
  <2>1. Path(AppPath(id) ++ f ++ g) /\ Below(AppPath(id) ++ f, AppPath(id) ++ f ++ g)
    BY <1>3, Longer, BelowIs
  <2> QED  BY <1>2, <1>3, <2>1, BelowOn
<1> QED  BY <1>1, <1>2, <1>3, <1>4

\* The leaves of the first commit.
LEMMA HeaderWritten ==
  ASSUME NEW x
  PROVE  LET d == AppHeader(x)
             p == AppPath(x.id)
         IN /\ Under(d, p) /\ Leafed(d) /\ DOMAIN d # {}
            /\ HeaderIs(d, x)
            /\ \A f : f \notin AppLeaves \cup {"mac", "image_ref"} => Blank(d, p ++ f)
<1> DEFINE p == AppPath(x.id)
           a == PutLeaves(p, AppLeaves, x)
           b == IF x.has_mac = 1 THEN PutLeaf(p ++ "mac", x.mac) ELSE << >>
           c == IF x.has_image = 1 THEN PutLeaf(p ++ "image_ref", x.image_ref) ELSE << >>
           docs == {a, b, c}
           d == Union(docs)
<1>1. d = AppHeader(x)
  BY DEF AppHeader
<1>2. Path(p) /\ \A f : Path(p ++ f)
  BY AppPlace
<1>3. "mac" \notin AppLeaves /\ "image_ref" \notin AppLeaves /\ "id" \in AppLeaves
  BY DEF AppLeaves
<1> HIDE DEF p
<1>4. /\ Under(a, p) /\ Leafed(a) /\ \A f \in AppLeaves : p ++ f \in DOMAIN a /\ a[p ++ f] = x[f]
      /\ \A f : f \notin AppLeaves => Blank(a, p ++ f)
  BY <1>2, LeavesAre
<1>5. /\ Under(b, p) /\ Leafed(b) /\ (x.has_mac = 1 => Get(b, p ++ "mac") = x.mac)
      /\ \A f : f # "mac" => Blank(b, p ++ f)
  <2>1. CASE x.has_mac = 1
    <3> DEFINE v == x.mac
               g == "mac"
               e == PutLeaf(p ++ g, v)
    <3>1. b = e
      BY <2>1
    <3> HIDE DEF v, g, b
    <3>2. /\ Under(e, p) /\ Leafed(e) /\ DOMAIN e = {p ++ g} /\ e[p ++ g] = v
          /\ \A f : f # g => Blank(e, p ++ f)
      BY <1>2, LeafIs
    <3> HIDE DEF e
    <3> QED  BY <3>1, <3>2 DEF Get, v, g
  <2>2. CASE x.has_mac # 1
    BY <2>2 DEF Under, Leafed, Blank
  <2> QED  BY <2>1, <2>2
<1>6. /\ Under(c, p) /\ Leafed(c) /\ (x.has_image = 1 => Get(c, p ++ "image_ref") = x.image_ref)
      /\ \A f : f # "image_ref" => Blank(c, p ++ f)
  <2>1. CASE x.has_image = 1
    <3> DEFINE v == x.image_ref
               g == "image_ref"
               e == PutLeaf(p ++ g, v)
    <3>1. c = e
      BY <2>1
    <3> HIDE DEF v, g, c
    <3>2. /\ Under(e, p) /\ Leafed(e) /\ DOMAIN e = {p ++ g} /\ e[p ++ g] = v
          /\ \A f : f # g => Blank(e, p ++ f)
      BY <1>2, LeafIs
    <3> HIDE DEF e
    <3> QED  BY <3>1, <3>2 DEF Get, v, g
  <2>2. CASE x.has_image # 1
    BY <2>2 DEF Under, Leafed, Blank
  <2> QED  BY <2>1, <2>2
<1> HIDE DEF a, b, c
<1>7. Under(d, p) /\ Leafed(d)
  <2>1. Under(d, p)
    BY <1>2, <1>4, <1>5, <1>6, UnderUnion
  <2> QED  BY <1>2, <2>1, UnderBlank
<1>8. \A f \in AppLeaves : Alike(d, a, p ++ f)
  BY <1>2, <1>3, <1>4, <1>5, <1>6, UnionAlike
<1>9. Alike(d, b, p ++ "mac") /\ Alike(d, c, p ++ "image_ref")
  <2>1. /\ \A e \in docs : Leafed(e)
        /\ \A e \in docs : e # b => Blank(e, p ++ "mac")
        /\ \A e \in docs : e # c => Blank(e, p ++ "image_ref")
    BY <1>3, <1>4, <1>5, <1>6
  <2>2. b \in docs /\ c \in docs
    OBVIOUS
  <2> HIDE DEF docs
  <2> QED  BY <1>2, <2>1, <2>2, UnionAlike
<1>10. p ++ "id" \in DOMAIN d
  BY <1>3, <1>4, UnionHas
<1>11. ASSUME NEW f, f \notin AppLeaves \cup {"mac", "image_ref"} PROVE Blank(d, p ++ f)
  BY <1>4, <1>5, <1>6, <1>11, UnionBlank
<1> HIDE DEF d
<1>12. Holds(d, p, AppLeaves, x)
  BY <1>4, <1>8, AlikeRead DEF Holds, Get
<1>13. HeaderIs(d, x)
  BY <1>5, <1>6, <1>9, <1>12, AlikeRead DEF HeaderIs, p
<1> QED  BY <1>1, <1>7, <1>10, <1>11, <1>13 DEF p

\* The mapping of the second commit.
LEMMA MappingWritten ==
  ASSUME NEW p, Path(p), NEW x
  PROVE  LET d == WriteAppStreamMapping(p, x)
         IN /\ Under(d, p) /\ Leafed(d)
            /\ \A role \in Roles : Keys(d, p ++ role) = x[role]
            /\ \A q \in DOMAIN d : \E role \in Roles : \E v \in x[role] : q = p ++ role ++ v
<1> DEFINE pe == p ++ "egress"
           pi == p ++ "ingress"
           e == PutValues(pe, x.egress)
           i == PutValues(pi, x.ingress)
           d == Union({e, i})
<1>1. d = WriteAppStreamMapping(p, x)
  BY DEF WriteAppStreamMapping
<1>2. /\ Path(pe) /\ Path(pi) /\ Split(pe, pi) /\ Split(pi, pe)
  BY Longer, SiblingsSplit DEF CaseNames
<1>3. Under(e, p) /\ Under(i, p)
  BY <1>2, UnderParts
<1> HIDE DEF pe, pi
<1>4. /\ Under(e, pe) /\ Leafed(e) /\ (\A q : q \in DOMAIN e <=> \E v \in x.egress : q = pe ++ v)
      /\ Keys(e, pe) = x.egress
  BY <1>2, ValuesAre
<1>5. /\ Under(i, pi) /\ Leafed(i) /\ (\A q : q \in DOMAIN i <=> \E v \in x.ingress : q = pi ++ v)
      /\ Keys(i, pi) = x.ingress
  BY <1>2, ValuesAre
<1> HIDE DEF e, i
<1>6. Blank(i, pe) /\ Blank(e, pi)
  BY <1>2, <1>4, <1>5, UnderBlank
<1>7. Leafed(d) /\ Alike(d, e, pe) /\ Alike(d, i, pi)
  BY <1>2, <1>4, <1>5, <1>6, UnionAlike
<1>8. Keys(d, pe) = x.egress /\ Keys(d, pi) = x.ingress
  BY <1>4, <1>5, <1>7, AlikeRead
<1>9. ASSUME NEW q \in DOMAIN d
      PROVE  (\E v \in x.egress : q = pe ++ v) \/ (\E v \in x.ingress : q = pi ++ v)
  <2>1. q \in DOMAIN e \/ q \in DOMAIN i
    BY DEF Union
  <2> QED  BY <1>4, <1>5, <2>1
<1>10. Under(d, p)
  BY <1>3, UnderUnion
<1> HIDE DEF d
<1>11. \A role \in Roles : Keys(d, p ++ role) = x[role]
  BY <1>8 DEF pe, pi, Roles
<1>12. ASSUME NEW q \in DOMAIN d
       PROVE  \E role \in Roles : \E v \in x[role] : q = p ++ role ++ v
  <2>1. CASE \E v \in x.egress : q = pe ++ v
    BY <2>1 DEF pe, Roles
  <2>2. CASE \E v \in x.ingress : q = pi ++ v
    BY <2>2 DEF pi, Roles
  <2> QED  BY <1>9, <2>1, <2>2
<1> QED  BY <1>1, <1>7, <1>10, <1>11, <1>12

\* What the second commit writes.
AppBody(x) ==
  Union({PutEntries(AppPath(x.id) ++ "parameters", WriteParameter, x.parameters),
         WriteAppStreamMapping(AppPath(x.id) ++ "stream_mapping", x.stream_mapping)})
WithKey(x) == Union({AppBody(x), PutLeaf(AppPath(x.id) ++ "id", x.id)})

\* What an application's parameters and mappings leave in the datastore, with
\* the key of the list entry or without it.
LEMMA BodyWritten ==
  ASSUME NEW x
  PROVE  LET p == AppPath(x.id)
         IN \A d \in {AppBody(x), WithKey(x)} :
              /\ Under(d, p) /\ Leafed(d)
              /\ ValuesHeld(d, p ++ "parameters", ParameterLeaves, x.parameters)
              /\ \A role \in Roles : Keys(d, p ++ "stream_mapping" ++ role) = x.stream_mapping[role]
              /\ \A q \in DOMAIN d :
                    \/ Below(p ++ "parameters", q)
                    \/ d = WithKey(x) /\ q = p ++ "id"
                    \/ \E role \in Roles : \E v \in x.stream_mapping[role] :
                          q = p ++ "stream_mapping" ++ role ++ v
              /\ d = WithKey(x) => p ++ "id" \in DOMAIN d /\ d[p ++ "id"] = x.id
<1> DEFINE p == AppPath(x.id)
           pp == p ++ "parameters"
           pm == p ++ "stream_mapping"
           pk == p ++ "id"
           a == PutEntries(pp, WriteParameter, x.parameters)
           m == WriteAppStreamMapping(pm, x.stream_mapping)
           k == PutLeaf(pk, x.id)
           b == Union({a, m})
           w == Union({b, k})
<1>1. b = AppBody(x) /\ w = WithKey(x)
  BY DEF AppBody, WithKey
<1>2. /\ Path(p) /\ Path(pp) /\ Path(pm) /\ Path(pk)
      /\ Split(pp, pm) /\ Split(pp, pk) /\ Split(pm, pk)
      /\ Split(pm, pp) /\ Split(pk, pp) /\ Split(pk, pm)
  <2>1. Path(p)
    BY AppPlace
  <2> HIDE DEF p
  <2> QED  BY <2>1, Longer, SiblingsSplit DEF CaseNames
<1>3. Under(a, pp) /\ Leafed(a) /\ ValuesHeld(a, pp, ParameterLeaves, x.parameters)
  <2>1. "value" \notin ParameterLeaves
    BY DEF ParameterLeaves
  <2> QED  BY <1>2, <2>1, ValuesWritten DEF WriteParameter, PutEntries
<1> HIDE DEF a
<1>4. /\ Under(m, pm) /\ Leafed(m)
      /\ \A role \in Roles : Keys(m, pm ++ role) = x.stream_mapping[role]
      /\ \A q \in DOMAIN m : \E role \in Roles : \E v \in x.stream_mapping[role] : q = pm ++ role ++ v
  BY <1>2, MappingWritten
<1> HIDE DEF m
<1>5. /\ Under(k, pk) /\ Leafed(k) /\ DOMAIN k = {pk} /\ k[pk] = x.id
  BY <1>2, BelowIs DEF PutLeaf, Under, Leafed
<1> HIDE DEF k
<1>6. Under(a, p) /\ Under(m, p) /\ Under(k, p)
  BY <1>2, <1>3, <1>4, <1>5, UnderFurther
<1>7. /\ Blank(m, pp) /\ Blank(a, pm) /\ Blank(k, pp) /\ Blank(k, pm) /\ Blank(a, pk) /\ Blank(m, pk)
  BY <1>2, <1>3, <1>4, <1>5, UnderBlank
<1>8. /\ Under(b, p) /\ Leafed(b) /\ Alike(b, a, pp) /\ Alike(b, m, pm) /\ Blank(b, pk)
  <2>1. Under(b, p)
    BY <1>6, UnderUnion
  <2>2. Blank(b, pk)
    BY <1>7, UnionBlank
  <2>3. Leafed(b) /\ Alike(b, a, pp)
    BY <1>2, <1>3, <1>4, <1>7, UnionAlike
  <2>4. Alike(b, m, pm)
    BY <1>2, <1>3, <1>4, <1>7, UnionAlike
  <2> QED  BY <2>1, <2>2, <2>3, <2>4
<1>9. ASSUME NEW q \in DOMAIN b
      PROVE  Below(pp, q) \/ (\E role \in Roles : \E v \in x.stream_mapping[role] : q = pm ++ role ++ v)
  <2>1. q \in DOMAIN a \/ q \in DOMAIN m
    BY DEF Union
  <2> QED  BY <1>3, <1>4, <2>1 DEF Under
<1> HIDE DEF b
<1>10. /\ Under(w, p) /\ Leafed(w) /\ Alike(w, b, pp) /\ Alike(w, b, pm) /\ Alike(w, k, pk)
  <2>1. Under(w, p)
    BY <1>6, <1>8, UnderUnion
  <2>2. Leafed(w) /\ Alike(w, b, pp)
    BY <1>2, <1>5, <1>7, <1>8, UnionAlike
  <2>3. Alike(w, b, pm)
    BY <1>2, <1>5, <1>7, <1>8, UnionAlike
  <2>4. Alike(w, k, pk)
    BY <1>2, <1>5, <1>8, UnionAlike
  <2> QED  BY <2>1, <2>2, <2>3, <2>4
<1>11. ASSUME NEW q \in DOMAIN w PROVE q \in DOMAIN b \/ q = pk
  BY <1>5 DEF Union
<1> HIDE DEF w
<1>12. pk \in DOMAIN w /\ w[pk] = x.id
  BY <1>2, <1>5, <1>10, BelowIs DEF Alike, Same
<1>13. ASSUME NEW d, Leafed(d), Alike(d, b, pp) \/ d = b, Alike(d, b, pm) \/ d = b
       PROVE  /\ ValuesHeld(d, pp, ParameterLeaves, x.parameters)
              /\ \A role \in Roles : Keys(d, pm ++ role) = x.stream_mapping[role]
  <2>1. Alike(d, a, pp) /\ Alike(d, m, pm)
    BY <1>8, <1>13, AlikeTurns
  <2>2. \A e : Alike(d, a, pp ++ e) /\ Alike(d, m, pm ++ e)
    BY <2>1, AlikeFurther
  <2>3. ValuesHeld(d, pp, ParameterLeaves, x.parameters)
    BY <1>2, <1>3, <2>2, ValuesStay
  <2> QED  BY <1>4, <2>2, <2>3, AlikeRead
<1> HIDE DEF pp, pm, pk
<1>14. /\ Under(b, p) /\ Leafed(b) /\ ValuesHeld(b, pp, ParameterLeaves, x.parameters)
       /\ \A role \in Roles : Keys(b, pm ++ role) = x.stream_mapping[role]
       /\ pk \notin DOMAIN b
  <2>1. pk \notin DOMAIN b
    BY <1>2, <1>8, BelowIs DEF Blank
  <2> QED  BY <1>8, <1>13, <2>1
<1>15. /\ Under(w, p) /\ Leafed(w) /\ ValuesHeld(w, pp, ParameterLeaves, x.parameters)
       /\ \A role \in Roles : Keys(w, pm ++ role) = x.stream_mapping[role]
  BY <1>10, <1>13
<1>16. b # w
  BY <1>12, <1>14
<1> HIDE DEF p
<1>17. \A q \in DOMAIN w : \/ Below(pp, q) \/ q = pk
                           \/ \E role \in Roles : \E v \in x.stream_mapping[role] : q = pm ++ role ++ v
  BY <1>9, <1>11
<1>18. \A d \in {b, w} :
              /\ Under(d, p) /\ Leafed(d)
              /\ ValuesHeld(d, pp, ParameterLeaves, x.parameters)
              /\ \A role \in Roles : Keys(d, pm ++ role) = x.stream_mapping[role]
              /\ \A q \in DOMAIN d :
                    \/ Below(pp, q)
                    \/ d = w /\ q = pk
                    \/ \E role \in Roles : \E v \in x.stream_mapping[role] : q = pm ++ role ++ v
              /\ d = w => pk \in DOMAIN d /\ d[pk] = x.id
  BY <1>9, <1>12, <1>14, <1>15, <1>16, <1>17
<1> QED  BY <1>1, <1>18 DEF pp, pm, pk, p

\* The first commit writes nothing but leaves right below the application.
LEMMA HeaderLeaves ==
  ASSUME NEW x, NEW q \in DOMAIN AppHeader(x)
  PROVE  \E f \in AppLeaves \cup {"mac", "image_ref"} : q = AppPath(x.id) ++ f
<1> DEFINE p == AppPath(x.id)
           a == PutLeaves(p, AppLeaves, x)
           b == IF x.has_mac = 1 THEN PutLeaf(p ++ "mac", x.mac) ELSE << >>
           c == IF x.has_image = 1 THEN PutLeaf(p ++ "image_ref", x.image_ref) ELSE << >>
<1>1. q \in DOMAIN a \/ q \in DOMAIN b \/ q \in DOMAIN c
  BY DEF AppHeader, Union
<1>2. q \in DOMAIN a => \E f \in AppLeaves : q = p ++ f
  BY AppPlace, LeavesAre
<1>3. (q \in DOMAIN b => q = p ++ "mac") /\ (q \in DOMAIN c => q = p ++ "image_ref")
  BY DEF PutLeaf
<1> QED  BY <1>1, <1>2, <1>3

\* The first commit: the leaves are those sent, the parameters are gone, the
\* mapping stays, and so do the other applications.
LEMMA AppBegun ==
  ASSUME NEW s, Leafed(s), NEW x, IsApp(x)
  PROVE  LET t == AppHeaderWritten(s, x)
             p == AppPath(x.id)
         IN /\ OnlyIn({AppsPath}, s, t) /\ Keys(t, AppsPath) = Keys(s, AppsPath) \cup {x.id}
            /\ \A id : id # x.id => Alike(t, s, AppPath(id))
            /\ HeaderIs(t, x) /\ Blank(t, p ++ "parameters") /\ Alike(t, s, p ++ "stream_mapping")
<1> DEFINE p == AppPath(x.id)
           r == p ++ "parameters"
           u == Delete(s, {r})
           doc == AppHeader(x)
           t == Merge(u, doc)
<1>1. t = AppHeaderWritten(s, x)
  BY DEF AppHeaderWritten
<1>2. /\ AppsPath \in Roots /\ Path(AppsPath) /\ Path(p) /\ Path(r) /\ Below(AppsPath, p)
      /\ Below(AppsPath, r) /\ Below(p, r) /\ \A f : Path(p ++ f) /\ Below(p, p ++ f)
  BY AppPlace
<1>3. p = AppsPath ++ x.id /\ x.id \notin CaseNames
  BY DEF AppPath, IsApp
<1>4. /\ Under(doc, p) /\ Leafed(doc) /\ DOMAIN doc # {} /\ HeaderIs(doc, x)
      /\ \A f : f \notin AppLeaves \cup {"mac", "image_ref"} => Blank(doc, p ++ f)
  BY HeaderWritten
<1>5. Under(doc, AppsPath)
  BY <1>2, <1>3, <1>4, UnderFurther
<1>6. \A f : f # "parameters" => Split(p ++ f, r)
  <2>1. "parameters" \notin CaseNames
    BY DEF CaseNames
  <2> HIDE DEF p
  <2> QED  BY <1>2, <2>1, SiblingsSplit
<1> HIDE DEF doc, r
<1>7. OnlyIn({AppsPath}, s, u) /\ Leafed(u) /\ Blank(u, r)
  <2>1. \A q \in {r} : Path(q)
    BY <1>2
  <2>2. Leafed(u) /\ Blank(u, r)
    BY <2>1, DeleteLeaves
  <2> QED  BY <1>2, <2>2, InOne
<1>8. \A id : id # x.id => Alike(u, s, AppsPath ++ id)
  <2> DEFINE k == x.id
  <2>1. Below(AppsPath ++ k, r)
    BY <1>2, <1>3
  <2> HIDE DEF k, p
  <2>2. \A id : id # k => Alike(Delete(s, {r}), s, AppsPath ++ id)
    BY <1>2, <2>1, DeleteKey
  <2> QED  BY <2>2 DEF k
<1>9. \A id : id # x.id => (id \in Keys(u, AppsPath) <=> id \in Keys(s, AppsPath))
  BY <1>2, <1>7, <1>8, KeysBut
<1>10. \A f : f # "parameters" => Alike(u, s, p ++ f)
  BY <1>2, <1>6, DeleteElsewhereOne
<1> HIDE DEF u
<1>11. OnlyIn({AppsPath}, s, t)
  BY <1>2, <1>5, <1>7, InOne, InTurn
<1>12. /\ Keys(t, AppsPath) = Keys(u, AppsPath) \cup {x.id}
       /\ \A id : id # x.id => Alike(t, u, AppsPath ++ id)
  <2>1. Under(doc, AppsPath ++ x.id)
    BY <1>3, <1>4
  <2> QED  BY <1>2, <1>3, <1>4, <1>7, <2>1, MergeKey
<1>13. Keys(t, AppsPath) = Keys(s, AppsPath) \cup {x.id}
  BY <1>9, <1>12
<1>14. \A id : id # x.id => Alike(t, s, AppPath(id))
  BY <1>8, <1>12, AlikeTurns DEF AppPath
<1>15. HeaderIs(t, x)
  <2>1. \A f \in AppLeaves \cup {"mac", "image_ref"} : x[f] # Fail
    BY DEF IsApp, Filled
  <2>2. Holds(t, p, AppLeaves, x)
    BY <1>4, <1>7, <2>1, MergeHolds DEF HeaderIs
  <2>3. \A q \in DOMAIN doc : q \in DOMAIN t /\ t[q] = doc[q]
    BY <1>4, <1>7, MergeHas
  <2>4. ASSUME x.has_mac = 1 PROVE Get(t, p ++ "mac") = x.mac
    <3>1. Get(doc, p ++ "mac") = x.mac /\ x.mac # Fail
      BY <1>4, <2>1, <2>4 DEF HeaderIs
    <3> QED  BY <2>3, <3>1 DEF Get
  <2>5. ASSUME x.has_image = 1 PROVE Get(t, p ++ "image_ref") = x.image_ref
    <3>1. Get(doc, p ++ "image_ref") = x.image_ref /\ x.image_ref # Fail
      BY <1>4, <2>1, <2>5 DEF HeaderIs
    <3> QED  BY <2>3, <3>1 DEF Get
  <2> HIDE DEF t
  <2> QED  BY <2>2, <2>4, <2>5 DEF HeaderIs
<1>16. Blank(t, r)
  <2>1. Alike(t, doc, r)
    BY <1>2, <1>4, <1>7, MergeBlank
  <2>2. Blank(doc, r)
    BY <1>4 DEF AppLeaves, r
  <2> QED  BY <2>1, <2>2, AlikeBlank
<1>17. Alike(t, s, p ++ "stream_mapping")
  <2> DEFINE m == p ++ "stream_mapping"
  <2>1. Blank(doc, m) /\ Path(m)
    BY <1>2, <1>4 DEF AppLeaves
  <2>2. \A q \in DOMAIN doc : Split(m, q)
    <3>1. \A f \in AppLeaves \cup {"mac", "image_ref"} : Split(m, p ++ f)
      <4>1. "stream_mapping" \notin CaseNames
            /\ "stream_mapping" \notin AppLeaves \cup {"mac", "image_ref"}
        BY DEF CaseNames, AppLeaves
      <4> HIDE DEF p
      <4> QED  BY <1>2, <4>1, SiblingsSplit
    <3> QED  BY <3>1, HeaderLeaves DEF doc
  <2>3. Alike(t, u, m)
    BY <1>4, <1>7, <2>1, <2>2, MergeApart
  <2>4. Alike(u, s, m)
    BY <1>10
  <2> QED  BY <2>3, <2>4, AlikeTurns
<1> QED  BY <1>1, <1>11, <1>13, <1>14, <1>15, <1>16, <1>17 DEF r

\* The second commit: parameters and streams are added; an entry that is gone
\* is made again unless there is nothing to add.
LEMMA AppEnded ==
  ASSUME NEW s, Leafed(s), NEW x, IsApp(x), Blank(s, AppPath(x.id) ++ "parameters"),
         \A role \in Roles : x.stream_mapping[role] \cap CaseNames = {}
  PROVE  LET t == AppWritten(s, x)
             p == AppPath(x.id)
         IN /\ OnlyIn({AppsPath}, s, t)
            /\ \A id : id # x.id => Alike(t, s, AppPath(id))
            /\ \A f : f \notin {"parameters", "stream_mapping", "id"} => Alike(t, s, p ++ f)
            /\ ValuesHeld(t, p ++ "parameters", ParameterLeaves, x.parameters)
            /\ \A role \in Roles : Keys(t, p ++ "stream_mapping" ++ role) =
                 Keys(s, p ++ "stream_mapping" ++ role) \cup x.stream_mapping[role]
            /\ t # s => Keys(t, AppsPath) = Keys(s, AppsPath) \cup {x.id}
                        /\ Get(t, p ++ "id") = x.id
<1> DEFINE p == AppPath(x.id)
           pp == p ++ "parameters"
           pm == p ++ "stream_mapping"
           pk == p ++ "id"
           b == AppBody(x)
           w == WithKey(x)
           t == AppWritten(s, x)
           sm == x.stream_mapping
<1>1. IF b = << >> THEN t = s ELSE t = Merge(s, w)
  BY DEF AppWritten, AppBody, WithKey
<1>2. /\ AppsPath \in Roots /\ Path(AppsPath) /\ Path(p) /\ Below(AppsPath, p)
      /\ \A f : /\ Path(p ++ f) /\ Below(p, p ++ f)
                /\ \A g : Path(p ++ f ++ g) /\ Below(p ++ f, p ++ f ++ g)
  BY AppPlace
<1>3. p = AppsPath ++ x.id /\ x.id \notin CaseNames /\ x.id # Fail
  BY DEF AppPath, IsApp, Filled, AppLeaves
<1>4. \A d \in {b, w} :
              /\ Under(d, p) /\ Leafed(d)
              /\ ValuesHeld(d, pp, ParameterLeaves, x.parameters)
              /\ \A role \in Roles : Keys(d, pm ++ role) = sm[role]
              /\ \A q \in DOMAIN d :
                    \/ Below(pp, q)
                    \/ d = w /\ q = pk
                    \/ \E role \in Roles : \E v \in sm[role] : q = pm ++ role ++ v
              /\ d = w => pk \in DOMAIN d /\ d[pk] = x.id
  BY BodyWritten
<1>5. \A role \in Roles : sm[role] \cap CaseNames = {}
  OBVIOUS
<1>6. Keys(s, pp) = {}
  BY <1>2, BlankIs
<1> HIDE DEF b, w, t, sm
<1>7. ASSUME b = << >>
      PROVE  /\ OnlyIn({AppsPath}, s, t)
             /\ \A id : id # x.id => Alike(t, s, AppPath(id))
             /\ \A f : f \notin {"parameters", "stream_mapping", "id"} => Alike(t, s, p ++ f)
             /\ ValuesHeld(t, pp, ParameterLeaves, x.parameters)
             /\ \A role \in Roles : Keys(t, pm ++ role) = Keys(s, pm ++ role) \cup sm[role]
             /\ t # s => Keys(t, AppsPath) = Keys(s, AppsPath) \cup {x.id} /\ Get(t, pk) = x.id
  <2>1. t = s
    BY <1>1, <1>7
  <2>2. \A q : Path(q) => Alike(s, s, q)
    BY DEF Alike, Same
  <2>3. OnlyIn({AppsPath}, s, s)
    BY <2>2, RootsPart DEF OnlyIn
  <2>4. Leafed(b) /\ \A q : Path(q) => Keys(b, q) = {}
    <3>1. Leafed(<< >>) /\ \A q : Blank(<< >>, q)
      BY DEF Leafed, Blank
    <3> QED  BY <1>7, <3>1, BlankIs
  <2>5. ValuesHeld(b, pp, ParameterLeaves, x.parameters) /\ \A role \in Roles : Keys(b, pm ++ role) = sm[role]
    BY <1>4
  <2>6. DOMAIN x.parameters = {} /\ \A role \in Roles : sm[role] = {}
    BY <1>2, <2>4, <2>5 DEF ValuesHeld
  <2>7. ValuesHeld(s, pp, ParameterLeaves, x.parameters)
    BY <1>6, <2>6 DEF ValuesHeld
  <2>8. \A id : Path(AppPath(id))
    BY AppPlace
  <2> HIDE DEF p, pp, pm, pk
  <2> QED  BY <1>2, <2>1, <2>2, <2>3, <2>6, <2>7, <2>8
<1>8. ASSUME b # << >>
      PROVE  /\ OnlyIn({AppsPath}, s, t)
             /\ \A id : id # x.id => Alike(t, s, AppPath(id))
             /\ \A f : f \notin {"parameters", "stream_mapping", "id"} => Alike(t, s, p ++ f)
             /\ ValuesHeld(t, pp, ParameterLeaves, x.parameters)
             /\ \A role \in Roles : Keys(t, pm ++ role) = Keys(s, pm ++ role) \cup sm[role]
             /\ t # s => Keys(t, AppsPath) = Keys(s, AppsPath) \cup {x.id} /\ Get(t, pk) = x.id
  <2>1. t = Merge(s, w)
    BY <1>1, <1>8
  <2>2. /\ Under(w, p) /\ Leafed(w) /\ ValuesHeld(w, pp, ParameterLeaves, x.parameters)
        /\ \A role \in Roles : Keys(w, pm ++ role) = sm[role]
        /\ \A q \in DOMAIN w : \/ Below(pp, q) \/ q = pk
                               \/ \E role \in Roles : \E v \in sm[role] : q = pm ++ role ++ v
        /\ pk \in DOMAIN w /\ w[pk] = x.id
    BY <1>4
  <2>3. OnlyIn({AppsPath}, s, t)
    <3>1. Under(w, AppsPath)
      BY <1>2, <1>3, <2>2, UnderFurther
    <3> QED  BY <1>2, <2>1, <3>1, InOne
  <2>4. /\ \A id : id # x.id => Alike(t, s, AppsPath ++ id)
        /\ Keys(t, AppsPath) = Keys(s, AppsPath) \cup {x.id}
    <3> DEFINE k == x.id
    <3>1. Under(w, AppsPath ++ k) /\ k \notin CaseNames /\ DOMAIN w # {}
      BY <1>3, <2>2
    <3> HIDE DEF k, p
    <3>2. /\ \A id : id # k => Alike(Merge(s, w), s, AppsPath ++ id)
          /\ Keys(Merge(s, w), AppsPath) = Keys(s, AppsPath) \cup {k}
      BY <1>2, <3>1, MergeKey
    <3> QED  BY <2>1, <3>2 DEF k
  <2>5. ASSUME NEW f, f \notin {"parameters", "stream_mapping", "id"} PROVE Alike(t, s, p ++ f)
    <3>1. Split(p ++ f, pp) /\ Split(p ++ f, pm) /\ Split(p ++ f, pk)
      <4>1. "parameters" \notin CaseNames /\ "stream_mapping" \notin CaseNames /\ "id" \notin CaseNames
        BY DEF CaseNames
      <4> HIDE DEF p
      <4> QED  BY <1>2, <2>5, <4>1, SiblingsSplit
    <3>2. \A q \in DOMAIN w : Split(p ++ f, q)
      <4> SUFFICES ASSUME NEW q \in DOMAIN w PROVE Split(p ++ f, q)
        OBVIOUS
      <4>1. Path(q)
        BY <2>2 DEF Leafed
      <4>2. CASE Below(pp, q)
        BY <1>2, <3>1, <4>1, <4>2, SplitFurther
      <4>3. CASE q = pk
        BY <3>1, <4>3
      <4>4. CASE \E role \in Roles : \E v \in sm[role] : q = pm ++ role ++ v
        <5>1. PICK role \in Roles : \E v \in sm[role] : q = pm ++ role ++ v
          BY <4>4
        <5>2. PICK v \in sm[role] : q = pm ++ role ++ v
          BY <5>1
        <5>3. Path(pm) /\ Path(pm ++ role) /\ Below(pm, pm ++ role) /\ Below(pm ++ role, q)
          BY <1>2, <5>2, BelowIs
        <5>4. Below(pm, q)
          BY <4>1, <5>3, BelowOn
        <5> QED  BY <1>2, <3>1, <4>1, <5>3, <5>4, SplitFurther
      <4> QED  BY <2>2, <4>2, <4>3, <4>4
    <3> QED  BY <1>2, <2>1, <2>2, <3>2, MergeApart
  <2>6. ValuesHeld(t, pp, ParameterLeaves, x.parameters)
    <3>1. \A k : Alike(t, w, pp ++ k)
      BY <1>2, <1>6, <2>1, <2>2, MergeNoEntries
    <3> QED  BY <1>2, <2>2, <3>1, ValuesStay
  <2>7. ASSUME NEW role \in Roles PROVE Keys(t, pm ++ role) = Keys(s, pm ++ role) \cup sm[role]
    <3> DEFINE m == pm ++ role
    <3>1. Path(m) /\ Keys(w, m) = sm[role]
      BY <1>2, <2>2
    <3>2. ASSUME NEW k, k \notin Keys(w, m), NEW r \in DOMAIN w PROVE Split(m ++ k, r)
      <4>1. Path(r) /\ Path(m ++ k) /\ Below(m, m ++ k) /\ Below(pm, m ++ k)
        <5>1. Path(r) /\ Path(m ++ k) /\ Below(m, m ++ k) /\ Path(pm) /\ Below(pm, m)
          BY <1>2, <2>2, <3>1, Longer, BelowIs DEF Leafed
        <5> QED  BY <3>1, <5>1, BelowOn
      <4>2. Split(pm, pp) /\ Split(pm, pk)
        <5>1. "stream_mapping" \notin CaseNames
          BY DEF CaseNames
        <5> HIDE DEF p
        <5> QED  BY <1>2, <5>1, SiblingsSplit
      <4>3. Split(m ++ k, pp) /\ Split(m ++ k, pk)
        BY <1>2, <4>1, <4>2, SplitFurther
      <4>4. CASE Below(pp, r)
        BY <1>2, <4>1, <4>3, <4>4, SplitFurther
      <4>5. CASE r = pk
        BY <4>3, <4>5
      <4>6. CASE \E role2 \in Roles : \E v \in sm[role2] : r = pm ++ role2 ++ v
        <5>1. PICK role2 \in Roles : \E v \in sm[role2] : r = pm ++ role2 ++ v
          BY <4>6
        <5>2. PICK v \in sm[role2] : r = pm ++ role2 ++ v
          BY <5>1
        <5>3. CASE role2 = role
          <6>1. v # k /\ v \notin CaseNames
            BY <1>5, <3>1, <3>2, <5>2, <5>3
          <6> HIDE DEF m
          <6>2. Split(m ++ k, m ++ v)
            BY <3>1, <6>1, SiblingsSplit
          <6> QED  BY <5>2, <5>3, <6>2 DEF m
        <5>4. CASE role2 # role
          <6>1. Path(pm) /\ Path(pm ++ role2) /\ Below(pm ++ role2, r)
            BY <1>2, <5>2, BelowIs
          <6>2. role \notin CaseNames
            BY DEF Roles, CaseNames
          <6> HIDE DEF pm
          <6>3. Split(pm ++ role, pm ++ role2)
            BY <5>4, <6>1, <6>2, SiblingsSplit
          <6>4. Split(m ++ k, pm ++ role2)
            BY <3>1, <4>1, <6>1, <6>3, SplitFurther
          <6> QED  BY <4>1, <6>1, <6>4, SplitFurther
        <5> QED  BY <5>3, <5>4
      <4> QED  BY <2>2, <4>4, <4>5, <4>6
    <3> HIDE DEF m
    <3>3. Keys(Merge(s, w), m) = Keys(s, m) \cup Keys(w, m)
      BY <2>2, <3>1, <3>2, MergeKeys
    <3> QED  BY <2>1, <3>1, <3>3 DEF m
  <2>8. Get(t, pk) = x.id
    BY <2>1, <2>2, MergeHas DEF Get
  <2>9. \A id : id # x.id => Alike(t, s, AppPath(id))
    BY <2>4 DEF AppPath
  <2> HIDE DEF p, pp, pm, pk
  <2> QED  BY <2>3, <2>4, <2>5, <2>6, <2>7, <2>8, <2>9
<1> HIDE DEF p
<1> QED  BY <1>7, <1>8 DEF p, pp, pm, pk, t, sm

\* Deleting an application leaves nothing of it.
LEMMA AppRemoved ==
  ASSUME NEW s, Leafed(s), NEW id
  PROVE  LET t == RemoveApplicationApp(s, id)
         IN /\ OnlyIn({AppsPath}, s, t) /\ Keys(t, AppsPath) = Keys(s, AppsPath) \ {id}
            /\ \A j : j # id => Alike(t, s, AppPath(j))
            /\ Blank(t, AppPath(id))
<1> DEFINE p == AppPath(id)
           t == Delete(s, {p})
<1>1. t = RemoveApplicationApp(s, id)
  BY DEF RemoveApplicationApp
<1>2. /\ AppsPath \in Roots /\ Path(AppsPath) /\ Path(p) /\ Below(AppsPath, p)
      /\ p = AppsPath ++ id
  BY AppPlace DEF AppPath
<1>3. OnlyIn({AppsPath}, s, t)
  BY <1>2, InOne
<1>4. Below(AppsPath ++ id, p)
  BY <1>2, BelowIs
<1> HIDE DEF p
<1>5. /\ Blank(t, p) /\ Keys(t, AppsPath) = Keys(s, AppsPath) \ {id}
      /\ \A j : j # id => Alike(t, s, AppsPath ++ j)
  BY <1>2, <1>4, DeleteKey
<1> HIDE DEF t
<1> QED  BY <1>1, <1>3, <1>5 DEF AppPath, p

\* What the deletion of a stream has read of the applications.
LEMMA AppsRead ==
  ASSUME NEW s, NEW apps \in AppsLeft(s)
  PROVE  /\ DOMAIN apps \subseteq Keys(s, AppsPath)
         /\ \A a \in DOMAIN apps :
               /\ ReadApp(s, AppPath(a)) \notin {Fail, Crash}
               /\ \A role \in Roles : apps[a].stream_mapping[role] =
                     Keys(s, AppPath(a) ++ "stream_mapping" ++ role)
               /\ Get(s, AppPath(a) ++ "id") # Fail
         /\ MarksApart /\ (\A a \in Keys(s, AppsPath) : ReadApp(s, AppPath(a)) # Fail) =>
               DOMAIN apps = Keys(s, AppsPath)
<1> DEFINE F == [a \in Keys(s, AppsPath) |-> ReadApp(s, AppPath(a))]
           fine == {a \in DOMAIN F : F[a] \notin {Fail, Crash}}
<1>1. ReadApps(s) = Whole(F)
  BY DEF ReadApps, Entries, AppPath
<1>2. /\ DOMAIN apps \subseteq DOMAIN F
      /\ \A a \in DOMAIN apps : apps[a] = F[a] /\ F[a] \notin {Fail, Crash}
      /\ MarksApart /\ (\A a \in DOMAIN F : F[a] # Fail) => DOMAIN apps = DOMAIN F
  <2>1. CASE ReadApps(s) = Fail
    <3>1. PICK read \in SUBSET fine : apps = [a \in read |-> F[a]]
      BY <2>1 DEF AppsLeft
    <3>2. MarksApart => \E a \in DOMAIN F : F[a] = Fail
      <4>1. F = [a \in DOMAIN F |-> F[a]]
        OBVIOUS
      <4> HIDE DEF F
      <4> QED  BY <1>1, <2>1, <4>1, ReadWhole
    <3> HIDE DEF F
    <3> QED  BY <3>1, <3>2
  <2>2. CASE ReadApps(s) \notin {Fail, Crash}
    <3>1. apps = ReadApps(s)
      BY <2>2 DEF AppsLeft
    <3> HIDE DEF F
    <3> QED  BY <1>1, <2>2, <3>1, WholeIs
  <2>3. ReadApps(s) # Crash
    BY MarksDistinct DEF AppsLeft
  <2> QED  BY <2>1, <2>2, <2>3
<1>3. ASSUME NEW a \in Keys(s, AppsPath), F[a] \notin {Fail, Crash}
      PROVE  /\ \A role \in Roles : F[a].stream_mapping[role] =
                     Keys(s, AppPath(a) ++ "stream_mapping" ++ role)
             /\ Get(s, AppPath(a) ++ "id") # Fail
  <2> DEFINE p == AppPath(a)
             parts == [mac |-> IF Get(s, p ++ "has_mac") = 1 THEN Get(s, p ++ "mac") ELSE Null,
                       image_ref |-> IF Get(s, p ++ "has_image") = 1 THEN Get(s, p ++ "image_ref")
                                     ELSE Null,
                       parameters |-> Entries(s, p ++ "parameters", ReadAppParameter),
                       stream_mapping |-> ReadAppStreamMapping(s, p ++ "stream_mapping")]
             G == [f \in AppLeaves \cup DOMAIN parts |->
                     IF f \in AppLeaves THEN Get(s, p ++ f) ELSE parts[f]]
  <2>1. F[a] = Whole(G)
    BY DEF ReadApp, Struct
  <2>2. F[a] \notin {Fail, Crash}
    BY <1>3
  <2>3. F[a] = G /\ \A f \in DOMAIN G : G[f] # Fail
    <3> HIDE DEF G, F
    <3> QED  BY <2>1, <2>2, WholeIs
  <2>4. "stream_mapping" \notin AppLeaves /\ "id" \in AppLeaves
    BY DEF AppLeaves
  <2>5. G["stream_mapping"] = ReadAppStreamMapping(s, p ++ "stream_mapping")
    BY <2>4
  <2>6. G["id"] = Get(s, p ++ "id") /\ "id" \in DOMAIN G
    BY <2>4
  <2> HIDE DEF G, F
  <2> QED  BY <2>3, <2>5, <2>6 DEF ReadAppStreamMapping, Roles
<1> QED  BY <1>2, <1>3

\* Whoever is mapped to a stream is an application.
LEMMA MappedExists ==
  ASSUME NEW s, Leafed(s), NEW a, NEW role \in Roles,
         NEW k \in Keys(s, AppPath(a) ++ "stream_mapping" ++ role)
  PROVE  a \in Keys(s, AppsPath)
<1> DEFINE m == AppPath(a) ++ "stream_mapping" ++ role
           pm == AppPath(a) ++ "stream_mapping"
<1>1. /\ Path(AppsPath) /\ Path(AppPath(a)) /\ Path(pm) /\ Below(AppPath(a), pm)
      /\ Path(m) /\ Below(pm, m)
  BY AppPlace, RootsPart DEF Roots
<1>2. Below(AppPath(a), m)
  BY <1>1, BelowOn
<1> HIDE DEF m, pm
<1>3. PICK q \in DOMAIN s : Below(m ++ k, q)
  BY <1>1, KeysAre DEF m
<1>4. Path(q) /\ Below(m, q)
  BY <1>1, <1>3, BelowLonger DEF Leafed
<1>5. Below(AppsPath ++ a, q)
  BY <1>1, <1>2, <1>4, BelowOn DEF AppPath
<1> QED  BY <1>1, <1>4, <1>5, KeysAre

\* The mappings of the applications that were read lose the stream, and the
\* stream is gone; nothing else is.
LEMMA StreamTaken ==
  ASSUME NEW s, Leafed(s), NEW apps \in AppsLeft(s), NEW id
  PROVE  LET t == DeleteStream(s, apps, id)
         IN /\ OnlyIn({StreamsPath, AppsPath}, s, t)
            /\ Keys(t, StreamsPath) = Keys(s, StreamsPath) \ {id}
            /\ Keys(t, AppsPath) = Keys(s, AppsPath)
            /\ \A a, f : f # "stream_mapping" => Alike(t, s, AppPath(a) ++ f)
            /\ \A a : \A role \in Roles : Keys(t, AppPath(a) ++ "stream_mapping" ++ role) =
                  Keys(s, AppPath(a) ++ "stream_mapping" ++ role)
                    \ (IF a \in Keys(s, AppsPath) \ DOMAIN apps THEN {} ELSE {id})
<1> DEFINE pm(a) == AppPath(a) ++ "stream_mapping"
           r == StreamPath(id)
           E == MappingEntries(apps, id) \cup {r}
           t == Delete(s, E)
<1>1. t = DeleteStream(s, apps, id)
  BY DEF DeleteStream
<1>2. \A q : q \in E <=> \/ q = r
                         \/ \E a \in DOMAIN apps : \E role \in Roles :
                               id \in Keys(s, pm(a) ++ role) /\ q = pm(a) ++ role ++ id
  <2>1. \A a \in DOMAIN apps : \A role \in Roles :
              apps[a].stream_mapping[role] = Keys(s, pm(a) ++ role)
    BY AppsRead
  <2>2. MappingEntries(apps, id) =
          UNION {{pm(a) ++ role ++ id : role \in {i \in Roles : id \in apps[a].stream_mapping[i]}} :
                 a \in DOMAIN apps}
    BY DEF MappingEntries, Roles
  <2> HIDE DEF pm, r
  <2> QED  BY <2>1, <2>2
<1>3. /\ AppsPath \in Roots /\ Path(AppsPath) /\ StreamsPath \in Roots /\ Path(StreamsPath)
      /\ \A a : Path(AppPath(a)) /\ Below(AppsPath, AppPath(a))
  BY AppPlace, RootsPart DEF Roots
<1>4. /\ Path(r) /\ Below(StreamsPath, r) /\ r = StreamsPath ++ id
  BY <1>3, Longer, BelowIs DEF StreamPath
<1>5. \A a, role : /\ Path(pm(a)) /\ Path(pm(a) ++ role) /\ Path(pm(a) ++ role ++ id)
                   /\ Below(AppPath(a), pm(a)) /\ Below(pm(a), pm(a) ++ role)
                   /\ Below(pm(a) ++ role, pm(a) ++ role ++ id)
                   /\ Below(AppsPath, pm(a) ++ role ++ id)
  <2> SUFFICES ASSUME NEW a, NEW role
               PROVE  /\ Path(pm(a)) /\ Path(pm(a) ++ role) /\ Path(pm(a) ++ role ++ id)
                      /\ Below(AppPath(a), pm(a)) /\ Below(pm(a), pm(a) ++ role)
                      /\ Below(pm(a) ++ role, pm(a) ++ role ++ id)
                      /\ Below(AppsPath, pm(a) ++ role ++ id)
    OBVIOUS
  <2>1. /\ Path(pm(a)) /\ Below(AppPath(a), pm(a)) /\ Path(pm(a) ++ role)
        /\ Below(pm(a), pm(a) ++ role) /\ Below(AppPath(a), pm(a) ++ role)
    BY AppPlace
  <2>2. Path(pm(a) ++ role ++ id) /\ Below(pm(a) ++ role, pm(a) ++ role ++ id)
    <3> HIDE DEF pm
    <3> QED  BY <2>1, Longer, BelowIs
  <2>3. Below(AppPath(a), pm(a) ++ role ++ id)
    <3> HIDE DEF pm
    <3> QED  BY <1>3, <2>1, <2>2, BelowOn
  <2>4. Below(AppsPath, pm(a) ++ role ++ id)
    <3> HIDE DEF pm
    <3> QED  BY <1>3, <2>2, <2>3, BelowOn
  <2> QED  BY <2>1, <2>2, <2>4
<1> HIDE DEF E, r, pm
<1>6. \A q \in E : Path(q) /\ \E R \in {StreamsPath, AppsPath} : Below(R, q)
  BY <1>2, <1>4, <1>5
<1>7. OnlyIn({StreamsPath, AppsPath}, s, t)
  BY <1>3, <1>6, DeleteIn
<1>8. /\ Leafed(t) /\ \A q : q \in DOMAIN t <=> q \in DOMAIN s /\ \A e \in E : ~Below(e, q)
      /\ \A q \in DOMAIN t : t[q] = s[q]
  BY <1>6, DeleteLeaves
<1> HIDE DEF t
<1>9. StreamsPath # AppsPath /\ Split(StreamsPath, AppsPath) /\ Split(AppsPath, StreamsPath)
  <2>1. StreamsPath[1] = "streams" /\ AppsPath[1] = "application"
    BY DEF StreamsPath, AppsPath
  <2> QED  BY <1>3, <2>1, RootsPart
<1>10. Keys(t, StreamsPath) = Keys(s, StreamsPath) \ {id}
  <2>1. ASSUME NEW k PROVE k \in Keys(t, StreamsPath) <=> k \in Keys(s, StreamsPath) /\ k # id
    <3>1. /\ k \in Keys(t, StreamsPath) <=> \E q \in DOMAIN t : Below(StreamsPath ++ k, q)
          /\ k \in Keys(s, StreamsPath) <=> \E q \in DOMAIN s : Below(StreamsPath ++ k, q)
      BY <1>3, <1>8, KeysAre
    <3>2. ASSUME NEW q \in DOMAIN s, Below(StreamsPath ++ k, q), k # id PROVE \A e \in E : ~Below(e, q)
      <4>1. Path(q) /\ Below(StreamsPath, q)
        BY <1>3, <3>2, BelowLonger DEF Leafed
      <4>2. ~Below(r, q)
        BY <1>3, <1>4, <3>2, Siblings
      <4>3. ASSUME NEW e \in E, Below(e, q), Below(AppsPath, e) PROVE FALSE
        <5>1. Below(AppsPath, q)
          BY <1>3, <1>6, <4>1, <4>3, BelowOn
        <5> QED  BY <1>3, <1>9, <4>1, <5>1, SplitKeeps
      <4> QED  BY <1>2, <1>5, <4>2, <4>3
    <3>3. ASSUME NEW q \in DOMAIN t, Below(StreamsPath ++ k, q) PROVE k # id
      BY <1>2, <1>4, <1>8, <3>3
    <3> QED  BY <1>8, <3>1, <3>2, <3>3
  <2> QED  BY <2>1
<1>11. ASSUME NEW a, NEW q, Path(q), Below(AppPath(a), q), NEW e \in E, Below(e, q)
       PROVE  /\ a \in DOMAIN apps
              /\ \E role \in Roles : id \in Keys(s, pm(a) ++ role) /\ e = pm(a) ++ role ++ id
  <2>1. Below(AppsPath, q)
    BY <1>3, <1>11, BelowOn
  <2>2. e # r
    <3>1. ASSUME Below(r, q) PROVE FALSE
      <4>1. Below(StreamsPath, q)
        BY <1>3, <1>4, <1>11, <3>1, BelowOn
      <4> QED  BY <1>3, <1>9, <1>11, <2>1, <4>1, SplitKeeps
    <3> QED  BY <1>11, <3>1
  <2>3. PICK b \in DOMAIN apps : \E role \in Roles :
           id \in Keys(s, pm(b) ++ role) /\ e = pm(b) ++ role ++ id
    BY <1>2, <2>2
  <2>4. Below(AppPath(b), e) /\ Path(e)
    <3>1. PICK role \in Roles : e = pm(b) ++ role ++ id
      BY <2>3
    <3>2. Below(AppPath(b), pm(b) ++ role)
      BY <1>3, <1>5, BelowOn
    <3> QED  BY <1>3, <1>5, <3>1, <3>2, BelowOn
  <2>5. Below(AppPath(b), q)
    BY <1>3, <1>11, <2>4, BelowOn
  <2>6. a = b
    BY <1>3, <1>11, <2>5, Siblings DEF AppPath
  <2> QED  BY <2>3, <2>6
<1>12. ASSUME NEW a, NEW f, f # "stream_mapping" PROVE Alike(t, s, AppPath(a) ++ f)
  <2>1. Path(AppPath(a) ++ f) /\ Below(AppPath(a), AppPath(a) ++ f)
    BY AppPlace
  <2>2. ASSUME NEW q, Path(q), Below(AppPath(a) ++ f, q), NEW e \in E, Below(e, q) PROVE FALSE
    <3>1. Below(AppPath(a), q)
      BY <1>3, <2>1, <2>2, BelowOn
    <3>2. PICK role \in Roles : e = pm(a) ++ role ++ id
      BY <1>11, <2>2, <3>1
    <3>3. Below(pm(a), e)
      BY <1>5, <3>2, BelowOn
    <3>4. Below(pm(a), q)
      BY <1>5, <1>6, <2>2, <3>3, BelowOn
    <3> QED  BY <1>3, <1>12, <2>2, <3>4, Siblings DEF pm
  <2>3. Same(t, s, AppPath(a) ++ f)
    BY <1>8, <2>2 DEF Same
  <2> QED  BY <1>8, <2>1, <2>3 DEF Alike
<1>13. ASSUME NEW a, NEW role \in Roles
       PROVE  /\ id \in Keys(s, pm(a) ++ role) => a \in Keys(s, AppsPath)
              /\ \A k : k \in Keys(t, pm(a) ++ role) <=>
                    k \in Keys(s, pm(a) ++ role) /\ (k # id \/ a \notin DOMAIN apps)
  <2> DEFINE m == pm(a) ++ role
  <2>1. Path(m) /\ Below(AppPath(a), m)
    BY <1>3, <1>5, BelowOn
  <2>2. id \in Keys(s, m) => a \in Keys(s, AppsPath)
    BY MappedExists DEF pm
  <2>3. ASSUME NEW k
        PROVE  k \in Keys(t, m) <=> k \in Keys(s, m) /\ (k # id \/ a \notin DOMAIN apps)
    <3> HIDE DEF m
    <3>1. /\ k \in Keys(t, m) <=> \E q \in DOMAIN t : Below(m ++ k, q)
          /\ k \in Keys(s, m) <=> \E q \in DOMAIN s : Below(m ++ k, q)
      BY <1>8, <2>1, KeysAre
    <3>2. ASSUME NEW q \in DOMAIN s, Below(m ++ k, q), k # id \/ a \notin DOMAIN apps,
                 NEW e \in E, Below(e, q)
          PROVE  FALSE
      <4>1. Path(q) /\ Below(m, q)
        BY <2>1, <3>2, BelowLonger DEF Leafed
      <4>2. Below(AppPath(a), q)
        BY <1>3, <2>1, <4>1, BelowOn
      <4>3. a \in DOMAIN apps /\ \E role2 \in Roles : e = pm(a) ++ role2 ++ id
        BY <1>11, <3>2, <4>1, <4>2
      <4>4. PICK role2 \in Roles : e = pm(a) ++ role2 ++ id
        BY <4>3
      <4>5. Below(pm(a) ++ role2, q)
        BY <1>5, <1>6, <3>2, <4>1, <4>4, BelowOn
      <4>6. role2 = role
        BY <1>5, <4>1, <4>5, Siblings DEF m
      <4>7. e = m ++ id
        BY <4>4, <4>6 DEF m
      <4> QED  BY <2>1, <3>2, <4>3, <4>7, Siblings
    <3>3. ASSUME NEW q \in DOMAIN t, Below(m ++ id, q), k = id, a \in DOMAIN apps PROVE FALSE
      <4>1. q \in DOMAIN s /\ Path(q) /\ Below(m, q)
        BY <1>8, <2>1, <3>3, BelowLonger DEF Leafed
      <4>2. id \in Keys(s, m)
        BY <2>1, <3>3, <4>1, KeysAre
      <4>3. m ++ id \in E
        BY <1>2, <3>3, <4>2 DEF m
      <4> QED  BY <1>8, <3>3, <4>3
    <3> QED  BY <1>8, <3>1, <3>2, <3>3
  <2> QED  BY <2>2, <2>3 DEF m
<1>14. Keys(t, AppsPath) = Keys(s, AppsPath)
  <2>1. ASSUME NEW a \in Keys(t, AppsPath) PROVE a \in Keys(s, AppsPath)
    BY <1>3, <1>8, <2>1, KeysAre
  <2>2. ASSUME NEW a \in Keys(s, AppsPath) PROVE a \in Keys(t, AppsPath)
    <3>1. CASE a \in DOMAIN apps
      <4>1. Get(s, AppPath(a) ++ "id") # Fail
        BY <3>1, AppsRead
      <4>2. Get(t, AppPath(a) ++ "id") # Fail
        BY <1>12, <4>1, AlikeRead
      <4> QED  BY <1>3, <1>8, <4>2, LeafMakesKey DEF AppPath
    <3>2. CASE a \notin DOMAIN apps
      <4>1. PICK q \in DOMAIN s : Below(AppsPath ++ a, q)
        BY <1>3, <1>8, <2>2, KeysAre
      <4>2. Path(q) /\ \A e \in E : ~Below(e, q)
        BY <1>11, <3>2, <4>1 DEF AppPath, Leafed
      <4> QED  BY <1>3, <1>8, <4>1, <4>2, KeysAre
    <3> QED  BY <3>1, <3>2
  <2> QED  BY <2>1, <2>2
<1>15. ASSUME NEW a, NEW role \in Roles
       PROVE  Keys(t, pm(a) ++ role) = Keys(s, pm(a) ++ role)
                \ (IF a \in Keys(s, AppsPath) \ DOMAIN apps THEN {} ELSE {id})
  <2>1. DOMAIN apps \subseteq Keys(s, AppsPath)
    BY AppsRead
  <2> QED  BY <1>13, <2>1
<1> QED  BY <1>1, <1>7, <1>10, <1>12, <1>14, <1>15 DEF pm

(***************************************************************************)
(* The invariant                                                           *)
(***************************************************************************)
\* What is sent has the members of its structure.
AppFields == AppLeaves \cup {"mac", "image_ref", "parameters", "stream_mapping"}
SentApp(x) ==
  /\ IsApp(x) /\ x = [f \in AppFields |-> x[f]]
  /\ x.has_mac # 1 => x.mac = Null
  /\ x.has_image # 1 => x.image_ref = Null

DeviceFields == EnddeviceLeaves \cup {"apps"}
SentDevice(x) ==
  /\ IsDevice(x) /\ x = [f \in DeviceFields |-> x[f]]
  /\ x.has_app # 1 => x.apps = Undefined
SentDevices(x) ==
  x = [m \in DOMAIN x |-> x[m]] /\ \A m \in DOMAIN x : SentDevice(x[m])

GraphFields == Connection \cup {"id"}
SentGraph(x) ==
  /\ IsGraph(x) /\ x = [c \in DOMAIN x |-> x[c]]
  /\ \A c \in DOMAIN x : x[c] = [f \in GraphFields |-> x[c][f]]

\* An application whose parameters are there, or are gone while cut.
AppIs(s, x, cut) ==
  /\ HeaderIs(s, x)
  /\ IF cut THEN Blank(s, AppPath(x.id) ++ "parameters")
     ELSE ValuesHeld(s, AppPath(x.id) ++ "parameters", ParameterLeaves, x.parameters)

BookFields == {"apps", "mappings", "data", "devices", "graph", "images", "cut", "torn"}

\* The data of the module: those sent last, or none between the commits.
DataInv ==
  /\ ModuleIs(store, IF <<"data">> \in book.cut THEN << >> ELSE book.data)
  /\ AreValues(book.data, DataLeaves)
  /\ half.call = "data" => half.data = book.data /\ <<"data">> \in book.cut

\* The topology: devices and graph as sent last, and nothing unreadable.
TopologyInv ==
  /\ DevicesAre(store, book.devices) /\ SentDevices(book.devices)
  /\ GraphIs(store, book.graph) /\ SentGraph(book.graph)
  /\ SwitchesRead(store)

ImagesInv == ImagesAre(store, book.images) /\ book.images \cap {Fail, Crash} = {}

\* The applications: each that was sent is there, and those that got only
\* the second commit have no name; between its commits an application that
\* is still there has no parameters.
AppsInv ==
  /\ Keys(store, AppsPath) = DOMAIN book.apps \cup book.torn
  /\ DOMAIN book.apps \cap book.torn = {}
  /\ \A id \in DOMAIN book.apps :
        /\ book.apps[id].id = id /\ SentApp(book.apps[id])
        /\ AppIs(store, book.apps[id], Cut(id))
  /\ \A id \in book.torn : Get(store, AppPath(id) ++ "name") = Fail
  /\ \A id : MappingIs(store, id, Mapping(id))
  /\ half.call = "app" =>
        /\ SentApp(half.app) /\ half.app.id \notin book.torn
        /\ Blank(store, AppPath(half.app.id) ++ "parameters")
        /\ half.app.id \in DOMAIN book.apps => book.apps[half.app.id] = half.app /\ Cut(half.app.id)

IInv ==
  /\ Leafed(store) /\ Valid(store) /\ Keys(store, StreamsPath) \subseteq StreamIds
  /\ DOMAIN book = BookFields
  /\ DataInv /\ TopologyInv /\ ImagesInv /\ AppsInv

(***************************************************************************)
(* What the documents give                                                 *)
(***************************************************************************)
\* An application that is understood has its members.
LEMMA AppSent ==
  ASSUME NEW d \in AppDocuments, DeserializeApp(d) # Null
  PROVE  SentApp(DeserializeApp(d))
<1> DEFINE x == DeserializeApp(d)
           F == [f \in AppFields |->
             CASE f = "id" -> IF f \in DOMAIN d THEN d[f] ELSE NewId(d["name"], d["version"])
               [] f = "mac" -> IF d["has-mac"] = 1 THEN d[f] ELSE Null
               [] f = "image_ref" -> IF d["has-image"] = 1 THEN d["image-ref"] ELSE Null
               [] f = "parameters" -> Array(DeserializeAppParameter, d[f])
               [] f = "stream_mapping" -> DeserializeAppStreamMapping(d["stream-mapping"])
               [] OTHER -> d[Name(f)]]
<1>1. IsApp(x)
  BY DocumentsTyped
<1>2. AppFields = {"id", "name", "version", "description", "has_mac", "mac", "iface",
                 "has_image", "image_ref", "parameters", "stream_mapping"}
  BY DEF AppFields, AppLeaves
<1>3. x = F
  BY <1>2 DEF DeserializeApp
<1>4. Name("has_mac") = "has-mac" /\ Name("has_image") = "has-image"
  BY DEF Name, Dashed
<1>5. /\ "mac" \in AppFields /\ "image_ref" \in AppFields
      /\ "has_mac" \in AppFields /\ "has_image" \in AppFields
  BY <1>2
<1>6. /\ x["has_mac"] = d["has-mac"] /\ x["has_image"] = d["has-image"]
  BY <1>3, <1>4, <1>5
<1>7. /\ x["mac"] = IF d["has-mac"] = 1 THEN d["mac"] ELSE Null
      /\ x["image_ref"] = IF d["has-image"] = 1 THEN d["image-ref"] ELSE Null
  BY <1>3, <1>5
<1>8. x = [f \in AppFields |-> x[f]]
  BY <1>3
<1> HIDE DEF x
<1> QED  BY <1>1, <1>6, <1>7, <1>8 DEF SentApp, x

\* So has an end device.
LEMMA DeviceSent ==
  ASSUME NEW d, IsDevice(DeserializeEnddevice(d))
  PROVE  SentDevice(DeserializeEnddevice(d))
<1> DEFINE x == DeserializeEnddevice(d)
           F == [f \in DeviceFields |->
        IF f # "apps" THEN d[Name(f)]
        ELSE IF d["has-app"] = 1 THEN {DeserializeEnddeviceAppRef(a) : a \in d["apps"]}
        ELSE Undefined]
<1>1. DeviceFields = {"name", "mac", "iface", "num_cores", "interface_uri", "has_app", "apps"}
  BY DEF DeviceFields, EnddeviceLeaves
<1>2. x = F
  BY <1>1 DEF DeserializeEnddevice
<1>3. Name("has_app") = "has-app"
  BY DEF Name, Dashed
<1>4. "has_app" \in DeviceFields /\ "apps" \in DeviceFields
  BY <1>1
<1>5. /\ x["has_app"] = d["has-app"]
      /\ x["apps"] = IF d["has-app"] = 1 THEN {DeserializeEnddeviceAppRef(a) : a \in d["apps"]}
                     ELSE Undefined
  BY <1>2, <1>3, <1>4
<1>6. x = [f \in DeviceFields |-> x[f]]
  BY <1>2
<1> HIDE DEF x
<1> QED  BY <1>5, <1>6 DEF SentDevice, x

\* And a graph.
LEMMA GraphSent ==
  ASSUME NEW d, IsGraph(DeserializeGraph(d))
  PROVE  SentGraph(DeserializeGraph(d))
<1> DEFINE x == DeserializeGraph(d)
           o == d["connections"]
<1>1. x = [c \in DOMAIN o |-> DeserializeConnection(o[c])]
  BY DEF DeserializeGraph, Array
<1>2. ASSUME NEW e PROVE DeserializeConnection(e) = [f \in GraphFields |-> DeserializeConnection(e)[f]]
  <2> DEFINE r == Record(e, {"id", "from_mac", "from_port", "to_mac", "to_port"})
  <2>1. DOMAIN r = {"id", "from_mac", "from_port", "to_mac", "to_port"}
    BY DEF Record
  <2>2. GraphFields = {"id", "from_mac", "from_port", "to_mac", "to_port"}
    BY DEF GraphFields, Connection
  <2>3. DeserializeConnection(e) = [r EXCEPT !.id = @ % 2^16]
    BY DEF DeserializeConnection
  <2> HIDE DEF r
  <2> QED  BY <2>1, <2>2, <2>3
<1> HIDE DEF o
<1>3. x = [c \in DOMAIN x |-> x[c]] /\ \A c \in DOMAIN x : x[c] = [f \in GraphFields |-> x[c][f]]
  BY <1>1, <1>2
<1> QED  BY <1>3 DEF SentGraph

(***************************************************************************)
(* The parts of the invariant that a step leaves alone                     *)
(***************************************************************************)
\* An application stays where its leaves and its parameters stay.
LEMMA AppStays ==
  ASSUME NEW s, NEW t, NEW x, NEW cut, AppIs(s, x, cut),
         \A f : f # "stream_mapping" => Alike(t, s, AppPath(x.id) ++ f)
  PROVE  AppIs(t, x, cut)
<1> DEFINE p == AppPath(x.id)
           pp == p ++ "parameters"
<1>1. \A f : f # "stream_mapping" => Get(t, p ++ f) = Get(s, p ++ f)
  BY AlikeRead
<1>2. Alike(t, s, pp)
  OBVIOUS
<1> HIDE DEF pp
<1>3. "stream_mapping" \notin AppLeaves
  BY DEF AppLeaves
<1>4. HeaderIs(t, x)
  <2>1. Holds(t, p, AppLeaves, x)
    BY <1>1, <1>3 DEF AppIs, HeaderIs, Holds
  <2>2. Get(t, p ++ "mac") = Get(s, p ++ "mac") /\ Get(t, p ++ "image_ref") = Get(s, p ++ "image_ref")
    BY <1>1
  <2>3. HeaderIs(s, x)
    BY DEF AppIs
  <2> QED  BY <2>1, <2>2, <2>3 DEF HeaderIs
<1>5. CASE cut
  <2>1. Blank(s, pp)
    BY <1>5 DEF AppIs, pp
  <2>2. Blank(t, pp)
    BY <1>2, <2>1, AlikeBlank
  <2> QED  BY <1>4, <1>5, <2>2 DEF AppIs, pp
<1>6. CASE ~cut
  <2>1. ValuesHeld(s, pp, ParameterLeaves, x.parameters)
    BY <1>6 DEF AppIs, pp
  <2>2. Path(pp) /\ \A k : Alike(t, s, pp ++ k)
    BY <1>2, AlikeFurther DEF Alike
  <2>3. ValuesHeld(t, pp, ParameterLeaves, x.parameters)
    BY <2>1, <2>2, ValuesStay
  <2> QED  BY <1>4, <1>6, <2>3 DEF AppIs, pp
<1> QED  BY <1>5, <1>6

\* A mapping stays where its streams stay.
LEMMA MappingStays ==
  ASSUME NEW s, NEW t, NEW id, NEW m, MappingIs(s, id, m),
         Alike(t, s, AppPath(id) ++ "stream_mapping")
  PROVE  MappingIs(t, id, m)
<1> DEFINE pm == AppPath(id) ++ "stream_mapping"
<1>1. \A role : Keys(t, pm ++ role) = Keys(s, pm ++ role)
  BY AlikeFurther, AlikeRead
<1> QED  BY <1>1 DEF MappingIs

\* The references of the applications still have their targets.
LEMMA ValidStays ==
  ASSUME NEW s, Valid(s), NEW t, Keys(t, AppsPath) \subseteq Keys(s, AppsPath),
         Keys(s, ImagesPath) \subseteq Keys(t, ImagesPath), NEW gone,
         Keys(s, StreamsPath) \ gone \subseteq Keys(t, StreamsPath),
         \A a \in Keys(t, AppsPath) :
            /\ Alike(t, s, AppPath(a) ++ "image_ref")
            /\ \A role \in Roles :
                  Keys(t, AppPath(a) ++ "stream_mapping" ++ role) \subseteq
                    Keys(s, AppPath(a) ++ "stream_mapping" ++ role) \ gone
  PROVE  Valid(t)
<1> SUFFICES ASSUME NEW a \in Keys(t, AppsPath)
             PROVE  /\ AppPath(a) ++ "image_ref" \in DOMAIN t =>
                         t[AppPath(a) ++ "image_ref"] \in Keys(t, ImagesPath)
                    /\ \A role \in Roles : Keys(t, AppPath(a) ++ "stream_mapping" ++ role)
                                             \subseteq Keys(t, StreamsPath)
  BY DEF Valid, Roles
<1>1. /\ AppPath(a) ++ "image_ref" \in DOMAIN s =>
           s[AppPath(a) ++ "image_ref"] \in Keys(s, ImagesPath)
      /\ \A role \in Roles : Keys(s, AppPath(a) ++ "stream_mapping" ++ role)
                               \subseteq Keys(s, StreamsPath)
  BY DEF Valid, Roles
<1>2. ASSUME AppPath(a) ++ "image_ref" \in DOMAIN t
      PROVE  t[AppPath(a) ++ "image_ref"] \in Keys(t, ImagesPath)
  <2> DEFINE p == AppPath(a) ++ "image_ref"
  <2>1. Alike(t, s, p)
    OBVIOUS
  <2> HIDE DEF p
  <2>2. (p \in DOMAIN t <=> p \in DOMAIN s) /\ (p \in DOMAIN t => t[p] = s[p])
    BY <2>1, BelowIs DEF Alike, Same
  <2> QED  BY <1>1, <1>2, <2>2 DEF p
<1> QED  BY <1>1, <1>2

\* Where applications, images and streams stay, the store stays valid.
LEMMA ValidElsewhere ==
  ASSUME NEW s, Valid(s), NEW t, Alike(t, s, AppsPath),
         Keys(s, ImagesPath) \subseteq Keys(t, ImagesPath),
         Keys(s, StreamsPath) \subseteq Keys(t, StreamsPath)
  PROVE  Valid(t)
<1>1. \A a : Alike(t, s, AppPath(a))
  BY AlikeFurther DEF AppPath
<1>2. \A a : /\ Alike(t, s, AppPath(a) ++ "image_ref")
             /\ \A role \in Roles : Keys(t, AppPath(a) ++ "stream_mapping" ++ role) =
                                      Keys(s, AppPath(a) ++ "stream_mapping" ++ role)
  BY <1>1, AlikeFurther, AlikeRead
<1>3. Keys(t, AppsPath) = Keys(s, AppsPath)
  BY AlikeRead
<1> DEFINE gone == {}
<1>4. \A S : S \ gone = S
  OBVIOUS
<1> HIDE DEF gone
<1> QED  BY <1>2, <1>3, <1>4, ValidStays

\* The data of the module.
LEMMA DataStays ==
  ASSUME DataInv, Alike(store', store, ModulesPath), book'.data = book.data,
         <<"data">> \in book'.cut <=> <<"data">> \in book.cut,
         half'.call = "data" => half' = half
  PROVE  DataInv'
<1> DEFINE now == IF <<"data">> \in book.cut THEN << >> ELSE book.data
<1>1. ModuleIs(store, now)
  BY DEF DataInv
<1> HIDE DEF now
<1>2. ModuleIs(store', now)
  BY <1>1, PartsStay
<1> QED  BY <1>2 DEF DataInv, now

\* The topology.
LEMMA TopologyStays ==
  ASSUME TopologyInv, Alike(store', store, EnddevicesPath), Alike(store', store, GraphPath),
         Alike(store', store, SwitchesPath), book'.devices = book.devices,
         book'.graph = book.graph
  PROVE  TopologyInv'
BY PartsStay DEF TopologyInv

\* The images.
LEMMA ImagesStay ==
  ASSUME ImagesInv, Alike(store', store, ImagesPath), book'.images = book.images
  PROVE  ImagesInv'
BY PartsStay DEF ImagesInv

\* The applications.
LEMMA AppsStay ==
  ASSUME AppsInv, Alike(store', store, AppsPath), book'.apps = book.apps,
         book'.torn = book.torn, book'.mappings = book.mappings,
         \A id : <<"app", id>> \in book'.cut <=> <<"app", id>> \in book.cut,
         half'.call = "app" => half' = half
  PROVE  AppsInv'
<1>1. \A id : Alike(store', store, AppPath(id))
  BY AlikeFurther DEF AppPath
<1>2. \A id, f : Alike(store', store, AppPath(id) ++ f)
  BY <1>1, AlikeFurther
<1>3. Keys(store', AppsPath) = Keys(store, AppsPath)
  BY AlikeRead
<1>4. ASSUME NEW id \in DOMAIN book.apps PROVE AppIs(store', book.apps[id], Cut(id))
  BY <1>2, AppStays DEF AppsInv
<1>5. \A id : Cut(id)' <=> Cut(id)
  BY DEF Cut
<1>6. \A id \in book.torn : Get(store', AppPath(id) ++ "name") = Fail
  BY <1>2, AlikeRead DEF AppsInv
<1>7. ASSUME NEW id PROVE MappingIs(store', id, Mapping(id)')
  <2>1. Mapping(id)' = Mapping(id)
    BY DEF Mapping
  <2> QED  BY <1>2, <2>1, MappingStays DEF AppsInv
<1>8. ASSUME half'.call = "app"
      PROVE  /\ SentApp(half'.app) /\ half'.app.id \notin book.torn
             /\ Blank(store', AppPath(half'.app.id) ++ "parameters")
             /\ half'.app.id \in DOMAIN book.apps =>
                  book.apps[half'.app.id] = half'.app /\ Cut(half'.app.id)
  <2>1. half' = half
    BY <1>8
  <2>2. Blank(store, AppPath(half.app.id) ++ "parameters")
    BY <1>8, <2>1 DEF AppsInv
  <2>3. Blank(store', AppPath(half.app.id) ++ "parameters")
    BY <1>2, <2>2, AlikeBlank
  <2> QED  BY <1>8, <2>1, <2>3 DEF AppsInv
<1>9. \A id \in DOMAIN book.apps : AppIs(store', book.apps[id], Cut(id)')
  BY <1>4, <1>5
<1> QED  BY <1>3, <1>5, <1>6, <1>7, <1>8, <1>9 DEF AppsInv

(***************************************************************************)
(* The steps                                                               *)
(***************************************************************************)
\* A step that touches the parts in W only leaves the others alone.
LEMMA Elsewhere ==
  ASSUME NEW W, NEW s, NEW t, OnlyIn(W, s, t)
  PROVE  /\ Leafed(t)
         /\ AppsPath \notin W => Alike(t, s, AppsPath)
         /\ ModulesPath \notin W => Alike(t, s, ModulesPath)
         /\ EnddevicesPath \notin W => Alike(t, s, EnddevicesPath)
         /\ SwitchesPath \notin W => Alike(t, s, SwitchesPath)
         /\ GraphPath \notin W => Alike(t, s, GraphPath)
         /\ ImagesPath \notin W => Alike(t, s, ImagesPath) /\ Keys(t, ImagesPath) = Keys(s, ImagesPath)
         /\ StreamsPath \notin W => Keys(t, StreamsPath) = Keys(s, StreamsPath)
<1>1. ASSUME NEW R \in Roots, R \notin W PROVE Alike(t, s, R) /\ Keys(t, R) = Keys(s, R)
  BY <1>1, AlikeRead DEF OnlyIn
<1> QED  BY <1>1 DEF OnlyIn, Roots

\* No two parts are the same.
LEMMA RootsDiffer ==
  /\ AppsPath \notin {StreamsPath, ModulesPath, GraphPath, EnddevicesPath, SwitchesPath, ImagesPath}
  /\ ModulesPath \notin {StreamsPath, GraphPath, EnddevicesPath, SwitchesPath, ImagesPath}
  /\ ImagesPath \notin {StreamsPath, GraphPath, EnddevicesPath, SwitchesPath}
  /\ StreamsPath \notin {GraphPath, EnddevicesPath, SwitchesPath}
  /\ GraphPath \notin {EnddevicesPath, SwitchesPath} /\ EnddevicesPath # SwitchesPath
<1>1. /\ StreamsPath[1] = "streams" /\ ModulesPath[1] = "modules"
      /\ Len(GraphPath) = 2 /\ GraphPath[1] = "topology"
      /\ Len(EnddevicesPath) = 3 /\ EnddevicesPath[1] = "topology" /\ EnddevicesPath[3] = "enddevices"
      /\ Len(SwitchesPath) = 3 /\ SwitchesPath[1] = "topology" /\ SwitchesPath[3] = "switches"
      /\ AppsPath[1] = "application" /\ AppsPath[2] = "apps"
      /\ ImagesPath[1] = "application" /\ ImagesPath[2] = "images"
  BY DEF StreamsPath, ModulesPath, GraphPath, EnddevicesPath, SwitchesPath, AppsPath, ImagesPath,
         TopologyPath, ++
<1> QED  BY <1>1

\* The two commits of the data of the module.
LEMMA DataBeginKeeps ==
  ASSUME IInv, NEW d \in DataDocuments, DataBegin(d)
  PROVE  IInv'
<1> DEFINE x == DeserializeModuleData(d)
<1>1. /\ store' = DataCleared(store, Module) /\ half = Idle
      /\ half' = [call |-> "data", data |-> x]
      /\ book' = [book EXCEPT !.data = x, !.cut = @ \cup {<<"data">>}]
  BY DEF DataBegin
<1>2. AreValues(x, DataLeaves)
  BY DocumentsTyped
<1> HIDE DEF x
<1>3. /\ DOMAIN book' = BookFields /\ book'.data = x /\ book'.cut = book.cut \cup {<<"data">>}
      /\ book'.apps = book.apps /\ book'.mappings = book.mappings /\ book'.torn = book.torn
      /\ book'.devices = book.devices /\ book'.graph = book.graph /\ book'.images = book.images
  BY <1>1 DEF IInv, BookFields
<1>4. half'.call = "data" /\ half'.data = x
  BY <1>1
<1>5. OnlyIn({ModulesPath}, store, store') /\ ModuleIs(store', << >>)
  <2>1. \E y : ModuleIs(store, y)
    BY DEF IInv, DataInv
  <2> QED  BY <1>1, <2>1, ModuleCleared DEF IInv
<1>6. DataInv'
  BY <1>2, <1>3, <1>4, <1>5 DEF DataInv
<1>7. \A id : <<"app", id>> \in book'.cut <=> <<"app", id>> \in book.cut
  BY <1>3
<1>8. AppsInv'
  BY <1>3, <1>4, <1>5, <1>7, Elsewhere, RootsDiffer, AppsStay DEF IInv
<1>9. TopologyInv' /\ ImagesInv'
  BY <1>3, <1>5, Elsewhere, RootsDiffer, TopologyStays, ImagesStay DEF IInv
<1>10. Leafed(store') /\ Valid(store') /\ Keys(store', StreamsPath) \subseteq StreamIds
  BY <1>5, Elsewhere, RootsDiffer, ValidElsewhere DEF IInv
<1> QED  BY <1>3, <1>6, <1>8, <1>9, <1>10 DEF IInv

\* The second commit of the data.
LEMMA DataEndKeeps ==
  ASSUME IInv, DataEnd
  PROVE  IInv'
<1>1. /\ store' = DataWritten(store, Module, half.data) /\ half.call = "data" /\ half' = Idle
      /\ book' = [book EXCEPT !.cut = @ \ {<<"data">>}]
  BY DEF DataEnd
<1>2. /\ DOMAIN book' = BookFields /\ book'.cut = book.cut \ {<<"data">>} /\ book'.data = book.data
      /\ book'.apps = book.apps /\ book'.mappings = book.mappings /\ book'.torn = book.torn
      /\ book'.devices = book.devices /\ book'.graph = book.graph /\ book'.images = book.images
  BY <1>1 DEF IInv, BookFields
<1>3. half'.call # "data" /\ half'.call # "app"
  BY <1>1 DEF Idle
<1>4. half.data = book.data /\ ModuleIs(store, << >>) /\ AreValues(book.data, DataLeaves)
  BY <1>1 DEF IInv, DataInv
<1>5. OnlyIn({ModulesPath}, store, store') /\ ModuleIs(store', book.data)
  BY <1>1, <1>4, ModuleWritten DEF IInv
<1>6. DataInv'
  BY <1>2, <1>3, <1>4, <1>5 DEF DataInv
<1>7. \A id : <<"app", id>> \in book'.cut <=> <<"app", id>> \in book.cut
  BY <1>2
<1>8. AppsInv'
  BY <1>2, <1>3, <1>5, <1>7, Elsewhere, RootsDiffer, AppsStay DEF IInv
<1>9. TopologyInv' /\ ImagesInv'
  BY <1>2, <1>5, Elsewhere, RootsDiffer, TopologyStays, ImagesStay DEF IInv
<1>10. Leafed(store') /\ Valid(store') /\ Keys(store', StreamsPath) \subseteq StreamIds
  BY <1>5, Elsewhere, RootsDiffer, ValidElsewhere DEF IInv
<1> QED  BY <1>2, <1>6, <1>8, <1>9, <1>10 DEF IInv

\* An end device.
LEMMA UpdateDeviceKeeps ==
  ASSUME IInv, NEW d \in Enddevices, UpdateDevice(d)
  PROVE  IInv'
<1> DEFINE x == DeserializeEnddevice(d)
           y == With(book.devices, x.mac, x)
<1>1. /\ store' = UpdateEnddevice(store, x) /\ half' = half
      /\ book' = [book EXCEPT !.devices = y]
  BY DEF UpdateDevice
<1>2. IsDevice(x) /\ SentDevice(x) /\ x.mac \notin CaseNames
  BY DocumentsTyped, DeviceSent
<1> HIDE DEF x
<1>3. OnlyIn({EnddevicesPath}, store, store') /\ DevicesAre(store', y)
  BY <1>1, <1>2, DeviceUpdated DEF IInv, TopologyInv
<1>4. SentDevices(y)
  BY <1>2 DEF IInv, TopologyInv, SentDevices, With
<1> HIDE DEF y
<1>5. /\ DOMAIN book' = BookFields /\ book'.cut = book.cut /\ book'.data = book.data
      /\ book'.apps = book.apps /\ book'.mappings = book.mappings /\ book'.torn = book.torn
      /\ book'.devices = y /\ book'.graph = book.graph /\ book'.images = book.images
  BY <1>1 DEF IInv, BookFields
<1>6. TopologyInv'
  <2>1. GraphIs(store', book.graph) /\ SwitchesRead(store')
    BY <1>3, Elsewhere, RootsDiffer, PartsStay DEF IInv, TopologyInv
  <2> QED  BY <1>3, <1>4, <1>5, <2>1 DEF IInv, TopologyInv
<1>7. DataInv' /\ AppsInv' /\ ImagesInv'
  BY <1>1, <1>3, <1>5, Elsewhere, RootsDiffer, DataStays, AppsStay, ImagesStay DEF IInv
<1>8. Leafed(store') /\ Valid(store') /\ Keys(store', StreamsPath) \subseteq StreamIds
  BY <1>3, Elsewhere, RootsDiffer, ValidElsewhere DEF IInv
<1> QED  BY <1>5, <1>6, <1>7, <1>8 DEF IInv

\* The graph.
LEMMA UpdateGraphKeeps ==
  ASSUME IInv, NEW d \in Graphs, UpdateGraph(d)
  PROVE  IInv'
<1> DEFINE x == DeserializeGraph(d)
<1>1. /\ store' = SetTopologyGraph(store, x) /\ half' = half
      /\ book' = [book EXCEPT !.graph = x]
  BY DEF UpdateGraph
<1>2. SentGraph(x)
  BY DocumentsTyped, GraphSent
<1> HIDE DEF x
<1>3. OnlyIn({GraphPath}, store, store') /\ GraphIs(store', x)
  BY <1>1, GraphUpdated DEF IInv
<1>4. /\ DOMAIN book' = BookFields /\ book'.cut = book.cut /\ book'.data = book.data
      /\ book'.apps = book.apps /\ book'.mappings = book.mappings /\ book'.torn = book.torn
      /\ book'.devices = book.devices /\ book'.graph = x /\ book'.images = book.images
  BY <1>1 DEF IInv, BookFields
<1>5. TopologyInv'
  <2>1. DevicesAre(store', book.devices) /\ SwitchesRead(store')
    BY <1>3, Elsewhere, RootsDiffer, PartsStay DEF IInv, TopologyInv
  <2> QED  BY <1>2, <1>3, <1>4, <2>1 DEF IInv, TopologyInv
<1>6. DataInv' /\ AppsInv' /\ ImagesInv'
  BY <1>1, <1>3, <1>4, Elsewhere, RootsDiffer, DataStays, AppsStay, ImagesStay DEF IInv
<1>7. Leafed(store') /\ Valid(store') /\ Keys(store', StreamsPath) \subseteq StreamIds
  BY <1>3, Elsewhere, RootsDiffer, ValidElsewhere DEF IInv
<1> QED  BY <1>4, <1>5, <1>6, <1>7 DEF IInv

\* A topology that was discovered.
LEMMA DiscoverTopologyKeeps ==
  ASSUME IInv, NEW d \in Topologies, DiscoverTopology(d)
  PROVE  IInv'
<1> DEFINE x == DeserializeTopology(d)
           o == d["devices"]["enddevices"]
<1>1. /\ store' = SetTopology(store, x) /\ half' = half
      /\ book' = [book EXCEPT !.devices = x.devices.enddevices, !.graph = x.graph]
  BY DEF DiscoverTopology
<1>2. /\ \A m \in DOMAIN x.devices.enddevices : IsDevice(x.devices.enddevices[m])
      /\ \A w \in DOMAIN x.devices.switches : Filled(x.devices.switches[w], Switch)
      /\ IsGraph(x.graph)
  BY DocumentsTyped
<1>3. x.devices.enddevices = [m \in DOMAIN o |-> DeserializeEnddevice(o[m])]
  BY DEF DeserializeTopology, DeserializeDevices, Array
<1>4. x.graph = DeserializeGraph(d["graph"])
  BY DEF DeserializeTopology
<1> HIDE DEF x, o
<1>5. SentDevices(x.devices.enddevices)
  BY <1>2, <1>3, DeviceSent DEF SentDevices
<1>6. SentGraph(x.graph)
  BY <1>2, <1>4, GraphSent
<1>7. /\ OnlyIn({EnddevicesPath, SwitchesPath, GraphPath}, store, store')
      /\ DevicesAre(store', x.devices.enddevices) /\ SwitchesRead(store') /\ GraphIs(store', x.graph)
  BY <1>1, <1>2, TopologyUpdated DEF IInv
<1>8. /\ DOMAIN book' = BookFields /\ book'.cut = book.cut /\ book'.data = book.data
      /\ book'.apps = book.apps /\ book'.mappings = book.mappings /\ book'.torn = book.torn
      /\ book'.devices = x.devices.enddevices /\ book'.graph = x.graph /\ book'.images = book.images
  BY <1>1 DEF IInv, BookFields
<1>9. TopologyInv'
  BY <1>5, <1>6, <1>7, <1>8 DEF TopologyInv
<1>10. DataInv' /\ AppsInv' /\ ImagesInv'
  BY <1>1, <1>7, <1>8, Elsewhere, RootsDiffer, DataStays, AppsStay, ImagesStay DEF IInv
<1>11. Leafed(store') /\ Valid(store') /\ Keys(store', StreamsPath) \subseteq StreamIds
  BY <1>7, Elsewhere, RootsDiffer, ValidElsewhere DEF IInv
<1> QED  BY <1>8, <1>9, <1>10, <1>11 DEF IInv

\* The images of a registry, if no application refers to one that is gone.
LEMMA DiscoverImagesKeeps ==
  ASSUME IInv, NEW r \in Registries, DiscoverImages(r)
  PROVE  IInv'
<1> DEFINE x == DeserializeImages([repositories |-> r])
<1>1. /\ store' = SetApplicationImages(store, x) /\ half' = half /\ Valid(store')
      /\ book' = [book EXCEPT !.images = r] /\ x # Null
  BY DEF DiscoverImages
<1>2. r \cap {Fail, Crash} = {} /\ r # {}
  BY <1>1, DocumentsTyped DEF DeserializeImages
<1>3. OnlyIn({ImagesPath}, store, store') /\ ImagesAre(store', r)
  BY <1>1, <1>2, ImagesUpdated DEF IInv
<1> HIDE DEF x
<1>4. /\ DOMAIN book' = BookFields /\ book'.cut = book.cut /\ book'.data = book.data
      /\ book'.apps = book.apps /\ book'.mappings = book.mappings /\ book'.torn = book.torn
      /\ book'.devices = book.devices /\ book'.graph = book.graph /\ book'.images = r
  BY <1>1 DEF IInv, BookFields
<1>5. ImagesInv'
  BY <1>2, <1>3, <1>4 DEF ImagesInv
<1>6. DataInv' /\ AppsInv' /\ TopologyInv'
  BY <1>1, <1>3, <1>4, Elsewhere, RootsDiffer, DataStays, AppsStay, TopologyStays DEF IInv
<1>7. Leafed(store') /\ Keys(store', StreamsPath) \subseteq StreamIds
  BY <1>3, Elsewhere, RootsDiffer DEF IInv
<1> QED  BY <1>1, <1>4, <1>5, <1>6, <1>7 DEF IInv

\* A new stream.
LEMMA AddStreamKeeps ==
  ASSUME IInv, NEW id \in StreamIds, AddStream(id)
  PROVE  IInv'
<1>1. /\ store' = Merge(store, PutLeaf(StreamLeaf(id), id)) /\ half' = half /\ book' = book
  BY DEF AddStream
<1>2. id \notin CaseNames
  BY DocumentsTyped
<1>3. /\ OnlyIn({StreamsPath}, store, store')
      /\ Keys(store', StreamsPath) = Keys(store, StreamsPath) \cup {id}
  BY <1>1, <1>2, StreamAdded DEF IInv
<1>4. DataInv' /\ AppsInv' /\ TopologyInv' /\ ImagesInv'
  BY <1>1, <1>3, Elsewhere, RootsDiffer, DataStays, AppsStay, TopologyStays, ImagesStay DEF IInv
<1>5. Leafed(store') /\ Valid(store') /\ Keys(store', StreamsPath) \subseteq StreamIds
  BY <1>3, Elsewhere, RootsDiffer, ValidElsewhere DEF IInv
<1> QED  BY <1>1, <1>4, <1>5 DEF IInv

\* The end of the RESTModule.
LEMMA StopKeeps ==
  ASSUME IInv, Stop
  PROVE  IInv'
<1>1. half' = Idle /\ store' = store /\ book' = book /\ half'.call # "data" /\ half'.call # "app"
  BY DEF Stop, Idle
<1>2. \A R \in Roots : Alike(store', store, R)
  BY <1>1, RootsPart DEF IInv, Alike, Same
<1>3. DataInv' /\ AppsInv' /\ TopologyInv' /\ ImagesInv'
  BY <1>1, <1>2, DataStays, AppsStay, TopologyStays, ImagesStay DEF IInv, Roots
<1> QED  BY <1>1, <1>3 DEF IInv

\* The first commit of an application.
LEMMA AppBeginKeeps ==
  ASSUME IInv, NEW d \in AppDocuments, AppBegin(d)
  PROVE  IInv'
<1> DEFINE x == DeserializeApp(d)
           p == AppPath(x.id)
<1>1. /\ store' = AppHeaderWritten(store, x) /\ Valid(store') /\ x # Null
      /\ half' = [call |-> "app", app |-> x]
      /\ book' = [book EXCEPT !.apps = With(@, x.id, x), !.cut = @ \cup {<<"app", x.id>>},
                              !.torn = @ \ {x.id}]
  BY DEF AppBegin
<1>2. SentApp(x) /\ IsApp(x)
  BY <1>1, AppSent DEF SentApp
<1> HIDE DEF x
<1>3. /\ DOMAIN book' = BookFields /\ book'.cut = book.cut \cup {<<"app", x.id>>}
      /\ book'.data = book.data /\ book'.apps = With(book.apps, x.id, x)
      /\ book'.mappings = book.mappings /\ book'.torn = book.torn \ {x.id}
      /\ book'.devices = book.devices /\ book'.graph = book.graph /\ book'.images = book.images
  BY <1>1 DEF IInv, BookFields
<1>4. half'.call = "app" /\ half'.app = x
  BY <1>1
<1>5. /\ OnlyIn({AppsPath}, store, store') /\ Keys(store', AppsPath) = Keys(store, AppsPath) \cup {x.id}
      /\ \A id : id # x.id => Alike(store', store, AppPath(id))
      /\ HeaderIs(store', x) /\ Blank(store', p ++ "parameters")
      /\ Alike(store', store, p ++ "stream_mapping")
  BY <1>1, <1>2, AppBegun DEF IInv
<1>6. \A id : id # x.id => \A f : Alike(store', store, AppPath(id) ++ f)
  BY <1>5, AlikeFurther
<1>7. /\ DOMAIN book'.apps = DOMAIN book.apps \cup {x.id} /\ book'.apps[x.id] = x
      /\ \A id \in DOMAIN book.apps : id # x.id => book'.apps[id] = book.apps[id]
  BY <1>3 DEF With
<1>8. Cut(x.id)' /\ \A id : id # x.id => (Cut(id)' <=> Cut(id))
  BY <1>3 DEF Cut
<1>9. ASSUME NEW id \in DOMAIN book'.apps
      PROVE  /\ book'.apps[id].id = id /\ SentApp(book'.apps[id])
             /\ AppIs(store', book'.apps[id], Cut(id)')
  <2>1. CASE id = x.id
    BY <1>2, <1>5, <1>7, <1>8, <2>1 DEF AppIs
  <2>2. CASE id # x.id
    <3>1. id \in DOMAIN book.apps /\ book'.apps[id] = book.apps[id]
      BY <1>7, <2>2
    <3>2. /\ book.apps[id].id = id /\ SentApp(book.apps[id])
          /\ AppIs(store, book.apps[id], Cut(id))
      BY <3>1 DEF IInv, AppsInv
    <3>3. AppIs(store', book.apps[id], Cut(id))
      BY <1>6, <2>2, <3>2, AppStays
    <3> QED  BY <1>8, <2>2, <3>1, <3>2, <3>3 DEF AppIs
  <2> QED  BY <2>1, <2>2
<1>10. \A id \in book'.torn : Get(store', AppPath(id) ++ "name") = Fail
  BY <1>3, <1>6, AlikeRead DEF IInv, AppsInv
<1>11. ASSUME NEW id PROVE MappingIs(store', id, Mapping(id)')
  <2>1. Mapping(id)' = Mapping(id)
    BY <1>3 DEF Mapping
  <2>2. Alike(store', store, AppPath(id) ++ "stream_mapping")
    BY <1>5, <1>6
  <2> QED  BY <2>1, <2>2, MappingStays DEF IInv, AppsInv
<1>12. /\ Keys(store', AppsPath) = DOMAIN book'.apps \cup book'.torn
       /\ DOMAIN book'.apps \cap book'.torn = {}
  BY <1>3, <1>5, <1>7 DEF IInv, AppsInv
<1>13. AppsInv'
  BY <1>2, <1>3, <1>4, <1>5, <1>7, <1>8, <1>9, <1>10, <1>11, <1>12 DEF AppsInv
<1>14. <<"data">> \in book'.cut <=> <<"data">> \in book.cut
  BY <1>3
<1>15. DataInv' /\ TopologyInv' /\ ImagesInv'
  BY <1>3, <1>4, <1>5, <1>14, Elsewhere, RootsDiffer, DataStays, TopologyStays, ImagesStay DEF IInv
<1>16. Leafed(store') /\ Keys(store', StreamsPath) \subseteq StreamIds
  BY <1>5, Elsewhere, RootsDiffer DEF IInv
<1> QED  BY <1>1, <1>3, <1>13, <1>15, <1>16 DEF IInv

\* Sysrepo takes a mapping only to streams that exist.
LEMMA MappingAdmitted ==
  ASSUME NEW s, Leafed(s), NEW x, Valid(AppWritten(s, x))
  PROVE  \A role \in Roles : x.stream_mapping[role] \subseteq Keys(s, StreamsPath)
<1> DEFINE p == AppPath(x.id)
           pm == p ++ "stream_mapping"
           b == AppBody(x)
           w == WithKey(x)
           t == AppWritten(s, x)
<1>1. IF b = << >> THEN t = s ELSE t = Merge(s, w)
  BY DEF AppWritten, AppBody, WithKey
<1>2. \A d \in {b, w} : /\ Under(d, p) /\ Leafed(d)
                        /\ \A role \in Roles : Keys(d, pm ++ role) = x.stream_mapping[role]
  BY BodyWritten
<1>3. /\ AppsPath \in Roots /\ Path(AppsPath) /\ Path(p) /\ p = AppsPath ++ x.id
      /\ Path(pm) /\ Below(p, pm)
      /\ \A role : Path(pm ++ role) /\ Below(p, pm ++ role)
  BY AppPlace DEF AppPath
<1> HIDE DEF b, w, t, p
<1>4. CASE b = << >>
  <2>1. \A role : Keys(b, pm ++ role) = {}
    BY <1>2, <1>3, <1>4, BlankIs DEF Blank
  <2> QED  BY <1>2, <2>1
<1>5. CASE b # << >>
  <2>1. t = Merge(s, w)
    BY <1>1, <1>5
  <2>2. Under(w, AppsPath)
    BY <1>2, <1>3, UnderFurther
  <2>3. OnlyIn({AppsPath}, s, t)
    BY <1>3, <2>1, <2>2, InOne
  <2>4. Keys(t, StreamsPath) = Keys(s, StreamsPath) /\ Leafed(t)
    BY <2>3, Elsewhere, RootsDiffer
  <2>5. \A q \in DOMAIN w : q \in DOMAIN t
    BY <1>2, <2>1, MergeHas
  <2>6. ASSUME NEW role \in Roles, NEW v \in x.stream_mapping[role] PROVE v \in Keys(t, StreamsPath)
    <3>1. v \in Keys(w, pm ++ role)
      BY <1>2
    <3>2. PICK q \in DOMAIN w : Below(pm ++ role ++ v, q)
      BY <1>2, <1>3, <3>1, KeysAre
    <3>3. q \in DOMAIN t /\ Path(q)
      BY <2>4, <2>5 DEF Leafed
    <3>4. v \in Keys(t, pm ++ role)
      BY <1>3, <2>4, <3>2, <3>3, KeysAre
    <3>5. Below(p, q)
      BY <1>2 DEF Under
    <3>6. x.id \in Keys(t, AppsPath)
      BY <1>3, <2>4, <3>3, <3>5, KeysAre
    <3>7. Keys(t, pm ++ role) \subseteq Keys(t, StreamsPath)
      <4>1. Valid(t)
        BY DEF t
      <4> QED  BY <3>6, <4>1 DEF Valid, Roles, p
    <3> QED  BY <3>4, <3>7
  <2> QED  BY <2>4, <2>6
<1> QED  BY <1>4, <1>5

\* The second commit of an application.
LEMMA AppEndKeeps ==
  ASSUME IInv, AppEnd
  PROVE  IInv'
<1> DEFINE x == half.app
           p == AppPath(x.id)
           t == AppWritten(store, x)
           sum == MergeMappings(Mapping(x.id), x.stream_mapping)
<1>1. half.call = "app" /\ half' = Idle
  BY DEF AppEnd
<1>2. half'.call # "data" /\ half'.call # "app"
  BY <1>1 DEF Idle
<1>3. /\ SentApp(x) /\ IsApp(x) /\ x.id \notin book.torn
      /\ Blank(store, p ++ "parameters")
      /\ x.id \in DOMAIN book.apps => book.apps[x.id] = x /\ Cut(x.id)
  BY <1>1 DEF IInv, AppsInv, SentApp
<1>4. CASE ~Valid(t)
  <2>1. store' = store /\ book' = book
    BY <1>4 DEF AppEnd
  <2>2. \A R \in Roots : Alike(store', store, R)
    BY <2>1, RootsPart DEF IInv, Alike, Same
  <2>3. DataInv' /\ AppsInv' /\ TopologyInv' /\ ImagesInv'
    BY <1>2, <2>1, <2>2, DataStays, AppsStay, TopologyStays, ImagesStay DEF IInv, Roots
  <2> QED  BY <2>1, <2>3 DEF IInv
<1>5. CASE Valid(t)
  <2>1. /\ store' = t
        /\ book' = [book EXCEPT
                    !.mappings = With(@, x.id, sum),
                    !.cut = @ \ {<<"app", x.id>>},
                    !.torn = IF x.id \in DOMAIN book.apps \/ t = store THEN @
                             ELSE @ \cup {x.id}]
    BY <1>5 DEF AppEnd
  <2>2. /\ DOMAIN book' = BookFields /\ book'.cut = book.cut \ {<<"app", x.id>>}
        /\ book'.data = book.data /\ book'.apps = book.apps
        /\ book'.mappings = With(book.mappings, x.id, sum)
        /\ book'.torn = (IF x.id \in DOMAIN book.apps \/ t = store THEN book.torn
                         ELSE book.torn \cup {x.id})
        /\ book'.devices = book.devices /\ book'.graph = book.graph /\ book'.images = book.images
    BY <2>1 DEF IInv, BookFields
  <2>3. \A role \in Roles : x.stream_mapping[role] \cap CaseNames = {}
    <3>1. \A role \in Roles : x.stream_mapping[role] \subseteq StreamIds
      BY <1>5, MappingAdmitted DEF IInv
    <3> QED  BY <3>1, DocumentsTyped
  <2>4. /\ OnlyIn({AppsPath}, store, t)
        /\ \A id : id # x.id => Alike(t, store, AppPath(id))
        /\ \A f : f \notin {"parameters", "stream_mapping", "id"} => Alike(t, store, p ++ f)
        /\ ValuesHeld(t, p ++ "parameters", ParameterLeaves, x.parameters)
        /\ \A role \in Roles : Keys(t, p ++ "stream_mapping" ++ role) =
             Keys(store, p ++ "stream_mapping" ++ role) \cup x.stream_mapping[role]
        /\ t # store => /\ Keys(t, AppsPath) = Keys(store, AppsPath) \cup {x.id}
                        /\ Get(t, p ++ "id") = x.id
    BY <1>3, <2>3, AppEnded DEF IInv
  <2> HIDE DEF t, sum
  <2>5. \A id : id # x.id => \A f : Alike(t, store, AppPath(id) ++ f)
    BY <2>4, AlikeFurther
  <2>6. \A id : Cut(id)' <=> id # x.id /\ Cut(id)
    BY <2>2 DEF Cut
  <2>7. Keys(store, AppsPath) = DOMAIN book.apps \cup book.torn /\ DOMAIN book.apps \cap book.torn = {}
    BY DEF IInv, AppsInv
  <2>8. ASSUME x.id \in DOMAIN book.apps PROVE AppIs(t, x, FALSE)
    <3>1. HeaderIs(store, x)
      BY <1>3, <2>8 DEF IInv, AppsInv, AppIs
    <3>2. \A f \in AppLeaves \cup {"mac", "image_ref"} : Get(t, p ++ f) = Get(store, p ++ f)
      <4>1. \A f \in AppLeaves \cup {"mac", "image_ref"} : f \notin {"parameters", "stream_mapping"}
        BY DEF AppLeaves
      <4>2. Get(t, p ++ "id") = Get(store, p ++ "id")
        <5>1. CASE t = store
          BY <5>1
        <5>2. CASE t # store
          BY <2>4, <3>1, <5>2 DEF HeaderIs, Holds, AppLeaves
        <5> QED  BY <5>1, <5>2
      <4> QED  BY <2>4, <4>1, <4>2, AlikeRead
    <3>3. HeaderIs(t, x)
      BY <3>1, <3>2 DEF HeaderIs, Holds
    <3> QED  BY <2>4, <3>3 DEF AppIs
  <2>9. ASSUME NEW id \in DOMAIN book.apps
        PROVE  /\ book.apps[id].id = id /\ SentApp(book.apps[id])
               /\ AppIs(t, book.apps[id], Cut(id)')
    <3>1. /\ book.apps[id].id = id /\ SentApp(book.apps[id])
          /\ AppIs(store, book.apps[id], Cut(id))
      BY DEF IInv, AppsInv
    <3>2. CASE id = x.id
      <4>1. AppIs(t, book.apps[id], FALSE)
        BY <1>3, <2>8, <3>2
      <4> QED  BY <2>6, <3>1, <3>2, <4>1 DEF AppIs
    <3>3. CASE id # x.id
      <4>1. AppIs(t, book.apps[id], Cut(id))
        BY <2>5, <3>1, <3>3, AppStays
      <4> QED  BY <2>6, <3>1, <3>3, <4>1 DEF AppIs
    <3> QED  BY <3>2, <3>3
  <2>10. ASSUME NEW id \in book'.torn PROVE Get(t, AppPath(id) ++ "name") = Fail
    <3>1. CASE id # x.id
      BY <2>2, <2>5, <3>1, AlikeRead DEF IInv, AppsInv
    <3>2. CASE id = x.id
      <4>1. x.id \notin Keys(store, AppsPath)
        BY <1>3, <2>2, <2>7, <3>2
      <4>2. Get(store, p ++ "name") = Fail
        BY <4>1, AppPlace, LeafMakesKey DEF IInv, AppPath
      <4> QED  BY <2>4, <3>2, <4>2, AlikeRead
    <3> QED  BY <3>1, <3>2
  <2>11. ASSUME NEW id PROVE MappingIs(t, id, Mapping(id)')
    <3>1. MappingIs(store, id, Mapping(id))
      BY DEF IInv, AppsInv
    <3>2. CASE id # x.id
      <4>1. Mapping(id)' = Mapping(id)
        BY <2>2, <3>2 DEF Mapping, With
      <4>2. Alike(t, store, AppPath(id) ++ "stream_mapping")
        BY <2>5, <3>2
      <4> QED  BY <3>1, <4>1, <4>2, MappingStays
    <3>3. CASE id = x.id
      <4>1. Mapping(id)' = sum
        BY <2>2, <3>3 DEF Mapping, With
      <4>2. DOMAIN Mapping(x.id) = Roles
        BY <3>1, <3>3 DEF MappingIs
      <4>3. sum = [role \in Roles |-> Mapping(x.id)[role] \cup x.stream_mapping[role]]
        BY <4>2 DEF sum, MergeMappings
      <4>4. sum = [role \in Roles |-> sum[role]]
            /\ \A role \in Roles : sum[role] = Mapping(x.id)[role] \cup x.stream_mapping[role]
        BY <4>3
      <4> QED  BY <2>4, <3>1, <3>3, <4>1, <4>4 DEF MappingIs
    <3> QED  BY <3>2, <3>3
  <2>12. /\ Keys(t, AppsPath) = DOMAIN book.apps \cup book'.torn
         /\ DOMAIN book.apps \cap book'.torn = {}
    <3>1. CASE t = store
      BY <2>2, <2>7, <3>1
    <3>2. CASE t # store
      BY <2>2, <2>4, <2>7, <3>2
    <3> QED  BY <3>1, <3>2
  <2>13. AppsInv'
    BY <1>2, <2>1, <2>2, <2>9, <2>10, <2>11, <2>12 DEF AppsInv
  <2>14. <<"data">> \in book'.cut <=> <<"data">> \in book.cut
    BY <2>2
  <2>15. DataInv' /\ TopologyInv' /\ ImagesInv'
    BY <1>2, <2>1, <2>2, <2>4, <2>14, Elsewhere, RootsDiffer, DataStays, TopologyStays, ImagesStay DEF IInv
  <2>16. Leafed(t) /\ Keys(t, StreamsPath) \subseteq StreamIds
    BY <2>4, Elsewhere, RootsDiffer DEF IInv
  <2> QED  BY <1>5, <2>1, <2>2, <2>13, <2>15, <2>16 DEF IInv, t
<1> QED  BY <1>4, <1>5

\* The deletion of an application.
LEMMA AppDeleteKeeps ==
  ASSUME IInv, NEW id, AppDelete(id)
  PROVE  IInv'
<1>1. /\ store' = RemoveApplicationApp(store, id) /\ half' = half
      /\ book' = [book EXCEPT !.apps = [a \in DOMAIN @ \ {id} |-> @[a]],
                              !.mappings = [a \in DOMAIN @ \ {id} |-> @[a]],
                              !.cut = @ \ {<<"app", id>>},
                              !.torn = @ \ {id}]
  BY DEF AppDelete
<1>2. /\ DOMAIN book' = BookFields /\ book'.cut = book.cut \ {<<"app", id>>}
      /\ book'.data = book.data /\ book'.apps = [a \in DOMAIN book.apps \ {id} |-> book.apps[a]]
      /\ book'.mappings = [a \in DOMAIN book.mappings \ {id} |-> book.mappings[a]]
      /\ book'.torn = book.torn \ {id}
      /\ book'.devices = book.devices /\ book'.graph = book.graph /\ book'.images = book.images
  BY <1>1 DEF IInv, BookFields
<1>3. /\ OnlyIn({AppsPath}, store, store') /\ Keys(store', AppsPath) = Keys(store, AppsPath) \ {id}
      /\ \A j : j # id => Alike(store', store, AppPath(j))
      /\ Blank(store', AppPath(id))
  BY <1>1, AppRemoved DEF IInv
<1>4. \A j : j # id => \A f : Alike(store', store, AppPath(j) ++ f)
  BY <1>3, AlikeFurther
<1>5. Leafed(store') /\ Keys(store', ImagesPath) = Keys(store, ImagesPath)
      /\ Keys(store', StreamsPath) = Keys(store, StreamsPath)
  BY <1>3, Elsewhere, RootsDiffer
<1>6. \A f : Blank(store', AppPath(id) ++ f)
  BY <1>3, <1>5, AppPlace, BlankIs
<1>7. \A j : j # id => (Cut(j)' <=> Cut(j))
  BY <1>2 DEF Cut
<1>8. ASSUME NEW a \in DOMAIN book'.apps
      PROVE  /\ book'.apps[a].id = a /\ SentApp(book'.apps[a])
             /\ AppIs(store', book'.apps[a], Cut(a)')
  <2>1. a # id /\ a \in DOMAIN book.apps /\ book'.apps[a] = book.apps[a]
    BY <1>2
  <2>2. /\ book.apps[a].id = a /\ SentApp(book.apps[a])
        /\ AppIs(store, book.apps[a], Cut(a))
    BY <2>1 DEF IInv, AppsInv
  <2>3. AppIs(store', book.apps[a], Cut(a))
    BY <1>4, <2>1, <2>2, AppStays
  <2> QED  BY <1>7, <2>1, <2>2, <2>3 DEF AppIs
<1>9. \A a \in book'.torn : Get(store', AppPath(a) ++ "name") = Fail
  BY <1>2, <1>4, AlikeRead DEF IInv, AppsInv
<1>10. ASSUME NEW a PROVE MappingIs(store', a, Mapping(a)')
  <2>1. MappingIs(store, a, Mapping(a))
    BY DEF IInv, AppsInv
  <2>2. CASE a # id
    <3>1. Mapping(a)' = Mapping(a)
      BY <1>2, <2>2 DEF Mapping
    <3>2. Alike(store', store, AppPath(a) ++ "stream_mapping")
      BY <1>4, <2>2
    <3> QED  BY <2>1, <3>1, <3>2, MappingStays
  <2>3. CASE a = id
    <3>1. Mapping(a)' = NoMapping
      BY <1>2, <2>3 DEF Mapping
    <3>2. \A role : Keys(store', AppPath(a) ++ "stream_mapping" ++ role) = {}
      BY <1>5, <1>6, <2>3, AppPlace, BlankIs
    <3>3. NoMapping = [role \in Roles |-> NoMapping[role]] /\ \A role \in Roles : NoMapping[role] = {}
      BY DEF NoMapping, Roles
    <3> QED  BY <3>1, <3>2, <3>3 DEF MappingIs
  <2> QED  BY <2>2, <2>3
<1>11. ASSUME half.call = "app"
       PROVE  /\ SentApp(half.app) /\ half.app.id \notin book'.torn
              /\ Blank(store', AppPath(half.app.id) ++ "parameters")
              /\ half.app.id \in DOMAIN book'.apps =>
                    book'.apps[half.app.id] = half.app /\ <<"app", half.app.id>> \in book'.cut
  <2>1. /\ SentApp(half.app) /\ half.app.id \notin book.torn
        /\ Blank(store, AppPath(half.app.id) ++ "parameters")
        /\ half.app.id \in DOMAIN book.apps =>
              book.apps[half.app.id] = half.app /\ <<"app", half.app.id>> \in book.cut
    BY <1>11 DEF IInv, AppsInv, Cut
  <2>2. Blank(store', AppPath(half.app.id) ++ "parameters")
    <3>1. CASE half.app.id = id
      BY <1>6, <3>1
    <3>2. CASE half.app.id # id
      BY <1>4, <2>1, <3>2, AlikeBlank
    <3> QED  BY <3>1, <3>2
  <2> QED  BY <1>2, <2>1, <2>2
<1>12. /\ Keys(store', AppsPath) = DOMAIN book'.apps \cup book'.torn
       /\ DOMAIN book'.apps \cap book'.torn = {}
  BY <1>2, <1>3 DEF IInv, AppsInv
<1>13. AppsInv'
  BY <1>1, <1>8, <1>9, <1>10, <1>11, <1>12 DEF AppsInv, Cut
<1>14. <<"data">> \in book'.cut <=> <<"data">> \in book.cut
  BY <1>2
<1>15. DataInv' /\ TopologyInv' /\ ImagesInv'
  BY <1>1, <1>2, <1>3, <1>14, Elsewhere, RootsDiffer, DataStays, TopologyStays, ImagesStay DEF IInv
<1>16. Valid(store')
  <2> DEFINE gone == {}
  <2>1. \A a \in Keys(store', AppsPath) :
            /\ Alike(store', store, AppPath(a) ++ "image_ref")
            /\ \A role \in Roles :
                  Keys(store', AppPath(a) ++ "stream_mapping" ++ role) \subseteq
                    Keys(store, AppPath(a) ++ "stream_mapping" ++ role) \ gone
    BY <1>3, <1>4, AlikeFurther, AlikeRead
  <2>2. Keys(store, StreamsPath) \ gone \subseteq Keys(store', StreamsPath)
    BY <1>5
  <2> HIDE DEF gone
  <2> QED  BY <1>3, <1>5, <2>1, <2>2, ValidStays DEF IInv
<1> QED  BY <1>2, <1>5, <1>13, <1>15, <1>16 DEF IInv

\* Sysrepo accepts the deletion if no application that was not read is mapped.
LEMMA TakenIsValid ==
  ASSUME NEW s, Leafed(s), Valid(s), NEW apps \in AppsLeft(s), NEW id \in Keys(s, StreamsPath)
  PROVE  Valid(DeleteStream(s, apps, id)) <=>
            \A a \in Keys(s, AppsPath) \ DOMAIN apps : \A role \in Roles :
               id \notin Keys(s, AppPath(a) ++ "stream_mapping" ++ role)
<1> DEFINE t == DeleteStream(s, apps, id)
           missed == Keys(s, AppsPath) \ DOMAIN apps
           m(a, role) == AppPath(a) ++ "stream_mapping" ++ role
           gone == {id}
<1>1. /\ OnlyIn({StreamsPath, AppsPath}, s, t)
      /\ Keys(t, StreamsPath) = Keys(s, StreamsPath) \ {id}
      /\ Keys(t, AppsPath) = Keys(s, AppsPath)
      /\ \A a, f : f # "stream_mapping" => Alike(t, s, AppPath(a) ++ f)
      /\ \A a : \A role \in Roles :
            Keys(t, m(a, role)) = Keys(s, m(a, role)) \ (IF a \in missed THEN {} ELSE {id})
  BY StreamTaken
<1> HIDE DEF t, missed
<1>2. ASSUME \A a \in missed : \A role \in Roles : id \notin Keys(s, m(a, role))
      PROVE  Valid(t)
  <2>1. Keys(s, ImagesPath) \subseteq Keys(t, ImagesPath)
    BY <1>1, Elsewhere, RootsDiffer
  <2>2. \A a \in Keys(t, AppsPath) :
              /\ Alike(t, s, AppPath(a) ++ "image_ref")
              /\ \A role \in Roles : Keys(t, m(a, role)) \subseteq Keys(s, m(a, role)) \ gone
    BY <1>1, <1>2
  <2>3. Keys(s, StreamsPath) \ gone \subseteq Keys(t, StreamsPath)
    BY <1>1
  <2> HIDE DEF gone
  <2> QED  BY <1>1, <2>1, <2>2, <2>3, ValidStays
<1>3. ASSUME Valid(t), NEW a \in missed, NEW role \in Roles PROVE id \notin Keys(s, m(a, role))
  <2>1. a \in Keys(t, AppsPath)
    BY <1>1 DEF missed
  <2>2. Keys(t, m(a, role)) \subseteq Keys(t, StreamsPath)
    BY <1>3, <2>1 DEF Valid, Roles
  <2>3. Keys(t, m(a, role)) = Keys(s, m(a, role)) \ {}
    BY <1>1, <1>3
  <2> HIDE DEF m
  <2> QED  BY <1>1, <2>2, <2>3
<1> QED  BY <1>2, <1>3 DEF t, missed

\* The deletion of a stream.
LEMMA RemoveStreamKeeps ==
  ASSUME IInv, NEW id \in Keys(store, StreamsPath), RemoveStream(id)
  PROVE  IInv'
<1> PICK apps \in AppsLeft(store) :
      /\ store' = DeleteStream(store, apps, id) /\ Valid(store') /\ half' = half
      /\ book' = [book EXCEPT !.mappings =
                    [a \in DOMAIN @ |-> [role \in DOMAIN @[a] |-> @[a][role] \ {id}]]]
  BY DEF RemoveStream
<1>2. /\ DOMAIN book' = BookFields /\ book'.cut = book.cut
      /\ book'.data = book.data /\ book'.apps = book.apps
      /\ book'.mappings = [a \in DOMAIN book.mappings |->
            [role \in DOMAIN book.mappings[a] |-> book.mappings[a][role] \ {id}]]
      /\ book'.torn = book.torn
      /\ book'.devices = book.devices /\ book'.graph = book.graph /\ book'.images = book.images
  BY DEF IInv, BookFields
<1>3. /\ OnlyIn({StreamsPath, AppsPath}, store, store')
      /\ Keys(store', StreamsPath) = Keys(store, StreamsPath) \ {id}
      /\ Keys(store', AppsPath) = Keys(store, AppsPath)
      /\ \A a, f : f # "stream_mapping" => Alike(store', store, AppPath(a) ++ f)
      /\ \A a : \A role \in Roles : Keys(store', AppPath(a) ++ "stream_mapping" ++ role) =
            Keys(store, AppPath(a) ++ "stream_mapping" ++ role) \ {id}
  <2>1. \A a \in Keys(store, AppsPath) \ DOMAIN apps : \A role \in Roles :
           id \notin Keys(store, AppPath(a) ++ "stream_mapping" ++ role)
    BY TakenIsValid DEF IInv
  <2>2. ASSUME NEW a, NEW role \in Roles
        PROVE  LET m == AppPath(a) ++ "stream_mapping" ++ role
               IN Keys(store', m) = Keys(store, m) \ {id}
    <3> DEFINE m == AppPath(a) ++ "stream_mapping" ++ role
               missed == a \in Keys(store, AppsPath) \ DOMAIN apps
    <3>1. Keys(store', m) = Keys(store, m) \ (IF missed THEN {} ELSE {id})
      BY StreamTaken DEF IInv
    <3>2. missed => id \notin Keys(store, m)
      BY <2>1
    <3> HIDE DEF m, missed
    <3>3. Keys(store', m) = Keys(store, m) \ {id}
      BY <3>1, <3>2
    <3> QED  BY <3>3 DEF m
  <2> QED  BY <2>2, StreamTaken DEF IInv
<1>4. \A a : Cut(a)' <=> Cut(a)
  BY <1>2 DEF Cut
<1>5. ASSUME NEW a \in DOMAIN book.apps
      PROVE  /\ book.apps[a].id = a /\ SentApp(book.apps[a])
             /\ AppIs(store', book.apps[a], Cut(a)')
  <2>1. /\ book.apps[a].id = a /\ SentApp(book.apps[a])
        /\ AppIs(store, book.apps[a], Cut(a))
    BY DEF IInv, AppsInv
  <2>2. AppIs(store', book.apps[a], Cut(a))
    BY <1>3, <2>1, AppStays
  <2> QED  BY <1>4, <2>1, <2>2 DEF AppIs
<1>6. \A a \in book.torn : Get(store', AppPath(a) ++ "name") = Fail
  BY <1>3, AlikeRead DEF IInv, AppsInv
<1>7. ASSUME NEW a PROVE MappingIs(store', a, Mapping(a)')
  <2>1. MappingIs(store, a, Mapping(a))
    BY DEF IInv, AppsInv
  <2>2. Mapping(a)' = [role \in Roles |-> Mapping(a)[role] \ {id}]
    <3>1. CASE a \in DOMAIN book.mappings
      <4>1. Mapping(a) = book.mappings[a]
        BY <3>1 DEF Mapping
      <4>2. DOMAIN book.mappings[a] = Roles
        BY <2>1, <4>1 DEF MappingIs
      <4>3. /\ a \in DOMAIN book'.mappings
            /\ book'.mappings[a] = [role \in DOMAIN book.mappings[a] |-> book.mappings[a][role] \ {id}]
        BY <1>2, <3>1
      <4>4. Mapping(a)' = book'.mappings[a]
        BY <4>3 DEF Mapping
      <4> QED  BY <4>1, <4>2, <4>3, <4>4
    <3>2. CASE a \notin DOMAIN book.mappings
      <4>1. Mapping(a) = NoMapping /\ Mapping(a)' = NoMapping
        BY <1>2, <3>2 DEF Mapping
      <4>2. NoMapping = [role \in Roles |-> NoMapping[role] \ {id}]
        BY DEF NoMapping, Roles
      <4> QED  BY <4>1, <4>2
    <3> QED  BY <3>1, <3>2
  <2> QED  BY <1>3, <2>1, <2>2 DEF MappingIs
<1>8. ASSUME half.call = "app"
      PROVE  /\ SentApp(half.app) /\ half.app.id \notin book.torn
             /\ Blank(store', AppPath(half.app.id) ++ "parameters")
             /\ half.app.id \in DOMAIN book.apps =>
                   book.apps[half.app.id] = half.app /\ Cut(half.app.id)
  <2>1. Alike(store', store, AppPath(half.app.id) ++ "parameters")
    BY <1>3
  <2>2. Blank(store, AppPath(half.app.id) ++ "parameters")
    BY <1>8 DEF IInv, AppsInv
  <2> QED  BY <1>8, <2>1, <2>2, AlikeBlank DEF IInv, AppsInv
<1>9. Keys(store', AppsPath) = DOMAIN book.apps \cup book.torn /\ DOMAIN book.apps \cap book.torn = {}
  BY <1>3 DEF IInv, AppsInv
<1>10. AppsInv'
  BY <1>2, <1>5, <1>6, <1>7, <1>8, <1>9 DEF AppsInv, Cut
<1>11. DataInv' /\ TopologyInv' /\ ImagesInv'
  BY <1>2, <1>3, Elsewhere, RootsDiffer, DataStays, TopologyStays, ImagesStay DEF IInv
<1>12. Leafed(store') /\ Keys(store', StreamsPath) \subseteq StreamIds
  BY <1>3, Elsewhere DEF IInv
<1> QED  BY <1>2, <1>10, <1>11, <1>12 DEF IInv

\* At start-up there is the module with its data, and nothing else.
LEMMA Starts ==
  ASSUME Init
  PROVE  IInv
<1> DEFINE m == ModulePath(Module)
           pd == m ++ "data"
           a == PutLeaves(m, ModuleLeaves, Registered)
           b == WriteModuleData(pd, InitialData)
           s == Union({a, b})
<1>1. /\ store = s /\ half = Idle
      /\ book = [apps |-> << >>, mappings |-> << >>, data |-> InitialData, devices |-> << >>,
                 graph |-> << >>, images |-> {}, cut |-> {}, torn |-> {}]
  BY DEF Init, WriteModule, Registered
<1>2. /\ Under(a, m) /\ Leafed(a)
      /\ \A f \in ModuleLeaves : m ++ f \in DOMAIN a /\ a[m ++ f] = Registered[f]
      /\ \A f : f \notin ModuleLeaves => Blank(a, m ++ f)
  BY ModulePlace, LeavesAre
<1>3. /\ Under(b, pd) /\ Leafed(b) /\ ValuesHeld(b, pd, DataLeaves, InitialData)
  <2>1. "value" \notin DataLeaves
    BY DEF DataLeaves
  <2> QED  BY <2>1, ModulePlace, ValuesWritten DEF WriteModuleData, WriteModuleDataEntry, PutEntries
<1> HIDE DEF a, b
<1>4. Under(b, m) /\ Under(s, m) /\ Under(s, ModulesPath) /\ Leafed(s)
  <2>1. Under(b, m)
    BY <1>3, ModulePlace, UnderFurther
  <2>2. Under(s, m)
    BY <1>2, <2>1, UnderUnion
  <2>3. Under(s, ModulesPath)
    BY <2>2, ModulePlace, UnderFurther DEF ModulePath
  <2> QED  BY <2>1, <2>2, <2>3, ModulePlace, UnderBlank
<1>5. \A f \in ModuleLeaves : Path(m ++ f) /\ Blank(b, m ++ f)
  <2>1. \A f \in ModuleLeaves : Path(m ++ f) /\ Split(m ++ f, pd)
    BY ModulePlace, Longer, SiblingsSplit
  <2> QED  BY <1>3, <2>1, ModulePlace, UnderBlank
<1>6. \A f \in ModuleLeaves : Alike(s, a, m ++ f)
  BY <1>2, <1>3, <1>5, UnionAlike
<1>7. Alike(s, b, pd)
  BY <1>2, <1>3, ModulePlace, UnionAlike
<1> HIDE DEF s
<1>8. Holds(s, m, ModuleLeaves, Registered)
  BY <1>2, <1>6, AlikeRead DEF Holds, Get
<1>9. ValuesHeld(s, pd, DataLeaves, InitialData)
  BY <1>3, <1>7, ModulePlace, AlikeFurther, ValuesStay
<1>10. Keys(s, ModulesPath) = {Module}
  <2>1. Module \in Keys(s, ModulesPath)
    <3>1. Get(s, ModulesPath ++ Module ++ "id") # Fail
      BY <1>8, ModulePlace DEF Holds, ModulePath
    <3> QED  BY <1>4, <3>1, ModulePlace, LeafMakesKey
  <2>2. ASSUME NEW k \in Keys(s, ModulesPath) PROVE k = Module
    <3>1. PICK q \in DOMAIN s : Below(ModulesPath ++ k, q)
      BY <1>4, ModulePlace, KeysAre
    <3>2. Below(ModulesPath ++ Module, q)
      BY <1>4 DEF Under, ModulePath
    <3> QED  BY <3>1, <3>2, ModulePlace, Siblings
  <2> QED  BY <2>1, <2>2
<1>11. ModuleIs(s, InitialData)
  BY <1>8, <1>9, <1>10 DEF ModuleIs
<1>12. \A R \in Roots : R # ModulesPath => Path(R) /\ Blank(s, R)
  BY <1>4, RootsPart, ModulePlace, UnderBlank DEF Roots
<1>13. \A R \in Roots : R # ModulesPath => Keys(s, R) = {} /\ \A f : Blank(s, R ++ f)
  BY <1>4, <1>12, BlankIs
<1>14. /\ Keys(s, AppsPath) = {} /\ Keys(s, ImagesPath) = {} /\ Keys(s, StreamsPath) = {}
       /\ Keys(s, EnddevicesPath) = {} /\ Keys(s, GraphPath) = {} /\ Keys(s, SwitchesPath) = {}
       /\ \A id : Blank(s, AppPath(id))
  BY <1>13, RootsDiffer DEF Roots, AppPath
<1>15. /\ book.apps = << >> /\ book.mappings = << >> /\ book.data = InitialData
       /\ book.devices = << >> /\ book.graph = << >> /\ book.images = {} /\ book.cut = {}
       /\ book.torn = {} /\ DOMAIN book = BookFields
       /\ half.call # "data" /\ half.call # "app"
  BY <1>1 DEF BookFields, Idle
<1>16. DOMAIN << >> = {} /\ << >> = [k \in DOMAIN << >> |-> << >>[k]]
  OBVIOUS
<1>17. DataInv
  BY <1>1, <1>11, <1>15, DocumentsTyped DEF DataInv
<1>18. TopologyInv
  BY <1>1, <1>14, <1>15, <1>16 DEF TopologyInv, DevicesAre, SentDevices, GraphIs, SentGraph, IsGraph,
     SwitchesRead
<1>19. ImagesInv
  BY <1>1, <1>14, <1>15 DEF ImagesInv, ImagesAre
<1>20. ASSUME NEW id PROVE MappingIs(s, id, Mapping(id))
  <2>1. Mapping(id) = NoMapping
    BY <1>15, <1>16 DEF Mapping
  <2>2. \A role : Keys(s, AppPath(id) ++ "stream_mapping" ++ role) = {}
    BY <1>4, <1>14, AppPlace, BlankIs
  <2>3. NoMapping = [role \in Roles |-> NoMapping[role]] /\ \A role \in Roles : NoMapping[role] = {}
    BY DEF NoMapping, Roles
  <2> QED  BY <2>1, <2>2, <2>3 DEF MappingIs
<1>21. AppsInv
  BY <1>1, <1>14, <1>15, <1>16, <1>20 DEF AppsInv
<1>22. Valid(s)
  BY <1>14 DEF Valid
<1> QED  BY <1>1, <1>4, <1>14, <1>15, <1>17, <1>18, <1>19, <1>21, <1>22 DEF IInv

\* The datastore holds what was sent last (the second commits aside).
THEOREM StoreHoldsWhatWasSent == Spec => []IInv
<1>1. Init => IInv
  BY Starts
<1>2. IInv /\ [Next]_vars => IInv'
  <2> SUFFICES ASSUME IInv, [Next]_vars PROVE IInv'
    OBVIOUS
  <2>1. ASSUME NEW d \in AppDocuments, AppBegin(d) PROVE IInv'
    BY <2>1, AppBeginKeeps
  <2>2. CASE AppEnd
    BY <2>2, AppEndKeeps
  <2>3. ASSUME NEW id, AppDelete(id) PROVE IInv'
    BY <2>3, AppDeleteKeeps
  <2>4. ASSUME NEW d \in DataDocuments, DataBegin(d) PROVE IInv'
    BY <2>4, DataBeginKeeps
  <2>5. CASE DataEnd
    BY <2>5, DataEndKeeps
  <2>6. ASSUME NEW d \in Enddevices, UpdateDevice(d) PROVE IInv'
    BY <2>6, UpdateDeviceKeeps
  <2>7. ASSUME NEW d \in Graphs, UpdateGraph(d) PROVE IInv'
    BY <2>7, UpdateGraphKeeps
  <2>8. ASSUME NEW id \in StreamIds, AddStream(id) PROVE IInv'
    BY <2>8, AddStreamKeeps
  <2>9. ASSUME NEW id \in Keys(store, StreamsPath), RemoveStream(id) PROVE IInv'
    BY <2>9, RemoveStreamKeeps
  <2>10. CASE Stop
    BY <2>10, StopKeeps
  <2>11. ASSUME NEW d \in Topologies, DiscoverTopology(d) PROVE IInv'
    BY <2>11, DiscoverTopologyKeeps
  <2>12. ASSUME NEW r \in Registries, DiscoverImages(r) PROVE IInv'
    BY <2>12, DiscoverImagesKeeps
  <2>13. CASE UNCHANGED vars
    BY <2>13 DEF vars, IInv, DataInv, TopologyInv, ImagesInv, AppsInv, Cut, Mapping
  <2> QED  BY <2>1, <2>2, <2>3, <2>4, <2>5, <2>6, <2>7, <2>8, <2>9, <2>10, <2>11, <2>12, <2>13 DEF Next
<1> QED  BY <1>1, <1>2, PTL DEF Spec

(***************************************************************************)
(* What becomes of a value                                                 *)
(***************************************************************************)
\* A text is no mark.
LEMMA TextNoMark ==
  ASSUME MarksApart, NEW v, IsText(v)
  PROVE  v \notin {Fail, Crash, Undefined, Null}
<1>1. v = [kind |-> v.kind, n |-> v.n]
  BY DEF IsText
<1>2. v = [x \in DOMAIN v |-> v[x]]
  BY <1>1
<1> QED  BY <1>2 DEF MarksApart

\* A text that is read as a pointer is read as it is, or it crashes.
LEMMA PointerRead ==
  ASSUME NEW v, IsText(v)
  PROVE  ReadPointer(v) = IF TextSurvives(v) THEN v ELSE Crash
<1>1. v.kind \in Kinds /\ v.n \in Int
  BY DEF IsText, Between
<1>2. ASSUME v.kind = "number" PROVE MemberOf(v) \in {"BINARY", "STRING"} <=> IsBase64(v.n)
  BY <1>1, <1>2 DEF MemberOf, MemberOfNumber, IsBase64
<1>3. ASSUME v.kind # "number"
      PROVE  MemberOf(v) \in {"BINARY", "STRING"} <=> v.kind # "false"
  BY <1>1, <1>3 DEF MemberOf, Kinds
<1> QED  BY <1>1, <1>2, <1>3 DEF ReadPointer, TextSurvives, Kinds

\* The member of the union that takes a number.
LEMMA NumberMember ==
  ASSUME NEW n \in Int
  PROVE  /\ MemberOf(Number(n)) = MemberOfNumber(n)
         /\ Number(n).n = n
BY DEF MemberOf, Number

\* The member of the union that takes a Boolean: the text true is taken for
\* base64, the text false is not.
LEMMA BooleanMember ==
  ASSUME NEW b
  PROVE  /\ b => MemberOf(TextOf("BOOLEAN", b)) = "BINARY"
         /\ ~b => MemberOf(TextOf("BOOLEAN", b)) = "BOOLEAN"
<1>1. "BOOLEAN" \notin DOMAIN Bits
  BY DEF Bits
<1>2. TextOf("BOOLEAN", b) = Word(IF b THEN "true" ELSE "false")
  BY <1>1 DEF TextOf
<1>3. MemberOf(Word("true")) = "BINARY" /\ MemberOf(Word("false")) = "BOOLEAN"
  BY DEF MemberOf, Word
<1>4. (b => (IF b THEN "true" ELSE "false") = "true") /\ (~b => (IF b THEN "true" ELSE "false") = "false")
  OBVIOUS
<1> QED  BY <1>2, <1>3, <1>4

\* The powers of two that bound the types.
LEMMA Powers == 2^8 = 256 /\ 2^7 = 128 /\ 2^16 = 65536 /\ 2^15 = 32768
OBVIOUS

\* A number differs from one that a power of two was added to.
LEMMA TwoTo ==
  ASSUME NEW k \in {8, 16, 32}
  PROVE  2^k \in Int /\ 2^k # 0
<1>1. 2^8 \in Int /\ 2^8 # 0 /\ 2^16 \in Int /\ 2^16 # 0
  OBVIOUS
<1>2. 2^32 \in Int /\ 2^32 # 0
  OBVIOUS
<1>3. CASE k = 8
  BY <1>1, <1>3
<1>4. CASE k = 16
  BY <1>1, <1>4
<1>5. CASE k = 32
  BY <1>2, <1>5
<1> QED  BY <1>3, <1>4, <1>5

\* A number moved by the size of its type is another number.
LEMMA NumberMoved ==
  ASSUME NEW n \in Int, NEW k
  PROVE  k \in {8, 16, 32} => n + 2^k \in Int /\ n + 2^k # n
<1> DEFINE t == 2^k
<1>1. k \in {8, 16, 32} => t \in Int /\ t # 0
  BY TwoTo, Zenon
<1> HIDE DEF t
<1>2. k \in {8, 16, 32} => n + t \in Int /\ n + t # n
  BY <1>1
<1> QED  BY <1>2 DEF t

\* A number of a type is the same if it is read as that type.
LEMMA NarrowKeeps ==
  ASSUME NEW type, NEW n, IsNumber(n, type), type \in DOMAIN Bits
  PROVE  Narrow(type, n) = n /\ n \in Int
<1>0. n \in Int
  BY DEF IsNumber, Between
<1>1. CASE type = "INT8"
  <2>1. -128 <= n /\ n <= 127
    BY <1>1 DEF IsNumber, Between
  <2>2. (n % 256 >= 128 => (n % 256) - 256 = n) /\ (n % 256 < 128 => n % 256 = n)
    BY <1>0, <2>1
  <2> QED  BY <1>0, <1>1, <2>2, Powers DEF Narrow, Bits
<1>2. CASE type = "INT16"
  <2>1. -32768 <= n /\ n <= 32767
    BY <1>2 DEF IsNumber, Between
  <2>2. /\ n % 65536 >= 32768 => (n % 65536) - 65536 = n
        /\ n % 65536 < 32768 => n % 65536 = n
    BY <1>0, <2>1
  <2> QED  BY <1>0, <1>2, <2>2, Powers DEF Narrow, Bits
<1>3. CASE type = "UINT8"
  <2>1. 0 <= n /\ n <= 255
    BY <1>3 DEF IsNumber, Between
  <2>2. n % 256 = n
    BY <1>0, <2>1
  <2> QED  BY <1>0, <1>3, <2>2, Powers DEF Narrow, Bits
<1>4. CASE type = "UINT16"
  <2>1. 0 <= n /\ n <= 65535
    BY <1>4 DEF IsNumber, Between
  <2>2. n % 65536 = n
    BY <1>0, <2>1
  <2> QED  BY <1>0, <1>4, <2>2, Powers DEF Narrow, Bits
<1>5. CASE type \in {"INT32", "INT64", "UINT32", "UINT64"}
  BY <1>0, <1>5 DEF Narrow, Bits
<1> QED  BY <1>1, <1>2, <1>3, <1>4, <1>5 DEF Bits

\* The values of the data of a module, read one by one.
LEMMA ItemValueRead ==
  ASSUME MarksApart, NEW type, NEW v, HasType(v, type)
  PROVE  LET r == ReadItemValue(type, TextOf(type, v))
         IN /\ r # Fail
            /\ r = Crash <=> type \in Pointers \cup {"DECIMAL64"} /\ ~TextSurvives(v)
            /\ r # Crash => (r = v <=> DataSurvives(type, v))
<1> DEFINE t == TextOf(type, v)
           r == ReadItemValue(type, t)
<1>0. /\ "BOOLEAN" \notin Pointers \cup {"DECIMAL64"}
      /\ \A b \in DOMAIN Bits : b \notin Pointers \cup {"DECIMAL64", "BOOLEAN"}
  BY DEF Pointers, Bits
<1>1. CASE type \in Pointers \cup {"DECIMAL64"} /\ IsText(v)
  <2>1. t = v
    BY <1>0, <1>1 DEF TextOf
  <2>2. r = IF TextSurvives(v) THEN v ELSE Crash
    BY <1>0, <1>1, <2>1, PointerRead DEF ReadItemValue
  <2>3. DataSurvives(type, v) <=> TextSurvives(v)
    BY <1>0, <1>1 DEF DataSurvives
  <2> HIDE DEF t, r
  <2> QED  BY <1>1, <2>2, <2>3, TextNoMark, MarksDiffer, MarksDistinct DEF r, t
<1>2. CASE type = "BOOLEAN" /\ v \in BOOLEAN
  <2>1. r = IF v THEN Undefined ELSE FALSE
    BY <1>0, <1>2, BooleanMember DEF ReadItemValue
  <2>2. DataSurvives(type, v) <=> ~v
    BY <1>0, <1>2 DEF DataSurvives
  <2>3. Undefined \notin BOOLEAN /\ Fail \notin BOOLEAN /\ Crash \notin BOOLEAN
        /\ Undefined \notin {Fail, Crash}
    BY MarksDiffer, MarksDistinct
  <2> HIDE DEF r
  <2>4. (v => r = Undefined) /\ (~v => r = FALSE)
    BY <2>1
  <2>5. r \notin {Fail, Crash} /\ (r = v <=> ~v)
    BY <1>2, <2>3, <2>4
  <2> QED  BY <1>0, <1>2, <2>2, <2>5 DEF r
<1>3. CASE type \in DOMAIN Bits /\ IsNumber(v, type)
  <2>1. t = Number(v)
    BY <1>0, <1>3 DEF TextOf
  <2>2. Narrow(type, v) = v /\ v \in Int
    BY <1>3, NarrowKeeps
  <2>3. MemberOf(t) = MemberOfNumber(v) /\ t.n = v
    BY <2>1, <2>2, NumberMember
  <2>4. r = IF MemberOfNumber(v) \in {"BINARY", "STRING", "BOOLEAN"}
               \/ Bits[MemberOfNumber(v)] < Bits[type] THEN Undefined ELSE v
    BY <1>0, <1>3, <2>2, <2>3 DEF ReadItemValue
  <2>5. MemberOfNumber(v) \in {"BINARY", "STRING", "BOOLEAN"} <=> IsBase64(v)
    BY <2>2 DEF MemberOfNumber, IsBase64
  <2>6. ~IsBase64(v) => Bits[MemberOfNumber(v)] = NaturalBits(v)
    BY <2>2 DEF MemberOfNumber, IsBase64, NaturalBits, Bits
  <2>7. DataSurvives(type, v) <=> ~IsBase64(v) /\ NaturalBits(v) >= Bits[type]
    BY <1>0, <1>3 DEF DataSurvives
  <2>8. Bits[type] \in Nat /\ NaturalBits(v) \in Nat
    BY <1>0, <1>3 DEF Bits, NaturalBits
  <2>9. v \notin {Undefined, Fail, Crash} /\ Undefined \notin {Fail, Crash}
    BY <2>2, MarksDiffer, MarksDistinct
  <2> HIDE DEF r
  <2>10. r = IF DataSurvives(type, v) THEN v ELSE Undefined
    BY <2>4, <2>5, <2>6, <2>7, <2>8
  <2> QED  BY <1>0, <1>3, <2>9, <2>10 DEF r
<1> QED  BY <1>1, <1>2, <1>3 DEF HasType

\* The values of the parameters of an application, read as a tree.
LEMMA SubtreeValueRead ==
  ASSUME MarksApart, NEW type, NEW v, HasType(v, type)
  PROVE  LET r == ReadSubtreeValue(type, TextOf(type, v))
         IN /\ r # Fail
            /\ r = Crash <=> type \in Texts /\ ~TextSurvives(v)
            /\ r # Crash => (r = v <=> ParameterSurvives(type, v))
            /\ type \in Texts /\ r # Crash => r = v
<1> DEFINE t == TextOf(type, v)
           r == ReadSubtreeValue(type, t)
<1>0. /\ "BOOLEAN" \notin Pointers \cup {"DECIMAL64"}
      /\ Texts \subseteq Pointers \cup {"DECIMAL64"}
      /\ "INSTANCE_IDENTIFIER" \notin Texts
      /\ \A b \in DOMAIN Bits : b \notin Pointers \cup {"DECIMAL64", "BOOLEAN"}
      /\ Pointers \cup {"DECIMAL64"} = Texts \cup {"INSTANCE_IDENTIFIER"}
  BY DEF Pointers, Bits, Texts
<1>1. CASE type \in Texts /\ IsText(v)
  <2>1. t = v
    BY <1>0, <1>1 DEF TextOf
  <2>2. r = IF TextSurvives(v) THEN v ELSE Crash
    BY <1>0, <1>1, <2>1, PointerRead DEF ReadSubtreeValue, Texts
  <2>3. ParameterSurvives(type, v) <=> TextSurvives(v)
    BY <1>1 DEF ParameterSurvives, Texts
  <2> HIDE DEF t, r
  <2> QED  BY <1>1, <2>2, <2>3, TextNoMark, MarksDiffer, MarksDistinct DEF r, t
<1>4. CASE type = "INSTANCE_IDENTIFIER" /\ IsText(v)
  <2>2. r = Undefined
    BY <1>4 DEF ReadSubtreeValue
  <2>3. ~ParameterSurvives(type, v)
    BY <1>4 DEF ParameterSurvives
  <2> HIDE DEF t, r
  <2> QED  BY <1>0, <1>4, <2>2, <2>3, TextNoMark, MarksDiffer, MarksDistinct DEF r, t
<1>2. CASE type = "BOOLEAN" /\ v \in BOOLEAN
  <2>1. r = IF v THEN Undefined ELSE FALSE
    BY <1>0, <1>2, BooleanMember DEF ReadSubtreeValue
  <2>2. ParameterSurvives(type, v) <=> ~v
    BY <1>0, <1>2 DEF ParameterSurvives
  <2>3. Undefined \notin BOOLEAN /\ Fail \notin BOOLEAN /\ Crash \notin BOOLEAN
        /\ Undefined \notin {Fail, Crash}
    BY MarksDiffer, MarksDistinct
  <2> HIDE DEF r
  <2>4. (v => r = Undefined) /\ (~v => r = FALSE)
    BY <2>1
  <2>5. r \notin {Fail, Crash} /\ (r = v <=> ~v)
    BY <1>2, <2>3, <2>4
  <2> QED  BY <1>0, <1>2, <2>2, <2>5 DEF r
<1>3. CASE type \in DOMAIN Bits /\ IsNumber(v, type)
  <2> DEFINE m == MemberOfNumber(v)
  <2>1. t = Number(v)
    BY <1>0, <1>3 DEF TextOf
  <2>2. Narrow(type, v) = v /\ v \in Int
    BY <1>3, NarrowKeeps
  <2>3. MemberOf(t) = m /\ t.n = v
    BY <2>1, <2>2, NumberMember
  <2>0. type \notin {"INSTANCE_IDENTIFIER", "BINARY", "STRING", "DECIMAL64", "BOOLEAN"}
    BY <1>0, <1>3 DEF Pointers
  <2>4. r = IF m \in {"BINARY", "STRING", "BOOLEAN"} THEN Undefined
            ELSE IF Bits[m] < Bits[type] /\ v < 0 THEN v + 2^Bits[m] ELSE v
    BY <2>0, <2>2, <2>3 DEF ReadSubtreeValue
  <2>5. m \in {"BINARY", "STRING", "BOOLEAN"} <=> IsBase64(v)
    BY <2>2 DEF MemberOfNumber, IsBase64
  <2>6. ~IsBase64(v) => Bits[m] = NaturalBits(v) /\ Bits[m] \in {8, 16, 32}
    BY <2>2 DEF MemberOfNumber, IsBase64, NaturalBits, Bits
  <2>7. ParameterSurvives(type, v) <=> ~IsBase64(v) /\ (v >= 0 \/ NaturalBits(v) = Bits[type])
    BY <2>0 DEF ParameterSurvives
  <2>8. Bits[type] \in Nat /\ NaturalBits(v) \in Nat
    BY <1>0, <1>3 DEF Bits, NaturalBits
  <2>9. v \notin {Undefined, Fail, Crash} /\ Undefined \notin {Fail, Crash}
    BY <2>2, MarksDiffer, MarksDistinct
  <2>10. ~IsBase64(v) => v + 2^Bits[m] \in Int /\ v + 2^Bits[m] # v
    <3> DEFINE k == Bits[m]
    <3>1. ~IsBase64(v) => k \in {8, 16, 32}
      BY <2>6
    <3> HIDE DEF k
    <3>2. ~IsBase64(v) => v + 2^k \in Int /\ v + 2^k # v
      BY <2>2, <3>1, NumberMoved, Zenon
    <3> QED  BY <3>2 DEF k
  <2>11. v < 0 => NaturalBits(v) <= Bits[type]
    BY <1>0, <1>3 DEF NaturalBits, IsNumber, Between, Bits
  <2>12. v + 2^Bits[m] \in Int => v + 2^Bits[m] \notin {Fail, Crash}
    BY MarksDiffer, MarksDistinct
  <2> HIDE DEF r, m
  <2>13. CASE IsBase64(v)
    BY <1>0, <1>3, <2>4, <2>5, <2>7, <2>9, <2>13 DEF r
  <2>14. CASE ~IsBase64(v) /\ Bits[m] < Bits[type] /\ v < 0
    <3>1. r = v + 2^Bits[m] /\ ~ParameterSurvives(type, v)
      BY <2>2, <2>4, <2>5, <2>6, <2>7, <2>8, <2>14
    <3> QED  BY <1>0, <1>3, <2>10, <2>12, <2>14, <3>1 DEF r
  <2>15. CASE ~IsBase64(v) /\ ~(Bits[m] < Bits[type] /\ v < 0)
    <3>1. r = v /\ ParameterSurvives(type, v)
      BY <2>2, <2>4, <2>5, <2>6, <2>7, <2>8, <2>11, <2>15
    <3> QED  BY <1>0, <1>3, <2>9, <3>1 DEF r
  <2> QED  BY <2>13, <2>14, <2>15
<1> QED  BY <1>0, <1>1, <1>2, <1>3, <1>4 DEF HasType

\* What is written of a value is no mark.
LEMMA TextOfNoMark ==
  ASSUME MarksApart, NEW type, NEW v, HasType(v, type)
  PROVE  TextOf(type, v) \notin {Fail, Crash, Undefined, Null}
<1>0. /\ "BOOLEAN" \notin Pointers \cup {"DECIMAL64"}
      /\ \A b \in DOMAIN Bits : b \notin Pointers \cup {"DECIMAL64", "BOOLEAN"}
  BY DEF Pointers, Bits
<1>1. CASE type \in Pointers \cup {"DECIMAL64"} /\ IsText(v)
  <2>1. TextOf(type, v) = v
    BY <1>0, <1>1 DEF TextOf
  <2> QED  BY <1>1, <2>1, TextNoMark
<1>2. CASE type = "BOOLEAN"
  <2> DEFINE k == IF v THEN "true" ELSE "false"
             w == Word(k)
  <2>1. TextOf(type, v) = w
    BY <1>0, <1>2 DEF TextOf
  <2> HIDE DEF k
  <2>2. w = [f \in DOMAIN w |-> w[f]]
    BY DEF Word
  <2> HIDE DEF w
  <2> QED  BY <2>1, <2>2 DEF MarksApart
<1>3. CASE type \in DOMAIN Bits
  <2> DEFINE w == Number(v)
  <2>1. TextOf(type, v) = w
    BY <1>0, <1>3 DEF TextOf
  <2>2. w = [f \in DOMAIN w |-> w[f]]
    BY DEF Number
  <2> HIDE DEF w
  <2> QED  BY <2>1, <2>2 DEF MarksApart
<1> QED  BY <1>1, <1>2, <1>3 DEF HasType

\* One entry of the data of a module.
LEMMA DataEntryRead ==
  ASSUME MarksApart, NEW s, NEW p, NEW x, Holds(s, p, DataLeaves, x),
         Get(s, p ++ "value") = TextOf(x.type, x.value), Filled(x, DataLeaves),
         HasType(x.value, x.type)
  PROVE  LET r == ReadModuleDataEntry(s, p)
         IN /\ r # Fail
            /\ r = Crash <=> x.type \in Pointers \cup {"DECIMAL64"} /\ ~TextSurvives(x.value)
            /\ r # Crash => /\ r.name = x.name /\ r.type = x.type
                            /\ r.value = x.value <=> DataSurvives(x.type, x.value)
<1> DEFINE type == Get(s, p ++ "type")
           text == Get(s, p ++ "value")
           v == IF type = Fail \/ text = Fail THEN Fail ELSE ReadItemValue(type, text)
           parts == [value |-> v]
           r == ReadModuleDataEntry(s, p)
           y == x.value
<1>1. type = x.type /\ x.type # Fail /\ "name" \in DataLeaves /\ "type" \in DataLeaves
  BY DEF Holds, DataLeaves, Filled
<1>2. text = TextOf(x.type, y) /\ text # Fail
  BY TextOfNoMark
<1>3. v = ReadItemValue(x.type, TextOf(x.type, y))
  BY <1>1, <1>2
<1>4. r = Struct(s, p, DataLeaves, parts)
  BY DEF ReadModuleDataEntry
<1>5. DOMAIN parts = {"value"} /\ parts["value"] = v /\ "value" \notin DataLeaves
  BY DEF DataLeaves
<1>6. \A f \in DataLeaves : x[f] # Fail /\ x[f] # Crash
  BY DEF Filled
<1> HIDE DEF v, parts, r, y
<1>7. /\ v # Fail
      /\ v = Crash <=> x.type \in Pointers \cup {"DECIMAL64"} /\ ~TextSurvives(y)
      /\ v # Crash => (v = y <=> DataSurvives(x.type, y))
  BY <1>3, ItemValueRead DEF y
<1>8. Fits(DataLeaves, x, parts)
  BY <1>5, <1>6, <1>7 DEF Fits
<1>9. StructIs(r, DataLeaves, x, parts)
  BY <1>4, <1>8, StructRead
<1> QED  BY <1>1, <1>5, <1>7, <1>9 DEF StructIs, r, y

\* The data of a module, all read.
LEMMA DataRead ==
  ASSUME MarksApart, NEW s, NEW data, ModuleIs(s, data), AreValues(data, DataLeaves)
  PROVE  LET r == ReadModuleData(s, ModulePath(Module) ++ "data")
         IN /\ r # Fail
            /\ data = << >> => r = << >>
            /\ IF Harmful(data, Pointers \cup {"DECIMAL64"}) THEN r = Crash
               ELSE SameValues(r, data, DataSurvives)
<1> DEFINE pd == ModulePath(Module) ++ "data"
           F == [k \in Keys(s, pd) |-> ReadModuleDataEntry(s, pd ++ k)]
           r == ReadModuleData(s, pd)
           types == Pointers \cup {"DECIMAL64"}
<1>1. r = Whole(F)
  BY DEF ReadModuleData, Entries
<1>2. Keys(s, pd) = DOMAIN data
  BY DEF ModuleIs, ValuesHeld
<1>3. /\ DOMAIN F = DOMAIN data /\ F = [k \in DOMAIN F |-> F[k]]
      /\ \A k \in DOMAIN data : F[k] = ReadModuleDataEntry(s, pd ++ k)
  BY <1>2
<1>4. data = << >> => F = << >>
  BY <1>2
<1> HIDE DEF F
<1>5. ASSUME NEW k \in DOMAIN data
      PROVE  /\ F[k] # Fail
             /\ F[k] = Crash <=> data[k].type \in types /\ ~TextSurvives(data[k].value)
             /\ F[k] # Crash => /\ F[k].name = data[k].name /\ F[k].type = data[k].type
                                /\ F[k].value = data[k].value
                                      <=> DataSurvives(data[k].type, data[k].value)
  <2> DEFINE x == data[k]
             p == pd ++ k
  <2>1. /\ Holds(s, p, DataLeaves, x) /\ Get(s, p ++ "value") = TextOf(x.type, x.value)
        /\ Filled(x, DataLeaves) /\ HasType(x.value, x.type)
    BY DEF ModuleIs, ValuesHeld, AreValues
  <2> HIDE DEF x, p
  <2> DEFINE e == ReadModuleDataEntry(s, p)
  <2>2. /\ e # Fail
        /\ e = Crash <=> x.type \in types /\ ~TextSurvives(x.value)
        /\ e # Crash => /\ e.name = x.name /\ e.type = x.type
                        /\ e.value = x.value <=> DataSurvives(x.type, x.value)
    BY <2>1, DataEntryRead
  <2>3. F[k] = e
    BY <1>3 DEF p
  <2> HIDE DEF e, types
  <2> QED  BY <2>2, <2>3 DEF x
<1>6. /\ r # Fail
      /\ r = Crash <=> \E k \in DOMAIN F : F[k] = Crash
      /\ (\A k \in DOMAIN F : F[k] # Crash) => r = F
  BY <1>1, <1>3, <1>5, ReadWhole
<1>7. Harmful(data, types) <=> \E k \in DOMAIN F : F[k] = Crash
  BY <1>3, <1>5 DEF Harmful
<1>8. ASSUME ~Harmful(data, types) PROVE SameValues(r, data, DataSurvives)
  BY <1>3, <1>5, <1>6, <1>7, <1>8 DEF SameValues
<1>9. data = << >> => r = << >>
  <2>1. DOMAIN << >> = {}
    OBVIOUS
  <2> QED  BY <1>3, <1>4, <1>6, <2>1
<1> HIDE DEF r, types
<1> QED  BY <1>6, <1>7, <1>8, <1>9 DEF r, types

\* DataAsSent: the data of the module is what was sent last, or nothing
\* while the second commit is missing.
THEOREM DataIsAsSent == ASSUME MarksApart PROVE Spec => []DataAsSent
<1>1. IInv => DataAsSent
  <2> SUFFICES ASSUME IInv PROVE DataAsSent
    OBVIOUS
  <2>1. CASE <<"data">> \in book.cut
    <3>1. ModuleIs(store, << >>)
      BY <2>1 DEF IInv, DataInv
    <3>2. AreValues(<< >>, DataLeaves)
      BY DEF AreValues
    <3> QED  BY <2>1, <3>1, <3>2, DataRead DEF DataAsSent
  <2>2. CASE <<"data">> \notin book.cut
    <3>1. ModuleIs(store, book.data) /\ AreValues(book.data, DataLeaves)
      BY <2>2 DEF IInv, DataInv
    <3> QED  BY <2>2, <3>1, DataRead DEF DataAsSent
  <2> QED  BY <2>1, <2>2
<1> QED  BY <1>1, StoreHoldsWhatWasSent, PTL

\* An end device is read as it was sent.
LEMMA DeviceRead ==
  ASSUME MarksApart, NEW s, NEW p, NEW x, SentDevice(x), Holds(s, p, EnddeviceLeaves, x),
         x.has_app = 1 => Keys(s, p ++ "apps") = x.apps
  PROVE  ReadEnddevice(s, p) = x
<1> DEFINE a == IF Get(s, p ++ "has_app") = 1 THEN Keys(s, p ++ "apps") ELSE Undefined
           parts == [apps |-> a]
           leaves == EnddeviceLeaves
           r == Struct(s, p, leaves, parts)
<1>1. "has_app" \in EnddeviceLeaves /\ "apps" \notin EnddeviceLeaves
  BY DEF EnddeviceLeaves
<1>2. a = x.apps
  BY <1>1 DEF Holds, SentDevice
<1>3. DOMAIN parts = {"apps"} /\ parts["apps"] = a
  OBVIOUS
<1>4. ReadEnddevice(s, p) = r
  BY DEF ReadEnddevice
<1>5. /\ \A f \in leaves : x[f] # Fail /\ x[f] # Crash
      /\ x.apps # Fail /\ x.apps # Crash
  BY DEF SentDevice, IsDevice, Filled
<1> HIDE DEF a, parts
<1>6. Fits(leaves, x, parts) /\ \A f \in DOMAIN parts : parts[f] # Crash
  BY <1>1, <1>2, <1>3, <1>5 DEF Fits
<1>7. Holds(s, p, leaves, x)
  OBVIOUS
<1> HIDE DEF leaves
<1>8. StructClean(r, leaves, x, parts)
  BY <1>6, <1>7, StructReadClean
<1> HIDE DEF r
<1>9. DOMAIN r = DeviceFields /\ \A f \in DeviceFields : r[f] = x[f]
  BY <1>2, <1>3, <1>8 DEF DeviceFields, leaves, StructClean
<1> QED  BY <1>4, <1>8, <1>9 DEF SentDevice, StructClean

\* A connection is read with the lowest byte of its number.
LEMMA ConnectionRead ==
  ASSUME MarksApart, NEW s, NEW p, NEW x, x = [f \in GraphFields |-> x[f]],
         Filled(x, Connection), x.id \in Nat,
         Holds(s, p, Connection, x), Get(s, p ++ "id") = x.id
  PROVE  /\ ReadConnection(s, p) = [x EXCEPT !.id = @ % 256]
         /\ ReadConnection(s, p) \notin {Fail, Crash}
<1> DEFINE id == Get(s, p ++ "id")
           n == IF id = Fail THEN Fail ELSE id % 2^8
           parts == [id |-> n]
           leaves == Connection
           r == Struct(s, p, leaves, parts)
           y == [x EXCEPT !.id = @ % 256]
<1>1. id = x.id /\ x.id \in Nat /\ x.id # Fail
  BY MarksDiffer, MarksDistinct
<1>2. n = x.id % 256 /\ n \in Int
  BY <1>1, Powers
<1>3. DOMAIN parts = {"id"} /\ parts["id"] = n /\ "id" \notin leaves
  BY DEF Connection
<1>4. ReadConnection(s, p) = r
  BY DEF ReadConnection
<1>5. n # Fail /\ n # Crash
  BY <1>2, MarksDiffer, MarksDistinct
<1> HIDE DEF n, parts
<1>6. Fits(leaves, x, parts) /\ \A f \in DOMAIN parts : parts[f] # Crash
  BY <1>3, <1>5 DEF Fits, Filled
<1>7. Holds(s, p, leaves, x)
  OBVIOUS
<1> HIDE DEF leaves
<1>8. StructClean(r, leaves, x, parts)
  BY <1>6, <1>7, StructReadClean
<1> HIDE DEF r
<1>9. /\ y = [f \in GraphFields |-> y[f]] /\ y["id"] = x.id % 256
      /\ \A f \in leaves : y[f] = x[f]
  BY <1>3 DEF GraphFields, leaves
<1> HIDE DEF y
<1>10. DOMAIN r = GraphFields /\ \A f \in GraphFields : r[f] = y[f]
  BY <1>2, <1>3, <1>8, <1>9 DEF GraphFields, leaves, StructClean
<1> QED  BY <1>4, <1>8, <1>9, <1>10 DEF y, StructClean

\* The topology is read as it was sent.
LEMMA TopologyRead ==
  ASSUME MarksApart, NEW s, NEW x, DevicesAre(s, x), SentDevices(x),
         NEW g, GraphIs(s, g), SentGraph(g), SwitchesRead(s)
  PROVE  /\ ReadTopology(s) \notin {Fail, Crash}
         /\ ReadTopology(s).devices.enddevices = x
         /\ ReadTopology(s).graph = Modulo256(g)
<1> DEFINE E == [m \in Keys(s, EnddevicesPath) |-> ReadEnddevice(s, EnddevicesPath ++ m)]
           W == [w \in Keys(s, SwitchesPath) |-> ReadSwitch(s, SwitchesPath ++ w)]
           C == [c \in Keys(s, GraphPath) |-> ReadConnection(s, GraphPath ++ c)]
           e == Entries(s, EnddevicesPath, ReadEnddevice)
           sw == Entries(s, SwitchesPath, ReadSwitch)
           c == ReadGraph(s)
           D == [enddevices |-> e, switches |-> sw]
           d == ReadDevices(s)
           T == [devices |-> d, graph |-> c]
           t == ReadTopology(s)
<1>1. e = Whole(E) /\ sw = Whole(W) /\ c = Whole(C) /\ d = Whole(D) /\ t = Whole(T)
  BY DEF Entries, ReadGraph, ReadDevices, ReadTopology
<1>2. /\ E = [m \in DOMAIN E |-> E[m]] /\ DOMAIN E = DOMAIN x
      /\ \A m \in DOMAIN x : E[m] = x[m] /\ x[m] # Fail /\ x[m] # Crash
  <2>1. ASSUME NEW m \in DOMAIN x
        PROVE ReadEnddevice(s, EnddevicesPath ++ m) = x[m] /\ x[m] # Fail /\ x[m] # Crash
    <3> DEFINE y == x[m]
               p == EnddevicesPath ++ m
    <3>1. /\ SentDevice(y) /\ Holds(s, p, EnddeviceLeaves, y)
          /\ y.has_app = 1 => Keys(s, p ++ "apps") = y.apps
      BY DEF SentDevices, DevicesAre, EnddevicePath
    <3> HIDE DEF y, p
    <3>2. ReadEnddevice(s, p) = y
      BY <3>1, DeviceRead
    <3>3. y = [f \in DOMAIN y |-> y[f]]
      BY <3>1 DEF SentDevice
    <3> QED  BY <3>2, <3>3 DEF y, p, MarksApart
  <2> QED  BY <2>1 DEF DevicesAre
<1>3. E = x
  BY <1>2 DEF SentDevices
<1>4. /\ W = [w \in DOMAIN W |-> W[w]]
      /\ \A w \in DOMAIN W : W[w] # Fail /\ W[w] # Crash
  <2>1. ASSUME NEW w \in Keys(s, SwitchesPath)
        PROVE ReadSwitch(s, SwitchesPath ++ w) \notin {Fail, Crash}
    <3> DEFINE p == SwitchesPath ++ w
               y == [f \in Switch |-> Get(s, p ++ f)]
               parts == << >>
               leaves == Switch
               r == Struct(s, p, leaves, parts)
    <3>1. ReadSwitch(s, p) = r
      BY DEF ReadSwitch, Leaves
    <3>2. Holds(s, p, leaves, y) /\ \A f \in leaves : y[f] # Fail /\ y[f] # Crash
      BY DEF Holds, SwitchesRead
    <3>3. DOMAIN parts = {}
      OBVIOUS
    <3> HIDE DEF p, y, parts, leaves
    <3>4. Fits(leaves, y, parts) /\ \A f \in DOMAIN parts : parts[f] # Crash
      BY <3>2, <3>3 DEF Fits
    <3>5. r \notin {Fail, Crash}
      BY <3>2, <3>4, StructReadClean DEF StructClean
    <3> QED  BY <3>1, <3>5 DEF p
  <2> QED  BY <2>1
<1>5. /\ C = [k \in DOMAIN C |-> C[k]] /\ DOMAIN C = DOMAIN g
      /\ \A k \in DOMAIN g : C[k] = [g[k] EXCEPT !.id = @ % 256] /\ C[k] # Fail /\ C[k] # Crash
  <2>1. ASSUME NEW k \in DOMAIN g
        PROVE /\ ReadConnection(s, GraphPath ++ k) = [g[k] EXCEPT !.id = @ % 256]
              /\ ReadConnection(s, GraphPath ++ k) \notin {Fail, Crash}
    <3> DEFINE y == g[k]
               p == GraphPath ++ k
    <3>1. /\ y = [f \in GraphFields |-> y[f]] /\ Filled(y, Connection) /\ y.id \in Nat
          /\ Holds(s, p, Connection, y) /\ Get(s, p ++ "id") = y.id
      BY DEF SentGraph, IsGraph, GraphIs
    <3> HIDE DEF y, p
    <3>2. /\ ReadConnection(s, p) = [y EXCEPT !.id = @ % 256]
          /\ ReadConnection(s, p) \notin {Fail, Crash}
      BY <3>1, ConnectionRead
    <3> QED  BY <3>2 DEF y, p
  <2> QED  BY <2>1 DEF GraphIs
<1>6. C = Modulo256(g)
  BY <1>5 DEF Modulo256
<1> HIDE DEF E, W, C, e, sw, c
<1>7. e = E /\ e \notin {Fail, Crash}
  BY <1>1, <1>2, ReadClean
<1>8. sw = W /\ sw \notin {Fail, Crash}
  BY <1>1, <1>4, ReadClean
<1>9. c = C /\ c \notin {Fail, Crash}
  BY <1>1, <1>5, ReadClean
<1>10. D = [f \in DOMAIN D |-> D[f]] /\ \A f \in DOMAIN D : D[f] # Fail /\ D[f] # Crash
  BY <1>7, <1>8
<1>11. D.enddevices = e
  OBVIOUS
<1> HIDE DEF D, d
<1>12. d = D /\ d \notin {Fail, Crash}
  BY <1>1, <1>10, ReadClean
<1>13. T = [f \in DOMAIN T |-> T[f]] /\ \A f \in DOMAIN T : T[f] # Fail /\ T[f] # Crash
  BY <1>9, <1>12
<1>14. T.devices = d /\ T.graph = c
  OBVIOUS
<1> HIDE DEF T, t
<1>15. t = T /\ t \notin {Fail, Crash}
  BY <1>1, <1>13, ReadClean
<1> QED  BY <1>3, <1>6, <1>7, <1>9, <1>11, <1>12, <1>14, <1>15 DEF t

\* TopologyAsSent: end devices and the graph are read as they were sent last.
THEOREM TopologyIsAsSent == ASSUME MarksApart PROVE Spec => []TopologyAsSent
<1>1. IInv => TopologyAsSent
  BY TopologyRead DEF IInv, TopologyInv, TopologyAsSent
<1> QED  BY <1>1, StoreHoldsWhatWasSent, PTL

\* A value that was read is the same once it was sent back and read again.
Returns(type, v) == JsonToDataValue(type, DataValueToJson(type, v)) = v

\* A value that is read without a crash is the same after it was serialised
\* and deserialised, unless it is an instance identifier.
LEMMA ValueReturns ==
  ASSUME MarksApart, NEW type, NEW v, HasType(v, type), type # "INSTANCE_IDENTIFIER"
  PROVE  LET r == ReadSubtreeValue(type, TextOf(type, v))
         IN r # Crash => Returns(type, r)
<1> DEFINE t == TextOf(type, v)
           r == ReadSubtreeValue(type, t)
<1>0. /\ "BOOLEAN" \notin Pointers \cup {"DECIMAL64"}
      /\ Pointers \cup {"DECIMAL64"} = Texts \cup {"INSTANCE_IDENTIFIER"}
      /\ \A b \in DOMAIN Bits : b \notin Pointers \cup {"DECIMAL64", "BOOLEAN"}
  BY DEF Pointers, Bits, Texts
<1>1. CASE type \in Texts /\ IsText(v)
  <2>1. r # Crash => r = v
    BY <1>1, SubtreeValueRead
  <2>2. type \notin DOMAIN Bits
    BY <1>0, <1>1
  <2>3. v \notin {Undefined, Crash}
    BY <1>1, TextNoMark
  <2> HIDE DEF r
  <2> QED  BY <2>1, <2>2, <2>3 DEF Returns, JsonToDataValue, DataValueToJson, r
<1>2. CASE type = "BOOLEAN"
  <2>1. type \notin DOMAIN Bits /\ type \notin Pointers
    BY <1>0, <1>2
  <2> HIDE DEF r
  <2>2. Returns(type, r)
    BY <2>1 DEF Returns, JsonToDataValue, DataValueToJson
  <2> QED  BY <2>2 DEF r
<1>3. CASE type \in DOMAIN Bits /\ IsNumber(v, type)
  <2> DEFINE m == MemberOfNumber(v)
  <2>0. type \notin {"INSTANCE_IDENTIFIER", "BINARY", "STRING", "DECIMAL64", "BOOLEAN"}
    BY <1>0, <1>3 DEF Pointers
  <2>1. t = Number(v)
    BY <1>0, <1>3 DEF TextOf
  <2>2. Narrow(type, v) = v /\ v \in Int
    BY <1>3, NarrowKeeps
  <2>3. MemberOf(t) = m /\ t.n = v
    BY <2>1, <2>2, NumberMember
  <2>4. r = IF m \in {"BINARY", "STRING", "BOOLEAN"} THEN Undefined
            ELSE IF Bits[m] < Bits[type] /\ v < 0 THEN v + 2^Bits[m] ELSE v
    BY <2>0, <2>2, <2>3 DEF ReadSubtreeValue
  <2>5. DataValueToJson(type, r) = r
    BY <1>0, <1>3 DEF DataValueToJson
  <2> HIDE DEF r
  <2>6. r = Undefined \/ Narrow(type, r) = r => Returns(type, r)
    BY <2>5 DEF Returns, JsonToDataValue
  <2>7. CASE m \in {"BINARY", "STRING", "BOOLEAN"} \/ ~(Bits[m] < Bits[type] /\ v < 0)
    BY <2>2, <2>4, <2>6, <2>7 DEF r
  <2>8. CASE m \notin {"BINARY", "STRING", "BOOLEAN"} /\ Bits[m] < Bits[type] /\ v < 0
    <3>1. CASE Bits[type] > 16
      <4>1. Narrow(type, r) = r
        BY <3>1 DEF Narrow
      <4> QED  BY <2>6, <4>1 DEF r
    <3>2. CASE ~(Bits[type] > 16)
      <4>1. -128 <= v /\ m = "INT8" /\ Bits[m] = 8
        BY <1>3, <2>2, <2>8, <3>2 DEF MemberOfNumber, Bits
      <4>2. type = "INT16"
        BY <1>3, <2>2, <2>8, <3>2, <4>1 DEF Bits, IsNumber, Between
      <4>3. r = v + 256 /\ r \in Int /\ 0 <= r /\ r < 256
        BY <2>2, <2>4, <2>8, <4>1, Powers
      <4>4. r % 65536 = r
        BY <4>3
      <4>5. Narrow(type, r) = r
        BY <4>2, <4>3, <4>4, Powers DEF Narrow, Bits
      <4> QED  BY <2>6, <4>5 DEF r
    <3> QED  BY <3>1, <3>2
  <2> QED  BY <2>7, <2>8
<1> QED  BY <1>0, <1>1, <1>2, <1>3 DEF HasType

\* One parameter of an application.
ParameterFields == ParameterLeaves \cup {"value"}

\* A parameter that was sent is read with its name, its type and, where the
\* type lets it survive, its value.
LEMMA ParameterRead ==
  ASSUME MarksApart, NEW s, NEW p, NEW x, Holds(s, p, ParameterLeaves, x),
         Get(s, p ++ "value") = TextOf(x.type, x.value), Filled(x, ParameterLeaves),
         HasType(x.value, x.type)
  PROVE  LET r == ReadAppParameter(s, p)
         IN /\ r # Fail
            /\ r = Crash <=> x.type \in Texts /\ ~TextSurvives(x.value)
            /\ r # Crash =>
                 /\ r = [f \in ParameterFields |-> r[f]]
                 /\ r.name = x.name /\ r.type = x.type
                 /\ r.value = x.value <=> ParameterSurvives(x.type, x.value)
                 /\ x.type # "INSTANCE_IDENTIFIER" => Returns(r.type, r.value)
<1> DEFINE type == Get(s, p ++ "type")
           text == Get(s, p ++ "value")
           v == IF type = Fail \/ text = Fail THEN Fail ELSE ReadSubtreeValue(type, text)
           parts == [value |-> v]
           r == ReadAppParameter(s, p)
           y == x.value
<1>1. /\ type = x.type /\ x.type # Fail
      /\ "name" \in ParameterLeaves /\ "type" \in ParameterLeaves
  BY DEF Holds, ParameterLeaves, Filled
<1>2. text = TextOf(x.type, y) /\ text # Fail
  BY TextOfNoMark
<1>3. v = ReadSubtreeValue(x.type, TextOf(x.type, y))
  BY <1>1, <1>2
<1>4. r = Struct(s, p, ParameterLeaves, parts)
  BY DEF ReadAppParameter
<1>5. DOMAIN parts = {"value"} /\ parts["value"] = v /\ "value" \notin ParameterLeaves
  BY DEF ParameterLeaves
<1>6. \A f \in ParameterLeaves : x[f] # Fail /\ x[f] # Crash
  BY DEF Filled
<1> HIDE DEF v, parts, r, y
<1>7. /\ v # Fail
      /\ v = Crash <=> x.type \in Texts /\ ~TextSurvives(y)
      /\ v # Crash => (v = y <=> ParameterSurvives(x.type, y))
  BY <1>3, SubtreeValueRead DEF y
<1>8. v # Crash /\ x.type # "INSTANCE_IDENTIFIER" => Returns(x.type, v)
  BY <1>3, ValueReturns DEF y
<1>9. Fits(ParameterLeaves, x, parts)
  BY <1>5, <1>6, <1>7 DEF Fits
<1>10. StructIs(r, ParameterLeaves, x, parts)
  BY <1>4, <1>9, StructRead
<1>11. r # Crash => r = [f \in ParameterFields |-> r[f]]
  BY <1>5, <1>10 DEF StructIs, ParameterFields
<1> QED  BY <1>1, <1>5, <1>7, <1>8, <1>10, <1>11 DEF StructIs, r, y

\* What the parameters of an application are when they are read; those that
\* are no instance identifiers can be sent back.
ParametersAre(r, x) ==
  /\ r = [k \in DOMAIN r |-> r[k]]
  /\ SameValues(r, x, ParameterSurvives)
  /\ \A k \in DOMAIN r :
        /\ r[k] = [f \in ParameterFields |-> r[k][f]]
        /\ r[k].type # "INSTANCE_IDENTIFIER" => Returns(r[k].type, r[k].value)

\* The parameters of an application are read, with a crash exactly when one
\* of them crashes the reader.
LEMMA ParametersRead ==
  ASSUME MarksApart, NEW s, NEW pp, NEW x, ValuesHeld(s, pp, ParameterLeaves, x),
         AreValues(x, ParameterLeaves)
  PROVE  LET r == Entries(s, pp, ReadAppParameter)
         IN /\ r # Fail
            /\ r = Crash <=> Harmful(x, Texts)
            /\ r # Crash => ParametersAre(r, x)
<1> DEFINE F == [k \in Keys(s, pp) |-> ReadAppParameter(s, pp ++ k)]
           r == Entries(s, pp, ReadAppParameter)
<1>1. r = Whole(F)
  BY DEF Entries
<1>2. Keys(s, pp) = DOMAIN x
  BY DEF ValuesHeld
<1>3. /\ DOMAIN F = DOMAIN x /\ F = [k \in DOMAIN F |-> F[k]]
      /\ \A k \in DOMAIN x : F[k] = ReadAppParameter(s, pp ++ k)
  BY <1>2
<1> HIDE DEF F
<1>5. ASSUME NEW k \in DOMAIN x
      PROVE  /\ F[k] # Fail
             /\ F[k] = Crash <=> x[k].type \in Texts /\ ~TextSurvives(x[k].value)
             /\ F[k] # Crash =>
                  /\ F[k] = [f \in ParameterFields |-> F[k][f]]
                  /\ F[k].name = x[k].name /\ F[k].type = x[k].type
                  /\ F[k].value = x[k].value <=> ParameterSurvives(x[k].type, x[k].value)
                  /\ x[k].type # "INSTANCE_IDENTIFIER" => Returns(F[k].type, F[k].value)
  <2> DEFINE y == x[k]
             p == pp ++ k
  <2>1. /\ Holds(s, p, ParameterLeaves, y) /\ Get(s, p ++ "value") = TextOf(y.type, y.value)
        /\ Filled(y, ParameterLeaves) /\ HasType(y.value, y.type)
    BY DEF ValuesHeld, AreValues
  <2> HIDE DEF y, p
  <2> DEFINE e == ReadAppParameter(s, p)
  <2>2. /\ e # Fail
        /\ e = Crash <=> y.type \in Texts /\ ~TextSurvives(y.value)
        /\ e # Crash =>
             /\ e = [f \in ParameterFields |-> e[f]]
             /\ e.name = y.name /\ e.type = y.type
             /\ e.value = y.value <=> ParameterSurvives(y.type, y.value)
             /\ y.type # "INSTANCE_IDENTIFIER" => Returns(e.type, e.value)
    BY <2>1, ParameterRead
  <2>3. F[k] = e
    BY <1>3 DEF p
  <2> HIDE DEF e
  <2> QED  BY <2>2, <2>3 DEF y
<1>6. /\ Whole(F) # Fail
      /\ Whole(F) = Crash <=> \E k \in DOMAIN F : F[k] = Crash
      /\ (\A k \in DOMAIN F : F[k] # Crash) => Whole(F) = F
  BY <1>3, <1>5, ReadWhole
<1>7. Harmful(x, Texts) <=> \E k \in DOMAIN F : F[k] = Crash
  BY <1>3, <1>5 DEF Harmful
<1>8. ASSUME r # Crash PROVE ParametersAre(r, x)
  <2>1. r = F /\ \A k \in DOMAIN F : F[k] # Crash
    BY <1>1, <1>6, <1>8
  <2> HIDE DEF r
  <2>2. SameValues(F, x, ParameterSurvives)
    BY <1>3, <1>5, <2>1 DEF SameValues
  <2>3. ASSUME NEW k \in DOMAIN F
        PROVE  /\ F[k] = [f \in ParameterFields |-> F[k][f]]
               /\ F[k].type # "INSTANCE_IDENTIFIER" => Returns(F[k].type, F[k].value)
    BY <1>3, <1>5, <2>1, <2>3
  <2> QED  BY <1>3, <2>1, <2>2, <2>3 DEF ParametersAre
<1> HIDE DEF r
<1> QED  BY <1>1, <1>6, <1>7, <1>8 DEF r

\* An application as it is read.
AppReadAs(r, x, m, cut) ==
  /\ r = [f \in AppFields |-> r[f]]
  /\ \A f \in AppFields \ {"parameters", "stream_mapping"} : r[f] = x[f]
  /\ r.stream_mapping = m
  /\ IF cut THEN r.parameters = << >> ELSE ParametersAre(r.parameters, x.parameters)

\* An application that was sent is read with the leaves it was sent with, the
\* mappings kept for it and, unless the first of its commits failed, its
\* parameters.
LEMMA AppRead ==
  ASSUME MarksApart, NEW s, Leafed(s), NEW x, SentApp(x), NEW cut \in BOOLEAN, AppIs(s, x, cut),
         NEW m, MappingIs(s, x.id, m)
  PROVE  LET r == ReadApp(s, AppPath(x.id))
         IN /\ r # Fail
            /\ r = Crash <=> ~cut /\ Harmful(x.parameters, Texts)
            /\ r # Crash => AppReadAs(r, x, m, cut)
<1> DEFINE p == AppPath(x.id)
           mac == IF Get(s, p ++ "has_mac") = 1 THEN Get(s, p ++ "mac") ELSE Null
           image == IF Get(s, p ++ "has_image") = 1 THEN Get(s, p ++ "image_ref") ELSE Null
           ps == Entries(s, p ++ "parameters", ReadAppParameter)
           ms == ReadAppStreamMapping(s, p ++ "stream_mapping")
           parts == [mac |-> mac, image_ref |-> image, parameters |-> ps, stream_mapping |-> ms]
           leaves == AppLeaves
           r == Struct(s, p, leaves, parts)
<1>1. ReadApp(s, p) = r
  BY DEF ReadApp
<1>2. /\ "has_mac" \in leaves /\ "has_image" \in leaves
      /\ \A f \in {"mac", "image_ref", "parameters", "stream_mapping"} : f \notin leaves
  BY DEF AppLeaves
<1>3. Holds(s, p, leaves, x)
  BY DEF AppIs, HeaderIs
<1>4. mac = x.mac /\ image = x.image_ref
  BY <1>2, <1>3 DEF AppIs, HeaderIs, Holds, SentApp
<1>5. /\ \A f \in leaves : x[f] # Fail /\ x[f] # Crash
      /\ x.mac # Fail /\ x.mac # Crash /\ x.image_ref # Fail /\ x.image_ref # Crash
  BY DEF SentApp, IsApp, Filled
<1>6. ms = m /\ ms # Fail /\ ms # Crash
  <2>1. ms = [egress |-> m["egress"], ingress |-> m["ingress"]]
    BY DEF ReadAppStreamMapping, MappingIs, Roles
  <2>2. m = [egress |-> m["egress"], ingress |-> m["ingress"]]
    BY DEF MappingIs, Roles
  <2>3. ms = m
    BY <2>1, <2>2
  <2>4. m = [f \in DOMAIN m |-> m[f]]
    BY DEF MappingIs
  <2> HIDE DEF ms
  <2> QED  BY <2>3, <2>4 DEF MarksApart
<1>7. /\ ps # Fail
      /\ ps = Crash <=> ~cut /\ Harmful(x.parameters, Texts)
      /\ ps # Crash => IF cut THEN ps = << >> ELSE ParametersAre(ps, x.parameters)
  <2> DEFINE pp == p ++ "parameters"
             y == x.parameters
  <2>1. CASE ~cut
    <3>1. ValuesHeld(s, pp, ParameterLeaves, y)
      BY <2>1 DEF AppIs
    <3>2. AreValues(y, ParameterLeaves)
      BY DEF SentApp, IsApp
    <3> HIDE DEF y, pp
    <3>3. LET e == Entries(s, pp, ReadAppParameter)
          IN e # Fail /\ (e = Crash <=> Harmful(y, Texts)) /\ (e # Crash => ParametersAre(e, y))
      BY <3>1, <3>2, ParametersRead
    <3> QED  BY <2>1, <3>3 DEF pp, y
  <2>2. CASE cut
    <3>1. Blank(s, pp)
      BY <2>2 DEF AppIs
    <3>2. Path(pp)
      BY AppPlace, Longer
    <3> HIDE DEF pp
    <3>3. Keys(s, pp) = {}
      BY <3>1, <3>2, BlankIs
    <3> DEFINE F == [k \in {} |-> ReadAppParameter(s, pp ++ k)]
    <3>4. Entries(s, pp, ReadAppParameter) = Whole(F)
      BY <3>3 DEF Entries
    <3>5. F = << >> /\ F = [k \in DOMAIN F |-> F[k]] /\ DOMAIN F = {}
      OBVIOUS
    <3> HIDE DEF F
    <3>6. Whole(F) = F /\ F \notin {Fail, Crash}
      BY <3>5, ReadClean
    <3> QED  BY <2>2, <3>4, <3>5, <3>6 DEF pp
  <2> QED  BY <2>1, <2>2
<1> DEFINE names == {"mac", "image_ref", "parameters", "stream_mapping"}
<1>8. /\ DOMAIN parts = names /\ parts["mac"] = mac /\ parts["image_ref"] = image
      /\ parts["parameters"] = ps /\ parts["stream_mapping"] = ms
  OBVIOUS
<1> HIDE DEF mac, image, ps, ms, parts, leaves, p
<1>9. Fits(leaves, x, parts)
  BY <1>2, <1>4, <1>5, <1>6, <1>7, <1>8 DEF Fits
<1>10. StructIs(r, leaves, x, parts)
  BY <1>3, <1>9, StructRead
<1> HIDE DEF r
<1>11. r = Crash <=> ps = Crash
  BY <1>4, <1>5, <1>6, <1>8, <1>10 DEF StructIs
<1>12. ASSUME r # Crash PROVE AppReadAs(r, x, m, cut)
  <2>1. /\ r = [f \in DOMAIN r |-> r[f]] /\ DOMAIN r = leaves \cup names
        /\ \A f \in leaves : r[f] = x[f]
        /\ \A f \in names : r[f] = parts[f]
    BY <1>8, <1>10, <1>12 DEF StructIs
  <2>2. leaves \cup names = AppFields
    BY DEF AppFields, leaves
  <2>3. \A f \in AppFields \ {"parameters", "stream_mapping"} : r[f] = x[f]
    BY <1>4, <1>8, <2>1, <2>2
  <2>4. r["parameters"] = ps /\ r["stream_mapping"] = m
    BY <1>6, <1>8, <2>1
  <2> HIDE DEF names
  <2> QED  BY <1>7, <1>11, <1>12, <2>1, <2>2, <2>3, <2>4 DEF AppReadAs
<1> QED  BY <1>1, <1>7, <1>10, <1>11, <1>12 DEF StructIs, p

\* AppAsSent: an application is read as it was sent last, mapped to every
\* stream it was ever mapped to that still exists.
THEOREM AppIsAsSent == ASSUME MarksApart PROVE Spec => []AppAsSent
<1>1. IInv => AppAsSent
  <2> SUFFICES ASSUME IInv, NEW id \in DOMAIN book.apps
               PROVE  LET sent == book.apps[id]
                          read == ReadApp(store, AppPath(id))
                      IN IF ~Cut(id) /\ HarmfulApp(id) THEN read = Crash
                         ELSE /\ read \notin {Fail, Crash}
                              /\ \A f \in DOMAIN sent \ {"parameters", "stream_mapping"} :
                                    read[f] = sent[f]
                              /\ read.stream_mapping = Mapping(id)
                              /\ IF Cut(id) THEN read.parameters = << >>
                                 ELSE SameValues(read.parameters, sent.parameters, ParameterSurvives)
    BY DEF AppAsSent
  <2> DEFINE x == book.apps[id]
             r == ReadApp(store, AppPath(x.id))
             m == Mapping(id)
             cut == Cut(id)
  <2>1. /\ Leafed(store) /\ x.id = id /\ SentApp(x) /\ AppIs(store, x, cut)
        /\ MappingIs(store, x.id, m) /\ cut \in BOOLEAN
    BY DEF IInv, AppsInv, Cut
  <2>2. HarmfulApp(id) <=> Harmful(x.parameters, Texts)
    BY DEF HarmfulApp
  <2>3. DOMAIN x = AppFields
    BY <2>1 DEF SentApp
  <2> HIDE DEF x, m, cut
  <2>4. /\ r # Fail
        /\ r = Crash <=> ~cut /\ Harmful(x.parameters, Texts)
        /\ r # Crash => AppReadAs(r, x, m, cut)
    BY <2>1, AppRead
  <2>5. r = ReadApp(store, AppPath(id))
    BY <2>1
  <2> HIDE DEF r
  <2> QED  BY <2>2, <2>3, <2>4, <2>5 DEF AppReadAs, ParametersAre, x, m, cut
<1> QED  BY <1>1, StoreHoldsWhatWasSent, PTL

(***************************************************************************)
(* Serialised and deserialised                                             *)
(***************************************************************************)
\* The fields of applications, parameters, mappings and images, and the
\* parts of the tree on the way to the images, are found by their names.
Named == AppFields \cup ParameterFields \cup Roles \cup Image
           \cup {"streams", "modules", "topology", "application", "apps", "images"}

\* The name of a field in the document stands for that field alone.
LEMMA NamesReturn ==
  \A f \in Named : FieldOf(Name(f)) = f
<1>1. \A f, g \in DOMAIN Dashed : Dashed[f] = Dashed[g] => f = g
  BY DEF Dashed
<1>2. DOMAIN Field = {Dashed[f] : f \in DOMAIN Dashed}
  BY DEF Field
<1>3. ASSUME NEW f \in DOMAIN Dashed PROVE FieldOf(Name(f)) = f
  <2> DEFINE n == Dashed[f]
             g == CHOOSE h \in DOMAIN Dashed : Dashed[h] = n
  <2>1. Name(f) = n /\ n \in DOMAIN Field
    BY <1>2, <1>3 DEF Name
  <2>2. Field[n] = g
    BY <1>2, <2>1 DEF Field
  <2>3. g \in DOMAIN Dashed /\ Dashed[g] = n
    BY <1>3
  <2> HIDE DEF g
  <2>4. g = f
    BY <1>1, <1>3, <2>3
  <2> QED  BY <2>1, <2>2, <2>4 DEF FieldOf
<1> DEFINE plain == {"id", "name", "description", "version", "iface", "mac", "parameters", "type",
                     "value", "egress", "ingress", "streams", "modules", "topology", "application",
                     "apps", "images"}
           dashed == {"has_mac", "has_image", "image_ref", "stream_mapping"}
<1>4. Named \subseteq plain \cup dashed
  BY DEF Named, AppFields, AppLeaves, ParameterFields, ParameterLeaves, Roles, Image
<1>5. dashed \subseteq DOMAIN Dashed
  BY DEF Dashed
<1>6. \A f \in plain : f \notin DOMAIN Dashed
  BY DEF Dashed
<1>7. \A f \in DOMAIN Dashed : Dashed[f] \notin plain
  BY DEF Dashed
<1> HIDE DEF plain, dashed
<1>8. ASSUME NEW f \in plain PROVE FieldOf(Name(f)) = f
  <2>1. Name(f) = f
    BY <1>6 DEF Name
  <2>2. f \notin DOMAIN Field
    BY <1>2, <1>7
  <2> QED  BY <2>1, <2>2 DEF FieldOf
<1> QED  BY <1>3, <1>4, <1>5, <1>8

\* What the JSON object of a structure has.
LEMMA ObjectHas ==
  ASSUME NEW x, \A f \in DOMAIN x : f \in Named
  PROVE  /\ \A f \in DOMAIN x : Name(f) \in DOMAIN Object(x) /\ Object(x)[Name(f)] = x[f]
         /\ \A n : n \in DOMAIN Object(x) <=> \E f \in DOMAIN x : n = Name(f)
<1>1. \A f \in DOMAIN x : FieldOf(Name(f)) = f
  BY NamesReturn
<1>2. Object(x) = [n \in {Name(f) : f \in DOMAIN x} |-> x[FieldOf(n)]]
  BY DEF Object
<1> QED  BY <1>1, <1>2

\* The names that are read of the documents.
LEMMA NamesAre ==
  /\ Name("has_mac") = "has-mac" /\ Name("has_image") = "has-image"
  /\ Name("image_ref") = "image-ref" /\ Name("stream_mapping") = "stream-mapping"
  /\ \A f \in {"id", "name", "version", "description", "iface", "mac", "parameters", "type",
               "value", "egress", "ingress", "application", "apps", "images"} : Name(f) = f
<1>1. {"has_mac", "has_image", "image_ref", "stream_mapping"} \subseteq DOMAIN Dashed
  BY DEF Dashed
<1>2. /\ Dashed["has_mac"] = "has-mac" /\ Dashed["has_image"] = "has-image"
      /\ Dashed["image_ref"] = "image-ref" /\ Dashed["stream_mapping"] = "stream-mapping"
  BY DEF Dashed
<1>3. \A f \in {"id", "name", "version", "description", "iface", "mac", "parameters", "type",
               "value", "egress", "ingress", "application", "apps", "images"} : f \notin DOMAIN Dashed
  BY DEF Dashed
<1> QED  BY <1>1, <1>2, <1>3 DEF Name

\* A parameter that was read is the same when it comes back.
LEMMA ParameterReturns ==
  ASSUME NEW x, x = [f \in ParameterFields |-> x[f]], Returns(x.type, x.value)
  PROVE  DeserializeAppParameter(SerializeAppParameter(x)) = x
<1> DEFINE j == DataValueToJson(x.type, x.value)
           y == [x EXCEPT !.value = DataValueToJson(x.type, @)]
           o == SerializeAppParameter(x)
           fields == {"name", "type", "description", "value"}
           r == Record(o, fields)
           z == [r EXCEPT !.value = JsonToDataValue(o["type"], @)]
<1>1. ParameterFields = fields
  BY DEF ParameterFields, ParameterLeaves
<1>2. /\ DOMAIN y = fields /\ y["value"] = j
      /\ \A f \in fields \ {"value"} : y[f] = x[f]
  BY <1>1
<1>3. o = Object(y)
  BY DEF SerializeAppParameter
<1>4. DeserializeAppParameter(o) = z
  BY DEF DeserializeAppParameter
<1> HIDE DEF y, o, j
<1>5. \A f \in fields : f \in Named /\ Name(f) = f
  <2>1. \A f \in fields : f \in Named
    BY <1>1 DEF Named
  <2> QED  BY <2>1, NamesAre
<1>6. \A f \in fields : o[f] = y[f]
  BY <1>2, <1>3, <1>5, ObjectHas
<1>7. DOMAIN r = fields /\ \A f \in fields : r[f] = y[f]
  BY <1>5, <1>6 DEF Record
<1> HIDE DEF r
<1>8. /\ z = [f \in fields |-> z[f]] /\ z["value"] = JsonToDataValue(o["type"], r["value"])
      /\ \A f \in fields \ {"value"} : z[f] = r[f]
  BY <1>7
<1> HIDE DEF z
<1>9. z["value"] = x["value"]
  BY <1>2, <1>6, <1>7, <1>8 DEF Returns, j
<1>10. \A f \in fields : z[f] = x[f]
  BY <1>2, <1>7, <1>8, <1>9
<1>11. x = [f \in fields |-> x[f]]
  BY <1>1
<1> QED  BY <1>4, <1>8, <1>10, <1>11 DEF o

\* An application as it was read means the same when it comes back; without
\* an image it is refused.
LEMMA AppReturns ==
  ASSUME NEW x, x = [f \in AppFields |-> x[f]], x.has_mac # 1 => x.mac = Null,
         x.parameters = [k \in DOMAIN x.parameters |-> x.parameters[k]],
         \A k \in DOMAIN x.parameters :
            /\ x.parameters[k] = [f \in ParameterFields |-> x.parameters[k][f]]
            /\ Returns(x.parameters[k].type, x.parameters[k].value),
         x.stream_mapping = [role \in Roles |-> x.stream_mapping[role]]
  PROVE  DeserializeApp(SerializeApp(x)) = IF x.has_image = 1 THEN x ELSE Null
<1> DEFINE ps == x.parameters
           ms == x.stream_mapping
           qs == Array(SerializeAppParameter, ps)
           ns == SerializeAppStreamMapping(ms)
           y == [x EXCEPT !.parameters = Array(SerializeAppParameter, @),
                          !.stream_mapping = SerializeAppStreamMapping(@)]
           w == [f \in DOMAIN x \ Absent(x) |-> y[f]]
           o == SerializeApp(x)
<1>1. o = Object(w)
  BY DEF SerializeApp
<1>2. AppFields = {"id", "name", "version", "description", "has_mac", "mac", "iface",
                   "has_image", "image_ref", "parameters", "stream_mapping"}
  BY DEF AppFields, AppLeaves
<1>3. /\ y["parameters"] = qs /\ y["stream_mapping"] = ns
      /\ \A f \in AppFields \ {"parameters", "stream_mapping"} : y[f] = x[f]
  BY <1>2
<1>4. /\ \A f : f \in DOMAIN w <=> f \in AppFields /\ f \notin Absent(x)
      /\ \A f \in DOMAIN w : w[f] = y[f]
  <2> HIDE DEF y
  <2> QED  OBVIOUS
<1>5. /\ "mac" \in Absent(x) <=> x.has_mac # 1
      /\ "image_ref" \in Absent(x) <=> x.has_image # 1
      /\ \A f : f \notin {"mac", "image_ref"} => f \notin Absent(x)
  BY DEF Absent
<1> HIDE DEF w, y, o, qs, ns
<1>6. \A f \in DOMAIN w : f \in Named
  BY <1>4 DEF Named
<1>7. /\ \A f \in DOMAIN w : Name(f) \in DOMAIN o /\ o[Name(f)] = w[f]
      /\ \A n : n \in DOMAIN o <=> \E f \in DOMAIN w : n = Name(f)
  BY <1>1, <1>6, ObjectHas
<1>8. "image-ref" \in DOMAIN o <=> x.has_image = 1
  <2>1. \A f \in AppFields : Name(f) = "image-ref" => f = "image_ref"
    BY <1>2, NamesAre
  <2>2. "image_ref" \in AppFields
    BY <1>2
  <2> QED  BY <1>4, <1>5, <1>7, <2>1, <2>2, NamesAre
<1>9. CASE x.has_image # 1
  <2>1. DeserializeApp(o) = Null
    BY <1>8, <1>9 DEF DeserializeApp
  <2> QED  BY <1>9, <2>1 DEF o
<1>10. CASE x.has_image = 1
  <2> DEFINE F == [f \in AppFields |->
             CASE f = "id" -> IF f \in DOMAIN o THEN o[f] ELSE NewId(o["name"], o["version"])
               [] f = "mac" -> IF o["has-mac"] = 1 THEN o[f] ELSE Null
               [] f = "image_ref" -> IF o["has-image"] = 1 THEN o["image-ref"] ELSE Null
               [] f = "parameters" -> Array(DeserializeAppParameter, o[f])
               [] f = "stream_mapping" -> DeserializeAppStreamMapping(o["stream-mapping"])
               [] OTHER -> o[Name(f)]]
  <2>1. \A f \in AppFields \ {"mac"} : f \in DOMAIN w /\ Name(f) \in DOMAIN o /\ o[Name(f)] = y[f]
    BY <1>4, <1>5, <1>7, <1>10
  <2>2. {"name", "description", "version", "image-ref", "parameters"} \subseteq DOMAIN o
    BY <1>2, <2>1, NamesAre
  <2>3. DeserializeApp(o) = F
    BY <1>2, <2>2 DEF DeserializeApp
  <2>4. /\ o["has-mac"] = x.has_mac /\ o["has-image"] = x.has_image /\ o["image-ref"] = x.image_ref
        /\ o["id"] = x.id /\ "id" \in DOMAIN o /\ o["parameters"] = qs /\ o["stream-mapping"] = ns
    <3> DEFINE S == {"has_mac", "has_image", "image_ref", "id", "parameters", "stream_mapping"}
    <3>1. \A f \in S : Name(f) \in DOMAIN o /\ o[Name(f)] = y[f]
      BY <1>2, <2>1
    <3>2. /\ o[Name("has_mac")] = y["has_mac"] /\ o[Name("has_image")] = y["has_image"]
          /\ o[Name("image_ref")] = y["image_ref"] /\ o[Name("id")] = y["id"]
          /\ Name("id") \in DOMAIN o /\ o[Name("parameters")] = y["parameters"]
          /\ o[Name("stream_mapping")] = y["stream_mapping"]
      BY <3>1
    <3>3. /\ y["has_mac"] = x["has_mac"] /\ y["has_image"] = x["has_image"]
          /\ y["image_ref"] = x["image_ref"] /\ y["id"] = x["id"]
      BY <1>2, <1>3
    <3> QED  BY <1>3, <3>2, <3>3, NamesAre
  <2>5. x.has_mac = 1 => o["mac"] = x.mac
    <3>1. "mac" \in AppFields /\ Name("mac") = "mac"
      BY <1>2, NamesAre
    <3> QED  BY <1>3, <1>4, <1>5, <1>7, <3>1
  <2>6. Array(DeserializeAppParameter, qs) = ps
    <3>1. DOMAIN qs = DOMAIN ps /\ \A k \in DOMAIN ps : qs[k] = SerializeAppParameter(ps[k])
      BY DEF qs, Array
    <3>2. ASSUME NEW k \in DOMAIN ps PROVE DeserializeAppParameter(qs[k]) = ps[k]
      <4> DEFINE z == ps[k]
      <4>1. z = [f \in ParameterFields |-> z[f]] /\ Returns(z.type, z.value)
        OBVIOUS
      <4> HIDE DEF z
      <4>2. DeserializeAppParameter(SerializeAppParameter(z)) = z
        BY <4>1, ParameterReturns
      <4> QED  BY <3>1, <4>2 DEF z
    <3>3. Array(DeserializeAppParameter, qs) = [k \in DOMAIN qs |-> DeserializeAppParameter(qs[k])]
      BY DEF Array
    <3>4. ps = [k \in DOMAIN ps |-> ps[k]]
      OBVIOUS
    <3> HIDE DEF ps
    <3> QED  BY <3>1, <3>2, <3>3, <3>4
  <2>7. DeserializeAppStreamMapping(ns) = ms
    <3>1. ns = Object(ms) /\ DOMAIN ms = Roles /\ ms = [role \in Roles |-> ms[role]]
      BY DEF ns, SerializeAppStreamMapping
    <3> HIDE DEF ms
    <3>2. \A f \in Roles : f \in Named /\ Name(f) = f
      BY NamesAre DEF Named, Roles
    <3>3. \A f \in Roles : ns[f] = ms[f]
      BY <3>1, <3>2, ObjectHas
    <3>4. DeserializeAppStreamMapping(ns) = [f \in Roles |-> ns[Name(f)]]
      BY DEF DeserializeAppStreamMapping, Record, Roles
    <3> QED  BY <3>1, <3>2, <3>3, <3>4
  <2>8. DOMAIN F = AppFields /\ F = [f \in AppFields |-> F[f]]
    OBVIOUS
  <2>9. /\ F["id"] = x.id /\ F["image_ref"] = x.image_ref /\ F["parameters"] = ps
        /\ F["stream_mapping"] = ms
    BY <1>2, <1>10, <2>4, <2>6, <2>7
  <2>10. F["mac"] = x.mac
    BY <1>2, <2>4, <2>5
  <2>11. ASSUME NEW f \in AppFields \ {"id", "mac", "image_ref", "parameters", "stream_mapping"}
         PROVE  F[f] = x[f]
    BY <1>3, <2>1
  <2> HIDE DEF F
  <2>12. \A f \in AppFields : F[f] = x[f]
    BY <2>9, <2>10, <2>11
  <2>13. F = x
    BY <2>8, <2>12
  <2> QED  BY <1>10, <2>3, <2>13 DEF o
<1> QED  BY <1>9, <1>10

\* SentBackIffImage: an application as a client got it can be sent back
\* exactly if it has an image.
THEOREM AppsComeBack == ASSUME MarksApart PROVE Spec => []SentBackIffImage
<1>1. IInv => SentBackIffImage
  <2> SUFFICES ASSUME IInv, NEW id \in DOMAIN book.apps,
                      LET read == ReadApp(store, AppPath(id))
                          types == {read.parameters[k].type : k \in DOMAIN read.parameters}
                      IN read # Crash /\ "INSTANCE_IDENTIFIER" \notin types
               PROVE  LET read == ReadApp(store, AppPath(id))
                      IN DeserializeApp(SerializeApp(read)) = IF read.has_image = 1 THEN read ELSE Null
    BY DEF SentBackIffImage
  <2> DEFINE x == book.apps[id]
             r == ReadApp(store, AppPath(x.id))
             m == Mapping(id)
             cut == Cut(id)
  <2>1. /\ Leafed(store) /\ x.id = id /\ SentApp(x) /\ AppIs(store, x, cut)
        /\ MappingIs(store, x.id, m) /\ cut \in BOOLEAN
    BY DEF IInv, AppsInv, Cut
  <2>2. r = ReadApp(store, AppPath(id))
    BY <2>1
  <2>3. r # Crash /\ \A k \in DOMAIN r.parameters : r.parameters[k].type # "INSTANCE_IDENTIFIER"
    BY <2>2
  <2> HIDE DEF x, m, cut
  <2>4. r # Crash => AppReadAs(r, x, m, cut)
    BY <2>1, AppRead
  <2> HIDE DEF r
  <2>5. AppReadAs(r, x, m, cut)
    BY <2>3, <2>4
  <2>6. r = [f \in AppFields |-> r[f]]
    BY <2>5 DEF AppReadAs
  <2>7. r.has_mac # 1 => r.mac = Null
    <3>1. r["has_mac"] = x["has_mac"] /\ r["mac"] = x["mac"]
      BY <2>5 DEF AppReadAs, AppFields, AppLeaves
    <3> QED  BY <2>1, <3>1 DEF SentApp
  <2> DEFINE ps == r.parameters
  <2>8. /\ ps = [k \in DOMAIN ps |-> ps[k]]
        /\ \A k \in DOMAIN ps : /\ ps[k] = [f \in ParameterFields |-> ps[k][f]]
                                /\ Returns(ps[k].type, ps[k].value)
    <3>1. CASE cut
      <4>1. ps = << >> /\ DOMAIN << >> = {} /\ << >> = [k \in DOMAIN << >> |-> << >>[k]]
        BY <2>5, <3>1 DEF AppReadAs
      <4> HIDE DEF ps
      <4> QED  BY <4>1
    <3>2. CASE ~cut
      BY <2>3, <2>5, <3>2 DEF AppReadAs, ParametersAre
    <3> QED  BY <3>1, <3>2
  <2>9. r.stream_mapping = [role \in Roles |-> r.stream_mapping[role]]
    BY <2>1, <2>5 DEF AppReadAs, MappingIs
  <2>10. DeserializeApp(SerializeApp(r)) = IF r.has_image = 1 THEN r ELSE Null
    BY <2>6, <2>7, <2>8, <2>9, AppReturns
  <2> QED  BY <2>2, <2>10
<1> QED  BY <1>1, StoreHoldsWhatWasSent, PTL

(***************************************************************************)
(* The whole tree                                                          *)
(***************************************************************************)
\* A function is read without an error if none of its members has one.
LEMMA ReadFine ==
  ASSUME MarksApart, NEW x, x = [f \in DOMAIN x |-> x[f]]
  PROVE  /\ Whole(x) \notin {Fail, Crash} <=> \A f \in DOMAIN x : x[f] \notin {Fail, Crash}
         /\ Whole(x) \notin {Fail, Crash} => Whole(x) = x
BY ReadClean, WholeIs

\* An application without a name cannot be read.
LEMMA NamelessFails ==
  ASSUME NEW s, NEW p, Get(s, p ++ "name") = Fail
  PROVE  ReadApp(s, p) = Fail
<1> DEFINE parts == [mac |-> IF Get(s, p ++ "has_mac") = 1 THEN Get(s, p ++ "mac") ELSE Null,
                     image_ref |-> IF Get(s, p ++ "has_image") = 1 THEN Get(s, p ++ "image_ref")
                                   ELSE Null,
                     parameters |-> Entries(s, p ++ "parameters", ReadAppParameter),
                     stream_mapping |-> ReadAppStreamMapping(s, p ++ "stream_mapping")]
           G == [f \in AppLeaves \cup DOMAIN parts |->
                   IF f \in AppLeaves THEN Get(s, p ++ f) ELSE parts[f]]
<1>1. ReadApp(s, p) = Whole(G)
  BY DEF ReadApp, Struct
<1>2. "name" \in AppLeaves
  BY DEF AppLeaves
<1> HIDE DEF parts
<1>3. "name" \in DOMAIN G /\ G["name"] = Fail
  BY <1>2
<1> HIDE DEF G
<1> QED  BY <1>1, <1>3, WholeIs

\* An application without its name fails, one that was sent does not.
LEMMA AppsReadable ==
  ASSUME MarksApart, IInv
  PROVE  /\ \A id \in book.torn : ReadApp(store, AppPath(id)) = Fail
         /\ \A id \in DOMAIN book.apps :
               /\ ReadApp(store, AppPath(id)) # Fail
               /\ ReadApp(store, AppPath(id)) = Crash <=> ~Cut(id) /\ HarmfulApp(id)
<1>1. ASSUME NEW id \in book.torn PROVE ReadApp(store, AppPath(id)) = Fail
  <2>1. Get(store, AppPath(id) ++ "name") = Fail
    BY DEF IInv, AppsInv
  <2> DEFINE p == AppPath(id)
  <2> HIDE DEF p
  <2>2. Get(store, p ++ "name") = Fail => ReadApp(store, p) = Fail
    BY NamelessFails
  <2> QED  BY <2>1, <2>2 DEF p
<1>2. ASSUME NEW id \in DOMAIN book.apps
      PROVE  /\ ReadApp(store, AppPath(id)) # Fail
             /\ ReadApp(store, AppPath(id)) = Crash <=> ~Cut(id) /\ HarmfulApp(id)
  <2> DEFINE x == book.apps[id]
             r == ReadApp(store, AppPath(x.id))
             m == Mapping(id)
             cut == Cut(id)
  <2>1. /\ Leafed(store) /\ x.id = id /\ SentApp(x) /\ AppIs(store, x, cut)
        /\ MappingIs(store, x.id, m) /\ cut \in BOOLEAN
    BY DEF IInv, AppsInv, Cut
  <2>2. HarmfulApp(id) <=> Harmful(x.parameters, Texts)
    BY DEF HarmfulApp
  <2> HIDE DEF x, m, cut
  <2>3. r # Fail /\ (r = Crash <=> ~cut /\ Harmful(x.parameters, Texts))
    BY <2>1, AppRead
  <2>4. r = ReadApp(store, AppPath(id))
    BY <2>1
  <2> HIDE DEF r
  <2> QED  BY <2>2, <2>3, <2>4 DEF cut
<1> QED  BY <1>1, <1>2

\* The applications, all read.
LEMMA AppsListed ==
  ASSUME MarksApart, IInv
  PROVE  LET harmful == {id \in DOMAIN book.apps : ~Cut(id) /\ HarmfulApp(id)}
         IN /\ Listable <=> book.torn \cup harmful = {}
            /\ harmful = {} => ReadApps(store) # Crash
<1> DEFINE harmful == {id \in DOMAIN book.apps : ~Cut(id) /\ HarmfulApp(id)}
           F == [a \in Keys(store, AppsPath) |-> ReadApp(store, AppsPath ++ a)]
<1>1. ReadApps(store) = Whole(F)
  BY DEF ReadApps, Entries
<1>2. Keys(store, AppsPath) = DOMAIN book.apps \cup book.torn
  BY DEF IInv, AppsInv
<1>3. /\ DOMAIN F = DOMAIN book.apps \cup book.torn /\ F = [a \in DOMAIN F |-> F[a]]
      /\ \A a \in DOMAIN F : F[a] = ReadApp(store, AppPath(a))
  BY <1>2 DEF AppPath
<1> HIDE DEF F
<1>4. \A id \in book.torn : F[id] = Fail
  BY <1>3, AppsReadable
<1>5. \A id \in DOMAIN book.apps : F[id] # Fail /\ (F[id] = Crash <=> id \in harmful)
  BY <1>3, AppsReadable
<1>6. harmful \subseteq DOMAIN book.apps
  OBVIOUS
<1> HIDE DEF harmful
<1>7. Listable <=> \A a \in DOMAIN F : F[a] \notin {Fail, Crash}
  BY <1>1, <1>3, ReadFine DEF Listable
<1>8. (\A a \in DOMAIN F : F[a] \notin {Fail, Crash}) <=> book.torn \cup harmful = {}
  BY <1>3, <1>4, <1>5, <1>6
<1>9. ASSUME harmful = {} PROVE ReadApps(store) # Crash
  <2>1. CASE book.torn = {}
    <3>1. \A a \in DOMAIN F : F[a] \notin {Fail, Crash}
      BY <1>8, <1>9, <2>1
    <3> QED  BY <1>7, <3>1 DEF Listable
  <2>2. CASE book.torn # {}
    <3>1. \E a \in DOMAIN F : F[a] = Fail
      BY <1>3, <1>4, <2>2
    <3> QED  BY <1>1, <3>1, WholeIs, MarksDiffer, MarksDistinct
  <2> QED  BY <2>1, <2>2
<1> QED  BY <1>7, <1>8, <1>9 DEF harmful

\* RefusedIffMissed: the deletion of a stream is refused exactly if an
\* application that is mapped to it was not read; while no application is torn,
\* all are read, and a torn one never is.
THEOREM DeletionIsRefused == ASSUME MarksApart PROVE Spec => []RefusedIffMissed
<1>1. ASSUME IInv PROVE RefusedIffMissed
  <2> SUFFICES ASSUME NEW id \in Keys(store, StreamsPath), NEW apps \in AppsLeft(store)
               PROVE  /\ Valid(DeleteStream(store, apps, id)) <=> Mapped(id) \subseteq DOMAIN apps
                      /\ book.torn = {} => Mapped(id) \subseteq DOMAIN apps
                      /\ book.torn \cap DOMAIN apps = {}
    BY DEF RefusedIffMissed
  <2> DEFINE m(a, role) == AppPath(a) ++ "stream_mapping" ++ role
  <2>1. \A a \in DOMAIN book.mappings :
           /\ DOMAIN book.mappings[a] = Roles
           /\ \A role \in Roles : book.mappings[a][role] = Keys(store, m(a, role))
    BY <1>1 DEF IInv, AppsInv, MappingIs, Mapping
  <2>2. \A a : \A role \in Roles : id \in Keys(store, m(a, role)) => a \in DOMAIN book.mappings
    <3> SUFFICES ASSUME NEW a, NEW role \in Roles, a \notin DOMAIN book.mappings
                 PROVE  id \notin Keys(store, m(a, role))
      OBVIOUS
    <3>1. Mapping(a) = NoMapping
      BY DEF Mapping
    <3> QED  BY <1>1, <3>1 DEF IInv, AppsInv, MappingIs, NoMapping, Roles
  <2>3. \A a : a \in Mapped(id) <=> \E role \in Roles : id \in Keys(store, m(a, role))
    <3> HIDE DEF m
    <3> QED  BY <2>1, <2>2 DEF Mapped
  <2>4. Mapped(id) \subseteq Keys(store, AppsPath)
    <3> SUFFICES ASSUME NEW a, NEW role \in Roles, id \in Keys(store, m(a, role))
                 PROVE  a \in Keys(store, AppsPath)
      BY <2>3
    <3> QED  BY <1>1, MappedExists DEF IInv
  <2>5. Valid(DeleteStream(store, apps, id)) <=> Mapped(id) \subseteq DOMAIN apps
    <3>1. Valid(DeleteStream(store, apps, id)) <=>
             \A a \in Keys(store, AppsPath) \ DOMAIN apps : \A role \in Roles :
                id \notin Keys(store, m(a, role))
      BY <1>1, TakenIsValid DEF IInv
    <3> HIDE DEF m
    <3> QED  BY <2>3, <2>4, <3>1
  <2>6. /\ \A a \in book.torn : ReadApp(store, AppPath(a)) = Fail
        /\ \A a \in DOMAIN book.apps : ReadApp(store, AppPath(a)) # Fail
    BY <1>1, AppsReadable
  <2>7. Keys(store, AppsPath) = DOMAIN book.apps \cup book.torn
    BY <1>1 DEF IInv, AppsInv
  <2>8. book.torn = {} => DOMAIN apps = Keys(store, AppsPath)
    BY <2>6, <2>7, AppsRead
  <2>9. book.torn \cap DOMAIN apps = {}
    BY <2>6, AppsRead
  <2> QED  BY <2>4, <2>5, <2>8, <2>9
<1> QED  BY <1>1, StoreHoldsWhatWasSent, PTL

\* What the processes write of themselves is no mark.
LEMMA OwnTextsNoMarks ==
  /\ \A t \in {Module, "CUC", "", "latest", "N/A"} : t \notin {Fail, Crash}
  /\ 0 \notin {Fail, Crash}
<1>1. OwnTexts = {Module, "CUC", "", "latest", "N/A"}
  BY DEF OwnTexts
<1>2. Fail \notin Int /\ Fail \notin OwnTexts /\ Crash \notin Int /\ Crash \notin OwnTexts
  BY MarksDiffer, MarksDistinct
<1>3. 0 \notin {Fail, Crash}
  BY <1>2
<1>4. \A t \in OwnTexts : t \notin {Fail, Crash}
  BY <1>2
<1> HIDE DEF OwnTexts
<1> QED  BY <1>1, <1>3, <1>4

\* The modules are read without an error, but for what their data may do.
LEMMA ModulesRead ==
  ASSUME MarksApart, NEW s, NEW data, ModuleIs(s, data), AreValues(data, DataLeaves)
  PROVE  ReadModules(s) # Fail
<1> DEFINE p == ModulePath(Module)
           d == ReadModuleData(s, p ++ "data")
           parts == [data |-> d]
           leaves == ModuleLeaves
           x == Registered
           r == Struct(s, p, leaves, parts)
           F == [k \in Keys(s, ModulesPath) |-> ReadModule(s, ModulesPath ++ k)]
<1>1. d # Fail
  BY DataRead
<1>2. DOMAIN parts = {"data"} /\ parts["data"] = d /\ "data" \notin leaves
  BY DEF ModuleLeaves
<1>3. \A f \in leaves : x[f] # Fail /\ x[f] # Crash
  <2>1. /\ x["id"] = Module /\ x["name"] = "CUC" /\ x["description"] = "" /\ x["path"] = ""
        /\ x["registered"] = 0 /\ x["subscribed_events_mask"] = 0 /\ x["p_id"] = 0
    BY DEF Registered
  <2> HIDE DEF x
  <2> QED  BY <2>1, OwnTextsNoMarks DEF ModuleLeaves
<1>4. Holds(s, p, leaves, x)
  BY DEF ModuleIs
<1>5. ReadModule(s, p) = r
  BY DEF ReadModule
<1> HIDE DEF d, parts, leaves, x
<1>6. Fits(leaves, x, parts)
  BY <1>1, <1>2, <1>3 DEF Fits
<1>7. StructIs(r, leaves, x, parts)
  BY <1>4, <1>6, StructRead
<1>8. ReadModule(s, p) # Fail
  BY <1>5, <1>7 DEF StructIs
<1>9. Keys(s, ModulesPath) = {Module} /\ p = ModulesPath ++ Module
  BY DEF ModuleIs, ModulePath
<1> HIDE DEF p
<1>10. F = [k \in DOMAIN F |-> F[k]] /\ \A k \in DOMAIN F : F[k] # Fail
  BY <1>8, <1>9
<1>11. ReadModules(s) = Whole(F)
  BY DEF ReadModules, Entries
<1> HIDE DEF F
<1> QED  BY <1>10, <1>11, ReadWhole

\* The images are read as the registry gave them.
LEMMA ImagesRead ==
  ASSUME MarksApart, NEW s, NEW registry, ImagesAre(s, registry), registry \cap {Fail, Crash} = {}
  PROVE  LET r == ReadImages(s)
         IN /\ r \notin {Fail, Crash} /\ DOMAIN r = registry
            /\ \A i \in registry : DOMAIN r[i] = Image /\ r[i]["name"] = i
<1> DEFINE F == [i \in Keys(s, ImagesPath) |-> ReadImage(s, ImagesPath ++ i)]
<1>1. ReadImages(s) = Whole(F)
  BY DEF ReadImages, Entries
<1>2. ASSUME NEW i \in registry
      PROVE  LET e == ReadImage(s, ImagesPath ++ i)
             IN e \notin {Fail, Crash} /\ DOMAIN e = Image /\ e["name"] = i
  <2> DEFINE p == ImagesPath ++ i
             x == ImageOf(i)
             parts == << >>
             leaves == Image
             r == Struct(s, p, leaves, parts)
  <2>1. ReadImage(s, p) = r
    BY DEF ReadImage, Leaves
  <2>2. Holds(s, p, leaves, x)
    BY DEF ImagesAre
  <2>3. \A f \in leaves : x[f] # Fail /\ x[f] # Crash
    <3>1. "latest" \notin {Fail, Crash} /\ "N/A" \notin {Fail, Crash} /\ i \notin {Fail, Crash}
      BY OwnTextsNoMarks
    <3>2. x["id"] = i /\ x["name"] = i /\ x["version"] = "latest" /\ x["description"] = "N/A"
      BY DEF ImageOf
    <3> HIDE DEF x
    <3> QED  BY <3>1, <3>2 DEF Image
  <2>4. DOMAIN parts = {} /\ x["name"] = i /\ "name" \in leaves
    BY DEF ImageOf, Image
  <2> HIDE DEF p, x, parts, leaves
  <2>5. Fits(leaves, x, parts) /\ \A f \in DOMAIN parts : parts[f] # Crash
    BY <2>3, <2>4 DEF Fits
  <2>6. StructClean(r, leaves, x, parts)
    BY <2>2, <2>5, StructReadClean
  <2> HIDE DEF r
  <2>7. r \notin {Fail, Crash} /\ DOMAIN r = leaves /\ r["name"] = i
    BY <2>4, <2>6 DEF StructClean
  <2> QED  BY <2>1, <2>7 DEF p, leaves
<1>3. Keys(s, ImagesPath) = registry
  BY DEF ImagesAre
<1>4. /\ F = [i \in DOMAIN F |-> F[i]] /\ DOMAIN F = registry
      /\ \A i \in registry : F[i] \notin {Fail, Crash} /\ DOMAIN F[i] = Image /\ F[i]["name"] = i
  BY <1>2, <1>3
<1> HIDE DEF F
<1>5. Whole(F) = F /\ F \notin {Fail, Crash}
  BY <1>4, ReadClean
<1> QED  BY <1>1, <1>4, <1>5

\* The images in the document of the whole tree.
LEMMA ImagesServed ==
  ASSUME NEW uni, NEW registry, DOMAIN uni.application.images = registry,
         \A i \in registry : /\ DOMAIN uni.application.images[i] = Image
                             /\ uni.application.images[i]["name"] = i
  PROVE  LET images == SerializeUni(uni)["application"]["images"]["images"]
         IN {images[i]["name"] : i \in DOMAIN images} = registry
<1> DEFINE im == uni.application.images
           a == SerializeApplication(uni.application)
           z == [streams     |-> SerializeStreams(uni.streams),
                 modules     |-> SerializeModules(uni.modules),
                 topology    |-> SerializeTopology(uni.topology),
                 application |-> a]
           y == [apps |-> SerializeApps(uni.application.apps), images |-> SerializeImages(im)]
           w == [images |-> Array(SerializeImage, im)]
<1>1. /\ Name("application") = "application" /\ Name("images") = "images" /\ Name("name") = "name"
      /\ {"streams", "modules", "topology", "application", "apps", "images"} \subseteq Named
      /\ "name" \in Image /\ Image \subseteq Named
  BY NamesAre DEF Named, Image
<1>2. /\ DOMAIN z = {"streams", "modules", "topology", "application"} /\ z["application"] = a
      /\ SerializeUni(uni) = Object(z)
  BY DEF SerializeUni
<1>3. /\ DOMAIN y = {"apps", "images"} /\ y["images"] = SerializeImages(im)
      /\ a = Object(y)
  BY DEF SerializeApplication
<1>4. /\ DOMAIN w = {"images"} /\ w["images"] = Array(SerializeImage, im)
      /\ SerializeImages(im) = Object(w)
  BY DEF SerializeImages
<1>5. Array(SerializeImage, im) = [i \in DOMAIN im |-> Object(im[i])]
  BY DEF Array, SerializeImage
<1> HIDE DEF z, y, w, a, im
<1>6. SerializeUni(uni)["application"] = a
  BY <1>1, <1>2, ObjectHas
<1>7. a["images"] = SerializeImages(im)
  BY <1>1, <1>3, ObjectHas
<1>8. SerializeImages(im)["images"] = Array(SerializeImage, im)
  BY <1>1, <1>4, ObjectHas
<1>9. ASSUME NEW i \in registry PROVE Object(im[i])["name"] = i
  <2> DEFINE e == im[i]
  <2>1. DOMAIN e = Image /\ e["name"] = i
    BY DEF im
  <2> HIDE DEF e
  <2>2. Object(e)["name"] = e["name"]
    BY <1>1, <2>1, ObjectHas
  <2> QED  BY <2>1, <2>2 DEF e
<1>10. DOMAIN im = registry
  BY DEF im
<1> DEFINE images == SerializeUni(uni)["application"]["images"]["images"]
<1>11. images = [i \in DOMAIN im |-> Object(im[i])]
  BY <1>5, <1>6, <1>7, <1>8
<1> HIDE DEF images
<1>12. DOMAIN images = registry /\ \A i \in registry : images[i]["name"] = i
  BY <1>9, <1>10, <1>11
<1>13. {images[i]["name"] : i \in DOMAIN images} = registry
  BY <1>12
<1> QED  BY <1>13 DEF images

\* The tree without streams is served unless the applications or the modules
\* are not.
LEMMA TreeRead ==
  ASSUME MarksApart, IInv, Keys(store, StreamsPath) = {}
  PROVE  TreeServed
<1> DEFINE st == ReadStreams(store)
           mo == ReadModules(store)
           to == ReadTopology(store)
           ap == ReadApps(store)
           im == ReadImages(store)
           A == [apps |-> ap, images |-> im]
           a == ReadApplication(store)
           U == [streams |-> st, modules |-> mo, topology |-> to, application |-> a]
           uni == ReadUni(store)
<1>1. st \notin {Fail, Crash}
  <2> DEFINE F == [k \in {} |-> ReadStream(store, StreamsPath ++ k)]
  <2>1. st = Whole(F)
    BY DEF ReadStreams, Entries
  <2>2. F = [k \in DOMAIN F |-> F[k]] /\ DOMAIN F = {}
    OBVIOUS
  <2> HIDE DEF F
  <2> QED  BY <2>1, <2>2, ReadClean
<1>2. mo # Fail
  <2> DEFINE data == IF <<"data">> \in book.cut THEN << >> ELSE book.data
  <2>1. ModuleIs(store, data)
    BY DEF IInv, DataInv
  <2>2. AreValues(data, DataLeaves)
    BY DEF IInv, DataInv, AreValues
  <2> HIDE DEF data
  <2> QED  BY <2>1, <2>2, ModulesRead
<1>3. to \notin {Fail, Crash}
  BY TopologyRead DEF IInv, TopologyInv
<1>4. /\ im \notin {Fail, Crash} /\ DOMAIN im = book.images
      /\ \A i \in book.images : DOMAIN im[i] = Image /\ im[i]["name"] = i
  BY ImagesRead DEF IInv, ImagesInv
<1>5. a = Whole(A) /\ uni = Whole(U)
  BY DEF ReadApplication, ReadUni
<1>6. /\ A = [f \in DOMAIN A |-> A[f]] /\ DOMAIN A = {"apps", "images"} /\ A["apps"] = ap
      /\ A["images"] = im
  OBVIOUS
<1> HIDE DEF A, a, ap, im, st, mo, to
<1>7. /\ a \notin {Fail, Crash} <=> ap \notin {Fail, Crash}
      /\ a \notin {Fail, Crash} => a = A
  BY <1>4, <1>5, <1>6, ReadFine
<1>8. /\ U = [f \in DOMAIN U |-> U[f]] /\ DOMAIN U = {"streams", "modules", "topology", "application"}
      /\ U["streams"] = st /\ U["modules"] = mo /\ U["topology"] = to /\ U["application"] = a
  OBVIOUS
<1> HIDE DEF U, uni
<1>9. /\ uni \notin {Fail, Crash} <=> a \notin {Fail, Crash} /\ mo \notin {Fail, Crash}
      /\ uni \notin {Fail, Crash} => uni = U
  BY <1>1, <1>3, <1>5, <1>8, ReadFine
<1>10. uni \notin {Fail, Crash} <=> Listable /\ ReadModules(store) # Crash
  BY <1>2, <1>7, <1>9 DEF Listable, ap, mo
<1>11. ASSUME uni \notin {Fail, Crash}
       PROVE  LET images == SerializeUni(uni)["application"]["images"]["images"]
              IN {images[i]["name"] : i \in DOMAIN images} = book.images
  <2>1. uni.application = a /\ a.images = im
    BY <1>6, <1>7, <1>8, <1>9, <1>11
  <2> DEFINE registry == book.images
  <2>2. /\ DOMAIN uni.application.images = registry
        /\ \A i \in registry : /\ DOMAIN uni.application.images[i] = Image
                               /\ uni.application.images[i]["name"] = i
    BY <1>4, <2>1
  <2> HIDE DEF registry
  <2>3. LET images == SerializeUni(uni)["application"]["images"]["images"]
        IN {images[i]["name"] : i \in DOMAIN images} = registry
    BY <2>2, ImagesServed
  <2> QED  BY <2>3 DEF registry
<1> QED  BY <1>10, <1>11 DEF TreeServed, uni

\* ListedUnlessTorn: the applications can be listed, streams be deleted and
\* the tree be served, unless a parameter is harmful or an entry has no name.
THEOREM AppsAreListed == ASSUME MarksApart PROVE Spec => []ListedUnlessTorn
<1>1. IInv => ListedUnlessTorn
  BY AppsListed, TreeRead DEF ListedUnlessTorn
<1> QED  BY <1>1, StoreHoldsWhatWasSent, PTL
=============================================================================
