-------------------------- MODULE Datastore_proofs --------------------------
(***************************************************************************)
(* Facts about the operators of Datastore, for all paths, documents and    *)
(* contents: when a path is not touched by what is written or deleted at   *)
(* another one, and what is read of a path after it was written.           *)
(***************************************************************************)
EXTENDS Datastore, TLAPS

(***************************************************************************)
(* Paths                                                                   *)
(***************************************************************************)
Path(p) == \E Names : p \in Seq(Names)

\* The path q is p or leads on from there.
Below(p, q) == Len(p) <= Len(q) /\ \A i \in 1..Len(p) : q[i] = p[i]

\* One more name makes a longer path.
LEMMA Longer ==
  ASSUME NEW p, Path(p), NEW name
  PROVE  /\ Path(p ++ name) /\ Len(p) \in Nat /\ Len(p ++ name) = Len(p) + 1
         /\ (p ++ name)[Len(p) + 1] = name
         /\ \A i \in 1..Len(p) : (p ++ name)[i] = p[i]
<1>1. PICK Names : p \in Seq(Names)
  BY DEF Path
<1> DEFINE All == Names \cup {name}
<1>2. p \in Seq(All) /\ name \in All
  <2>1. DOMAIN p = 1..Len(p) /\ Len(p) \in Nat /\ \A i \in 1..Len(p) : p[i] \in Names
    BY <1>1
  <2> QED  BY <1>1, <2>1
<1> HIDE DEF All
<1>3. Append(p, name) \in Seq(All)
  BY <1>2
<1> QED  BY <1>2, <1>3 DEF Path, ++

\* A path leads to all below it, and so do its beginnings.
LEMMA BelowIs ==
  ASSUME NEW p, Path(p), NEW name
  PROVE  Below(p, p) /\ Below(p, p ++ name)
  BY Longer DEF Below, Path

\* What is below a longer path is below its beginning.
LEMMA BelowLonger ==
  ASSUME NEW p, Path(p), NEW name, NEW q, Path(q), Below(p ++ name, q)
  PROVE  Below(p, q)
<1>1. Len(q) \in Nat
  BY DEF Path
<1> QED  BY <1>1, Longer DEF Below

\* The prefixes of SequencesExt are paths that lead to another one.
LEMMA PrefixIsBelow ==
  ASSUME NEW p, Path(p), NEW q, Path(q)
  PROVE  IsPrefix(p, q) <=> Below(p, q)
<1>1. PICK P : p \in Seq(P)
  BY DEF Path
<1>2. PICK Q : q \in Seq(Q)
  BY DEF Path
<1>3. Len(p) \in Nat /\ Len(q) \in Nat
  BY <1>1, <1>2
<1> DEFINE a == SubSeq(p, 1, Len(p))
           b == SubSeq(q, 1, Len(p))
<1>4. CASE Len(p) <= Len(q)
  <2>1. a \in Seq(P) /\ Len(a) = Len(p) /\ \A i \in 1..Len(p) : a[i] = p[i]
    BY <1>1, <1>3
  <2>2. b \in Seq(Q) /\ Len(b) = Len(p) /\ \A i \in 1..Len(p) : b[i] = q[i]
    BY <1>2, <1>3, <1>4
  <2>3. a = b <=> \A i \in 1..Len(p) : p[i] = q[i]
    <3>1. DOMAIN a = 1..Len(p) /\ DOMAIN b = 1..Len(p)
      BY <2>1, <2>2
    <3>2. a = [i \in DOMAIN a |-> a[i]] /\ b = [i \in DOMAIN b |-> b[i]]
      BY <2>1, <2>2
    <3> HIDE DEF a, b
    <3> QED  BY <2>1, <2>2, <3>1, <3>2
  <2> HIDE DEF a, b
  <2>4. IsPrefix(p, q) <=> a = b
    BY <1>4 DEF IsPrefix, a, b
  <2> QED  BY <1>4, <2>3, <2>4 DEF Below
<1> QED  BY <1>4 DEF IsPrefix, Below

(***************************************************************************)
(* What is below a path                                                    *)
(***************************************************************************)

\* Every leaf has a path.
Leafed(s) == \A q \in DOMAIN s : Path(q)

\* The datastores s and t have the same below p.
Same(s, t, p) ==
  \A q : Path(q) /\ Below(p, q) =>
    (q \in DOMAIN s <=> q \in DOMAIN t) /\ (q \in DOMAIN s => s[q] = t[q])

\* Datastores that agree below a path agree below each longer one.
LEMMA SameFurther ==
  ASSUME NEW s, NEW t, NEW p, Path(p), Same(s, t, p), NEW name
  PROVE  Path(p ++ name) /\ Same(s, t, p ++ name)
<1>1. Path(p ++ name)
  BY Longer
<1>2. ASSUME NEW q, Path(q), Below(p ++ name, q) PROVE Below(p, q)
  BY <1>2, BelowLonger
<1> QED  BY <1>1, <1>2 DEF Same

\* Where they agree, the leaf at the path is the same ...
LEMMA SameGet ==
  ASSUME NEW s, NEW t, NEW p, Path(p), Same(s, t, p)
  PROVE  Get(s, p) = Get(t, p)
  BY BelowIs DEF Same, Get

\* ... and so are the names found right below it.
LEMMA SameKeys ==
  ASSUME NEW s, NEW t, Leafed(s), Leafed(t), NEW p, Path(p), Same(s, t, p)
  PROVE  Keys(s, p) = Keys(t, p)
<1> DEFINE S == {r \in DOMAIN s : IsStrictPrefix(p, r)}
           T == {r \in DOMAIN t : IsStrictPrefix(p, r)}
<1>1. ASSUME NEW r PROVE r \in S <=> r \in T
  <2>1. r \in DOMAIN s \/ r \in DOMAIN t => Path(r)
    BY DEF Leafed
  <2>2. Path(r) /\ IsStrictPrefix(p, r) => Below(p, r)
    BY PrefixIsBelow DEF IsStrictPrefix
  <2> QED  BY <2>1, <2>2 DEF Same
<1>2. S = T
  <2> HIDE DEF S, T
  <2> QED  BY <1>1
<1> QED  BY <1>2 DEF Keys

(***************************************************************************)
(* Readers: what is read at a path depends on what is below it only        *)
(***************************************************************************)
Alike(s, t, p) == Leafed(s) /\ Leafed(t) /\ Path(p) /\ Same(s, t, p)

\* The same two facts in the form the readers need.
LEMMA AlikeFurther ==
  ASSUME NEW s, NEW t, NEW p, Alike(s, t, p), NEW name
  PROVE  Alike(s, t, p ++ name)
  BY SameFurther DEF Alike

\* A leaf and the names below a path, which all readers are built from.
LEMMA AlikeRead ==
  ASSUME NEW s, NEW t, NEW p, Alike(s, t, p)
  PROVE  Get(s, p) = Get(t, p) /\ Keys(s, p) = Keys(t, p)
  BY SameGet, SameKeys DEF Alike

\* A structure of leaves, and one with parts.
LEMMA LeavesAlike ==
  ASSUME NEW s, NEW t, NEW p, Alike(s, t, p), NEW leaves
  PROVE  /\ Leaves(s, p, leaves) = Leaves(t, p, leaves)
         /\ \A parts : Struct(s, p, leaves, parts) = Struct(t, p, leaves, parts)
<1>1. \A f : Get(s, p ++ f) = Get(t, p ++ f)
  BY AlikeFurther, AlikeRead
<1>2. ASSUME NEW parts PROVE Struct(s, p, leaves, parts) = Struct(t, p, leaves, parts)
  BY <1>1 DEF Struct
<1> QED  BY <1>2 DEF Leaves

(***************************************************************************)
(* Writers: what is written for a structure at a path stays below the path *)
(***************************************************************************)
Under(doc, p) == \A q \in DOMAIN doc : Path(q) /\ Below(p, q)

\* Leaves below a longer path are below its beginning.
LEMMA UnderFurther ==
  ASSUME NEW doc, NEW p, Path(p), NEW name, Under(doc, p ++ name)
  PROVE  Under(doc, p)
  BY BelowLonger DEF Under

\* Documents below a path, taken together, are below it.
LEMMA UnderUnion ==
  ASSUME NEW docs, NEW p, \A d \in docs : Under(d, p)
  PROVE  Under(Union(docs), p)
<1>1. DOMAIN Union(docs) = UNION {DOMAIN d : d \in docs}
  BY DEF Union
<1> QED  BY <1>1 DEF Under

\* Single leaves, and those of a structure or of a leaf-list.
LEMMA UnderLeaves ==
  ASSUME NEW p, Path(p)
  PROVE  /\ \A name, v : Under(PutLeaf(p ++ name, v), p)
         /\ \A leaves, x : Under(PutLeaves(p, leaves, x), p)
         /\ \A values : Under(PutValues(p, values), p)
<1>1. \A name : Path(p ++ name) /\ Below(p, p ++ name)
  BY Longer, BelowIs
<1>2. ASSUME NEW name, NEW v PROVE Under(PutLeaf(p ++ name, v), p)
  <2>1. DOMAIN PutLeaf(p ++ name, v) = {p ++ name}
    BY DEF PutLeaf
  <2> QED  BY <1>1, <2>1 DEF Under
<1>3. ASSUME NEW leaves, NEW x PROVE Under(PutLeaves(p, leaves, x), p)
  <2>1. DOMAIN PutLeaves(p, leaves, x) = {p ++ f : f \in leaves}
    BY DEF PutLeaves
  <2> QED  BY <1>1, <2>1 DEF Under
<1>4. ASSUME NEW values PROVE Under(PutValues(p, values), p)
  <2>1. DOMAIN PutValues(p, values) = {p ++ f : f \in values}
    BY DEF PutValues
  <2> QED  BY <1>1, <2>1 DEF Under
<1> QED  BY <1>2, <1>3, <1>4

\* The same below a name further on.
LEMMA UnderParts ==
  ASSUME NEW p, Path(p), NEW name
  PROVE  /\ Path(p ++ name)
         /\ \A doc : Under(doc, p ++ name) => Under(doc, p)
         /\ \A leaves, x : Under(PutLeaves(p ++ name, leaves, x), p)
         /\ \A values : Under(PutValues(p ++ name, values), p)
<1>1. Path(p ++ name)
  BY Longer
<1> QED  BY <1>1, UnderFurther, UnderLeaves

\* A union has the leaves of each of its documents.
LEMMA UnionHas ==
  ASSUME NEW docs, NEW d \in docs, NEW q \in DOMAIN d
  PROVE  q \in DOMAIN Union(docs)
<1>1. DOMAIN Union(docs) = UNION {DOMAIN e : e \in docs}
  BY DEF Union
<1> QED  BY <1>1


\* Alike goes both ways and on.
LEMMA AlikeTurns ==
  ASSUME NEW s, NEW t, NEW p, Alike(s, t, p)
  PROVE  Alike(t, s, p) /\ \A u : Alike(t, u, p) => Alike(s, u, p)
  BY DEF Alike, Same

\* The names right below a path are those that a leaf is below.
LEMMA KeysAre ==
  ASSUME NEW s, Leafed(s), NEW p, Path(p), NEW k
  PROVE  k \in Keys(s, p) <=> \E q \in DOMAIN s : Below(p ++ k, q)
<1>1. ASSUME NEW q, Path(q)
      PROVE  Below(p ++ k, q) <=> IsStrictPrefix(p, q) /\ q[Len(p) + 1] = k
  <2>1. PICK P : p \in Seq(P)
    BY DEF Path
  <2>2. PICK Q : q \in Seq(Q)
    BY <1>1 DEF Path
  <2>3. Len(p) \in Nat /\ Len(q) \in Nat /\ DOMAIN p = 1..Len(p) /\ DOMAIN q = 1..Len(q)
    BY <2>1, <2>2
  <2>4. Below(p, q) /\ Len(p) = Len(q) => p = q
    <3>1. p = [i \in DOMAIN p |-> p[i]] /\ q = [i \in DOMAIN q |-> q[i]]
      BY <2>1, <2>2
    <3> QED  BY <2>3, <3>1 DEF Below
  <2>5. IsStrictPrefix(p, q) <=> Below(p, q) /\ Len(p) + 1 <= Len(q)
    <3>1. IsStrictPrefix(p, q) <=> Below(p, q) /\ p # q
      BY <1>1, PrefixIsBelow DEF IsStrictPrefix
    <3>2. Len(p) + 1 <= Len(q) => p # q
      BY <2>3
    <3>3. Below(p, q) => Len(p) <= Len(q)
      BY DEF Below
    <3>4. Len(p) <= Len(q) => Len(p) = Len(q) \/ Len(p) + 1 <= Len(q)
      <4>1. Len(p) \in Int /\ Len(q) \in Int
        BY <2>3
      <4> QED  BY <4>1
    <3> QED  BY <2>4, <3>1, <3>2, <3>3, <3>4
  <2> QED  BY <2>3, <2>5, Longer DEF Below
<1> QED  BY <1>1 DEF Keys, Leafed

(***************************************************************************)
(* Paths that part                                                         *)
(***************************************************************************)
\* The paths p and q part, and not at two cases of a choice.
Split(p, q) ==
  \E i \in 1..Len(p) :
    /\ i <= Len(q) /\ p[i] # q[i] /\ ~({p[i], q[i]} \subseteq CaseNames)
    /\ \A j \in 1..Len(p) : j < i => p[j] = q[j]

\* No leaf is below both, and none below p goes when one below q is set.
LEMMA SplitKeeps ==
  ASSUME NEW p, Path(p), NEW q, Path(q), Split(p, q),
         NEW u, Path(u), Below(p, u), NEW r, Path(r), Below(q, r)
  PROVE  u # r /\ ~Below(q, u) /\ ~ConflictsWith(u, r)
<1>1. PICK i \in 1..Len(p) : /\ i <= Len(q) /\ p[i] # q[i] /\ ~({p[i], q[i]} \subseteq CaseNames)
                             /\ \A j \in 1..Len(p) : j < i => p[j] = q[j]
  BY DEF Split
<1>2. Len(p) \in Nat /\ Len(q) \in Nat /\ Len(u) \in Nat /\ Len(r) \in Nat
  BY DEF Path
<1>3. i \in 1..Len(u) /\ i \in 1..Len(r) /\ i \in 1..Len(q) /\ u[i] = p[i] /\ r[i] = q[i]
  BY <1>1, <1>2 DEF Below
<1>4. \A j \in 1..Len(u) : j < i => u[j] = r[j]
  BY <1>1, <1>2 DEF Below
<1>5. ASSUME NEW k \in 1..Len(u), u[k] \in CaseNames, k <= Len(r),
             r[k] \in CaseNames \ {u[k]}, SubSeq(u, 1, k - 1) = SubSeq(r, 1, k - 1)
      PROVE  FALSE
  <2>1. k > i
    BY <1>1, <1>2, <1>3, <1>4, <1>5
  <2>2. k - 1 \in Nat /\ i \in 1..(k - 1) /\ k - 1 <= Len(u) /\ k - 1 <= Len(r)
    BY <1>2, <1>5, <2>1
  <2>3. PICK U : u \in Seq(U)
    BY DEF Path
  <2>4. PICK R : r \in Seq(R)
    BY DEF Path
  <2>5. SubSeq(u, 1, k - 1)[i] = u[i]
    BY <2>2, <2>3
  <2>6. SubSeq(r, 1, k - 1)[i] = r[i]
    BY <2>2, <2>4
  <2> QED  BY <1>1, <1>3, <1>5, <2>5, <2>6
<1>6. u # r /\ ~Below(q, u)
  BY <1>1, <1>3 DEF Below
<1> QED  BY <1>5, <1>6 DEF ConflictsWith

\* Two names that are not both cases part the paths.
LEMMA SiblingsSplit ==
  ASSUME NEW p, Path(p), NEW a, NEW b, a # b, ~({a, b} \subseteq CaseNames)
  PROVE  Split(p ++ a, p ++ b)
<1>1. Len(p) + 1 \in 1..Len(p ++ a) /\ \A j \in 1..Len(p ++ a) : j < Len(p) + 1 => j \in 1..Len(p)
  BY Longer
<1> QED  BY <1>1, Longer DEF Split

\* Longer paths part where their beginnings do, and parting goes both ways.
LEMMA SplitFurther ==
  ASSUME NEW p, Path(p), NEW q, Path(q), Split(p, q)
  PROVE  /\ \A u : Path(u) /\ Below(p, u) => Split(u, q)
         /\ \A r : Path(r) /\ Below(q, r) => Split(p, r)
         /\ Split(q, p)
<1>1. PICK i \in 1..Len(p) : /\ i <= Len(q) /\ p[i] # q[i] /\ ~({p[i], q[i]} \subseteq CaseNames)
                             /\ \A j \in 1..Len(p) : j < i => p[j] = q[j]
  BY DEF Split
<1>2. Len(p) \in Nat /\ Len(q) \in Nat
  BY DEF Path
<1>3. ASSUME NEW u, Path(u), Below(p, u) PROVE Split(u, q)
  <2>1. Len(u) \in Nat
    BY <1>3 DEF Path
  <2>2. i \in 1..Len(u) /\ u[i] = p[i] /\ \A j \in 1..Len(u) : j < i => j \in 1..Len(p) /\ u[j] = p[j]
    BY <1>2, <1>3, <2>1 DEF Below
  <2> QED  BY <1>1, <2>2 DEF Split
<1>4. ASSUME NEW r, Path(r), Below(q, r) PROVE Split(p, r)
  <2>1. Len(r) \in Nat
    BY <1>4 DEF Path
  <2>2. i <= Len(r) /\ r[i] = q[i] /\ \A j \in 1..Len(p) : j < i => r[j] = q[j]
    BY <1>1, <1>2, <1>4, <2>1 DEF Below
  <2> QED  BY <1>1, <2>2 DEF Split
<1>5. Split(q, p)
  <2>1. i \in 1..Len(q) /\ i <= Len(p) /\ \A j \in 1..Len(q) : j < i => q[j] = p[j]
    BY <1>1, <1>2
  <2> QED  BY <1>1, <2>1 DEF Split
<1> QED  BY <1>3, <1>4, <1>5

(***************************************************************************)
(* Setting and deleting                                                    *)
(***************************************************************************)
Blank(s, p) == \A q \in DOMAIN s : ~Below(p, q)

\* Where nothing is, nothing is read, and a store without leaves is alike.
LEMMA BlankIs ==
  ASSUME NEW s, Leafed(s), NEW p, Path(p)
  PROVE  /\ Blank(s, p) <=> Alike(s, << >>, p)
         /\ Leafed(<< >>)
         /\ Blank(s, p) => Keys(s, p) = {} /\ p \notin DOMAIN s /\ \A f : Blank(s, p ++ f)
<1>1. DOMAIN << >> = {}
  OBVIOUS
<1>2. Leafed(<< >>)
  BY <1>1 DEF Leafed
<1>3. Blank(s, p) <=> Alike(s, << >>, p)
  BY <1>1, <1>2 DEF Alike, Same, Blank, Leafed
<1>4. ASSUME Blank(s, p), NEW f PROVE Blank(s, p ++ f)
  BY <1>4, BelowLonger DEF Blank, Leafed
<1>5. Blank(s, p) => Keys(s, p) = {}
  BY <1>4, KeysAre DEF Blank
<1>6. Blank(s, p) => p \notin DOMAIN s
  BY BelowIs DEF Blank
<1> QED  BY <1>2, <1>3, <1>4, <1>5, <1>6

\* Setting leaves elsewhere changes nothing below a path.
LEMMA MergeApart ==
  ASSUME NEW s, Leafed(s), NEW doc, Leafed(doc), NEW p, Path(p),
         \A r \in DOMAIN doc : Split(p, r)
  PROVE  Alike(Merge(s, doc), s, p)
<1> DEFINE t == Merge(s, doc)
<1>1. /\ DOMAIN t = DOMAIN doc \cup {q \in DOMAIN s : \A r \in DOMAIN doc : ~ConflictsWith(q, r)}
      /\ \A q \in DOMAIN t : q \notin DOMAIN doc => t[q] = s[q]
  BY DEF Merge
<1> HIDE DEF t
<1>2. ASSUME NEW q, Path(q), Below(p, q)
      PROVE  (q \in DOMAIN t <=> q \in DOMAIN s) /\ (q \in DOMAIN t => t[q] = s[q])
  <2>1. \A r \in DOMAIN doc : q # r /\ ~ConflictsWith(q, r)
    BY <1>2, BelowIs, SplitKeeps DEF Leafed
  <2> QED  BY <1>1, <2>1
<1>3. Leafed(t)
  BY <1>1 DEF Leafed
<1> QED  BY <1>2, <1>3 DEF Alike, Same, t

\* The leaves of a document are set.
LEMMA MergeHas ==
  ASSUME NEW s, Leafed(s), NEW doc, Leafed(doc)
  PROVE  /\ Leafed(Merge(s, doc))
         /\ \A q \in DOMAIN doc : q \in DOMAIN Merge(s, doc) /\ Merge(s, doc)[q] = doc[q]
         /\ \A q \in DOMAIN Merge(s, doc) \ DOMAIN doc :
              q \in DOMAIN s /\ Merge(s, doc)[q] = s[q]
  BY DEF Merge, Leafed

\* Where nothing was, the document is what is there afterwards.
LEMMA MergeBlank ==
  ASSUME NEW s, Leafed(s), NEW doc, Leafed(doc), NEW p, Path(p), Blank(s, p)
  PROVE  Alike(Merge(s, doc), doc, p)
  BY MergeHas DEF Alike, Same, Blank

\* Deleting elsewhere changes nothing below a path.
LEMMA DeleteApart ==
  ASSUME NEW s, Leafed(s), NEW paths, \A r \in paths : Path(r), NEW p, Path(p),
         \A r \in paths : Split(p, r)
  PROVE  Alike(Delete(s, paths), s, p)
<1> DEFINE t == Delete(s, paths)
<1>1. /\ DOMAIN t = {r \in DOMAIN s : \A q \in paths : ~IsPrefix(q, r)}
      /\ \A q \in DOMAIN t : t[q] = s[q]
  BY DEF Delete
<1> HIDE DEF t
<1>2. ASSUME NEW q, Path(q), Below(p, q)
      PROVE  (q \in DOMAIN t <=> q \in DOMAIN s) /\ (q \in DOMAIN t => t[q] = s[q])
  <2>1. \A r \in paths : ~IsPrefix(r, q)
    BY <1>2, BelowIs, SplitKeeps, PrefixIsBelow
  <2> QED  BY <1>1, <2>1
<1>3. Leafed(t)
  BY <1>1 DEF Leafed
<1> QED  BY <1>2, <1>3 DEF Alike, Same, t

\* What remains after a deletion was there before, and not below its paths.
LEMMA DeleteLeaves ==
  ASSUME NEW s, Leafed(s), NEW paths, \A r \in paths : Path(r)
  PROVE  /\ Leafed(Delete(s, paths))
         /\ \A q : q \in DOMAIN Delete(s, paths) <=>
                     q \in DOMAIN s /\ \A r \in paths : ~Below(r, q)
         /\ \A q \in DOMAIN Delete(s, paths) : Delete(s, paths)[q] = s[q]
         /\ \A r \in paths : Blank(Delete(s, paths), r)
<1> DEFINE t == Delete(s, paths)
<1>1. /\ DOMAIN t = {r \in DOMAIN s : \A q \in paths : ~IsPrefix(q, r)}
      /\ \A q \in DOMAIN t : t[q] = s[q]
  BY DEF Delete
<1> HIDE DEF t
<1>2. \A q : q \in DOMAIN t <=> q \in DOMAIN s /\ \A r \in paths : ~Below(r, q)
  BY <1>1, PrefixIsBelow DEF Leafed
<1>3. Leafed(t) /\ \A r \in paths : Blank(t, r)
  BY <1>1, <1>2 DEF Leafed, Blank
<1> QED  BY <1>1, <1>2, <1>3 DEF t

(***************************************************************************)
(* Documents                                                               *)
(***************************************************************************)
\* A union is like one of its documents where the others have nothing.
LEMMA UnionAlike ==
  ASSUME NEW docs, \A e \in docs : Leafed(e), NEW d \in docs, NEW p, Path(p),
         \A e \in docs : e # d => Blank(e, p)
  PROVE  Leafed(Union(docs)) /\ Alike(Union(docs), d, p)
<1> DEFINE u == Union(docs)
<1>1. /\ DOMAIN u = UNION {DOMAIN e : e \in docs}
      /\ \A q \in DOMAIN u : u[q] = (CHOOSE e \in docs : q \in DOMAIN e)[q]
  BY DEF Union
<1> HIDE DEF u
<1>2. Leafed(u)
  BY <1>1 DEF Leafed
<1>3. ASSUME NEW q, Path(q), Below(p, q)
      PROVE  (q \in DOMAIN u <=> q \in DOMAIN d) /\ (q \in DOMAIN u => u[q] = d[q])
  <2>1. \A e \in docs : q \in DOMAIN e => e = d
    BY <1>3 DEF Blank
  <2> QED  BY <1>1, <2>1
<1> QED  BY <1>2, <1>3 DEF Alike, Same, u

\* A union has nothing where none of its documents has.
LEMMA UnionBlank ==
  ASSUME NEW docs, NEW p, \A e \in docs : Blank(e, p)
  PROVE  Blank(Union(docs), p)
<1>1. DOMAIN Union(docs) = UNION {DOMAIN e : e \in docs}
  BY DEF Union
<1> QED  BY <1>1 DEF Blank

\* What is below one path is not below a path that parts from it.
LEMMA UnderBlank ==
  ASSUME NEW doc, NEW p, Path(p), NEW r, Path(r), Under(doc, r)
  PROVE  /\ Leafed(doc)
         /\ Split(p, r) => Blank(doc, p)
         /\ Split(r, p) => Blank(doc, p)
         /\ Split(p, r) => \A q \in DOMAIN doc : Split(p, q)
<1>1. Leafed(doc)
  BY DEF Leafed, Under
<1>2. ASSUME Split(p, r) PROVE Blank(doc, p) /\ \A q \in DOMAIN doc : Split(p, q)
  BY <1>2, SplitKeeps, SplitFurther, BelowIs DEF Blank, Under
<1>3. ASSUME Split(r, p) PROVE Blank(doc, p)
  BY <1>3, SplitKeeps DEF Blank, Under
<1> QED  BY <1>1, <1>2, <1>3

\* The documents docs are those of the entries of a list, D[k] that of the
\* entry with the key k, each below its key.
AreEntries(docs, p, K, D) ==
  /\ \A k \in K : Under(D[k], p ++ k)
  /\ \A d : d \in docs <=> \E k \in K : d = D[k]

\* Each entry is found there as it is, and the keys are those of the entries
\* that have a leaf.
LEMMA EntriesAre ==
  ASSUME NEW p, Path(p), NEW K, NEW D, NEW docs, AreEntries(docs, p, K, D)
  PROVE  LET u == Union(docs)
         IN /\ Under(u, p) /\ Leafed(u)
            /\ \A k \in K : Alike(u, D[k], p ++ k)
            /\ \A k : k \notin K => Blank(u, p ++ k)
            /\ \A k : k \in Keys(u, p) <=> k \in K /\ DOMAIN D[k] # {}
            /\ p \notin DOMAIN u
<1> DEFINE u == Union(docs)
<1> USE DEF AreEntries
<1>1. DOMAIN u = UNION {DOMAIN e : e \in docs}
  BY DEF Union
<1>2. \A q \in DOMAIN u : u[q] = (CHOOSE e \in docs : q \in DOMAIN e)[q]
  BY DEF Union
<1>3. \A q : q \in DOMAIN u <=> \E k \in K : q \in DOMAIN D[k]
  BY <1>1
<1> HIDE DEF u
<1>4. \A k \in K : \A q \in DOMAIN D[k] :
         /\ Path(q) /\ Len(p) + 1 <= Len(q) /\ q[Len(p) + 1] = k /\ Below(p, q) /\ Below(p ++ k, q)
  <2> SUFFICES ASSUME NEW k \in K, NEW q \in DOMAIN D[k]
               PROVE  /\ Path(q) /\ Len(p) + 1 <= Len(q) /\ q[Len(p) + 1] = k
                      /\ Below(p, q) /\ Below(p ++ k, q)
    OBVIOUS
  <2>1. Path(q) /\ Below(p ++ k, q)
    BY DEF Under
  <2>2. Len(p ++ k) = Len(p) + 1 /\ Len(p) + 1 \in 1..Len(p ++ k) /\ (p ++ k)[Len(p) + 1] = k
    BY Longer
  <2> QED  BY <2>1, <2>2, BelowLonger DEF Below
<1>5. Under(u, p) /\ Leafed(u) /\ p \notin DOMAIN u
  <2>1. Len(p) \in Nat
    BY DEF Path
  <2>2. p \notin DOMAIN u
    BY <1>3, <1>4, <2>1
  <2> QED  BY <1>3, <1>4, <2>2 DEF Under, Leafed
<1>6. ASSUME NEW k \in K PROVE Alike(u, D[k], p ++ k)
  <2>1. ASSUME NEW q, Path(q), Below(p ++ k, q)
        PROVE  (q \in DOMAIN u <=> q \in DOMAIN D[k]) /\ (q \in DOMAIN u => u[q] = D[k][q])
    <3>1. q[Len(p) + 1] = k
      <4>1. Len(p) + 1 \in 1..Len(p ++ k) /\ (p ++ k)[Len(p) + 1] = k
        BY Longer
      <4> QED  BY <2>1, <4>1 DEF Below
    <3>2. \A j \in K : q \in DOMAIN D[j] => j = k
      BY <1>4, <3>1
    <3>3. \A e \in docs : q \in DOMAIN e => e = D[k]
      BY <3>2
    <3>4. D[k] \in docs
      OBVIOUS
    <3>5. q \in DOMAIN u <=> q \in DOMAIN D[k]
      BY <1>3, <3>2
    <3> QED  BY <1>2, <3>3, <3>4, <3>5
  <2>2. Leafed(D[k]) /\ Path(p ++ k)
    BY Longer DEF Leafed, Under
  <2> QED  BY <1>5, <2>1, <2>2 DEF Alike, Same
<1>7. ASSUME NEW k, k \notin K PROVE Blank(u, p ++ k)
  <2>1. ASSUME NEW q \in DOMAIN u, Below(p ++ k, q) PROVE FALSE
    <3>1. Len(p) + 1 \in 1..Len(p ++ k) /\ (p ++ k)[Len(p) + 1] = k
      BY Longer
    <3>2. q[Len(p) + 1] = k
      BY <2>1, <3>1 DEF Below
    <3> QED  BY <1>3, <1>4, <1>7, <3>2
  <2> QED  BY <2>1 DEF Blank
<1>8. \A k : k \in Keys(u, p) <=> k \in K /\ DOMAIN D[k] # {}
  <2>1. \A k : k \in Keys(u, p) <=> \E q \in DOMAIN u : Below(p ++ k, q)
    BY <1>5, KeysAre
  <2>2. \A k \in K : DOMAIN D[k] # {} => k \in Keys(u, p)
    BY <1>3, <1>4, <2>1
  <2>3. \A k : k \in Keys(u, p) => k \in K
    BY <1>7, <2>1 DEF Blank
  <2>4. ASSUME NEW k \in K, k \in Keys(u, p) PROVE DOMAIN D[k] # {}
    <3>1. PICK q \in DOMAIN u : Below(p ++ k, q)
      BY <2>1, <2>4
    <3> QED  BY <1>5, <1>6, <3>1 DEF Alike, Same, Leafed
  <2> QED  BY <2>2, <2>3, <2>4
<1> QED  BY <1>5, <1>6, <1>7, <1>8 DEF u

\* The leaves of a structure have its values.
LEMMA LeavesAre ==
  ASSUME NEW p, Path(p), NEW fields, NEW x
  PROVE  LET d == PutLeaves(p, fields, x)
         IN /\ Under(d, p) /\ Leafed(d) /\ \A q \in DOMAIN d : \E f \in fields : q = p ++ f
            /\ \A f \in fields : p ++ f \in DOMAIN d /\ d[p ++ f] = x[f]
            /\ \A f : f \notin fields => Blank(d, p ++ f)
<1> DEFINE d == PutLeaves(p, fields, x)
<1>1. DOMAIN d = {p ++ f : f \in fields} /\ \A q \in DOMAIN d : d[q] = x[Last(q)]
  BY DEF PutLeaves
<1> HIDE DEF d
<1>2. \A f : Last(p ++ f) = f
  BY Longer DEF Last
<1>3. Under(d, p) /\ Leafed(d)
  BY <1>1, Longer, BelowIs DEF Under, Leafed
<1>4. ASSUME NEW f, NEW g \in fields, Below(p ++ f, p ++ g) PROVE f = g
  <2>1. Len(p) + 1 \in 1..Len(p ++ f) /\ (p ++ f)[Len(p) + 1] = f /\ (p ++ g)[Len(p) + 1] = g
    BY Longer
  <2> QED  BY <1>4, <2>1 DEF Below
<1>5. \A f : f \notin fields => Blank(d, p ++ f)
  BY <1>1, <1>4 DEF Blank
<1>6. /\ \A q \in DOMAIN d : \E f \in fields : q = p ++ f
      /\ \A f \in fields : p ++ f \in DOMAIN d
  BY <1>1
<1>7. \A f \in fields : d[p ++ f] = x[f]
  BY <1>1, <1>2, <1>6
<1> QED  BY <1>3, <1>5, <1>6, <1>7 DEF d

\* A single leaf.
LEMMA LeafIs ==
  ASSUME NEW p, Path(p), NEW f, NEW v
  PROVE  LET d == PutLeaf(p ++ f, v)
         IN /\ Under(d, p) /\ Leafed(d) /\ DOMAIN d = {p ++ f} /\ d[p ++ f] = v
            /\ \A g : g # f => Blank(d, p ++ g)
<1> DEFINE d == PutLeaf(p ++ f, v)
<1>1. DOMAIN d = {p ++ f} /\ d[p ++ f] = v
  BY DEF PutLeaf
<1> HIDE DEF d
<1>2. Under(d, p) /\ Leafed(d)
  BY <1>1, Longer, BelowIs DEF Under, Leafed
<1>3. ASSUME NEW g, Below(p ++ g, p ++ f) PROVE g = f
  <2>1. Len(p) + 1 \in 1..Len(p ++ g) /\ (p ++ f)[Len(p) + 1] = f /\ (p ++ g)[Len(p) + 1] = g
    BY Longer
  <2> QED  BY <1>3, <2>1 DEF Below
<1> QED  BY <1>1, <1>2, <1>3 DEF Blank, d

\* The leaves of a leaf-list, each its own key.
LEMMA ValuesAre ==
  ASSUME NEW p, Path(p), NEW values
  PROVE  LET d == PutValues(p, values)
         IN /\ Under(d, p) /\ Leafed(d) /\ \A q : q \in DOMAIN d <=> \E v \in values : q = p ++ v
            /\ Keys(d, p) = values
<1> DEFINE d == PutValues(p, values)
<1>1. DOMAIN d = {p ++ v : v \in values}
  BY DEF PutValues
<1> HIDE DEF d
<1>2. Under(d, p) /\ Leafed(d)
  BY <1>1, Longer, BelowIs DEF Under, Leafed
<1>3. ASSUME NEW g, NEW v, Below(p ++ g, p ++ v) PROVE g = v
  <2>1. Len(p) + 1 \in 1..Len(p ++ g) /\ (p ++ v)[Len(p) + 1] = v /\ (p ++ g)[Len(p) + 1] = g
    BY Longer
  <2> QED  BY <1>3, <2>1 DEF Below
<1>4. \A k : k \in Keys(d, p) <=> \E q \in DOMAIN d : Below(p ++ k, q)
  BY <1>2, KeysAre
<1>5. \A k \in values : k \in Keys(d, p)
  BY <1>1, <1>4, Longer, BelowIs
<1>6. \A k \in Keys(d, p) : k \in values
  BY <1>1, <1>3, <1>4
<1>7. \A q : q \in DOMAIN d <=> \E v \in values : q = p ++ v
  BY <1>1
<1>8. Keys(d, p) = values
  BY <1>5, <1>6
<1> QED  BY <1>2, <1>7, <1>8 DEF d

\* Alike below a path: alike there and below each longer one.
LEMMA AlikeParts ==
  ASSUME NEW s, Leafed(s), NEW t, Leafed(t), NEW p, Path(p),
         p \notin DOMAIN s, p \notin DOMAIN t, \A k : Alike(s, t, p ++ k)
  PROVE  Alike(s, t, p)
<1>1. ASSUME NEW q, Path(q), Below(p, q), q # p PROVE Below(p ++ q[Len(p) + 1], q)
  <2>1. PICK P : p \in Seq(P)
    BY DEF Path
  <2>2. PICK Q : q \in Seq(Q)
    BY <1>1 DEF Path
  <2>3. Len(p) \in Nat /\ Len(q) \in Nat /\ DOMAIN p = 1..Len(p) /\ DOMAIN q = 1..Len(q)
    BY <2>1, <2>2
  <2>4. Len(p) # Len(q)
    <3>1. p = [i \in DOMAIN p |-> p[i]] /\ q = [i \in DOMAIN q |-> q[i]]
      BY <2>1, <2>2
    <3> QED  BY <1>1, <2>3, <3>1 DEF Below
  <2>5. Len(p) <= Len(q) /\ \A i \in 1..Len(p) : q[i] = p[i]
    BY <1>1 DEF Below
  <2>6. Len(p) + 1 <= Len(q)
    <3>1. Len(p) \in Int /\ Len(q) \in Int
      BY <2>3
    <3> QED  BY <2>4, <2>5, <3>1
  <2>7. /\ Len(p ++ q[Len(p) + 1]) = Len(p) + 1
        /\ \A i \in 1..(Len(p) + 1) : q[i] = (p ++ q[Len(p) + 1])[i]
    BY <2>3, <2>5, Longer
  <2> QED  BY <2>6, <2>7 DEF Below
<1> QED  BY <1>1, Longer DEF Alike, Same

\* What is below a path that leads on is below its beginning.
LEMMA BelowOn ==
  ASSUME NEW p, Path(p), NEW q, Path(q), NEW u, Path(u), Below(p, q), Below(q, u)
  PROVE  Below(p, u)
<1>1. Len(p) \in Nat /\ Len(q) \in Nat /\ Len(u) \in Nat
  BY DEF Path
<1> QED  BY <1>1 DEF Below

\* Alike below a path is alike below each path that leads on from it.
LEMMA AlikeBelow ==
  ASSUME NEW s, NEW t, NEW p, Alike(s, t, p), NEW q, Path(q), Below(p, q)
  PROVE  Alike(s, t, q)
<1>1. Leafed(s) /\ Leafed(t) /\ Path(p) /\ Same(s, t, p)
  BY DEF Alike
<1>2. Same(s, t, q)
  BY <1>1, BelowOn DEF Same
<1> QED  BY <1>1, <1>2 DEF Alike

\* Where one has nothing, so has the other.
LEMMA AlikeBlank ==
  ASSUME NEW s, NEW t, NEW p, Alike(s, t, p)
  PROVE  Blank(s, p) <=> Blank(t, p)
BY DEF Alike, Same, Blank, Leafed

(***************************************************************************)
(* The same, for one place that is written                                 *)
(***************************************************************************)
\* A document below one path changes nothing below a path that parts from it.
LEMMA MergeElsewhere ==
  ASSUME NEW s, Leafed(s), NEW r, Path(r), NEW doc, Under(doc, r)
  PROVE  /\ Leafed(doc) /\ Leafed(Merge(s, doc))
         /\ \A p : Path(p) /\ Split(p, r) => Alike(Merge(s, doc), s, p)
<1>1. Leafed(doc)
  BY UnderBlank
<1>2. Leafed(Merge(s, doc))
  BY <1>1, MergeHas
<1>3. ASSUME NEW p, Path(p), Split(p, r) PROVE Alike(Merge(s, doc), s, p)
  <2>1. \A q \in DOMAIN doc : Split(p, q)
    BY <1>3, UnderBlank
  <2> QED  BY <1>1, <1>3, <2>1, MergeApart
<1> QED  BY <1>1, <1>2, <1>3

\* Deleting below one key of a list leaves the other entries alone.
LEMMA DeleteKey ==
  ASSUME NEW s, Leafed(s), NEW p, Path(p), NEW k, NEW r, Path(r), Below(p ++ k, r)
  PROVE  /\ Leafed(Delete(s, {r})) /\ Blank(Delete(s, {r}), r)
         /\ \A j : j # k => Alike(Delete(s, {r}), s, p ++ j)
         /\ \A j : j # k => (j \in Keys(Delete(s, {r}), p) <=> j \in Keys(s, p))
         /\ r = p ++ k => Keys(Delete(s, {r}), p) = Keys(s, p) \ {k}
<1> DEFINE t == Delete(s, {r})
<1>1. /\ Leafed(t) /\ \A q : q \in DOMAIN t <=> q \in DOMAIN s /\ ~Below(r, q)
      /\ \A q \in DOMAIN t : t[q] = s[q]
      /\ Blank(t, r)
  BY DeleteLeaves
<1> HIDE DEF t
<1>2. ASSUME NEW j, j # k PROVE Alike(t, s, p ++ j)
  <2>1. Path(p ++ j) /\ Path(p ++ k) /\ Len(p) \in Nat
    BY Longer
  <2>2. ASSUME NEW q, Path(q), Below(p ++ j, q) PROVE ~Below(r, q)
    <3>1. ASSUME Below(r, q) PROVE FALSE
      <4>1. Below(p ++ k, q)
        BY <2>1, <2>2, <3>1, BelowOn
      <4>2. Len(p) + 1 \in 1..Len(p ++ k) /\ Len(p) + 1 \in 1..Len(p ++ j)
        BY Longer
      <4>3. q[Len(p) + 1] = k /\ q[Len(p) + 1] = j
        BY <2>2, <4>1, <4>2, Longer DEF Below
      <4> QED  BY <1>2, <4>3
    <3> QED  BY <3>1
  <2>3. Same(t, s, p ++ j)
    BY <1>1, <2>2 DEF Same
  <2> QED  BY <1>1, <2>1, <2>3 DEF Alike
<1>3. ASSUME NEW j, j # k PROVE j \in Keys(t, p) <=> j \in Keys(s, p)
  <2>1. Alike(t, s, p ++ j)
    BY <1>2, <1>3
  <2>2. Blank(t, p ++ j) <=> Blank(s, p ++ j)
    BY <2>1, AlikeBlank
  <2> QED  BY <1>1, <2>2, KeysAre DEF Blank
<1>4. ASSUME r = p ++ k PROVE Keys(t, p) = Keys(s, p) \ {k}
  <2>1. k \notin Keys(t, p)
    BY <1>1, <1>4, KeysAre DEF Blank
  <2> QED  BY <1>3, <2>1
<1> QED  BY <1>1, <1>2, <1>3, <1>4 DEF t

\* Writing an entry adds its key, and leaves the other entries alone.
LEMMA MergeKey ==
  ASSUME NEW s, Leafed(s), NEW p, Path(p), NEW k, k \notin CaseNames,
         NEW doc, Under(doc, p ++ k), DOMAIN doc # {}
  PROVE  /\ \A j : j # k => Alike(Merge(s, doc), s, p ++ j)
         /\ Keys(Merge(s, doc), p) = Keys(s, p) \cup {k}
<1> DEFINE t == Merge(s, doc)
<1>1. Path(p ++ k) /\ \A j : Path(p ++ j)
  BY Longer
<1>2. Leafed(doc) /\ Leafed(t)
  BY <1>1, MergeElsewhere
<1>3. \A j : j # k => Split(p ++ j, p ++ k)
  BY SiblingsSplit
<1>4. \A j : j # k => Alike(t, s, p ++ j)
  BY <1>1, <1>3, MergeElsewhere
<1>5. \A q \in DOMAIN doc : q \in DOMAIN t
  BY <1>2, MergeHas
<1> HIDE DEF t
<1>6. k \in Keys(t, p)
  BY <1>2, <1>5, KeysAre DEF Under
<1>7. ASSUME NEW j, j # k PROVE j \in Keys(t, p) <=> j \in Keys(s, p)
  <2>1. Blank(t, p ++ j) <=> Blank(s, p ++ j)
    BY <1>4, <1>7, AlikeBlank
  <2> QED  BY <1>2, <2>1, KeysAre DEF Blank
<1> QED  BY <1>4, <1>6, <1>7 DEF t

\* A list whose entries stay has the keys it had.
LEMMA KeysStay ==
  ASSUME NEW s, NEW t, NEW p, Alike(s, t, p)
  PROVE  Keys(s, p) = Keys(t, p) /\ \A k : Alike(s, t, p ++ k)
BY AlikeRead, AlikeFurther

(***************************************************************************)
(* Reading a structure whole                                               *)
(***************************************************************************)
\* It is read as it is without an error, and as the error otherwise.
LEMMA WholeIs ==
  ASSUME NEW x
  PROVE  /\ (\A f \in DOMAIN x : x[f] # Fail /\ x[f] # Crash) => Whole(x) = x
         /\ (\E f \in DOMAIN x : x[f] = Fail) => Whole(x) = Fail
         /\ (\A f \in DOMAIN x : x[f] # Fail) /\ (\E f \in DOMAIN x : x[f] = Crash) =>
              Whole(x) = Crash
         /\ Whole(x) \notin {Fail, Crash} =>
              /\ Whole(x) = x
              /\ \A f \in DOMAIN x : x[f] # Fail /\ x[f] # Crash
BY DEF Whole

\* Where the entries of a list are alike, so are its keys.
LEMMA KeysOfEntries ==
  ASSUME NEW s, NEW t, NEW p, Path(p), \A k : Alike(s, t, p ++ k)
  PROVE  Keys(s, p) = Keys(t, p)
<1>1. Leafed(s) /\ Leafed(t)
  BY DEF Alike
<1>2. \A k : Blank(s, p ++ k) <=> Blank(t, p ++ k)
  BY AlikeBlank
<1>3. ASSUME NEW k PROVE k \in Keys(s, p) <=> k \in Keys(t, p)
  BY <1>1, <1>2, KeysAre DEF Blank
<1> QED  BY <1>3

(***************************************************************************)
(* What a structure's leaves hold                                          *)
(***************************************************************************)
Holds(s, p, fields, x) == \A f \in fields : Get(s, p ++ f) = x[f]

\* Leaves of a structure and one more, written together.
LEMMA LeavesAndLeaf ==
  ASSUME NEW p, Path(p), NEW fields, NEW x, NEW g, g \notin fields, NEW v
  PROVE  LET d == Union({PutLeaves(p, fields, x), PutLeaf(p ++ g, v)})
         IN /\ Under(d, p) /\ Leafed(d) /\ DOMAIN d # {}
            /\ Holds(d, p, fields, x) /\ Get(d, p ++ g) = v
            /\ \A h : h \notin fields \cup {g} => Blank(d, p ++ h)
<1> DEFINE a == PutLeaves(p, fields, x)
           b == PutLeaf(p ++ g, v)
           d == Union({a, b})
<1>1. /\ Under(a, p) /\ Leafed(a)
      /\ \A f \in fields : p ++ f \in DOMAIN a /\ a[p ++ f] = x[f]
      /\ \A f : f \notin fields => Blank(a, p ++ f)
  BY LeavesAre
<1>2. /\ Under(b, p) /\ Leafed(b) /\ DOMAIN b = {p ++ g} /\ b[p ++ g] = v
      /\ \A f : f # g => Blank(b, p ++ f)
  BY LeafIs
<1>3. \A f : Path(p ++ f)
  BY Longer
<1> HIDE DEF a, b
<1>4. Under(d, p)
  BY <1>1, <1>2, UnderUnion
<1>5. ASSUME NEW f \in fields PROVE Alike(d, a, p ++ f)
  BY <1>1, <1>2, <1>3, UnionAlike
<1>6. Alike(d, b, p ++ g)
  BY <1>1, <1>2, <1>3, UnionAlike
<1>7. Holds(d, p, fields, x) /\ Get(d, p ++ g) = v
  BY <1>1, <1>2, <1>5, <1>6, AlikeRead DEF Holds, Get
<1>8. p ++ g \in DOMAIN d
  BY <1>2, UnionHas
<1>9. ASSUME NEW h, h \notin fields \cup {g} PROVE Blank(d, p ++ h)
  BY <1>1, <1>2, <1>9, UnionBlank
<1> QED  BY <1>1, <1>2, <1>4, <1>7, <1>8, <1>9, UnderBlank DEF a, b, d

\* What is alike holds the same.
LEMMA HoldsStill ==
  ASSUME NEW s, NEW t, NEW p, Alike(s, t, p), NEW fields, NEW x, Holds(t, p, fields, x)
  PROVE  Holds(s, p, fields, x)
BY AlikeFurther, AlikeRead DEF Holds

\* Keys whose entries stay are keys still.
LEMMA KeysBut ==
  ASSUME NEW s, Leafed(s), NEW t, Leafed(t), NEW p, Path(p), NEW k,
         \A j : j # k => Alike(t, s, p ++ j)
  PROVE  \A j : j # k => (j \in Keys(t, p) <=> j \in Keys(s, p))
<1>1. ASSUME NEW j, j # k PROVE j \in Keys(t, p) <=> j \in Keys(s, p)
  <2>1. Blank(t, p ++ j) <=> Blank(s, p ++ j)
    BY <1>1, AlikeBlank
  <2> QED  BY <2>1, KeysAre DEF Blank
<1> QED  BY <1>1

\* A leaf makes its entry a key.
LEMMA LeafMakesKey ==
  ASSUME NEW s, Leafed(s), NEW p, Path(p), NEW k, NEW f, Get(s, p ++ k ++ f) # Fail
  PROVE  k \in Keys(s, p)
<1>1. p ++ k ++ f \in DOMAIN s
  BY DEF Get
<1>2. Path(p ++ k) /\ Below(p ++ k, p ++ k ++ f)
  BY Longer, BelowIs
<1> QED  BY <1>1, <1>2, KeysAre

\* What is deleted and written again is what is written.
LEMMA Replaced ==
  ASSUME NEW s, Leafed(s), NEW p, Path(p), NEW doc, Leafed(doc)
  PROVE  Alike(Merge(Delete(s, {p}), doc), doc, p)
<1> DEFINE u == Delete(s, {p})
<1>1. Leafed(u) /\ Blank(u, p)
  BY DeleteLeaves
<1> HIDE DEF u
<1>2. Alike(Merge(u, doc), doc, p)
  BY <1>1, MergeBlank
<1> QED  BY <1>2 DEF u

\* Where a list has no entry, the entries written are those of the document.
LEMMA MergeNoEntries ==
  ASSUME NEW s, Leafed(s), NEW doc, Leafed(doc), NEW p, Path(p), Keys(s, p) = {}
  PROVE  \A k : Alike(Merge(s, doc), doc, p ++ k)
<1>1. \A k : Path(p ++ k)
  BY Longer
<1>2. \A k : Blank(s, p ++ k)
  BY KeysAre DEF Blank
<1> QED  BY <1>1, <1>2, MergeBlank

\* What a document holds is held after it was written.
LEMMA MergeHolds ==
  ASSUME NEW s, Leafed(s), NEW doc, Leafed(doc), NEW p, NEW fields, NEW x,
         Holds(doc, p, fields, x), \A f \in fields : x[f] # Fail
  PROVE  Holds(Merge(s, doc), p, fields, x)
<1>1. ASSUME NEW f \in fields PROVE Get(Merge(s, doc), p ++ f) = x[f]
  <2>1. p ++ f \in DOMAIN doc /\ doc[p ++ f] = x[f]
    BY DEF Holds, Get
  <2> QED  BY <2>1, MergeHas DEF Get
<1> QED  BY <1>1 DEF Holds

\* A leaf is below one entry of a list only.
LEMMA Siblings ==
  ASSUME NEW p, Path(p), NEW j, NEW k, NEW q, Below(p ++ j, q), Below(p ++ k, q)
  PROVE  j = k
<1>1. Len(p) + 1 \in 1..Len(p ++ j) /\ Len(p) + 1 \in 1..Len(p ++ k)
  BY Longer
<1>2. (p ++ j)[Len(p) + 1] = j /\ (p ++ k)[Len(p) + 1] = k
  BY Longer
<1> QED  BY <1>1, <1>2 DEF Below

\* A document adds its keys to a list if it parts from the other entries.
LEMMA MergeKeys ==
  ASSUME NEW s, Leafed(s), NEW doc, Leafed(doc), NEW p, Path(p),
         \A k : k \notin Keys(doc, p) => \A r \in DOMAIN doc : Split(p ++ k, r)
  PROVE  /\ Keys(Merge(s, doc), p) = Keys(s, p) \cup Keys(doc, p)
         /\ \A k : k \notin Keys(doc, p) => Alike(Merge(s, doc), s, p ++ k)
<1> DEFINE t == Merge(s, doc)
<1>1. Leafed(t) /\ \A q \in DOMAIN doc : q \in DOMAIN t
  BY MergeHas
<1>2. \A k : Path(p ++ k)
  BY Longer
<1>3. \A k : k \notin Keys(doc, p) => Alike(t, s, p ++ k)
  BY <1>2, MergeApart
<1> HIDE DEF t
<1>4. \A k \in Keys(doc, p) : k \in Keys(t, p)
  BY <1>1, KeysAre
<1>5. ASSUME NEW k, k \notin Keys(doc, p) PROVE k \in Keys(t, p) <=> k \in Keys(s, p)
  <2>1. Blank(t, p ++ k) <=> Blank(s, p ++ k)
    BY <1>3, <1>5, AlikeBlank
  <2> QED  BY <1>1, <2>1, KeysAre DEF Blank
<1>6. \A k : k \in Keys(t, p) <=> k \in Keys(s, p) \cup Keys(doc, p)
  BY <1>4, <1>5
<1>7. Keys(t, p) = Keys(s, p) \cup Keys(doc, p)
  BY <1>6
<1> QED  BY <1>3, <1>7 DEF t

\* Deleting below one path leaves a path that parts from it alone.
LEMMA DeleteElsewhereOne ==
  ASSUME NEW s, Leafed(s), NEW r, Path(r), NEW p, Path(p), Split(p, r)
  PROVE  Alike(Delete(s, {r}), s, p)
<1>1. \A q \in {r} : Path(q) /\ Split(p, q)
  OBVIOUS
<1> QED  BY <1>1, DeleteApart

(***************************************************************************)
(* Reading whole structures                                                *)
(***************************************************************************)
\* None of the marks is a function: no record is taken for one of them.
MarksApart == \A m \in {Fail, Crash, Undefined, Null} : m # [x \in DOMAIN m |-> m[x]]

\* A function whose members are read without an error: it crashes if one of
\* them does, and is no mark otherwise.
LEMMA ReadWhole ==
  ASSUME MarksApart, NEW x, x = [f \in DOMAIN x |-> x[f]], \A f \in DOMAIN x : x[f] # Fail
  PROVE  /\ Whole(x) # Fail
         /\ Whole(x) = Crash <=> \E f \in DOMAIN x : x[f] = Crash
         /\ (\A f \in DOMAIN x : x[f] # Crash) => Whole(x) = x
<1>1. x \notin {Fail, Crash, Undefined, Null}
  BY DEF MarksApart
<1> QED  BY <1>1, WholeIs, MarksDistinct

\* The structure r has the leaves of x and the parts, or is read with a crash
\* because a part is.
Fits(leaves, x, parts) ==
  /\ \A f \in leaves : x[f] # Fail /\ x[f] # Crash
  /\ \A f \in DOMAIN parts : f \notin leaves /\ parts[f] # Fail

StructIs(r, leaves, x, parts) ==
  /\ r # Fail
  /\ r = Crash <=> \E f \in DOMAIN parts : parts[f] = Crash
  /\ r # Crash => /\ r = [f \in DOMAIN r |-> r[f]] /\ DOMAIN r = leaves \cup DOMAIN parts
                  /\ \A f \in leaves : r[f] = x[f]
                  /\ \A f \in DOMAIN parts : r[f] = parts[f]

\* A structure whose leaves are held is read with the leaves it has and the
\* parts as they were read.
LEMMA StructRead ==
  ASSUME MarksApart, NEW s, NEW p, NEW leaves, NEW x, Holds(s, p, leaves, x),
         NEW parts, Fits(leaves, x, parts)
  PROVE  StructIs(Struct(s, p, leaves, parts), leaves, x, parts)
<1> DEFINE G == [f \in leaves \cup DOMAIN parts |->
                   IF f \in leaves THEN Get(s, p ++ f) ELSE parts[f]]
           H == [f \in leaves \cup DOMAIN parts |-> IF f \in leaves THEN x[f] ELSE parts[f]]
<1>1. Struct(s, p, leaves, parts) = Whole(G)
  BY DEF Struct
<1>2. G = H
  BY DEF Holds
<1>3. /\ H = [f \in DOMAIN H |-> H[f]] /\ DOMAIN H = leaves \cup DOMAIN parts
      /\ \A f \in leaves : H[f] = x[f]
      /\ \A f \in DOMAIN parts : H[f] = parts[f]
  BY DEF Fits
<1> HIDE DEF G, H
<1>4. \A f \in DOMAIN H : H[f] # Fail
  BY <1>3 DEF Fits
<1>5. /\ Whole(H) # Fail
      /\ Whole(H) = Crash <=> \E f \in DOMAIN H : H[f] = Crash
      /\ (\A f \in DOMAIN H : H[f] # Crash) => Whole(H) = H
  BY <1>3, <1>4, ReadWhole
<1>6. (\E f \in DOMAIN H : H[f] = Crash) <=> \E f \in DOMAIN parts : parts[f] = Crash
  BY <1>3 DEF Fits
<1> QED  BY <1>1, <1>2, <1>3, <1>5, <1>6 DEF StructIs

\* A structure without an error in it is read as it is, and is no mark.
LEMMA ReadClean ==
  ASSUME MarksApart, NEW x, x = [f \in DOMAIN x |-> x[f]],
         \A f \in DOMAIN x : x[f] # Fail /\ x[f] # Crash
  PROVE  Whole(x) = x /\ x \notin {Fail, Crash, Undefined, Null}
BY ReadWhole DEF MarksApart

\* A structure whose parts are read without an error.
StructClean(r, leaves, x, parts) ==
  /\ r \notin {Fail, Crash} /\ r = [f \in DOMAIN r |-> r[f]]
  /\ DOMAIN r = leaves \cup DOMAIN parts
  /\ \A f \in leaves : r[f] = x[f]
  /\ \A f \in DOMAIN parts : r[f] = parts[f]

\* A structure is read without an error when its parts are.
LEMMA StructReadClean ==
  ASSUME MarksApart, NEW s, NEW p, NEW leaves, NEW x, Holds(s, p, leaves, x),
         NEW parts, Fits(leaves, x, parts), \A f \in DOMAIN parts : parts[f] # Crash
  PROVE  StructClean(Struct(s, p, leaves, parts), leaves, x, parts)
<1> DEFINE r == Struct(s, p, leaves, parts)
<1>1. StructIs(r, leaves, x, parts)
  BY StructRead
<1> HIDE DEF r
<1>2. StructClean(r, leaves, x, parts)
  BY <1>1 DEF StructIs, StructClean
<1> QED  BY <1>2 DEF r

(***************************************************************************)
(* Documents written into documents                                        *)
(***************************************************************************)
\* No name on the path is a case of a choice.
Plain(p) == \A i \in 1..Len(p) : p[i] \notin CaseNames

\* One more name, no case, keeps it so.
LEMMA PlainFurther ==
  ASSUME NEW p, Path(p), Plain(p), NEW name, name \notin CaseNames
  PROVE  Path(p ++ name) /\ Plain(p ++ name)
<1>1. Len(p) \in Nat /\ \A i \in 1..(Len(p) + 1) : i \in 1..Len(p) \/ i = Len(p) + 1
  BY DEF Path
<1> QED  BY <1>1, Longer DEF Plain

\* Below such a path a leaf makes way only for leaves below it too.
LEMMA ConflictsBelow ==
  ASSUME NEW p, Path(p), Plain(p), NEW q, Path(q), Below(p, q), NEW r, Path(r), ConflictsWith(q, r)
  PROVE  Below(p, r)
<1>1. PICK k \in 1..Len(q) : /\ q[k] \in CaseNames /\ k <= Len(r)
                             /\ SubSeq(q, 1, k - 1) = SubSeq(r, 1, k - 1)
  BY DEF ConflictsWith
<1>2. Len(p) \in Nat /\ Len(q) \in Nat /\ Len(r) \in Nat
  BY DEF Path
<1>3. k > Len(p)
  BY <1>1, <1>2 DEF Plain, Below
<1>4. ASSUME NEW i \in 1..Len(p) PROVE r[i] = p[i]
  <2>1. k - 1 \in Nat /\ i \in 1..(k - 1) /\ k - 1 <= Len(q) /\ k - 1 <= Len(r)
    BY <1>1, <1>2, <1>3, <1>4
  <2>2. PICK Q : q \in Seq(Q)
    BY DEF Path
  <2>3. PICK R : r \in Seq(R)
    BY DEF Path
  <2>4. SubSeq(q, 1, k - 1)[i] = q[i]
    BY <2>1, <2>2
  <2>5. SubSeq(r, 1, k - 1)[i] = r[i]
    BY <2>1, <2>3
  <2> QED  BY <1>1, <2>4, <2>5 DEF Below
<1> QED  BY <1>1, <1>2, <1>3, <1>4 DEF Below

\* What a document says nothing about stays.
LEMMA MergeKeeps ==
  ASSUME NEW s, Leafed(s), NEW d, Leafed(d), NEW p, Path(p), Plain(p), Blank(d, p)
  PROVE  Alike(Merge(s, d), s, p)
<1> DEFINE t == Merge(s, d)
<1>1. /\ \A q : q \in DOMAIN t <=>
                  \/ q \in DOMAIN d
                  \/ q \in DOMAIN s /\ (\A r \in DOMAIN d : ~ConflictsWith(q, r))
      /\ \A q \in DOMAIN t : q \notin DOMAIN d => t[q] = s[q]
  BY DEF Merge
<1>2. Leafed(t)
  BY MergeHas
<1> HIDE DEF t
<1>3. ASSUME NEW q, Path(q), Below(p, q), NEW r \in DOMAIN d PROVE ~ConflictsWith(q, r)
  BY <1>3, ConflictsBelow DEF Blank, Leafed
<1>4. Same(t, s, p)
  BY <1>1, <1>3 DEF Same, Blank
<1> QED  BY <1>2, <1>4 DEF Alike, t

\* The entries of a list after a merge: those that were there and those that
\* are written, each with the leaves of both.
LEMMA MergedEntries ==
  ASSUME NEW s, Leafed(s), NEW d, Leafed(d), NEW p, Path(p), Plain(p),
         Keys(s, p) \cap CaseNames = {}, Keys(d, p) \cap CaseNames = {}
  PROVE  /\ Keys(Merge(s, d), p) = Keys(s, p) \cup Keys(d, p)
         /\ \A k \in Keys(s, p) \cup Keys(d, p) :
              /\ Path(p ++ k) /\ Plain(p ++ k)
              /\ k \notin Keys(d, p) => Alike(Merge(s, d), s, p ++ k)
              /\ k \notin Keys(s, p) => Alike(Merge(s, d), d, p ++ k)
<1> DEFINE t == Merge(s, d)
<1>1. Leafed(t)
  BY MergeHas
<1>2. ASSUME NEW k PROVE (k \in Keys(s, p) <=> ~Blank(s, p ++ k)) /\ (k \in Keys(d, p) <=> ~Blank(d, p ++ k))
  BY KeysAre DEF Blank
<1>3. \A k : Path(p ++ k)
  BY Longer
<1>4. \A k : k \notin CaseNames => Plain(p ++ k)
  BY PlainFurther
<1>5. \A k : k \notin Keys(s, p) => Alike(t, d, p ++ k)
  BY <1>2, <1>3, MergeBlank
<1>6. \A k : k \notin Keys(d, p) /\ k \notin CaseNames => Alike(t, s, p ++ k)
  BY <1>2, <1>3, <1>4, MergeKeeps
<1>7. \A k : k \in Keys(t, p) <=> \E q \in DOMAIN t : Below(p ++ k, q)
  BY <1>1, KeysAre
<1>8. ASSUME NEW k \in Keys(d, p) PROVE k \in Keys(t, p)
  <2>1. PICK q \in DOMAIN d : Below(p ++ k, q)
    BY KeysAre
  <2> QED  BY <1>7, <2>1, MergeHas
<1>9. ASSUME NEW k \in Keys(s, p) PROVE k \in Keys(t, p)
  <2>1. CASE k \in Keys(d, p)
    BY <1>8, <2>1
  <2>2. CASE k \notin Keys(d, p)
    <3>1. Alike(t, s, p ++ k) /\ ~Blank(s, p ++ k)
      BY <1>2, <1>6, <2>2
    <3> QED  BY <1>7, <3>1, AlikeBlank DEF Blank
  <2> QED  BY <2>1, <2>2
<1>10. ASSUME NEW k \in Keys(t, p), k \notin Keys(s, p), k \notin Keys(d, p) PROVE FALSE
  <2>1. Alike(t, d, p ++ k) /\ Blank(d, p ++ k)
    BY <1>2, <1>5, <1>10
  <2> QED  BY <1>7, <2>1, AlikeBlank DEF Blank
<1> QED  BY <1>3, <1>4, <1>5, <1>6, <1>8, <1>9, <1>10 DEF t

\* Leaves that are written are held afterwards.
LEMMA MergedHolds ==
  ASSUME NEW s, Leafed(s), NEW d, Leafed(d), NEW p, NEW fields, NEW x,
         Holds(d, p, fields, x), \A f \in fields : x[f] # Fail
  PROVE  Holds(Merge(s, d), p, fields, x)
BY MergeHas DEF Holds, Get

\* The documents of a structure with leaves and with parts D[k] at p ++ k.
ArePartsOf(docs, p, fields, x, K, D) ==
  /\ \A k \in K : k \notin fields /\ Under(D[k], p ++ k)
  /\ \A d : d \in docs <=> d = PutLeaves(p, fields, x) \/ \E k \in K : d = D[k]

\* The structure has its leaves and each part as it is.
LEMMA PartsAre ==
  ASSUME NEW p, Path(p), NEW fields, NEW x, NEW K, NEW D, NEW docs,
         ArePartsOf(docs, p, fields, x, K, D)
  PROVE  LET u == Union(docs)
         IN /\ Under(u, p) /\ Leafed(u) /\ Holds(u, p, fields, x)
            /\ \A k \in K : Alike(u, D[k], p ++ k)
            /\ \A k : k \notin K /\ k \notin fields => Blank(u, p ++ k)
            /\ p \notin DOMAIN u
<1> DEFINE l == PutLeaves(p, fields, x)
           u == Union(docs)
<1>1. /\ Under(l, p) /\ Leafed(l) /\ \A q \in DOMAIN l : \E f \in fields : q = p ++ f
      /\ \A f \in fields : p ++ f \in DOMAIN l /\ l[p ++ f] = x[f]
      /\ \A f : f \notin fields => Blank(l, p ++ f)
  BY LeavesAre
<1>2. /\ \A k \in K : k \notin fields /\ Under(D[k], p ++ k)
      /\ \A d : d \in docs <=> d = l \/ \E k \in K : d = D[k]
  BY DEF ArePartsOf
<1> HIDE DEF l, u
<1>3. \A k : Path(p ++ k)
  BY Longer
<1>4. ASSUME NEW k \in K PROVE Under(D[k], p) /\ Leafed(D[k]) /\ \A j : j # k => Blank(D[k], p ++ j)
  <2>1. Under(D[k], p ++ k)
    BY <1>2
  <2>2. ASSUME NEW j, j # k, NEW q \in DOMAIN D[k] PROVE ~Below(p ++ j, q)
    <3>1. Below(p ++ k, q) /\ Path(q)
      BY <2>1 DEF Under
    <3>2. /\ Len(p ++ k) = Len(p) + 1 /\ (p ++ k)[Len(p) + 1] = k
          /\ Len(p ++ j) = Len(p) + 1 /\ (p ++ j)[Len(p) + 1] = j /\ Len(p) \in Nat
      BY Longer
    <3> QED  BY <2>2, <3>1, <3>2 DEF Below
  <2> QED  BY <1>3, <2>1, <2>2, UnderFurther DEF Blank, Leafed, Under
<1>5. \A d \in docs : Leafed(d) /\ Under(d, p)
  BY <1>1, <1>2, <1>4
<1>6. ASSUME NEW k \in K PROVE Alike(u, D[k], p ++ k) /\ Leafed(u)
  <2>1. \A e \in docs : e # D[k] => Blank(e, p ++ k)
    BY <1>1, <1>2, <1>4
  <2>2. D[k] \in docs
    BY <1>2
  <2> DEFINE c == D[k]
  <2> HIDE DEF c
  <2> SUFFICES Alike(u, c, p ++ k) /\ Leafed(u)
    BY DEF c
  <2>3. c \in docs /\ \A e \in docs : e # c => Blank(e, p ++ k)
    BY <2>1, <2>2 DEF c
  <2> QED  BY <1>3, <1>5, <2>3, UnionAlike DEF u
<1>7. ASSUME NEW f \in fields PROVE Get(u, p ++ f) = x[f]
  <2>1. \A e \in docs : e # l => Blank(e, p ++ f)
    BY <1>2, <1>4
  <2>2. Alike(u, l, p ++ f)
    BY <1>2, <1>3, <1>5, <2>1, UnionAlike DEF u
  <2> QED  BY <1>1, <2>2, AlikeRead DEF Get
<1>8. Under(u, p)
  BY <1>5, UnderUnion DEF u
<1>9. Leafed(u)
  BY <1>8 DEF Under, Leafed
<1>10. \A k : k \notin K /\ k \notin fields => Blank(u, p ++ k)
  <2>1. ASSUME NEW k, k \notin K, k \notin fields PROVE \A e \in docs : Blank(e, p ++ k)
    BY <1>1, <1>2, <1>4, <2>1
  <2> QED  BY <2>1, UnionBlank DEF u
<1>11. p \notin DOMAIN u
  <2>1. \A d \in docs : p \notin DOMAIN d
    <3>1. \A k : ~Below(p ++ k, p)
      BY Longer DEF Below
    <3>2. \A k \in K : p \notin DOMAIN D[k]
      BY <1>2, <3>1 DEF Under
    <3>3. p \notin DOMAIN l
      BY <1>1, <3>1, <1>3, BelowIs
    <3> QED  BY <1>2, <3>2, <3>3
  <2>2. DOMAIN u = UNION {DOMAIN d : d \in docs}
    BY DEF u, Union
  <2> QED  BY <2>1, <2>2
<1> QED  BY <1>6, <1>7, <1>8, <1>9, <1>10, <1>11 DEF Holds, u

\* A leaf of an entry makes the entry one of the list.
LEMMA HeldKey ==
  ASSUME NEW s, Leafed(s), NEW p, Path(p), NEW k, NEW f, Get(s, p ++ k ++ f) # Fail
  PROVE  k \in Keys(s, p)
<1>1. p ++ k ++ f \in DOMAIN s
  BY DEF Get
<1>2. Path(p ++ k) /\ Below(p ++ k, p ++ k ++ f)
  BY Longer, BelowIs
<1> QED  BY <1>1, <1>2, KeysAre
=============================================================================
