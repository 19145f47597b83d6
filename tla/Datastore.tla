----------------------------- MODULE Datastore -----------------------------
(***************************************************************************)
(* The operational datastore of sysrepo, external to this repository, as   *)
(* sysrepo_client.c uses it: a set of leaves, each with a value, found by  *)
(* their path.  A path is the sequence of the node names and list keys     *)
(* that lead to the leaf; containers and list entries exist through their  *)
(* leaves.  sr_set_item(_str) on the paths of a structure merges its       *)
(* leaves into the datastore: nothing that is already there disappears,    *)
(* except the other cases of a YANG choice.                                *)
(*                                                                         *)
(* A C array and a JSON array are functions from the keys of the entries   *)
(* to the entries: the order of the entries of a list is sysrepo's.        *)
(***************************************************************************)
EXTENDS Integers, FiniteSets, Sequences, SequencesExt, TLC

CONSTANTS Fail,      \* the operation returned an error code
          Crash,     \* the process dereferenced a null or wild pointer
          Undefined, \* memory nobody wrote
          Null       \* the null pointer

ASSUME MarksDistinct ==
    Fail \notin {Crash, Undefined, Null} /\ Crash \notin {Undefined, Null} /\ Undefined # Null

\* The containers that are the cases of the choice `field` of
\* data-frame-specification and config-list (tsn-types in yang_modules).
CaseNames == {"ieee802_mac_addresses", "ieee802_vlan_tag", "ipv4_tuple",
              "ipv6_tuple", "time_aware_offset"}

ConflictsWith(q, p) ==
    \E k \in 1..Len(q) : /\ q[k] \in CaseNames
                         /\ k <= Len(p)
                         /\ p[k] \in CaseNames \ {q[k]}
                         /\ SubSeq(q, 1, k - 1) = SubSeq(p, 1, k - 1)

p ++ name == Append(p, name)

\* A function with one value, and f with what g has besides.
Single(k, v) == [x \in {k} |-> v]
Beside(f, g) == [x \in DOMAIN f \cup DOMAIN g |-> IF x \in DOMAIN f THEN f[x] ELSE g[x]]

----------------------------------------------------------------------------
(* Reading *)

\* sr_get_item: an error if there is no such leaf.
Get(s, p) == IF p \in DOMAIN s THEN s[p] ELSE Fail

\* sr_get_items: the names or keys found right below a path, maybe none.
Keys(s, p) == {q[Len(p) + 1] : q \in {r \in DOMAIN s : IsStrictPrefix(p, r)}}

\* A structure read member by member: the first error ends the reading.
Whole(x) ==
    IF \E f \in DOMAIN x : x[f] = Fail THEN Fail
    ELSE IF \E f \in DOMAIN x : x[f] = Crash THEN Crash ELSE x

\* A structure of leaves and of parts that were read by operations of their own.
Struct(s, p, leaves, parts) ==
    Whole([f \in leaves \cup DOMAIN parts |->
              IF f \in leaves THEN Get(s, p ++ f) ELSE parts[f]])

Leaves(s, p, leaves) == Struct(s, p, leaves, << >>)

Entries(s, p, Read(_, _)) == Whole([k \in Keys(s, p) |-> Read(s, p ++ k)])

----------------------------------------------------------------------------
(* Writing: what a structure puts into the datastore is a set of leaves,   *)
(* again a function from paths to values.                                  *)

Union(docs) ==
    [p \in UNION {DOMAIN d : d \in docs} |->
        (CHOOSE d \in docs : p \in DOMAIN d)[p]]

PutLeaf(p, v) == [q \in {p} |-> v]

PutLeaves(p, leaves, x) == [q \in {p ++ f : f \in leaves} |-> x[Last(q)]]

PutEntries(p, Write(_, _), x) == Union({Write(p ++ k, x[k]) : k \in DOMAIN x})

\* The leaves of a leaf-list, each its own key.
PutValues(p, values) == [q \in {p ++ v : v \in values} |-> Last(q)]

\* sr_set_item on every leaf of doc, then sr_apply_changes.
Merge(s, doc) ==
    [p \in DOMAIN doc \cup {q \in DOMAIN s : \A r \in DOMAIN doc : ~ConflictsWith(q, r)} |->
        IF p \in DOMAIN doc THEN doc[p] ELSE s[p]]

\* sr_delete_item on each of the paths, then sr_apply_changes.
Delete(s, paths) ==
    [q \in {r \in DOMAIN s : \A p \in paths : ~IsPrefix(p, r)} |-> s[q]]
=============================================================================
