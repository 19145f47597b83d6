----------------------- MODULE ModuleLifecycle_proofs -----------------------
(***************************************************************************)
(* Proofs about ModuleLifecycle, for any number of programs, clients,      *)
(* processes, instances of the MainModule, calls and crashes.              *)
(***************************************************************************)
EXTENDS ModuleLifecycle, FiniteSetTheorems, WellFoundedInduction, TLAPS

Clean(id) == id \notin deleted \cup strayed \cup overlap
Known(id) == id \in Used \cup deleted

(***************************************************************************)
(* Types                                                                   *)
(***************************************************************************)
EntryType ==
  [name: Programs \cup {Unset}, path: Paths \cup {Unset}, registered: BOOLEAN, pid: Nat]
ProcessType ==
  [pc: {"exec", "found", "running", "lost", "gone"}, prog: Programs, id: Nat,
   signalled: BOOLEAN, by: {"user", "main"}]
MainType ==
  [pc: {"off", "boot", "starting", "running", "stopping", "gone"}, todo: SUBSET Nat]
Adding == [pc: {"adding"}, name: Programs, path: Paths, id: Nat \ {0}]
ResettingType == [pc: {"resetting"}, id: Nat \ {0}]
Stopping == [pc: {"kill", "reset"}, id: Nat, pid: Nat \ {0}]

\* The ids in use have a highest one, and pids are given out in order.
ModsType == mods \in [Used -> EntryType] /\ \E b \in Nat : Used \subseteq 0..b
ProcType == \E n \in Nat : proc \in [1..n -> ProcessType]
MainsType == main \in [Mains -> MainType]
CallType == call \in [Clients -> {NoCall} \cup Adding \cup ResettingType]
StopType == stop \in [Callers -> {NoStop} \cup Stopping]
TypeInv == ModsType /\ ProcType /\ MainsType /\ CallType /\ StopType

(***************************************************************************)
(* The parts of the invariant                                              *)
(***************************************************************************)

\* Whoever is about to write to an entry has seen it: if it is not there it was
\* deleted.
KnownInv ==
  /\ \A p \in Pids : proc[p].pc \in {"found", "running"} => Known(proc[p].id)
  /\ \A c \in Clients : call[c].pc = "resetting" => Known(call[c].id)
  /\ \A k \in Callers : stop[k].pc # "none" => Known(stop[k].id)

\* A process has found an entry of its name.
FoundInv ==
  \A p \in Pids :
    proc[p].pc \in {"found", "running"} /\ Clean(proc[p].id)
      => proc[p].prog = mods[proc[p].id].name

\* A pid in the datastore was recorded there by the process itself.
PidInv ==
  \A id \in Used :
    LET p == mods[id].pid IN
    p > 0 => /\ p \in Pids /\ proc[p].id = id /\ proc[p].pc \in {"running", "gone"}
             /\ Clean(id) => proc[p].prog = mods[id].name

\* The entry of a running process holds its pid, and nobody is about to change
\* that but one who has yet to signal the process.
Recorded(p) ==
  LET id == proc[p].id IN
  /\ id \in Used /\ mods[id].pid = p
  /\ \A q \in Pids : proc[q].pc = "running" /\ proc[q].id = id => q = p
  /\ \A c \in Clients : call[c].pc = "resetting" => call[c].id # id
  /\ \A k \in Callers :
       stop[k].pc # "none" /\ stop[k].id = id => stop[k].pc = "kill" /\ stop[k].pid = p
RecordedInv ==
  \A p \in Pids :
    proc[p].pc = "running" /\ ~proc[p].signalled /\ Clean(proc[p].id) => Recorded(p)

\* Every addition in progress takes the id after the highest one; those that
\* have not lost a race for it look for no name or path that is in use.
Fits(a) ==
  /\ a.id = 1 \/ a.id - 1 \in Used
  /\ a.id \notin Used =>
       \A i \in Used : i < a.id /\ mods[i].name # a.name /\ mods[i].path # a.path
AddInv ==
  deleted \cup strayed \cup overlap = {} =>
    \A c \in Clients : call[c].pc = "adding" => Fits(call[c])

IInv == /\ TypeInv /\ KnownInv /\ FoundInv /\ PidInv /\ RecordedInv
        /\ UnreadableOnlyAfterStray /\ AddInv /\ NamesUnique

(***************************************************************************)
(* Lemmas on the operators of the model                                    *)
(***************************************************************************)

\* A bounded set of numbers has a highest one.
LEMMA HighestExists ==
  ASSUME NEW S \in SUBSET Nat, S # {}, NEW b \in Nat, \A i \in S : i <= b
  PROVE  \E h \in S : \A i \in S : i <= h
<1> DEFINE T == {n \in Nat : \A i \in S : i <= n}
<1>1. T \subseteq Nat /\ T # {}
  OBVIOUS
<1>2. \E x \in T : \A y \in T : ~(<<y, x>> \in OpToRel(<, Nat))
  BY <1>1, NatLessThanWellFounded, WFMin
<1>3. PICK x \in T : \A y \in T : ~(y < x)
  BY <1>2 DEF OpToRel
<1>4. \E i \in S : i >= x
  <2>1. CASE x = 0
    <3>1. PICK i \in S : i \in Nat
      OBVIOUS
    <3> QED  BY <2>1, <3>1
  <2>2. CASE x # 0
    <3>1. x - 1 \in Nat /\ x - 1 < x
      BY <2>2
    <3>2. x - 1 \notin T
      BY <3>1, <1>3
    <3> QED  BY <3>1, <3>2
  <2> QED  BY <2>1, <2>2
<1> QED  BY <1>3, <1>4

\* The id that sysrepo_add_module takes is above all that are in use.
FreshId == 1 + (IF Used = {} THEN 0
                ELSE CHOOSE h \in Used : \A id \in Used : id <= h)
\* There is a greatest id, and the next one follows it.
LEMMA NextId ==
  ModsType => /\ FreshId \in Nat \ {0} /\ \A i \in Used : i < FreshId
              /\ FreshId = 1 \/ FreshId - 1 \in Used
<1> SUFFICES ASSUME ModsType
             PROVE  /\ FreshId \in Nat \ {0} /\ \A i \in Used : i < FreshId
                    /\ FreshId = 1 \/ FreshId - 1 \in Used
  OBVIOUS
<1>1. CASE Used = {}
  BY <1>1 DEF FreshId
<1>2. CASE Used # {}
  <2>1. PICK b \in Nat : Used \subseteq 0..b
    BY DEF ModsType
  <2>2. \E h \in Used : \A i \in Used : i <= h
    <3>1. Used \in SUBSET Nat /\ \A i \in Used : i <= b
      BY <2>1
    <3> QED  BY <1>2, <3>1, HighestExists
  <2> DEFINE top == CHOOSE h \in Used : \A i \in Used : i <= h
  <2>3. top \in Used /\ \A i \in Used : i <= top
    BY <2>2, Zenon
  <2>4. FreshId = 1 + top
    BY <1>2, Zenon DEF FreshId
  <2> HIDE DEF top
  <2>5. \A i \in Used : i \in Nat
    BY <2>1
  <2> QED  BY <2>3, <2>4, <2>5
<1> QED  BY <1>1, <1>2

\* The ids that users and lost processes come up with are numbers.
LEMMA IdsType == ModsType => Ids \subseteq Nat
<1> SUFFICES ASSUME ModsType PROVE Ids \subseteq Nat
  OBVIOUS
<1>1. PICK b \in Nat : Used \subseteq 0..b
  BY DEF ModsType
<1>2. Used \in SUBSET Nat /\ \A i \in Used : i <= b
  BY <1>1
<1>3. IsFiniteSet(Used)
  BY <1>2, FS_BoundedSetOfNaturals
<1>4. Cardinality(Used) \in Nat
  BY <1>3, FS_CardinalityType
<1>5. 1 + Cardinality(Used) \in Nat
  BY <1>4
<1>6. ASSUME NEW i \in Ids PROVE i \in Nat
  <2>1. i = 0 \/ i \in Used \/ i = 1 + Cardinality(Used)
    BY Zenon DEF Ids
  <2>2. \A j \in Used : j \in Nat
    BY <1>2, Zenon
  <2> QED  BY <1>5, <2>1, <2>2
<1> QED  BY <1>6

\* An entry created by a set of one leaf is an entry.
LEMMA LeafType ==
  ASSUME NEW flag \in BOOLEAN, NEW v \in Nat
  PROVE  Leaf(flag, v) \in EntryType
  BY DEF Leaf, EntryType

\* Writing a pid leaves names alone; an entry that it creates has none.
LEMMA PidWritten ==
  ASSUME ModsType, NEW id \in Nat, NEW v \in Nat, mods' = SetPid(id, v)
  PROVE  /\ ModsType' /\ Used' = Used \cup {id}
         /\ \A i \in Used : /\ mods'[i].name = mods[i].name /\ mods'[i].path = mods[i].path
                            /\ mods'[i].pid = IF i = id THEN v ELSE mods[i].pid
         /\ id \notin Used => mods'[id].name = Unset /\ mods'[id].pid = v
<1> USE DEF Unset
<1>1. Used' = Used \cup {id}
  BY DEF SetPid, Used
<1>2. ASSUME NEW i \in Used, i # id PROVE mods'[i] = mods[i]
  BY <1>2 DEF SetPid
<1>3. id \in Used => mods'[id] = [mods[id] EXCEPT !.pid = v]
  BY DEF SetPid
<1>4. id \notin Used => mods'[id] = Leaf(FALSE, v)
  BY DEF SetPid
<1>5. \A i \in Used : mods[i] \in EntryType
  BY DEF ModsType
<1>6. ASSUME NEW i \in Used' PROVE mods'[i] \in EntryType
  <2>1. CASE i # id
    BY <1>1, <1>2, <1>5, <2>1
  <2>2. CASE i = id /\ id \in Used
    BY <1>3, <1>5, <2>2 DEF EntryType
  <2>3. CASE i = id /\ id \notin Used
    BY <1>4, <2>3, LeafType
  <2> QED  BY <2>1, <2>2, <2>3
<1>7. ModsType'
  <2>1. PICK b \in Nat : Used \subseteq 0..b
    BY DEF ModsType
  <2>2. (IF b < id THEN id ELSE b) \in Nat /\ Used' \subseteq 0..(IF b < id THEN id ELSE b)
    BY <1>1, <2>1
  <2>3. mods' = [i \in Used' |-> mods'[i]]
    BY DEF SetPid, Used
  <2> QED  BY <1>6, <2>2, <2>3 DEF ModsType
<1>8. ASSUME NEW i \in Used
      PROVE  /\ mods'[i].name = mods[i].name /\ mods'[i].path = mods[i].path
             /\ mods'[i].pid = IF i = id THEN v ELSE mods[i].pid
  BY <1>2, <1>3, <1>5 DEF EntryType
<1>9. id \notin Used => mods'[id].name = Unset /\ mods'[id].pid = v
  BY <1>4 DEF Leaf
<1> QED  BY <1>1, <1>7, <1>8, <1>9

\* Setting the flag leaves names and pids alone.
LEMMA FlagWritten ==
  ASSUME ModsType, NEW id \in Nat, NEW flag \in BOOLEAN, mods' = SetRegistered(id, flag)
  PROVE  /\ ModsType' /\ Used' = Used \cup {id}
         /\ \A i \in Used : /\ mods'[i].name = mods[i].name /\ mods'[i].path = mods[i].path
                            /\ mods'[i].pid = mods[i].pid
         /\ id \notin Used => mods'[id].pid = 0
<1> USE DEF Unset
<1>1. Used' = Used \cup {id}
  BY DEF SetRegistered, Used
<1>2. ASSUME NEW i \in Used, i # id PROVE mods'[i] = mods[i]
  BY <1>2 DEF SetRegistered
<1>3. id \in Used => mods'[id] = [mods[id] EXCEPT !.registered = flag]
  BY DEF SetRegistered
<1>4. id \notin Used => mods'[id] = Leaf(flag, 0)
  BY DEF SetRegistered
<1>5. \A i \in Used : mods[i] \in EntryType
  BY DEF ModsType
<1>6. ASSUME NEW i \in Used' PROVE mods'[i] \in EntryType
  <2>1. CASE i # id
    BY <1>1, <1>2, <1>5, <2>1
  <2>2. CASE i = id /\ id \in Used
    BY <1>3, <1>5, <2>2 DEF EntryType
  <2>3. CASE i = id /\ id \notin Used
    BY <1>4, <2>3, LeafType
  <2> QED  BY <2>1, <2>2, <2>3
<1>7. ModsType'
  <2>1. PICK b \in Nat : Used \subseteq 0..b
    BY DEF ModsType
  <2>2. (IF b < id THEN id ELSE b) \in Nat /\ Used' \subseteq 0..(IF b < id THEN id ELSE b)
    BY <1>1, <2>1
  <2>3. mods' = [i \in Used' |-> mods'[i]]
    BY DEF SetRegistered, Used
  <2> QED  BY <1>6, <2>2, <2>3 DEF ModsType
<1>8. ASSUME NEW i \in Used
      PROVE  /\ mods'[i].name = mods[i].name /\ mods'[i].path = mods[i].path
             /\ mods'[i].pid = mods[i].pid
  BY <1>2, <1>3, <1>5 DEF EntryType
<1>9. id \notin Used => mods'[id].pid = 0
  BY <1>4 DEF Leaf
<1> QED  BY <1>1, <1>7, <1>8, <1>9

\* A process that is started gets a pid of its own; the others go on.
LEMMA Spawned ==
  ASSUME ProcType, NEW prog \in Programs, NEW by \in {"user", "main"}, Spawn(prog, by)
  PROVE  /\ ProcType' /\ Pids \subseteq Pids'
         /\ \A p \in Pids : proc'[p] = proc[p]
         /\ \A p \in Pids' \ Pids : proc'[p].pc = "exec"
<1>1. PICK n \in Nat : proc \in [1..n -> ProcessType]
  BY DEF ProcType
<1>2. Pids = 1..n /\ Cardinality(Pids) = n
  BY <1>1, FS_Interval DEF Pids
<1>3. Pids' = 1..(n + 1) /\ \A p \in Pids' : proc'[p] = IF p \in Pids THEN proc[p]
                                                        ELSE Process(prog, by)
  BY <1>2 DEF Spawn, Pids
<1>4. Process(prog, by) \in ProcessType /\ Process(prog, by).pc = "exec"
  BY DEF Process, ProcessType
<1>5. proc' = [p \in 1..(n + 1) |-> proc'[p]]
  BY <1>2 DEF Spawn
<1>6. proc' \in [1..(n + 1) -> ProcessType]
  BY <1>1, <1>2, <1>3, <1>4, <1>5
<1> QED  BY <1>2, <1>3, <1>4, <1>6 DEF ProcType

(***************************************************************************)
(* What a step leaves as it was                                            *)
(***************************************************************************)

\* Entries keep their names; new ones are at ids known to be suspicious.
NamesStay ==
  /\ Used \subseteq Used' /\ Used' \ Used \subseteq deleted' \cup strayed'
  /\ \A i \in Used : mods'[i].name = mods[i].name /\ mods'[i].path = mods[i].path
  /\ deleted \subseteq deleted' /\ strayed \subseteq strayed' /\ overlap \subseteq overlap'

\* No process finds an entry or begins to run, and none loses what it has found.
ProcsStay ==
  /\ \A p \in Pids' : proc'[p].pc \in {"found", "running"} =>
       /\ p \in Pids /\ proc'[p].pc = proc[p].pc
       /\ proc'[p].id = proc[p].id /\ proc'[p].prog = proc[p].prog
  /\ \A p \in Pids : proc[p].pc \in {"running", "gone"} =>
       /\ p \in Pids' /\ proc'[p].pc \in {"running", "gone"}
       /\ proc'[p].id = proc[p].id /\ proc'[p].prog = proc[p].prog

\* No addition gets on, and no stop does but by its end.
CallsStay ==
  \A c \in Clients : call'[c].pc \in {"adding", "resetting"} => call'[c] = call[c]
StopsStay == \A k \in Callers : stop'[k].pc # "none" => stop'[k] = stop[k]

\* The parts about names need only that names stay.
LEMMA NamesKept ==
  ASSUME IInv, NamesStay,
         \A c \in Clients : call'[c].pc = "adding" => call'[c] = call[c]
  PROVE  UnreadableOnlyAfterStray' /\ NamesUnique' /\ AddInv'
<1>1. UnreadableOnlyAfterStray'
  BY DEF IInv, NamesStay, UnreadableOnlyAfterStray, Readable
<1>2. deleted' \cup strayed' \cup overlap' = {} =>
        /\ deleted \cup strayed \cup overlap = {} /\ Used' = Used
  BY DEF NamesStay
<1>3. NamesUnique'
  BY <1>2 DEF IInv, NamesStay, NamesUnique
<1>4. AddInv'
  BY <1>2 DEF IInv, NamesStay, AddInv, Fits
<1> QED  BY <1>1, <1>3, <1>4

\* What somebody has seen stays known, unless somebody sees something new.
LEMMA KnownKept ==
  ASSUME IInv, Used \subseteq Used' \cup deleted', deleted \subseteq deleted',
         ProcsStay, CallsStay, StopsStay
  PROVE  KnownInv'
<1>1. \A id : Known(id) => Known(id)'
  BY DEF Known
<1> QED  BY <1>1 DEF IInv, KnownInv, ProcsStay, CallsStay, StopsStay

\* A clean id was clean before, and its entry is there if it is known.
LEMMA CleanBefore == NamesStay => \A id : Clean(id)' => Clean(id)
  BY DEF NamesStay, Clean
\* The entry of a clean id is there if it is known.
LEMMA CleanIsUsed == \A id : Clean(id) /\ Known(id) => id \in Used
  BY DEF Clean, Known

\* The programs fit the names as long as both stay.
LEMMA FoundKept == IInv /\ NamesStay /\ ProcsStay => FoundInv'
<1> SUFFICES ASSUME IInv, NamesStay, ProcsStay, NEW p \in Pids',
                    proc'[p].pc \in {"found", "running"}, Clean(proc[p].id)'
             PROVE  proc'[p].prog = mods'[proc'[p].id].name
  BY DEF FoundInv
<1>1. /\ p \in Pids /\ proc[p].pc \in {"found", "running"}
      /\ proc'[p].id = proc[p].id /\ proc'[p].prog = proc[p].prog
  BY DEF ProcsStay
<1>2. Clean(proc[p].id) /\ Known(proc[p].id)
  BY <1>1, CleanBefore DEF IInv, KnownInv
<1>3. proc[p].id \in Used
  BY <1>2, CleanIsUsed
<1> QED  BY <1>1, <1>2, <1>3 DEF IInv, FoundInv, NamesStay

\* Pids that stay are those of processes that stay.
LEMMA PidKept ==
  ASSUME IInv, NamesStay, ProcsStay,
         \A i \in Used' : mods'[i].pid > 0 => i \in Used /\ mods'[i].pid = mods[i].pid
  PROVE  PidInv'
<1> SUFFICES ASSUME NEW i \in Used', mods'[i].pid > 0
             PROVE  /\ mods'[i].pid \in Pids' /\ proc'[mods'[i].pid].id = i
                    /\ proc'[mods'[i].pid].pc \in {"running", "gone"}
                    /\ Clean(i)' => proc'[mods'[i].pid].prog = mods'[i].name
  BY DEF PidInv
<1>1. i \in Used /\ mods'[i].pid = mods[i].pid /\ mods[i].pid > 0
  OBVIOUS
<1>2. /\ mods[i].pid \in Pids /\ proc[mods[i].pid].id = i
      /\ proc[mods[i].pid].pc \in {"running", "gone"}
      /\ Clean(i) => proc[mods[i].pid].prog = mods[i].name
  BY <1>1 DEF IInv, PidInv
<1> QED  BY <1>1, <1>2, CleanBefore DEF NamesStay, ProcsStay

\* The entries of the running processes are not touched.
EntriesStay ==
  \A p \in Pids' : proc'[p].pc = "running" /\ ~proc'[p].signalled /\ Clean(proc[p].id)'
    => /\ ~proc[p].signalled /\ Clean(proc[p].id)
       /\ proc[p].id \in Used => proc[p].id \in Used' /\ mods'[proc[p].id].pid = mods[proc[p].id].pid

\* Under such steps what runs stays recorded.
LEMMA RecordedKept ==
  ASSUME IInv, ProcsStay, CallsStay, StopsStay, EntriesStay
  PROVE  RecordedInv'
<1> SUFFICES ASSUME NEW p \in Pids', proc'[p].pc = "running", ~proc'[p].signalled,
                    Clean(proc[p].id)'
             PROVE  Recorded(p)'
  BY DEF RecordedInv
<1>1. p \in Pids /\ proc[p].pc = "running" /\ proc'[p].id = proc[p].id
  BY DEF ProcsStay
<1>2. Recorded(p)
  BY <1>1 DEF EntriesStay, IInv, RecordedInv
<1>3. proc[p].id \in Used' /\ mods'[proc[p].id].pid = p
  BY <1>1, <1>2 DEF EntriesStay, Recorded
<1>4. \A q \in Pids' : proc'[q].pc = "running" /\ proc'[q].id = proc[p].id => q = p
  BY <1>2 DEF ProcsStay, Recorded
<1>5. \A c \in Clients : call'[c].pc = "resetting" => call'[c].id # proc[p].id
  BY <1>2 DEF CallsStay, Recorded
<1>6. \A k \in Callers : stop'[k].pc # "none" /\ stop'[k].id = proc[p].id
                           => stop'[k].pc = "kill" /\ stop'[k].pid = p
  BY <1>2 DEF StopsStay, Recorded
<1> QED  BY <1>1, <1>3, <1>4, <1>5, <1>6 DEF Recorded

\* A step that does all that keeps the invariant.
LEMMA AllKept ==
  ASSUME IInv, TypeInv', NamesStay, ProcsStay, CallsStay, StopsStay, EntriesStay,
         \A i \in Used' : mods'[i].pid > 0 => i \in Used /\ mods'[i].pid = mods[i].pid
  PROVE  IInv'
<1>1. Used \subseteq Used' \cup deleted' /\ deleted \subseteq deleted'
  BY DEF NamesStay
<1>2. \A c \in Clients : call'[c].pc = "adding" => call'[c] = call[c]
  BY DEF CallsStay
<1> QED  BY <1>1, <1>2, NamesKept, KnownKept, FoundKept, PidKept, RecordedKept DEF IInv

(***************************************************************************)
(* The steps                                                               *)
(***************************************************************************)

\* What does not change stays in every sense.
lists == <<mods, deleted, strayed, overlap>>

\* Steps that leave the list and the histories alone,
LEMMA ListsSame ==
  ASSUME UNCHANGED lists
  PROVE  /\ mods' = mods /\ deleted' = deleted /\ strayed' = strayed /\ overlap' = overlap
         /\ Used' = Used /\ NamesStay
         /\ \A id : (Clean(id)' <=> Clean(id)) /\ (Known(id)' <=> Known(id))
<1>1. mods' = mods /\ deleted' = deleted /\ strayed' = strayed /\ overlap' = overlap
  BY DEF lists
<1>2. Used' = Used
  BY <1>1 DEF Used
<1>3. NamesStay
  BY <1>1, <1>2 DEF NamesStay
<1>4. \A id : (Clean(id)' <=> Clean(id)) /\ (Known(id)' <=> Known(id))
  BY <1>1, <1>2 DEF Clean, Known
<1> QED  BY <1>1, <1>2, <1>3, <1>4

\* the processes,
LEMMA ProcsSame == proc' = proc => Pids' = Pids /\ ProcsStay
<1> SUFFICES ASSUME proc' = proc PROVE Pids' = Pids /\ ProcsStay
  OBVIOUS
<1>1. Pids' = Pids
  BY DEF Pids
<1> QED  BY <1>1 DEF ProcsStay

\* or some of the variables keep what is said of them.
LEMMA TypesSame ==
  /\ mods' = mods => (ModsType' <=> ModsType)
  /\ proc' = proc => (ProcType' <=> ProcType)
  /\ main' = main => (MainsType' <=> MainsType)
  /\ call' = call => (CallType' <=> CallType)
  /\ stop' = stop => (StopType' <=> StopType)
BY DEF ModsType, Used, ProcType, MainsType, CallType, StopType

\* Where no entry and no process changes, no entry of a running process does.
LEMMA EntriesSame == UNCHANGED lists /\ ProcsStay /\ (\A p \in Pids' : ~proc'[p].signalled
                       /\ p \in Pids => ~proc[p].signalled) => EntriesStay
BY ListsSame DEF EntriesStay, ProcsStay

\* The MainModule on its own only works off its list.
LEMMA MainKeeps ==
  ASSUME IInv, UNCHANGED <<lists, proc, call, stop>>, MainsType'
  PROVE  IInv'
<1>1. UNCHANGED lists /\ UNCHANGED proc /\ UNCHANGED call /\ UNCHANGED stop
  OBVIOUS
<1>2. /\ mods' = mods /\ Used' = Used /\ NamesStay /\ Pids' = Pids /\ ProcsStay
  BY <1>1, ListsSame, ProcsSame
<1>3. TypeInv'
  BY <1>1, <1>2, TypesSame DEF IInv, TypeInv
<1>4. CallsStay /\ StopsStay
  BY <1>1 DEF CallsStay, StopsStay
<1>5. EntriesStay
  BY <1>1, <1>2, EntriesSame
<1> QED
  BY <1>2, <1>3, <1>4, <1>5, AllKept

\* A process that has been started has not found anything yet.
LEMMA SpawnKeeps ==
  ASSUME IInv, NEW prog \in Programs, NEW by \in {"user", "main"}, Spawn(prog, by),
         UNCHANGED <<lists, call, stop>>, MainsType'
  PROVE  IInv'
<1>1. /\ ProcType' /\ Pids \subseteq Pids'
      /\ \A p \in Pids : proc'[p] = proc[p]
      /\ \A p \in Pids' \ Pids : proc'[p].pc = "exec"
  BY Spawned DEF IInv, TypeInv
<1>2. UNCHANGED lists /\ UNCHANGED call /\ UNCHANGED stop
  OBVIOUS
<1>3. mods' = mods /\ Used' = Used /\ NamesStay
  BY <1>2, ListsSame
<1>4. TypeInv'
  BY <1>1, <1>2, <1>3, TypesSame DEF IInv, TypeInv
<1>5. ProcsStay
  BY <1>1 DEF ProcsStay
<1>6. CallsStay /\ StopsStay
  BY <1>2 DEF CallsStay, StopsStay
<1>7. EntriesStay
  BY <1>1, <1>2, <1>5, EntriesSame
<1> QED
  BY <1>3, <1>4, <1>5, <1>6, <1>7, AllKept

\* A call or a stop that ends without a write leaves everything else.
LEMMA ReturnKeeps ==
  ASSUME IInv, UNCHANGED <<lists, proc>>, TypeInv', CallsStay, StopsStay
  PROVE  IInv'
<1>1. UNCHANGED lists /\ UNCHANGED proc
  OBVIOUS
<1>2. mods' = mods /\ Used' = Used /\ NamesStay /\ Pids' = Pids /\ ProcsStay
  BY <1>1, ListsSame, ProcsSame
<1>3. EntriesStay
  BY <1>1, <1>2, EntriesSame
<1> QED
  BY <1>2, <1>3, AllKept

\* An addition has read the list.
LEMMA AddReadKeeps ==
  ASSUME NEW c \in Clients, NEW name \in Programs, NEW path \in Paths, IInv,
         AddRead(c, name, path)
  PROVE  IInv'
<1> DEFINE new == [pc |-> "adding", name |-> name, path |-> path, id |-> FreshId]
<1>1. UNCHANGED lists /\ proc' = proc /\ stop' = stop /\ main' = main
  BY DEF AddRead, lists
<1>2. /\ mods' = mods /\ Used' = Used /\ NamesStay /\ Pids' = Pids
      /\ deleted' = deleted /\ strayed' = strayed /\ overlap' = overlap
      /\ \A i : (Clean(i)' <=> Clean(i)) /\ (Known(i)' <=> Known(i))
  BY <1>1, ListsSame, ProcsSame
<1>3. CASE call' = [call EXCEPT ![c] = NoCall]
  <2>1. CallType'
    BY <1>3 DEF IInv, TypeInv, CallType
  <2>2. CallsStay
    BY <1>3 DEF CallsStay, NoCall, IInv, TypeInv, CallType
  <2>3. StopsStay
    BY <1>1 DEF StopsStay
  <2>4. TypeInv'
    BY <1>1, <1>2, <2>1, TypesSame DEF IInv, TypeInv
  <2> QED  BY <1>1, <2>2, <2>3, <2>4, ReturnKeeps
<1>4. CASE /\ call' = [call EXCEPT ![c] = new]
           /\ \A i \in Used : mods[i].name # name /\ mods[i].path # path
  <2>1. PICK id : id = FreshId
    OBVIOUS
  <2>2. /\ id \in Nat \ {0} /\ \A i \in Used : i < id
        /\ id = 1 \/ id - 1 \in Used
    BY <2>1, NextId DEF IInv, TypeInv
  <2>3. PICK a : a = [pc |-> "adding", name |-> name, path |-> path, id |-> id]
    OBVIOUS
  <2>4. a \in Adding
    BY <2>2, <2>3 DEF Adding
  <2>5. call' = [call EXCEPT ![c] = a]
    BY <1>4, <2>1, <2>3
  <2>6. CallType'
    BY <2>4, <2>5 DEF IInv, TypeInv, CallType
  <2>7. TypeInv'
    BY <1>1, <1>2, <2>6, TypesSame DEF IInv, TypeInv
  <2>8. \A b \in Clients : call'[b] = IF b = c THEN a ELSE call[b]
    BY <2>5 DEF IInv, TypeInv, CallType
  <2>9. KnownInv'
    BY <1>1, <1>2, <2>3, <2>8 DEF IInv, KnownInv
  <2>10. FoundInv' /\ PidInv'
    BY <1>1, <1>2 DEF IInv, FoundInv, PidInv
  <2>11. UnreadableOnlyAfterStray' /\ NamesUnique'
    BY <1>2 DEF IInv, UnreadableOnlyAfterStray, NamesUnique, Readable
  <2>12. RecordedInv'
    BY <1>1, <1>2, <2>3, <2>8 DEF IInv, RecordedInv, Recorded
  <2>13. AddInv'
    <3> SUFFICES ASSUME deleted \cup strayed \cup overlap = {},
                        NEW b \in Clients, call'[b].pc = "adding"
                 PROVE  Fits(call[b])'
      BY <1>2 DEF AddInv
    <3>1. CASE b = c
      <4>1. a.name = name /\ a.path = path /\ a.id = id /\ call'[b] = a
        BY <2>3, <2>8, <3>1
      <4>2. \A i \in Used : i < id /\ mods'[i].name # name /\ mods'[i].path # path
        BY <1>2, <1>4, <2>2
      <4> QED  BY <1>2, <2>2, <4>1, <4>2 DEF Fits
    <3>2. CASE b # c
      BY <1>2, <2>8, <3>2 DEF IInv, AddInv, Fits
    <3> QED  BY <3>1, <3>2
  <2> QED  BY <2>7, <2>9, <2>10, <2>11, <2>12, <2>13 DEF IInv
<1>5. \/ call' = [call EXCEPT ![c] = NoCall]
      \/ /\ call' = [call EXCEPT ![c] = new]
         /\ \A i \in Used : mods[i].name # name /\ mods[i].path # path
  BY Zenon DEF AddRead, FreshId
<1> QED  BY <1>3, <1>4, <1>5


\* The entry of an addition is written.
LEMMA AddWriteKeeps ==
  ASSUME NEW c \in Clients, NEW flag \in BOOLEAN, IInv, AddWrite(c, flag)
  PROVE  IInv'
<1>1. PICK a : a = call[c]
  OBVIOUS
<1>2. /\ proc' = proc /\ main' = main /\ stop' = stop
      /\ deleted' = deleted /\ strayed' = strayed /\ Pids' = Pids
  BY ProcsSame DEF AddWrite
<1>3. a \in Adding /\ a.pc = "adding"
  BY <1>1 DEF AddWrite, IInv, TypeInv, CallType, NoCall, ResettingType, Adding
<1>4. a.name \in Programs /\ a.path \in Paths /\ a.id \in Nat \ {0}
  BY <1>3 DEF Adding
<1>5. PICK r : r = Resetting(a.id)
  OBVIOUS
<1>6. r.pc = "resetting" /\ r.id = a.id /\ r \in ResettingType
  BY <1>4, <1>5 DEF Resetting, ResettingType
<1>7. call' = [call EXCEPT ![c] = r]
  BY <1>1, <1>5 DEF AddWrite
<1>8. \A b \in Clients : call'[b] = IF b = c THEN r ELSE call[b]
  BY <1>7 DEF IInv, TypeInv, CallType
<1>9. CallType'
  BY <1>6, <1>7 DEF IInv, TypeInv, CallType
<1>10. mods' = Added(a, a.name, a.path, flag)
  BY <1>1 DEF AddWrite
<1>11. /\ Used' = Used \cup {a.id}
       /\ \A i \in Used : i # a.id => mods'[i] = mods[i]
       /\ mods'[a.id] = [name |-> a.name, path |-> a.path, registered |-> flag,
                         pid |-> IF a.id \in Used THEN mods[a.id].pid ELSE 0]
  BY <1>10 DEF Added, Used
<1>12. /\ a.id \in Used => a.id \in overlap'
       /\ a.id \notin Used => overlap' = overlap
       /\ overlap \subseteq overlap'
  BY <1>1 DEF AddWrite
<1>13. ModsType'
  <2>1. PICK b \in Nat : Used \subseteq 0..b
    BY DEF IInv, TypeInv, ModsType
  <2>2. \E d \in Nat : Used' \subseteq 0..d
    <3>1. PICK id \in Nat : id = a.id
      BY <1>4
    <3>2. Used' = Used \cup {id}
      BY <1>11, <3>1
    <3>3. (IF b < id THEN id ELSE b) \in Nat /\ Used' \subseteq 0..(IF b < id THEN id ELSE b)
      BY <2>1, <3>2
    <3> QED  BY <3>3
  <2>3. \A i \in Used : mods[i] \in EntryType
    BY DEF IInv, TypeInv, ModsType
  <2>4. mods'[a.id] \in EntryType
    <3>1. (IF a.id \in Used THEN mods[a.id].pid ELSE 0) \in Nat
      BY <2>3 DEF EntryType
    <3> QED  BY <1>4, <1>11, <3>1 DEF EntryType
  <2>5. \A i \in Used' : mods'[i] \in EntryType
    BY <1>11, <2>3, <2>4
  <2>6. mods' = [i \in Used' |-> mods'[i]]
    BY <1>10 DEF Added, Used
  <2> QED  BY <2>2, <2>5, <2>6 DEF ModsType
<1>14. TypeInv'
  BY <1>2, <1>9, <1>13, TypesSame DEF IInv, TypeInv
\* A clean id was clean before; if somebody knows it, its entry stays as it is.
<1>15. \A id : Clean(id)' => Clean(id)
  BY <1>2, <1>12 DEF Clean
<1>16. \A id \in Used : Clean(id)' => mods'[id] = mods[id]
  BY <1>11, <1>12 DEF Clean
<1>17. \A id : Known(id) => Known(id)'
  BY <1>2, <1>11 DEF Known
<1>18. KnownInv'
  <2>1. \A id : id = a.id => Known(id)'
    BY <1>11 DEF Known
  <2> QED  BY <1>2, <1>6, <1>8, <1>17, <2>1 DEF IInv, KnownInv
<1>19. FoundInv'
  <2> SUFFICES ASSUME NEW p \in Pids, proc[p].pc \in {"found", "running"}, Clean(proc[p].id)'
               PROVE  proc[p].prog = mods'[proc[p].id].name
    BY <1>2 DEF FoundInv
  <2>1. Clean(proc[p].id) /\ Known(proc[p].id)
    BY <1>2, <1>15 DEF IInv, KnownInv
  <2>2. proc[p].id \in Used
    BY <2>1, CleanIsUsed
  <2>3. mods'[proc[p].id] = mods[proc[p].id]
    BY <1>2, <1>16, <2>2
  <2> QED  BY <2>1, <2>3 DEF IInv, FoundInv
<1>20. PidInv'
  <2> SUFFICES ASSUME NEW i \in Used', mods'[i].pid > 0
               PROVE  /\ mods'[i].pid \in Pids /\ proc[mods'[i].pid].id = i
                      /\ proc[mods'[i].pid].pc \in {"running", "gone"}
                      /\ Clean(i)' => proc[mods'[i].pid].prog = mods'[i].name
    BY <1>2 DEF PidInv
  <2>1. i \in Used /\ mods'[i].pid = mods[i].pid
    BY <1>11
  <2>2. /\ mods[i].pid \in Pids /\ proc[mods[i].pid].id = i
        /\ proc[mods[i].pid].pc \in {"running", "gone"}
        /\ Clean(i) => proc[mods[i].pid].prog = mods[i].name
    BY <2>1 DEF IInv, PidInv
  <2> QED  BY <1>15, <1>16, <2>1, <2>2
<1>21. RecordedInv'
  <2> SUFFICES ASSUME NEW p \in Pids, proc[p].pc = "running", ~proc[p].signalled,
                      Clean(proc[p].id)'
               PROVE  Recorded(p)'
    BY <1>2 DEF RecordedInv
  <2>1. Recorded(p)
    BY <1>2, <1>15 DEF IInv, RecordedInv
  <2>2. a.id # proc[p].id
    BY <1>2, <1>12, <2>1 DEF Recorded, Clean
  <2>3. proc[p].id \in Used' /\ mods'[proc[p].id] = mods[proc[p].id]
    BY <1>11, <2>1, <2>2 DEF Recorded
  <2>4. \A b \in Clients : call'[b].pc = "resetting" => call'[b].id # proc[p].id
    BY <1>6, <1>8, <2>1, <2>2 DEF Recorded
  <2> QED  BY <1>2, <2>1, <2>3, <2>4 DEF Recorded
<1>22. UnreadableOnlyAfterStray'
  <2>1. a.name # Unset \/ a.id \in strayed
    BY <1>4, InstalledAssumption DEF Unset, Paths
  <2> QED  BY <1>2, <1>11, <2>1 DEF IInv, UnreadableOnlyAfterStray, Readable
\* An addition that has not lost its race finds no such name and no such path.
<1>23. ASSUME deleted' \cup strayed' \cup overlap' = {}
       PROVE  /\ deleted \cup strayed \cup overlap = {} /\ a.id \notin Used /\ Fits(a)
              /\ \A i \in Used : i < a.id /\ mods[i].name # a.name /\ mods[i].path # a.path
  BY <1>1, <1>2, <1>3, <1>12, <1>23 DEF IInv, AddInv, Fits
<1>24. NamesUnique'
  BY <1>11, <1>23 DEF IInv, NamesUnique
\* Two additions that have not lost their race want the same id.
<1>25. AddInv'
  <2> SUFFICES ASSUME deleted' \cup strayed' \cup overlap' = {},
                      NEW b \in Clients, call'[b].pc = "adding"
               PROVE  Fits(call[b])'
    BY DEF AddInv
  <2>1. b # c /\ call'[b] = call[b]
    BY <1>6, <1>8
  <2>2. Fits(call[b])
    BY <1>23, <2>1 DEF IInv, AddInv
  <2>3. call[b] \in Adding
    BY <2>1 DEF IInv, TypeInv, CallType, NoCall, Adding, ResettingType
  <2>4. call[b].id \in Nat \ {0}
    BY <2>3 DEF Adding
  <2>5. call[b].id \in Used'
    <3> SUFFICES ASSUME call[b].id \notin Used' PROVE FALSE
      OBVIOUS
    <3>1. call[b].id \notin Used /\ call[b].id # a.id
      BY <1>11
    <3>2. \A i \in Used : i < call[b].id /\ i < a.id
      BY <1>23, <2>2, <3>1 DEF Fits
    <3>3. call[b].id = 1 \/ call[b].id - 1 < a.id
      BY <2>2, <3>2 DEF Fits
    <3>4. a.id = 1 \/ a.id - 1 < call[b].id
      BY <1>23, <3>2 DEF Fits
    <3> QED  BY <1>4, <2>4, <3>1, <3>3, <3>4
  <2> QED  BY <1>11, <2>1, <2>2, <2>5 DEF Fits
<1> QED  BY <1>14, <1>18, <1>19, <1>20, <1>21, <1>22, <1>24, <1>25 DEF IInv


\* A pid that is reset is not that of a running process with a clean id.
LEMMA ResetKeeps ==
  ASSUME IInv, NEW id \in Nat, mods' = SetPid(id, 0),
         deleted' = deleted, strayed \subseteq strayed', overlap' = overlap,
         id \in Used \cup deleted' \cup strayed',
         ProcType', MainsType', CallType', StopType', ProcsStay, CallsStay, StopsStay,
         \A q \in Pids' : proc'[q].pc = "running" /\ ~proc'[q].signalled /\ Clean(proc[q].id)'
           => ~proc[q].signalled /\ (Recorded(q) => proc[q].id # id)
  PROVE  IInv'
<1>1. /\ ModsType' /\ Used' = Used \cup {id}
      /\ \A i \in Used : /\ mods'[i].name = mods[i].name /\ mods'[i].path = mods[i].path
                         /\ mods'[i].pid = IF i = id THEN 0 ELSE mods[i].pid
      /\ id \notin Used => mods'[id].name = Unset /\ mods'[id].pid = 0
  BY PidWritten DEF IInv, TypeInv
<1>2. TypeInv'
  BY <1>1 DEF TypeInv
<1>3. NamesStay
  BY <1>1 DEF NamesStay
<1>4. \A i \in Used' : mods'[i].pid > 0 => i \in Used /\ mods'[i].pid = mods[i].pid
  BY <1>1
<1>5. EntriesStay
  <2> SUFFICES ASSUME NEW p \in Pids', proc'[p].pc = "running", ~proc'[p].signalled,
                      Clean(proc[p].id)'
               PROVE  /\ ~proc[p].signalled /\ Clean(proc[p].id)
                      /\ proc[p].id \in Used =>
                           proc[p].id \in Used' /\ mods'[proc[p].id].pid = mods[proc[p].id].pid
    BY DEF EntriesStay
  <2>1. ~proc[p].signalled /\ (Recorded(p) => proc[p].id # id)
    OBVIOUS
  <2>2. Clean(proc[p].id) /\ p \in Pids /\ proc[p].pc = "running"
    BY <1>3, CleanBefore DEF ProcsStay
  <2>3. Recorded(p)
    BY <2>1, <2>2 DEF IInv, RecordedInv
  <2> QED  BY <1>1, <2>1, <2>2, <2>3
<1> QED  BY <1>2, <1>3, <1>4, <1>5, AllKept

\* The pid of an entry just added is reset.
LEMMA AddResetKeeps ==
  ASSUME NEW c \in Clients, IInv, AddReset(c) PROVE IInv'
<1>1. PICK id : id = call[c].id
  OBVIOUS
<1>2. call[c] \in ResettingType /\ call[c].pc = "resetting"
  BY DEF AddReset, IInv, TypeInv, CallType, NoCall, Adding, ResettingType
<1>3. id \in Nat /\ Known(id)
  BY <1>1, <1>2 DEF ResettingType, IInv, KnownInv
<1>4. /\ proc' = proc /\ main' = main /\ stop' = stop /\ mods' = SetPid(id, 0)
      /\ deleted' = deleted /\ strayed' = strayed /\ overlap' = overlap
  BY <1>1 DEF AddReset
<1>5. call' = [call EXCEPT ![c] = NoCall]
  BY DEF AddReset
<1>6. CallType'
  BY <1>5 DEF IInv, TypeInv, CallType
<1>7. CallsStay
  BY <1>5 DEF CallsStay, NoCall, IInv, TypeInv, CallType
<1>8. ProcsStay /\ StopsStay /\ Pids' = Pids
  BY <1>4, ProcsSame DEF StopsStay
<1>9. ProcType' /\ MainsType' /\ StopType'
  BY <1>4, TypesSame DEF IInv, TypeInv
<1>10. \A q : Recorded(q) => proc[q].id # id
  BY <1>1, <1>2 DEF Recorded
<1>11. id \in Used \cup deleted' \cup strayed'
  BY <1>3, <1>4 DEF Known
<1> QED  BY <1>3, <1>4, <1>6, <1>7, <1>8, <1>9, <1>10, <1>11, ResetKeeps

\* module_stop resets the pid after it has signalled the process.
LEMMA StopResetKeeps ==
  ASSUME NEW k \in Callers, IInv, StopReset(k) PROVE IInv'
<1>1. PICK id : id = stop[k].id
  OBVIOUS
<1>2. stop[k] \in Stopping /\ stop[k].pc = "reset"
  BY DEF StopReset, IInv, TypeInv, StopType, NoStop
<1>3. id \in Nat /\ Known(id)
  BY <1>1, <1>2 DEF Stopping, IInv, KnownInv
<1>4. /\ proc' = proc /\ main' = main /\ call' = call /\ mods' = SetPid(id, 0)
      /\ deleted' = deleted /\ strayed' = strayed /\ overlap' = overlap
  BY <1>1 DEF StopReset
<1>5. stop' = [stop EXCEPT ![k] = NoStop]
  BY DEF StopReset
<1>6. StopType'
  BY <1>5 DEF IInv, TypeInv, StopType
<1>7. StopsStay
  BY <1>5 DEF StopsStay, NoStop, IInv, TypeInv, StopType
<1>8. ProcsStay /\ CallsStay /\ Pids' = Pids
  BY <1>4, ProcsSame DEF CallsStay
<1>9. ProcType' /\ MainsType' /\ CallType'
  BY <1>4, TypesSame DEF IInv, TypeInv
<1>10. \A q : Recorded(q) => proc[q].id # id
  BY <1>1, <1>2 DEF Recorded
<1>11. id \in Used \cup deleted' \cup strayed'
  BY <1>3, <1>4 DEF Known
<1> QED  BY <1>3, <1>4, <1>6, <1>7, <1>8, <1>9, <1>10, <1>11, ResetKeeps

\* The process that ends: everything of the others stays.
LEMMA Gone ==
  ASSUME IInv, NEW p \in Pids, proc' = [proc EXCEPT ![p].pc = "gone"]
  PROVE  /\ ProcType' /\ Pids' = Pids /\ ProcsStay
         /\ \A q \in Pids : q # p => proc'[q] = proc[q]
         /\ proc'[p].pc = "gone" /\ proc'[p].id = proc[p].id
<1>1. PICK n \in Nat : proc \in [1..n -> ProcessType]
  BY DEF IInv, TypeInv, ProcType
<1>2. Pids = 1..n /\ Pids' = 1..n
  BY <1>1 DEF Pids
<1>3. proc[p] \in ProcessType
  BY <1>1, <1>2
<1>4. /\ proc'[p] = [proc[p] EXCEPT !.pc = "gone"]
      /\ \A q \in Pids : q # p => proc'[q] = proc[q]
  BY <1>1, <1>2
<1>5. /\ proc'[p] \in ProcessType /\ proc'[p].pc = "gone" /\ proc'[p].id = proc[p].id
      /\ proc'[p].prog = proc[p].prog
  BY <1>3, <1>4 DEF ProcessType
<1>6. ProcType'
  BY <1>1, <1>2, <1>3, <1>5 DEF ProcType
<1>7. ProcsStay
  BY <1>2, <1>4, <1>5 DEF ProcsStay
<1> QED  BY <1>2, <1>4, <1>5, <1>6, <1>7


\* A process that found no module resets the pid of any id, in passing.
LEMMA LostShutdownKeeps ==
  ASSUME IInv, NEW p \in Pids, NEW id \in Ids, LostShutdown(p, id) PROVE IInv'
<1>1. id \in Nat
  BY IdsType DEF IInv, TypeInv
<1>2. /\ main' = main /\ call' = call /\ stop' = stop /\ mods' = SetPid(id, 0)
      /\ deleted' = deleted /\ strayed' = strayed \cup {id} /\ overlap' = overlap
      /\ proc' = [proc EXCEPT ![p].pc = "gone"]
  BY DEF LostShutdown
<1>3. /\ ProcType' /\ ProcsStay /\ Pids' = Pids /\ proc'[p].pc = "gone"
      /\ \A q \in Pids : q # p => proc'[q] = proc[q]
  BY <1>2, Gone
<1>4. CallsStay /\ StopsStay
  BY <1>2 DEF CallsStay, StopsStay
<1>5. MainsType' /\ CallType' /\ StopType'
  BY <1>2, TypesSame DEF IInv, TypeInv
<1>6. id \in Used \cup deleted' \cup strayed' /\ strayed \subseteq strayed'
  BY <1>2
<1>7. \A i : Clean(i)' => i # id
  BY <1>2 DEF Clean
<1>8. \A q \in Pids' : proc'[q].pc = "running" /\ ~proc'[q].signalled /\ Clean(proc[q].id)'
        => ~proc[q].signalled /\ proc[q].id # id
  BY <1>3, <1>7
<1> QED  BY <1>1, <1>2, <1>3, <1>4, <1>5, <1>6, <1>8, ResetKeeps

\* A process that was signalled resets the pid of the id it has found.
LEMMA ShutdownKeeps ==
  ASSUME IInv, NEW p \in Pids, Shutdown(p) PROVE IInv'
<1>1. PICK id : id = proc[p].id
  OBVIOUS
<1>2. proc[p].pc = "running"
  BY DEF Shutdown
<1>3. id \in Nat /\ Known(id)
  <2>1. proc[p] \in ProcessType
    BY DEF IInv, TypeInv, ProcType, Pids
  <2> QED  BY <1>1, <1>2, <2>1 DEF ProcessType, IInv, KnownInv
<1>4. /\ main' = main /\ call' = call /\ stop' = stop /\ mods' = SetPid(id, 0)
      /\ deleted' = deleted /\ strayed' = strayed /\ overlap' = overlap
      /\ proc' = [proc EXCEPT ![p].pc = "gone"]
  BY <1>1 DEF Shutdown
<1>5. /\ ProcType' /\ ProcsStay /\ Pids' = Pids /\ proc'[p].pc = "gone"
      /\ \A q \in Pids : q # p => proc'[q] = proc[q]
  BY <1>4, Gone
<1>6. CallsStay /\ StopsStay
  BY <1>4 DEF CallsStay, StopsStay
<1>7. MainsType' /\ CallType' /\ StopType'
  BY <1>4, TypesSame DEF IInv, TypeInv
<1>8. id \in Used \cup deleted' \cup strayed'
  BY <1>3, <1>4 DEF Known
<1>9. \A q \in Pids : q # p /\ Recorded(q) => proc[q].id # id
  BY <1>1, <1>2 DEF Recorded
<1>10. \A q \in Pids' : proc'[q].pc = "running" /\ ~proc'[q].signalled /\ Clean(proc[q].id)'
         => ~proc[q].signalled /\ (Recorded(q) => proc[q].id # id)
  BY <1>5, <1>9
<1> QED  BY <1>3, <1>4, <1>5, <1>6, <1>7, <1>8, <1>10, ResetKeeps

\* A process that dies leaves the pid where it is.
LEMMA CrashKeeps ==
  ASSUME IInv, NEW p \in Pids, Crash(p) PROVE IInv'
<1>1. /\ UNCHANGED lists /\ main' = main /\ call' = call /\ stop' = stop
      /\ proc' = [proc EXCEPT ![p].pc = "gone"]
  BY DEF Crash, lists
<1>2. /\ ProcType' /\ ProcsStay /\ Pids' = Pids /\ proc'[p].pc = "gone"
      /\ \A q \in Pids : q # p => proc'[q] = proc[q]
  BY <1>1, Gone
<1>3. mods' = mods /\ Used' = Used /\ NamesStay
  BY <1>1, ListsSame
<1>4. CallsStay /\ StopsStay
  BY <1>1 DEF CallsStay, StopsStay
<1>5. TypeInv'
  BY <1>1, <1>2, <1>3, TypesSame DEF IInv, TypeInv
<1>6. ASSUME NEW q \in Pids', proc'[q].pc = "running", ~proc'[q].signalled, Clean(proc[q].id)'
      PROVE  ~proc[q].signalled /\ Clean(proc[q].id)
  BY <1>1, <1>2, <1>6, ListsSame
<1>7. EntriesStay
  BY <1>3, <1>6 DEF EntriesStay
<1> QED  BY <1>2, <1>3, <1>4, <1>5, <1>7, AllKept

\* Registering an id that is not there creates an entry that cannot be read.
LEMMA RegisterKeeps ==
  ASSUME NEW c \in Clients, NEW id \in Ids, NEW flag \in BOOLEAN, IInv, Register(c, id, flag)
  PROVE  IInv'
<1>1. id \in Nat
  BY IdsType DEF IInv, TypeInv
<1>2. /\ proc' = proc /\ main' = main /\ call' = call /\ stop' = stop
      /\ mods' = SetRegistered(id, flag) /\ strayed' = Stray(id)
      /\ deleted' = deleted /\ overlap' = overlap
  BY DEF Register
<1>3. /\ ModsType' /\ Used' = Used \cup {id}
      /\ \A i \in Used : /\ mods'[i].name = mods[i].name /\ mods'[i].path = mods[i].path
                         /\ mods'[i].pid = mods[i].pid
      /\ id \notin Used => mods'[id].pid = 0
  BY <1>1, <1>2, FlagWritten DEF IInv, TypeInv
<1>4. TypeInv'
  BY <1>2, <1>3, TypesSame DEF IInv, TypeInv
<1>5. ProcsStay /\ Pids' = Pids
  BY <1>2, ProcsSame
<1>6. CallsStay /\ StopsStay
  BY <1>2 DEF CallsStay, StopsStay
<1>7. NamesStay
  BY <1>2, <1>3 DEF NamesStay, Stray
<1>8. EntriesStay
  BY <1>2, <1>3, <1>7, CleanBefore DEF EntriesStay
<1>9. \A i \in Used' : mods'[i].pid > 0 => i \in Used /\ mods'[i].pid = mods[i].pid
  BY <1>3
<1> QED  BY <1>4, <1>5, <1>6, <1>7, <1>8, <1>9, AllKept

\* A deleted id is not clean any more; all others stay as they are.
LEMMA DeleteKeeps ==
  ASSUME NEW c \in Clients, NEW id \in Used, IInv, Delete(c, id) PROVE IInv'
<1>1. /\ proc' = proc /\ main' = main /\ call' = call /\ stop' = stop
      /\ mods' = [i \in Used \ {id} |-> mods[i]] /\ deleted' = deleted \cup {id}
      /\ strayed' = strayed /\ overlap' = overlap /\ Pids' = Pids
  BY ProcsSame DEF Delete
<1>2. Used' = Used \ {id} /\ \A i \in Used' : mods'[i] = mods[i]
  BY <1>1 DEF Used
<1>3. TypeInv'
  <2>1. mods' \in [Used' -> EntryType]
    BY <1>1, <1>2 DEF IInv, TypeInv, ModsType
  <2>2. \E b \in Nat : Used' \subseteq 0..b
    BY <1>2 DEF IInv, TypeInv, ModsType
  <2>3. ModsType'
    BY <2>1, <2>2 DEF ModsType
  <2> QED  BY <1>1, <2>3, TypesSame DEF IInv, TypeInv
<1>4. ProcsStay /\ CallsStay /\ StopsStay
  BY <1>1, ProcsSame DEF CallsStay, StopsStay
<1>5. KnownInv'
  BY <1>1, <1>2, <1>4, KnownKept
<1>6. \A i : Clean(i)' => Clean(i) /\ i # id
  BY <1>1 DEF Clean
<1>7. FoundInv'
  <2> SUFFICES ASSUME NEW p \in Pids, proc[p].pc \in {"found", "running"}, Clean(proc[p].id)'
               PROVE  proc[p].prog = mods'[proc[p].id].name
    BY <1>1 DEF FoundInv
  <2>1. Clean(proc[p].id) /\ Known(proc[p].id) /\ proc[p].id # id
    BY <1>1, <1>6 DEF IInv, KnownInv
  <2>2. proc[p].id \in Used
    BY <2>1, CleanIsUsed
  <2> QED  BY <1>2, <2>1, <2>2 DEF IInv, FoundInv
<1>8. PidInv'
  <2> SUFFICES ASSUME NEW i \in Used', mods[i].pid > 0
               PROVE  /\ mods[i].pid \in Pids /\ proc[mods[i].pid].id = i
                      /\ proc[mods[i].pid].pc \in {"running", "gone"}
                      /\ Clean(i)' => proc[mods[i].pid].prog = mods[i].name
    BY <1>1, <1>2 DEF PidInv
  <2>1. i \in Used
    BY <1>2
  <2> QED  BY <1>6, <2>1 DEF IInv, PidInv
<1>9. EntriesStay
  BY <1>1, <1>2, <1>6 DEF EntriesStay
<1>10. RecordedInv'
  BY <1>4, <1>9, RecordedKept
<1>11. UnreadableOnlyAfterStray'
  BY <1>1, <1>2 DEF IInv, UnreadableOnlyAfterStray, Readable
<1>12. AddInv' /\ NamesUnique'
  BY <1>1 DEF AddInv, NamesUnique
<1> QED  BY <1>3, <1>5, <1>7, <1>8, <1>10, <1>11, <1>12 DEF IInv


\* A stop that begins holds the pid that the entry has.
LEMMA StopCallKeeps ==
  ASSUME NEW k \in Callers, NEW id \in Nat, IInv, stop' = [stop EXCEPT ![k] = StopCall(id)],
         UNCHANGED <<lists, proc, call>>, MainsType'
  PROVE  IInv'
<1>1. UNCHANGED lists /\ proc' = proc /\ call' = call
  OBVIOUS
<1>2. /\ mods' = mods /\ Used' = Used /\ NamesStay /\ Pids' = Pids /\ ProcsStay
      /\ \A i : (Clean(i)' <=> Clean(i)) /\ (Known(i)' <=> Known(i))
  BY <1>1, ListsSame, ProcsSame
<1>3. PICK s : s = StopCall(id)
  OBVIOUS
<1>4. \/ s = NoStop /\ s.pc = "none"
      \/ /\ id \in Used /\ s = [pc |-> "kill", id |-> id, pid |-> mods[id].pid]
         /\ mods[id].pid \in Nat \ {0}
  <2>1. \A i \in Used : mods[i].pid \in Nat
    BY DEF IInv, TypeInv, ModsType, EntryType
  <2> QED  BY <1>3, <2>1 DEF StopCall, Readable, NoStop
<1>5. s \in {NoStop} \cup Stopping
  BY <1>4 DEF Stopping
<1>6. StopType'
  BY <1>3, <1>5 DEF IInv, TypeInv, StopType
<1>7. \A j \in Callers : stop'[j] = IF j = k THEN s ELSE stop[j]
  BY <1>3 DEF IInv, TypeInv, StopType
<1>8. TypeInv'
  BY <1>1, <1>2, <1>6, TypesSame DEF IInv, TypeInv
<1>9. KnownInv'
  BY <1>1, <1>2, <1>4, <1>7 DEF IInv, KnownInv, Known
<1>10. FoundInv' /\ PidInv'
  BY <1>1, <1>2 DEF IInv, FoundInv, PidInv
<1>11. RecordedInv'
  <2> SUFFICES ASSUME NEW p \in Pids, proc[p].pc = "running", ~proc[p].signalled,
                      Clean(proc[p].id)
               PROVE  Recorded(p)'
    BY <1>1, <1>2 DEF RecordedInv
  <2>1. Recorded(p)
    BY DEF IInv, RecordedInv
  <2>2. \A j \in Callers : stop'[j].pc # "none" /\ stop'[j].id = proc[p].id
          => stop'[j].pc = "kill" /\ stop'[j].pid = p
    BY <1>4, <1>7, <2>1 DEF Recorded
  <2> QED  BY <1>1, <1>2, <2>1, <2>2 DEF Recorded
<1>12. UnreadableOnlyAfterStray' /\ NamesUnique' /\ AddInv'
  BY <1>1, <1>2, NamesKept
<1> QED  BY <1>8, <1>9, <1>10, <1>11, <1>12 DEF IInv

\* The signal: a stop goes on to reset only what it has signalled or what is gone.
LEMMA StopKillKeeps ==
  ASSUME NEW k \in Callers, IInv, StopKill(k) PROVE IInv'
<1>1. PICK s : s = stop[k]
  OBVIOUS
<1>2. s \in Stopping /\ s.pc = "kill"
  BY <1>1 DEF StopKill, IInv, TypeInv, StopType, NoStop
<1>3. UNCHANGED lists /\ main' = main /\ call' = call
  BY DEF StopKill, lists
<1>4. \/ Alive(s.pid) /\ proc' = [proc EXCEPT ![s.pid].signalled = TRUE]
      \/ ~Alive(s.pid) /\ proc' = proc
  BY <1>1 DEF StopKill
<1>5. stop' = [stop EXCEPT ![k].pc = "reset"] \/ stop' = [stop EXCEPT ![k] = NoStop]
  BY DEF StopKill
<1>6. /\ mods' = mods /\ Used' = Used /\ NamesStay
      /\ \A i : (Clean(i)' <=> Clean(i)) /\ (Known(i)' <=> Known(i))
  BY <1>3, ListsSame
<1>7. PICK n \in Nat : proc \in [1..n -> ProcessType]
  BY DEF IInv, TypeInv, ProcType
<1>8. Pids = 1..n /\ Pids' = 1..n
  BY <1>4, <1>7 DEF Pids
<1>9. \A q \in Pids :
        /\ proc'[q] \in ProcessType /\ proc'[q].pc = proc[q].pc /\ proc'[q].id = proc[q].id
        /\ proc'[q].prog = proc[q].prog /\ (proc[q].signalled => proc'[q].signalled)
        /\ q = s.pid /\ Alive(q) => proc'[q].signalled
  <2> SUFFICES ASSUME NEW q \in Pids
               PROVE  /\ proc'[q] \in ProcessType /\ proc'[q].pc = proc[q].pc
                      /\ proc'[q].id = proc[q].id /\ proc'[q].prog = proc[q].prog
                      /\ proc[q].signalled => proc'[q].signalled
                      /\ q = s.pid /\ Alive(q) => proc'[q].signalled
    OBVIOUS
  <2>1. proc[q] \in ProcessType
    BY <1>7, <1>8
  <2>2. \/ proc'[q] = proc[q] /\ ~(q = s.pid /\ Alive(q))
        \/ proc'[q] = [proc[q] EXCEPT !.signalled = TRUE]
    BY <1>4, <1>7, <1>8
  <2> QED  BY <2>1, <2>2 DEF ProcessType
<1>10. ProcType'
  <2>1. proc' \in [1..n -> ProcessType]
    BY <1>4, <1>7, <1>8, <1>9
  <2> QED  BY <2>1 DEF ProcType
<1>11. ProcsStay
  BY <1>8, <1>9 DEF ProcsStay
<1>12. \/ stop'[k] = NoStop
       \/ stop'[k] = [s EXCEPT !.pc = "reset"]
  BY <1>1, <1>5 DEF IInv, TypeInv, StopType
<1>13. \A j \in Callers : j # k => stop'[j] = stop[j]
  BY <1>5 DEF IInv, TypeInv, StopType
<1>14. /\ stop'[k] \in {NoStop} \cup Stopping
       /\ stop'[k].pc # "none" => stop'[k].id = s.id /\ stop'[k].pid = s.pid
  BY <1>2, <1>12 DEF Stopping, NoStop
<1>15. StopType'
  BY <1>5, <1>13, <1>14 DEF IInv, TypeInv, StopType
<1>16. TypeInv'
  BY <1>3, <1>6, <1>10, <1>15, TypesSame DEF IInv, TypeInv
<1>17. KnownInv'
  <2>1. Known(s.id)
    BY <1>1, <1>2 DEF IInv, KnownInv
  <2>2. \A j \in Callers : stop'[j].pc # "none" => stop[j].pc # "none" /\ stop'[j].id = stop[j].id
    BY <1>1, <1>2, <1>13, <1>14
  <2> QED  BY <1>3, <1>6, <1>8, <1>9, <2>2 DEF IInv, KnownInv
<1>18. FoundInv' /\ PidInv'
  <2>1. FoundInv'
    BY <1>6, <1>11, FoundKept
  <2> QED  BY <1>6, <1>11, <2>1, PidKept
<1>19. RecordedInv'
  <2> SUFFICES ASSUME NEW p \in Pids, proc[p].pc = "running", ~proc'[p].signalled,
                      Clean(proc[p].id)
               PROVE  Recorded(p)'
    BY <1>6, <1>8, <1>9 DEF RecordedInv
  <2>1. Recorded(p)
    BY <1>9 DEF IInv, RecordedInv
  <2>2. s.pid # p
    BY <1>9 DEF Alive
  <2>3. s.id # proc[p].id
    BY <1>1, <1>2, <2>1, <2>2 DEF Recorded
  <2>4. \A j \in Callers : stop'[j].pc # "none" /\ stop'[j].id = proc[p].id
          => stop'[j].pc = "kill" /\ stop'[j].pid = p
    BY <1>13, <1>14, <2>1, <2>3 DEF Recorded
  <2>5. \A q \in Pids' : proc'[q].pc = "running" /\ proc'[q].id = proc[p].id => q = p
    BY <1>8, <1>9, <2>1 DEF Recorded
  <2>6. proc'[p].id = proc[p].id
    BY <1>9
  <2> QED  BY <1>3, <1>6, <2>1, <2>4, <2>5, <2>6 DEF Recorded
<1>20. UnreadableOnlyAfterStray' /\ NamesUnique' /\ AddInv'
  BY <1>3, <1>6, NamesKept
<1> QED  BY <1>16, <1>17, <1>18, <1>19, <1>20 DEF IInv


\* One process takes another state; the others stay as they are.
LEMMA ProcSet ==
  ASSUME IInv, NEW p \in Pids, NEW r \in ProcessType, proc' = [proc EXCEPT ![p] = r]
  PROVE  /\ ProcType' /\ Pids' = Pids /\ proc'[p] = r
         /\ \A q \in Pids : q # p => proc'[q] = proc[q]
<1>1. PICK n \in Nat : proc \in [1..n -> ProcessType]
  BY DEF IInv, TypeInv, ProcType
<1>2. Pids = 1..n /\ Pids' = 1..n
  BY <1>1 DEF Pids
<1> QED  BY <1>1, <1>2 DEF ProcType

\* A process finds the entry of its name, or finds none and is lost or dies.
LEMMA InitReadKeeps ==
  ASSUME IInv, NEW p \in Pids, InitRead(p) PROVE IInv'
<1>1. UNCHANGED lists /\ main' = main /\ call' = call /\ stop' = stop
  BY DEF InitRead, lists
<1>2. /\ mods' = mods /\ Used' = Used /\ NamesStay
      /\ \A i : (Clean(i)' <=> Clean(i)) /\ (Known(i)' <=> Known(i))
  BY <1>1, ListsSame
<1>3. proc[p] \in ProcessType /\ proc[p].pc = "exec"
  BY DEF InitRead, IInv, TypeInv, ProcType, Pids
<1>4. CallsStay /\ StopsStay
  BY <1>1 DEF CallsStay, StopsStay
<1>5. CASE \E id \in Used : /\ mods[id].name = proc[p].prog
                            /\ proc' = [proc EXCEPT ![p].pc = "found", ![p].id = id]
  <2>1. PICK id \in Used : /\ mods[id].name = proc[p].prog
                           /\ proc' = [proc EXCEPT ![p].pc = "found", ![p].id = id]
    BY <1>5
  <2>2. id \in Nat
    BY DEF IInv, TypeInv, ModsType
  <2>3. PICK r : r = [proc[p] EXCEPT !.pc = "found", !.id = id]
    OBVIOUS
  <2>4. /\ r \in ProcessType /\ r.pc = "found" /\ r.id = id /\ r.prog = proc[p].prog
    BY <1>3, <2>2, <2>3 DEF ProcessType
  <2>5. proc' = [proc EXCEPT ![p] = r]
    BY <2>1, <2>3 DEF Pids, IInv, TypeInv, ProcType
  <2>6. /\ ProcType' /\ Pids' = Pids /\ proc'[p] = r
        /\ \A q \in Pids : q # p => proc'[q] = proc[q]
    BY <2>4, <2>5, ProcSet
  <2>7. TypeInv'
    BY <1>1, <1>2, <2>6, TypesSame DEF IInv, TypeInv
  <2>8. KnownInv'
    <3>1. Known(id)
      BY DEF Known
    <3> QED  BY <1>1, <1>2, <2>4, <2>6, <3>1 DEF IInv, KnownInv
  <2>9. FoundInv'
    BY <1>2, <2>1, <2>4, <2>6 DEF IInv, FoundInv
  <2>10. PidInv'
    BY <1>2, <1>3, <2>6 DEF IInv, PidInv
  <2>11. RecordedInv'
    <3> SUFFICES ASSUME NEW q \in Pids, proc'[q].pc = "running", ~proc'[q].signalled,
                        Clean(proc[q].id)'
                 PROVE  Recorded(q)'
      BY <2>6 DEF RecordedInv
    <3>1. q # p /\ proc'[q] = proc[q]
      BY <2>4, <2>6
    <3>2. Recorded(q)
      BY <1>2, <3>1 DEF IInv, RecordedInv
    <3>3. \A o \in Pids' : proc'[o].pc = "running" /\ proc'[o].id = proc[q].id => o = q
      BY <2>4, <2>6, <3>2 DEF Recorded
    <3> QED  BY <1>1, <1>2, <3>1, <3>2, <3>3 DEF Recorded
  <2>12. UnreadableOnlyAfterStray' /\ NamesUnique' /\ AddInv'
    BY <1>1, <1>2, NamesKept
  <2> QED  BY <2>7, <2>8, <2>9, <2>10, <2>11, <2>12 DEF IInv
<1>6. CASE \E state \in {"lost", "gone"} : proc' = [proc EXCEPT ![p].pc = state]
  <2>1. PICK state \in {"lost", "gone"} : proc' = [proc EXCEPT ![p].pc = state]
    BY <1>6
  <2>2. PICK r : r = [proc[p] EXCEPT !.pc = state]
    OBVIOUS
  <2>3. r \in ProcessType /\ r.pc = state
    BY <1>3, <2>2 DEF ProcessType
  <2>4. proc' = [proc EXCEPT ![p] = r]
    BY <2>1, <2>2 DEF Pids, IInv, TypeInv, ProcType
  <2>5. /\ ProcType' /\ Pids' = Pids /\ proc'[p] = r
        /\ \A q \in Pids : q # p => proc'[q] = proc[q]
    BY <2>3, <2>4, ProcSet
  <2>6. TypeInv'
    BY <1>1, <1>2, <2>5, TypesSame DEF IInv, TypeInv
  <2>7. ProcsStay
    BY <1>3, <2>3, <2>5 DEF ProcsStay
  <2>8. EntriesStay
    <3> SUFFICES ASSUME NEW q \in Pids, proc'[q].pc = "running", ~proc'[q].signalled,
                        Clean(proc[q].id)'
                 PROVE  ~proc[q].signalled /\ Clean(proc[q].id)
      BY <1>2, <2>5 DEF EntriesStay
    <3>1. proc'[q] = proc[q]
      BY <2>3, <2>5
    <3> QED  BY <1>2, <3>1
  <2> QED  BY <1>2, <1>4, <2>6, <2>7, <2>8, AllKept
<1> QED  BY <1>5, <1>6 DEF InitRead

\* A process records its pid.  Unless somebody else is at the same entry, the
\* entry holds it from then on.
LEMMA InitRecordKeeps ==
  ASSUME IInv, NEW p \in Pids, InitRecord(p) PROVE IInv'
<1>1. PICK id : id = proc[p].id
  OBVIOUS
<1>2. proc[p] \in ProcessType /\ proc[p].pc = "found" /\ p \in Nat \ {0}
  BY DEF InitRecord, IInv, TypeInv, ProcType, Pids
<1>3. id \in Nat /\ Known(id)
  BY <1>1, <1>2 DEF ProcessType, IInv, KnownInv
<1>4. /\ main' = main /\ call' = call /\ stop' = stop /\ mods' = SetPid(id, p)
      /\ deleted' = deleted /\ strayed' = strayed /\ overlap \subseteq overlap'
      /\ proc' = [proc EXCEPT ![p].pc = "running"]
      /\ Contended(p, id) => id \in overlap'
  BY <1>1 DEF InitRecord
<1>5. /\ ModsType' /\ Used' = Used \cup {id}
      /\ \A i \in Used : /\ mods'[i].name = mods[i].name /\ mods'[i].path = mods[i].path
                         /\ mods'[i].pid = IF i = id THEN p ELSE mods[i].pid
      /\ id \notin Used => mods'[id].name = Unset /\ mods'[id].pid = p
  BY <1>2, <1>3, <1>4, PidWritten DEF IInv, TypeInv
<1>6. PICK r : r = [proc[p] EXCEPT !.pc = "running"]
  OBVIOUS
<1>7. /\ r \in ProcessType /\ r.pc = "running" /\ r.id = id /\ r.prog = proc[p].prog
  BY <1>1, <1>2, <1>6 DEF ProcessType
<1>8. proc' = [proc EXCEPT ![p] = r]
  BY <1>4, <1>6 DEF Pids, IInv, TypeInv, ProcType
<1>9. /\ ProcType' /\ Pids' = Pids /\ proc'[p] = r
      /\ \A q \in Pids : q # p => proc'[q] = proc[q]
  BY <1>7, <1>8, ProcSet
<1>10. TypeInv'
  BY <1>4, <1>5, <1>9, TypesSame DEF IInv, TypeInv
<1>11. NamesStay
  BY <1>3, <1>4, <1>5 DEF NamesStay, Known
<1>12. \A i : (Clean(i)' => Clean(i)) /\ (Known(i) => Known(i)')
  BY <1>4, <1>5, <1>11, CleanBefore DEF Known
<1>13. KnownInv'
  BY <1>1, <1>3, <1>4, <1>7, <1>9, <1>12 DEF IInv, KnownInv
<1>14. FoundInv'
  <2> SUFFICES ASSUME NEW q \in Pids, proc'[q].pc \in {"found", "running"},
                      Clean(proc[q].id)'
               PROVE  proc'[q].prog = mods'[proc'[q].id].name
    BY <1>9 DEF FoundInv
  <2>1. /\ proc[q].pc \in {"found", "running"} /\ proc'[q].id = proc[q].id
        /\ proc'[q].prog = proc[q].prog
    BY <1>1, <1>2, <1>7, <1>9
  <2>2. Clean(proc[q].id) /\ Known(proc[q].id)
    BY <1>12, <2>1 DEF IInv, KnownInv
  <2>3. proc[q].id \in Used
    BY <2>2, CleanIsUsed
  <2> QED  BY <1>5, <2>1, <2>2, <2>3 DEF IInv, FoundInv
<1>15. PidInv'
  <2> SUFFICES ASSUME NEW i \in Used', mods'[i].pid > 0
               PROVE  /\ mods'[i].pid \in Pids /\ proc'[mods'[i].pid].id = i
                      /\ proc'[mods'[i].pid].pc \in {"running", "gone"}
                      /\ Clean(i)' => proc'[mods'[i].pid].prog = mods'[i].name
    BY <1>9 DEF PidInv
  <2>1. CASE i = id
    <3>1. mods'[i].pid = p
      BY <1>5, <2>1
    <3>2. Clean(i)' => proc'[p].prog = mods'[i].name
      BY <1>7, <1>9, <1>14, <2>1 DEF FoundInv
    <3> QED  BY <1>7, <1>9, <2>1, <3>1, <3>2
  <2>2. CASE i # id
    <3>1. i \in Used /\ mods'[i].pid = mods[i].pid /\ mods'[i].name = mods[i].name
      BY <1>5, <2>2
    <3>2. /\ mods[i].pid \in Pids /\ proc[mods[i].pid].id = i
          /\ proc[mods[i].pid].pc \in {"running", "gone"}
          /\ Clean(i) => proc[mods[i].pid].prog = mods[i].name
      BY <3>1 DEF IInv, PidInv
    <3>3. mods[i].pid # p
      BY <1>2, <3>2
    <3> QED  BY <1>9, <1>12, <3>1, <3>2, <3>3
  <2> QED  BY <2>1, <2>2
<1>16. RecordedInv'
  <2> SUFFICES ASSUME NEW q \in Pids, proc'[q].pc = "running", ~proc'[q].signalled,
                      Clean(proc[q].id)'
               PROVE  Recorded(q)'
    BY <1>9 DEF RecordedInv
  <2>1. CASE q = p
    <3>1. proc'[q].id = id /\ Clean(id) /\ ~Contended(p, id)
      BY <1>4, <1>7, <1>9, <1>12, <2>1 DEF Clean
    <3>2. id \in Used' /\ mods'[id].pid = p
      BY <1>5
    <3>3. \A o \in Pids' : proc'[o].pc = "running" /\ proc'[o].id = id => o = p
      BY <1>9, <3>1 DEF Contended, Holds
    <3>4. \A k \in Callers : stop'[k].pc # "none" => stop'[k].id # id
      BY <1>4, <3>1 DEF Contended
    <3>5. \A c \in Clients : call'[c].pc = "resetting" => call'[c].id # id
      <4> SUFFICES ASSUME NEW c \in Clients, call[c].pc = "resetting", call[c].id = id
                   PROVE  FALSE
        BY <1>4
      <4>1. call[c] \in ResettingType
        BY DEF IInv, TypeInv, CallType, NoCall, Adding, ResettingType
      <4>2. call[c] = Resetting(id)
        BY <4>1 DEF ResettingType, Resetting
      <4> QED  BY <3>1, <4>2 DEF Contended
    <3> QED  BY <2>1, <3>1, <3>2, <3>3, <3>4, <3>5 DEF Recorded
  <2>2. CASE q # p
    <3>1. proc'[q] = proc[q] /\ Clean(proc[q].id)
      BY <1>9, <1>12, <2>2
    <3>2. Recorded(q)
      BY <3>1 DEF IInv, RecordedInv
    <3>3. proc[q].id # id
      <4> SUFFICES ASSUME proc[q].id = id PROVE FALSE
        OBVIOUS
      <4>1. Contended(p, id)
        BY <2>2, <3>1 DEF Contended, Holds
      <4> QED  BY <1>4, <3>1, <4>1 DEF Clean
    <3>4. proc[q].id \in Used' /\ mods'[proc[q].id].pid = q
      BY <1>5, <3>2, <3>3 DEF Recorded
    <3>5. \A o \in Pids' : proc'[o].pc = "running" /\ proc'[o].id = proc[q].id => o = q
      BY <1>7, <1>9, <3>2, <3>3 DEF Recorded
    <3> QED  BY <1>4, <3>1, <3>2, <3>4, <3>5 DEF Recorded
  <2> QED  BY <2>1, <2>2
<1>17. UnreadableOnlyAfterStray' /\ NamesUnique' /\ AddInv'
  BY <1>4, <1>11, NamesKept
<1> QED  BY <1>10, <1>13, <1>14, <1>15, <1>16, <1>17 DEF IInv


\* module_start and a launch by hand.
LEMMA StartKeeps ==
  ASSUME NEW c \in Clients, NEW id \in Used, IInv, Start(c, id) PROVE IInv'
<1>1. /\ UNCHANGED <<lists, call, stop>> /\ UNCHANGED main /\ mods[id].path \in Programs
      /\ Spawn(mods[id].path, "user")
  BY DEF Start, lists
<1>2. MainsType'
  BY <1>1, TypesSame DEF IInv, TypeInv
<1> QED  BY <1>1, <1>2, SpawnKeeps

\* A process that a user starts.
LEMMA LaunchKeeps ==
  ASSUME NEW prog \in Programs, IInv, Launch(prog) PROVE IInv'
<1>1. UNCHANGED <<lists, call, stop>> /\ UNCHANGED main /\ Spawn(prog, "user")
  BY DEF Launch, lists
<1>2. MainsType'
  BY <1>1, TypesSame DEF IInv, TypeInv
<1> QED  BY <1>1, <1>2, SpawnKeeps

\* module_stop, called by a REST thread or by the MainModule.
LEMMA StopReadKeeps ==
  ASSUME NEW c \in Clients, NEW id \in Used, IInv, StopRead(c, id) PROVE IInv'
<1>1. /\ UNCHANGED <<lists, proc, call>> /\ UNCHANGED main
      /\ stop' = [stop EXCEPT ![c] = StopCall(id)]
  BY DEF StopRead, lists
<1>2. MainsType'
  BY <1>1, TypesSame DEF IInv, TypeInv
<1>3. c \in Callers /\ id \in Nat
  BY DEF Callers, IInv, TypeInv, ModsType
<1> QED  BY <1>1, <1>2, <1>3, StopCallKeeps

\* The MainModule stops the modules of its list one by one.
LEMMA MainStopKeeps ==
  ASSUME NEW m \in Mains, NEW id \in main[m].todo, IInv, MainStop(m, id) PROVE IInv'
<1>1. /\ UNCHANGED <<lists, proc, call>> /\ stop' = [stop EXCEPT ![m] = StopCall(id)]
      /\ main' = [main EXCEPT ![m].todo = @ \ {id}]
  BY DEF MainStop, lists
<1>2. main[m] \in MainType
  BY DEF IInv, TypeInv, MainsType
<1>3. MainsType'
  <2>1. [main[m] EXCEPT !.todo = @ \ {id}] \in MainType
    BY <1>2 DEF MainType
  <2> QED  BY <1>1, <2>1 DEF IInv, TypeInv, MainsType
<1>4. m \in Callers /\ id \in Nat
  BY <1>2 DEF Callers, MainType
<1> QED  BY <1>1, <1>3, <1>4, StopCallKeeps

\* The MainModule starts the next module, or a clone of it comes into being.
LEMMA MainStartKeeps ==
  ASSUME NEW m \in Mains, NEW id \in main[m].todo, IInv, MainStart(m, id) PROVE IInv'
<1>1. PICK rest : rest = [pc |-> "starting", todo |-> main[m].todo \ {id}]
  OBVIOUS
<1>2. rest \in MainType
  BY <1>1 DEF IInv, TypeInv, MainsType, MainType
<1>3. UNCHANGED <<lists, call, stop>>
  BY DEF MainStart, lists
<1>4. \/ main' = [main EXCEPT ![m] = rest]
      \/ \E clone \in Mains : main' = [main EXCEPT ![m] = rest, ![clone] = rest]
  BY <1>1 DEF MainStart
<1>5. MainsType'
  BY <1>2, <1>4 DEF IInv, TypeInv, MainsType
<1>6. \/ UNCHANGED proc
      \/ mods[id].path \in Programs /\ Spawn(mods[id].path, "main")
  BY DEF MainStart
<1>7. CASE UNCHANGED proc
  BY <1>3, <1>5, <1>7, MainKeeps
<1>8. CASE mods[id].path \in Programs /\ Spawn(mods[id].path, "main")
  BY <1>3, <1>5, <1>8, SpawnKeeps
<1> QED  BY <1>6, <1>7, <1>8

\* The MainModule reads the list, runs, is told to end, and is gone.
LEMMA MainGoesOn ==
  ASSUME NEW m \in Mains, IInv, MainBoot(m) \/ MainRun(m) \/ MainEnd(m) \/ MainGone(m)
  PROVE  IInv'
<1>1. UNCHANGED <<lists, proc, call, stop>>
  BY DEF MainBoot, MainRun, MainEnd, MainGone, lists
<1>2. main[m] \in MainType /\ Registered \subseteq Nat
  <2>1. \A id \in Used : id \in Nat
    BY DEF IInv, TypeInv, ModsType
  <2> QED  BY <2>1 DEF IInv, TypeInv, MainsType, Registered
<1>3. \E r \in MainType : main' = [main EXCEPT ![m] = r]
  <2>1. CASE \E pc \in {"starting", "stopping"} :
               main' = [main EXCEPT ![m] = [pc |-> pc, todo |-> Registered]]
    <3>1. \A pc \in {"starting", "stopping"} : [pc |-> pc, todo |-> Registered] \in MainType
      BY <1>2 DEF MainType
    <3> QED  BY <2>1, <3>1
  <2>2. CASE main' = [main EXCEPT ![m] = [pc |-> "gone", todo |-> {}]]
    <3>1. [pc |-> "gone", todo |-> {}] \in MainType
      BY DEF MainType
    <3> QED  BY <2>2, <3>1
  <2>3. CASE \E pc \in {"running", "gone"} : main' = [main EXCEPT ![m].pc = pc]
    <3>1. PICK pc \in {"running", "gone"} : main' = [main EXCEPT ![m].pc = pc]
      BY <2>3
    <3>2. [main[m] EXCEPT !.pc = pc] \in MainType
      BY <1>2 DEF MainType
    <3>3. main' = [main EXCEPT ![m] = [main[m] EXCEPT !.pc = pc]]
      BY <3>1
    <3> QED  BY <3>2, <3>3
  <2> QED  BY <2>1, <2>2, <2>3 DEF MainBoot, MainRun, MainEnd, MainGone
<1>4. MainsType'
  BY <1>3 DEF IInv, TypeInv, MainsType
<1> QED  BY <1>1, <1>4, MainKeeps

(***************************************************************************)
(* The invariant                                                           *)
(***************************************************************************)

\* The MainModule has just been started, over a list without pids.
LEMMA InitIInv == Init => IInv
<1> SUFFICES ASSUME Init PROVE IInv
  OBVIOUS
<1>1. PICK n \in Nat : DOMAIN Installed = 1..n
  BY InstalledAssumption
<1>2. Used = 1..n /\ Pids = {} /\ deleted \cup strayed \cup overlap = {}
  BY <1>1 DEF Init, Used, Pids
<1>3. \A id \in Used : /\ mods[id] = Installed[id]
                       /\ mods[id] \in [name: Programs, path: Paths, registered: BOOLEAN, pid: {0}]
  <2>1. \A id \in 1..n : Installed[id] \in [name: Programs, path: Paths, registered: BOOLEAN,
                                            pid: {0}]
    <3>1. PICK S : S = [name: Programs, path: Paths, registered: BOOLEAN, pid: {0}]
      OBVIOUS
    <3>2. Installed \in Seq(S)
      BY <3>1, InstalledAssumption
    <3>3. \A id \in 1..n : Installed[id] \in S
      BY <1>1, <3>2
    <3> QED  BY <3>1, <3>3
  <2>2. \A id \in 1..n : mods[id] = Installed[id]
    BY <1>1 DEF Init
  <2> QED  BY <1>2, <2>1, <2>2
<1>4. \A id \in Used : /\ mods[id] \in EntryType /\ mods[id].pid = 0
                       /\ mods[id].name \in Programs
  BY <1>3 DEF EntryType
<1>5. ModsType
  <2>1. mods \in [Used -> EntryType]
    BY <1>1, <1>2, <1>4 DEF Init
  <2>2. Used \subseteq 0..n
    BY <1>2
  <2> QED  BY <2>1, <2>2 DEF ModsType
<1>6. ProcType
  <2>1. 1..0 = {} /\ proc \in [{} -> ProcessType]
    BY DEF Init
  <2> QED  BY <2>1 DEF ProcType
<1>7. MainsType
  <2>1. [pc |-> "boot", todo |-> {}] \in MainType /\ MainOff \in MainType
    BY DEF MainType, MainOff
  <2> QED  BY <2>1 DEF Init, MainsType
<1>8. CallType /\ StopType
  BY DEF Init, CallType, StopType
<1>9. /\ \A c \in Clients : call[c].pc = "idle"
      /\ \A k \in Callers : stop[k].pc = "none"
  BY DEF Init, NoCall, NoStop
<1>10. KnownInv /\ FoundInv /\ PidInv /\ RecordedInv /\ AddInv
  BY <1>2, <1>4, <1>9 DEF KnownInv, FoundInv, PidInv, RecordedInv, AddInv
<1>11. UnreadableOnlyAfterStray
  <2>1. Unset \notin Programs
    BY InstalledAssumption DEF Unset, Paths
  <2> QED  BY <1>4, <2>1 DEF UnreadableOnlyAfterStray, Readable
<1>12. NamesUnique
  BY <1>1, <1>2, <1>3, InstalledAssumption DEF NamesUnique
<1> QED  BY <1>5, <1>6, <1>7, <1>8, <1>10, <1>11, <1>12 DEF IInv, TypeInv

\* Every step keeps the invariant.
LEMMA NextIInv == IInv /\ [Next]_vars => IInv'
<1> SUFFICES ASSUME IInv, [Next]_vars PROVE IInv'
  OBVIOUS
<1>1. CASE UNCHANGED vars
  <2>1. UNCHANGED <<lists, proc, call, stop>> /\ UNCHANGED main
    BY <1>1 DEF vars, lists
  <2>2. MainsType'
    BY <2>1, TypesSame DEF IInv, TypeInv
  <2> QED  BY <2>1, <2>2, MainKeeps
<1>2. ASSUME NEW c \in Clients, NEW name \in Programs, NEW path \in Paths, AddRead(c, name, path)
      PROVE  IInv'
  BY <1>2, AddReadKeeps
<1>3. ASSUME NEW c \in Clients, ClientStep(c) PROVE IInv'
  BY <1>3, AddWriteKeeps, AddResetKeeps DEF ClientStep
<1>4. ASSUME NEW c \in Clients, NEW id \in Used, Delete(c, id) \/ Start(c, id) \/ StopRead(c, id)
      PROVE  IInv'
  BY <1>4, DeleteKeeps, StartKeeps, StopReadKeeps
<1>5. ASSUME NEW c \in Clients, NEW id \in Ids \ {0}, NEW flag \in BOOLEAN, Register(c, id, flag)
      PROVE  IInv'
  BY <1>5, RegisterKeeps
<1>6. ASSUME NEW prog \in Programs, Launch(prog) PROVE IInv'
  BY <1>6, LaunchKeeps
<1>7. ASSUME NEW k \in Callers, StopStep(k) PROVE IInv'
  BY <1>7, StopKillKeeps, StopResetKeeps DEF StopStep
<1>8. ASSUME NEW p \in Pids, ProcStep(p) \/ Crash(p) PROVE IInv'
  BY <1>8, InitReadKeeps, InitRecordKeeps, LostShutdownKeeps, ShutdownKeeps, CrashKeeps
     DEF ProcStep
<1>9. ASSUME NEW m \in Mains, MainStep(m) \/ MainEnd(m) PROVE IInv'
  BY <1>9, MainGoesOn, MainStartKeeps, MainStopKeeps DEF MainStep
<1> QED
  BY <1>1, <1>2, <1>3, <1>4, <1>5, <1>6, <1>7, <1>8, <1>9 DEF Next

\* The invariant holds always.
THEOREM Invariance == Spec => []IInv
BY InitIInv, NextIInv, PTL DEF Spec

(***************************************************************************)
(* The properties                                                          *)
(***************************************************************************)

\* The variables hold what their comments say they hold.
THEOREM TypeCorrect == Spec => []TypeOK
<1>1. IInv => TypeOK
  BY DEF IInv, TypeInv, ModsType, ProcType, MainsType, CallType, StopType, TypeOK, EntryType,
         ProcessType, MainType, NoCall, Adding, ResettingType, NoStop, Stopping, Pids
<1> QED  BY <1>1, Invariance, PTL

\* A running module can be stopped: its entry holds its pid, unless it has been
\* signalled, or its id was deleted, hit by a stray write or written by two
\* parties at a time.
THEOREM RunningModulesAreRecorded == Spec => []RunningIsRecorded
<1>1. IInv => RunningIsRecorded
  BY DEF IInv, RecordedInv, Recorded, RunningIsRecorded, Clean
<1> QED  BY <1>1, Invariance, PTL

\* A pid in the datastore is that of a process which found this entry; and which
\* has its name, unless the id was deleted, hit by a stray write or written by
\* two parties at a time.  Every pid is given out once and none is there at
\* first.
THEOREM PidsAreOfTheirModule == Spec => []PidIsOfTheModule
<1>1. IInv => PidIsOfTheModule
  BY DEF IInv, PidInv, PidIsOfTheModule, Clean
<1> QED  BY <1>1, Invariance, PTL

\* Only a write to an id that was deleted or never existed leaves an entry that
\* cannot be read, and with it a list that cannot.
THEOREM OnlyStraysAreUnreadable == Spec => []UnreadableOnlyAfterStray
<1>1. IInv => UnreadableOnlyAfterStray
  BY DEF IInv
<1> QED  BY <1>1, Invariance, PTL

\* sysrepo_add_module keeps names and paths unique until an id is deleted or
\* given twice, whoever adds at the same time.
THEOREM NamesStayUnique == Spec => []NamesUnique
<1>1. IInv => NamesUnique
  BY DEF IInv
<1> QED  BY <1>1, Invariance, PTL

=============================================================================
