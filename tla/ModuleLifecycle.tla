-------------------------- MODULE ModuleLifecycle --------------------------
(***************************************************************************)
(* The module processes of ControlTSN: the entries under /modules/mod, the *)
(* processes that find themselves there by name and record their pid, the  *)
(* REST calls that add, delete, register, start and stop modules, and the  *)
(* MainModule that starts all registered modules and stops them at its own *)
(* end.                                                                    *)
(*                                                                         *)
(* A transaction of a call is one step; what the call read before, its     *)
(* next transaction, a fork and a kill are other steps.  Pids are instance *)
(* numbers: the reuse of a pid is outside the model, and so are a          *)
(* datastore that refuses a write, and the clone of the REST process that  *)
(* a failed execv leaves behind (that of the MainModule is modelled).      *)
(* The order of the list of modules plays no part: a loop over it takes    *)
(* its elements in any order.                                              *)
(***************************************************************************)
EXTENDS Naturals, Sequences, FiniteSets

CONSTANTS
  Programs,   \* module executables, identified with the name they look for
  Broken,     \* a path that execv cannot run
  Clients,    \* request threads of the REST module
  Installed,  \* modules in the datastore at first: a sequence of entries
  MaxProcs,   \* bound: module processes created
  MaxMains,   \* bound: instances of the MainModule, its clones included
  MaxCalls,   \* bound: REST calls, and programs started by hand
  MaxCrashes  \* bound: module processes that die on their own

Paths == Programs \cup {Broken}

\* 0 stands for a leaf that is not there.  The modules that are installed have
\* names and paths of their own, like those sysrepo_add_module lets in.
ASSUME InstalledAssumption ==
  /\ Broken \notin Programs /\ 0 \notin Paths
  /\ Installed \in Seq([name: Programs, path: Paths, registered: BOOLEAN, pid: {0}])
  /\ \A i, j \in DOMAIN Installed :
       i # j => Installed[i].name # Installed[j].name /\ Installed[i].path # Installed[j].path

ASSUME BoundsAssumption ==
  /\ MaxProcs \in Nat /\ MaxMains \in Nat \ {0}
  /\ MaxCalls \in Nat /\ MaxCrashes \in Nat

VARIABLES
  mods,     \* the list /modules/mod: a function on the ids in use
  proc,     \* module processes: a function on the pids given out
  main,     \* instances of the MainModule
  call,     \* REST threads: what an add in progress has read
  stop,     \* a module_stop in progress, per REST thread or main instance
  deleted,  \* history: ids of deleted modules
  strayed,  \* history: ids written without a check that they exist
  overlap,  \* history: ids written by two parties at a time
  calls, crashes   \* counters for the bounds

vars == <<mods, proc, main, call, stop, deleted, strayed, overlap, calls, crashes>>

(***************************************************************************)
(* Data                                                                    *)
(***************************************************************************)
Unset == 0      \* a leaf that is not in the datastore
Used == DOMAIN mods
Pids == DOMAIN proc
Mains == 1..MaxMains
Callers == Clients \cup Mains

\* An entry that lacks its name (a set of one of its leaves created it).
Leaf(registered, pid) ==
  [name |-> Unset, path |-> Unset, registered |-> registered, pid |-> pid]

\* _read_module fails on such an entry, and _read_modules on the whole list.
Readable(id) == id \in Used /\ mods[id].name # Unset
ListReadable == \A id \in Used : Readable(id)

\* sr_set_item creates the entry of an id that is not in the list.
SetPid(id, pid) ==
  [i \in Used \cup {id} |->
     IF i # id THEN mods[i]
     ELSE IF id \in Used THEN [mods[id] EXCEPT !.pid = pid] ELSE Leaf(FALSE, pid)]
SetRegistered(id, flag) ==
  [i \in Used \cup {id} |->
     IF i # id THEN mods[i]
     ELSE IF id \in Used THEN [mods[id] EXCEPT !.registered = flag] ELSE Leaf(flag, 0)]

Stray(id) == IF id \in Used THEN strayed ELSE strayed \cup {id}

\* Processes: "exec" has just been started, "found" knows its module id,
\* "running" has recorded its pid, "lost" found no module of its name.
Process(prog, by) ==
  [pc |-> "exec", prog |-> prog, id |-> 0, signalled |-> FALSE, by |-> by]
Alive(p) == proc[p].pc # "gone"
Holds(p, id) == proc[p].pc \in {"found", "running"} /\ proc[p].id = id

Spawn(prog, by) ==
  proc' = [p \in Pids \cup {Cardinality(Pids) + 1} |->
             IF p \in Pids THEN proc[p] ELSE Process(prog, by)]

NoCall == [pc |-> "idle"]
NoStop == [pc |-> "none"]
CallReturns(c) ==
  calls < MaxCalls /\ call[c] = NoCall /\ stop[c] = NoStop /\ calls' = calls + 1

(***************************************************************************)
(* REST calls                                                              *)
(***************************************************************************)

\* Mutant of AddRead: an entry is in the way only if name AND path are equal.
AddReadBoth(c, name, path) ==
  /\ CallReturns(c)
  /\ call' = [call EXCEPT ![c] =
       IF ListReadable /\ \A id \in Used : mods[id].name # name \/ mods[id].path # path
       THEN [pc |-> "adding", name |-> name, path |-> path,
             id |-> 1 + (IF Used = {} THEN 0
                         ELSE CHOOSE h \in Used : \A id \in Used : id <= h)]
       ELSE NoCall]
  /\ UNCHANGED <<mods, proc, main, stop, deleted, strayed, overlap, crashes>>

\* sysrepo_add_module reads all modules, refuses a name or a path that is in
\* use, and takes the highest id plus one.
AddRead(c, name, path) ==
  /\ CallReturns(c)
  /\ call' = [call EXCEPT ![c] =
       IF ListReadable /\ \A id \in Used : mods[id].name # name /\ mods[id].path # path
       THEN [pc |-> "adding", name |-> name, path |-> path,
             id |-> 1 + (IF Used = {} THEN 0
                         ELSE CHOOSE h \in Used : \A id \in Used : id <= h)]
       ELSE NoCall]
  /\ UNCHANGED <<mods, proc, main, stop, deleted, strayed, overlap, crashes>>

\* The entry as it is written: a pid it may already have stays.
Added(a, name, path, flag) ==
  [i \in Used \cup {a.id} |->
     IF i # a.id THEN mods[i]
     ELSE [name |-> name, path |-> path, registered |-> flag,
           pid |-> IF i \in Used THEN mods[i].pid ELSE 0]]
Resetting(id) == [pc |-> "resetting", id |-> id]

\* Mutant of AddWrite: name and path are swapped.
AddWriteSwapped(c, flag) ==
  LET a == call[c] IN
  /\ a.pc = "adding"
  /\ mods' = Added(a, a.path, a.name, flag)
  /\ overlap' = IF a.id \in Used THEN overlap \cup {a.id} ELSE overlap
  /\ call' = [call EXCEPT ![c] = Resetting(a.id)]
  /\ UNCHANGED <<proc, main, stop, deleted, strayed, calls, crashes>>

\* _write_module writes the entry and, with its empty data, commits it.  The
\* flag `registered' of the new module was never initialised.
AddWrite(c, flag) ==
  LET a == call[c] IN
  /\ a.pc = "adding"
  /\ mods' = Added(a, a.name, a.path, flag)
  /\ overlap' = IF a.id \in Used THEN overlap \cup {a.id} ELSE overlap
  /\ call' = [call EXCEPT ![c] = Resetting(a.id)]
  /\ UNCHANGED <<proc, main, stop, deleted, strayed, calls, crashes>>

\* The pid 0 of the new module is set after that, with a commit of its own.
AddReset(c) ==
  /\ call[c].pc = "resetting"
  /\ mods' = SetPid(call[c].id, 0)
  /\ call' = [call EXCEPT ![c] = NoCall]
  /\ UNCHANGED <<proc, main, stop, deleted, strayed, overlap, calls, crashes>>

\* sysrepo_delete_module: the entry goes, whatever its process does.
Delete(c, id) ==
  /\ CallReturns(c)
  /\ mods' = [i \in Used \ {id} |-> mods[i]]
  /\ deleted' = deleted \cup {id}
  /\ UNCHANGED <<proc, main, call, stop, strayed, overlap, crashes>>

\* sysrepo_register_module and sysrepo_unregister_module set the flag of any id.
Register(c, id, flag) ==
  /\ CallReturns(c)
  /\ mods' = SetRegistered(id, flag)
  /\ strayed' = Stray(id)
  /\ UNCHANGED <<proc, main, call, stop, deleted, overlap, crashes>>

\* module_start reads the module and forks; the child runs the executable.
\* Whether the module already runs is not asked.
Start(c, id) ==
  /\ CallReturns(c) /\ Cardinality(Pids) < MaxProcs
  /\ Readable(id) /\ mods[id].path \in Programs
  /\ Spawn(mods[id].path, "user")
  /\ UNCHANGED <<mods, main, call, stop, deleted, strayed, overlap, crashes>>

\* A program is started by hand.
Launch(prog) ==
  /\ calls < MaxCalls /\ Cardinality(Pids) < MaxProcs
  /\ calls' = calls + 1
  /\ Spawn(prog, "user")
  /\ UNCHANGED <<mods, main, call, stop, deleted, strayed, overlap, crashes>>

(***************************************************************************)
(* module_stop, called by a REST thread or by the MainModule               *)
(***************************************************************************)

\* The module is read; without a pid there is nothing to stop.
StopCall(id) ==
  IF Readable(id) /\ mods[id].pid > 0
  THEN [pc |-> "kill", id |-> id, pid |-> mods[id].pid] ELSE NoStop

StopRead(c, id) ==
  /\ CallReturns(c)
  /\ stop' = [stop EXCEPT ![c] = StopCall(id)]
  /\ UNCHANGED <<mods, proc, main, call, deleted, strayed, overlap, crashes>>

\* Mutant of StopKill: the signal is forgotten.
StopKillForgotten(k) ==
  /\ stop[k].pc = "kill"
  /\ stop' = [stop EXCEPT ![k].pc = "reset"]
  /\ UNCHANGED <<mods, proc, main, call, deleted, strayed, overlap, calls, crashes>>

\* SIGTERM is sent.  For a process that is gone kill fails or, when its parent
\* has not waited for it, succeeds.
StopKill(k) ==
  LET s == stop[k] IN
  /\ s.pc = "kill"
  /\ \/ /\ Alive(s.pid)
        /\ proc' = [proc EXCEPT ![s.pid].signalled = TRUE]
        /\ stop' = [stop EXCEPT ![k].pc = "reset"]
     \/ /\ ~Alive(s.pid)
        /\ stop' = [stop EXCEPT ![k] = NoStop]
        /\ UNCHANGED proc
     \/ /\ ~Alive(s.pid)
        /\ stop' = [stop EXCEPT ![k].pc = "reset"]
        /\ UNCHANGED proc
  /\ UNCHANGED <<mods, main, call, deleted, strayed, overlap, calls, crashes>>

StopReset(k) ==
  LET s == stop[k] IN
  /\ s.pc = "reset"
  /\ mods' = SetPid(s.id, 0)
  /\ stop' = [stop EXCEPT ![k] = NoStop]
  /\ UNCHANGED <<proc, main, call, deleted, strayed, overlap, calls, crashes>>

(***************************************************************************)
(* A module process: module_init, the main loop, module_shutdown           *)
(***************************************************************************)

\* Mutant of InitRead: the names are not compared.
InitReadAny(p) ==
  /\ proc[p].pc = "exec"
  /\ \E id \in Used : /\ Readable(id)
                       /\ proc' = [proc EXCEPT ![p].pc = "found", ![p].id = id]
  /\ UNCHANGED <<mods, main, call, stop, deleted, strayed, overlap, calls, crashes>>

\* module_init looks for the module of its own name.  The result of the read
\* is ignored: behind an unreadable entry the array was never initialised, and
\* the comparison finds no match or crashes.
InitRead(p) ==
  /\ proc[p].pc = "exec"
  /\ \/ \E id \in Used : /\ Readable(id) /\ mods[id].name = proc[p].prog
                         /\ proc' = [proc EXCEPT ![p].pc = "found", ![p].id = id]
     \/ /\ ~ListReadable \/ \A id \in Used : mods[id].name # proc[p].prog
        /\ proc' = [proc EXCEPT ![p].pc = "lost"]
     \/ /\ ~ListReadable
        /\ proc' = [proc EXCEPT ![p].pc = "gone"]
  /\ UNCHANGED <<mods, main, call, stop, deleted, strayed, overlap, calls, crashes>>

\* Someone else may write, or have just written, the pid of the same module.
Contended(p, id) ==
  \/ \E q \in Pids \ {p} : Holds(q, id)
  \/ \E k \in Callers : stop[k].pc # "none" /\ stop[k].id = id
  \/ \E c \in Clients : call[c] = Resetting(id)

\* Mutant of InitRecord: the index in the list is taken for the id.
InitRecordIndex(p) ==
  /\ proc[p].pc = "found"
  /\ mods' = SetPid(proc[p].id - 1, p)
  /\ proc' = [proc EXCEPT ![p].pc = "running"]
  /\ UNCHANGED <<main, call, stop, deleted, strayed, overlap, calls, crashes>>

\* The pid is written, and the module runs.
InitRecord(p) ==
  LET id == proc[p].id IN
  /\ proc[p].pc = "found"
  /\ mods' = SetPid(id, p)
  /\ overlap' = IF Contended(p, id) THEN overlap \cup {id} ELSE overlap
  /\ proc' = [proc EXCEPT ![p].pc = "running"]
  /\ UNCHANGED <<main, call, stop, deleted, strayed, calls, crashes>>

\* After a failed module_init, main calls module_shutdown with the id of a
\* struct that was never initialised.
LostShutdown(p, id) ==
  /\ proc[p].pc = "lost"
  /\ mods' = SetPid(id, 0)
  /\ strayed' = strayed \cup {id}
  /\ proc' = [proc EXCEPT ![p].pc = "gone"]
  /\ UNCHANGED <<main, call, stop, deleted, overlap, calls, crashes>>

\* Mutant of Shutdown: the process ends only while the entry holds its pid.
ShutdownIfNamed(p) ==
  /\ proc[p].pc = "running" /\ proc[p].signalled
  /\ proc[p].id \in Used /\ mods[proc[p].id].pid = p
  /\ mods' = SetPid(proc[p].id, 0)
  /\ proc' = [proc EXCEPT ![p].pc = "gone"]
  /\ UNCHANGED <<main, call, stop, deleted, strayed, overlap, calls, crashes>>

\* The main loop sees that it has been signalled: module_shutdown resets the
\* pid of the module id found at the start, and disconnects.
Shutdown(p) ==
  /\ proc[p].pc = "running" /\ proc[p].signalled
  /\ mods' = SetPid(proc[p].id, 0)
  /\ proc' = [proc EXCEPT ![p].pc = "gone"]
  /\ UNCHANGED <<main, call, stop, deleted, strayed, overlap, calls, crashes>>

Crash(p) ==
  /\ Alive(p) /\ crashes < MaxCrashes
  /\ crashes' = crashes + 1
  /\ proc' = [proc EXCEPT ![p].pc = "gone"]
  /\ UNCHANGED <<mods, main, call, stop, deleted, strayed, overlap, calls>>

(***************************************************************************)
(* The MainModule                                                          *)
(***************************************************************************)
MainOff == [pc |-> "off", todo |-> {}]
Registered == {id \in Used : mods[id].registered}

\* All modules are read; those with the flag are to be started.
MainBoot(m) ==
  /\ main[m].pc = "boot"
  /\ main' = [main EXCEPT ![m] = IF ListReadable
                                 THEN [pc |-> "starting", todo |-> Registered]
                                 ELSE [pc |-> "gone", todo |-> {}]]
  /\ UNCHANGED <<mods, proc, call, stop, deleted, strayed, overlap, calls, crashes>>

\* module_start for the next one.  When execv fails the child returns from
\* module_start like its parent does, and goes on as another MainModule.
MainStart(m, id) ==
  LET rest == [pc |-> "starting", todo |-> main[m].todo \ {id}] IN
  /\ main[m].pc = "starting" /\ id \in main[m].todo
  /\ \/ /\ ~Readable(id)
        /\ main' = [main EXCEPT ![m] = rest] /\ UNCHANGED proc
     \/ /\ Readable(id) /\ mods[id].path \in Programs /\ Cardinality(Pids) < MaxProcs
        /\ Spawn(mods[id].path, "main")
        /\ main' = [main EXCEPT ![m] = rest]
     \/ /\ Readable(id) /\ mods[id].path = Broken
        /\ \E clone \in Mains :
             /\ main[clone].pc = "off"
             /\ main' = [main EXCEPT ![m] = rest, ![clone] = rest]
        /\ UNCHANGED proc
  /\ UNCHANGED <<mods, call, stop, deleted, strayed, overlap, calls, crashes>>

MainRun(m) ==
  /\ main[m].pc = "starting" /\ main[m].todo = {}
  /\ main' = [main EXCEPT ![m].pc = "running"]
  /\ UNCHANGED <<mods, proc, call, stop, deleted, strayed, overlap, calls, crashes>>

\* It is signalled: the modules are read again, to be stopped.
MainEnd(m) ==
  /\ main[m].pc = "running"
  /\ main' = [main EXCEPT ![m] = IF ListReadable
                                 THEN [pc |-> "stopping", todo |-> Registered]
                                 ELSE [pc |-> "gone", todo |-> {}]]
  /\ UNCHANGED <<mods, proc, call, stop, deleted, strayed, overlap, calls, crashes>>

\* Mutant of MainStop: the loop ends after the first module.
MainStopFirst(m, id) ==
  /\ main[m].pc = "stopping" /\ id \in main[m].todo /\ stop[m] = NoStop
  /\ stop' = [stop EXCEPT ![m] = StopCall(id)]
  /\ main' = [main EXCEPT ![m].todo = {}]
  /\ UNCHANGED <<mods, proc, call, deleted, strayed, overlap, calls, crashes>>

\* module_stop for the next one, after the one before has returned.
MainStop(m, id) ==
  /\ main[m].pc = "stopping" /\ id \in main[m].todo /\ stop[m] = NoStop
  /\ stop' = [stop EXCEPT ![m] = StopCall(id)]
  /\ main' = [main EXCEPT ![m].todo = @ \ {id}]
  /\ UNCHANGED <<mods, proc, call, deleted, strayed, overlap, calls, crashes>>

MainGone(m) ==
  /\ main[m].pc = "stopping" /\ main[m].todo = {} /\ stop[m] = NoStop
  /\ main' = [main EXCEPT ![m].pc = "gone"]
  /\ UNCHANGED <<mods, proc, call, stop, deleted, strayed, overlap, calls, crashes>>

(***************************************************************************)
(* Specification                                                           *)
(***************************************************************************)
Init ==
  /\ mods = [id \in DOMAIN Installed |-> Installed[id]]
  /\ proc = [p \in {} |-> 0]
  /\ main = [m \in Mains |-> IF m = 1 THEN [pc |-> "boot", todo |-> {}] ELSE MainOff]
  /\ call = [c \in Clients |-> NoCall]
  /\ stop = [k \in Callers |-> NoStop]
  /\ deleted = {} /\ strayed = {} /\ overlap = {}
  /\ calls = 0 /\ crashes = 0

\* Ids users and uninitialised structs come up with: those of the list, the
\* next one, and 0.
Ids == {0} \cup Used \cup {1 + Cardinality(Used)}

ProcStep(p) ==
  InitRead(p) \/ InitRecord(p) \/ (\E id \in Ids : LostShutdown(p, id)) \/ Shutdown(p)
StopStep(k) == StopKill(k) \/ StopReset(k)
MainStep(m) ==
  \/ MainBoot(m) \/ MainRun(m) \/ MainGone(m)
  \/ \E id \in main[m].todo : MainStart(m, id) \/ MainStop(m, id)
ClientStep(c) == (\E flag \in BOOLEAN : AddWrite(c, flag)) \/ AddReset(c)

Next ==
  \/ \E c \in Clients :
       \/ \E name \in Programs, path \in Paths : AddRead(c, name, path)
       \/ ClientStep(c)
       \/ \E id \in Used : Delete(c, id) \/ Start(c, id) \/ StopRead(c, id)
       \/ \E id \in Ids \ {0}, flag \in BOOLEAN : Register(c, id, flag)
  \/ \E prog \in Programs : Launch(prog)
  \/ \E k \in Callers : StopStep(k)
  \/ \E p \in Pids : ProcStep(p) \/ Crash(p)
  \/ \E m \in Mains : MainStep(m) \/ MainEnd(m)

Spec == Init /\ [][Next]_vars

\* Every process and every call in progress keeps going; users owe nothing.
FairSpec ==
  /\ Spec
  /\ \A p \in 1..MaxProcs : WF_vars(p \in Pids /\ ProcStep(p))
  /\ \A k \in Callers : WF_vars(StopStep(k))
  /\ \A m \in Mains : WF_vars(MainStep(m))
  /\ \A c \in Clients : WF_vars(ClientStep(c))

(***************************************************************************)
(* Properties                                                              *)
(***************************************************************************)
TypeOK ==
  /\ \A id \in Used : mods[id] \in
       [name: Programs \cup {Unset}, path: Paths \cup {Unset}, registered: BOOLEAN,
        pid: Nat]
  /\ \A p \in Pids : proc[p] \in
       [pc: {"exec", "found", "running", "lost", "gone"}, prog: Programs, id: Nat,
        signalled: BOOLEAN, by: {"user", "main"}]
  /\ \A m \in Mains : main[m].pc \in {"off", "boot", "starting", "running",
                                      "stopping", "gone"}
  /\ \A k \in Callers : stop[k].pc \in {"none", "kill", "reset"}
  /\ \A c \in Clients : call[c].pc \in {"idle", "adding", "resetting"}

\* A module that runs can be stopped: its entry holds its pid, unless it has
\* been signalled already, or its id was deleted, hit by a stray write, or
\* written by two parties at a time (module_init, module_stop, module_shutdown).
RunningIsRecorded ==
  \A p \in Pids :
    LET id == proc[p].id IN
    proc[p].pc = "running" /\ ~proc[p].signalled
      /\ id \notin deleted \cup strayed \cup overlap
      => id \in Used /\ mods[id].pid = p

\* The pid of an entry is that of a process which found this entry; and which
\* has the module's name, unless the id was deleted, hit by a stray write, or
\* written by two parties at a time.  So far module_stop signals no process of
\* another module.  Pids are not given out again here, and none is left in the
\* datastore from before.
PidIsOfTheModule ==
  \A id \in Used :
    LET p == mods[id].pid IN
    p > 0 => /\ p \in Pids /\ proc[p].id = id
             /\ id \notin deleted \cup strayed \cup overlap
                  => proc[p].prog = mods[id].name

\* An entry that cannot be read, with which every start, stop and addition
\* fails, comes only from a write to an id that was deleted or never existed.
UnreadableOnlyAfterStray ==
  \A id \in Used : ~Readable(id) => id \in deleted \cup strayed

\* Names and paths are unique as sysrepo_add_module intends, although two
\* threads may add at the same time, until an id was deleted or given twice.
NamesUnique ==
  deleted \cup strayed \cup overlap = {} =>
    \A i, j \in Used : i # j => mods[i].name # mods[j].name /\ mods[i].path # mods[j].path

\* A process that has been signalled ends, although whoever signalled it, users
\* and other processes change or remove the entry before it shuts down.
SignalledEnds ==
  \A p \in 1..MaxProcs : (p \in Pids /\ proc[p].signalled) ~> (p \in Pids /\ ~Alive(p))

\* When the MainModule ends it stops the modules it has read as registered: a
\* running process whose entry names it, and which is still to be stopped, ends,
\* whatever users and other processes do meanwhile, unless its id is deleted,
\* hit by a stray write, or written by two parties at a time.
Named(p) ==
  LET id == proc[p].id IN proc[p].pc = "running" /\ id \in Used /\ mods[id].pid = p
ToStop(p) == \E m \in Mains : main[m].pc = "stopping" /\ proc[p].id \in main[m].todo
ShutdownStops ==
  \A p \in 1..MaxProcs :
    (p \in Pids /\ Named(p) /\ ToStop(p))
      ~> (p \in Pids /\ (~Alive(p) \/ proc[p].id \in deleted \cup strayed \cup overlap))
============================================================================
