--------------------------- MODULE EventService ---------------------------
(***************************************************************************)
(* What the event mechanism of ControlTSN promises.  The documentation has *)
(* a table of events; Documented is what it says of a transaction on the   *)
(* datastore, Withheld is what the announcers are known to keep to         *)
(* themselves, and Promised is the rest.  Each announcer that is serving   *)
(* at the time of a transaction sends what is promised, in the order of    *)
(* the transactions, to the processes that listen then and whose mask has  *)
(* it: each event once, but of several events of one type, in one          *)
(* transaction, only one.  Nothing is promised without an announcer.       *)
(***************************************************************************)
EXTENDS Naturals, Sequences

CONSTANTS
  Announcers,   \* instances of the plugin daemon
  Subscribers,  \* module processes
  Mask,         \* Mask[p]: the event types p is subscribed to
  Unsent        \* types of the documentation that no announcer sends

VARIABLES
  facts,      \* what the datastore says: a record of sets, see Documented
  serving,    \* announcers that watch the datastore
  due,        \* due[k]: events of the transaction k is announcing
  owed,       \* owed[k]: events of the transactions after that, one set each
  listening,  \* processes that listen
  got         \* got[p]: the events the callback of p has received, in order

vars == <<facts, serving, due, owed, listening, got>>

\* Entries with a value, of pairs <<entry, value>>, that the other set lacks.
NewIn(new, old) == {x[1] : x \in new \ old}

\* Entries whose flag, of pairs <<entry, value>>, is not zero.
On(flags) == {x[1] : x \in {y \in flags : y[2] # 0}}

Events(type, entries) == {<<type, e>> : e \in entries}

\* The table of events, for a transaction from old to new.
Documented(old, new) ==
  LET Differ(f, g) == NewIn(f, g) \cup NewIn(g, f) IN
  UNION {
    Events("STREAM_DELETED", old.streams \ new.streams),
    Events("STREAM_REQUESTED", NewIn(new.requested, old.requested)),
    Events("STREAM_CONFIGURED", new.configured \ old.configured),
    Events("STREAM_MODIFIED",
           (old.streams \cap new.streams)
             \cap (Differ(new.requested, old.requested) \cup (new.configured \ old.configured))),
    Events("MODULE_ADDED", new.modules \ old.modules),
    Events("MODULE_DELETED", old.modules \ new.modules),
    Events("MODULE_REGISTERED", On(new.registered \ old.registered)),
    Events("MODULE_UNREGISTERED",
           new.modules \cap (On(old.registered) \ On(new.registered))),
    Events("MODULE_DATA_UPDATED", Differ(new.data, old.data)),
    Events("CONFIGURATION_CHANGED", Differ(new.parameters, old.parameters)),
    Events("TOPOLOGY_DISCOVERED", Differ(new.topology, old.topology)) }

\* What of it is not announced: types that are never sent, the flag a module is
\* created with, data and parameters that are taken away.
Withheld(old, new) ==
  UNION {
    {e \in Documented(old, new) : e[1] \in Unsent},
    Events("MODULE_REGISTERED", new.modules \ old.modules),
    Events("MODULE_DATA_UPDATED", NewIn(old.data, new.data) \ NewIn(new.data, old.data)),
    Events("CONFIGURATION_CHANGED",
           NewIn(old.parameters, new.parameters) \ NewIn(new.parameters, old.parameters)) }

Promised(old, new) == Documented(old, new) \ Withheld(old, new)

\* One event of a type is sent for a transaction, but for these.
Several == {"MODULE_REGISTERED", "MODULE_UNREGISTERED"}
After(events, e) ==
  {f \in events : f # e /\ (f[1] = e[1] => e[1] \in Several)}

Init ==
  /\ serving = {} /\ listening = {}
  /\ due = [k \in Announcers |-> {}]
  /\ owed = [k \in Announcers |-> <<>>]
  /\ got = [p \in Subscribers |-> <<>>]

\* A transaction; announcers need not learn of one that owes nothing.
Transact ==
  /\ UNCHANGED <<serving, due, listening, got>>
  /\ LET events == Promised(facts, facts') IN
       \/ owed' = [k \in Announcers |->
                     IF k \in serving THEN Append(owed[k], events) ELSE owed[k]]
       \/ events = {} /\ owed' = owed

Turn(k) ==
  /\ due[k] = {} /\ owed[k] # <<>>
  /\ due' = [due EXCEPT ![k] = Head(owed[k])]
  /\ owed' = [owed EXCEPT ![k] = Tail(owed[k])]
  /\ UNCHANGED <<facts, serving, listening, got>>

Announce(k) ==
  /\ \E e \in due[k] :
       /\ due' = [due EXCEPT ![k] = After(@, e)]
       /\ got' = [p \in Subscribers |->
                    IF p \in listening /\ e[1] \in Mask[p] THEN Append(got[p], e)
                    ELSE got[p]]
  /\ UNCHANGED <<facts, serving, owed, listening>>

\* An announcer that stops forgets what it owed.
Serve(k) ==
  /\ serving' = serving \cup {k}
  /\ UNCHANGED <<facts, due, owed, listening, got>>
Cease(k) ==
  /\ serving' = serving \ {k}
  /\ due' = [due EXCEPT ![k] = {}]
  /\ owed' = [owed EXCEPT ![k] = <<>>]
  /\ UNCHANGED <<facts, listening, got>>

Listen(p) ==
  /\ listening' \in {listening \cup {p}, listening \ {p}}
  /\ UNCHANGED <<facts, serving, due, owed, got>>

Next ==
  \/ Transact
  \/ \E k \in Announcers : Turn(k) \/ Announce(k) \/ Serve(k) \/ Cease(k)
  \/ \E p \in Subscribers : Listen(p)

Spec == Init /\ [][Next]_vars /\ \A k \in Announcers : WF_vars(Turn(k) \/ Announce(k))
============================================================================
