-------------------------- MODULE MCNotifications --------------------------
(***************************************************************************)
(* Instances of Notifications for TLC.                                     *)
(***************************************************************************)
EXTENDS Notifications

CONSTANTS monitor, cuc, s1, s2, a1

\* The stored masks: one process hears of everything, the other of a part.
Masks == [p \in Subscribers |->
            IF p = monitor THEN Types ELSE {"STREAM_DELETED", "MODULE_DATA_UPDATED"}]

\* Streams that wait for their configuration, a module, an application.
SomeEntries ==
  [l \in UNION {Stream(s, {"key", "talker", "configured"}) : s \in Streams}
         \cup Module(1, {"key", "registered", "data"}) \cup App(a1, {"key", "parameters"}) |->
     IF l[2] \in {"configured", "registered"} THEN 0 ELSE 1]
============================================================================
