-------------------------- MODULE StreamLifecycle --------------------------
(***************************************************************************)
(* The life of TSN streams in ControlTSN: REST request threads create and  *)
(* delete streams in the datastore and ask for a computation; the          *)
(* subscription thread of the CUC reads the streams that have no           *)
(* configuration yet, posts them to the CNC and writes the answer back.    *)
(*                                                                         *)
(* One API call of the library builds its edit and commits it with one     *)
(* sr_apply_changes, so the write of a call is one step here; what the     *)
(* call READ before is a step of its own, and the other actors move in     *)
(* between.  No application maps a stream, so the clean-up of the mappings *)
(* in sysrepo_delete_stream has nothing to do.                             *)
(*                                                                         *)
(* An entry without a request is no legal data (the lists of the talker    *)
(* have min-elements 1), so sysrepo refuses to commit the configuration of *)
(* a stream that is gone.  Nothing discards the refused edit: it stays in  *)
(* the session of the CUC and goes along with every later commit.          *)
(***************************************************************************)
EXTENDS Naturals, FiniteSets

CONSTANTS
  Macs,         \* MAC addresses of the talkers
  Workers,      \* request threads of the REST module
  MaxRequests,  \* bound: stream requests submitted
  MaxDeletes,   \* bound: streams deleted
  MaxComputes,  \* bound: computations asked for
  MaxStops      \* bound: times the CUC process ends (stopped or crashed)

ASSUME BoundsAssumption ==
  /\ MaxRequests \in Nat /\ MaxDeletes \in Nat
  /\ MaxComputes \in Nat /\ MaxStops \in Nat

VARIABLES
  streams,  \* the list /streams/stream: a function on the stream ids in use
  created,  \* entries created so far, the clock that orders the list
  rest,     \* REST request threads: what each one is doing
  cuc,      \* subscription thread of the CUC
  edit,     \* refused edits in the CUC's session: id |-> configuration
  pending,  \* computation notifications not yet delivered to the CUC
  issued,   \* requests submitted so far; the request's token is its number
  accepted, \* history: request token |-> stream id returned to the client
  deleted,  \* history: stream ids deleted at least once
  replaced, \* history: stream ids whose request was written over another
  deletes, computes, stops   \* counters for the bounds

vars == <<streams, created, rest, cuc, edit, pending, issued, accepted, deleted,
          replaced, deletes, computes, stops>>

(***************************************************************************)
(* Data                                                                    *)
(***************************************************************************)
StreamId == Macs \X (Nat \ {0})     \* "<talker mac>:<number>"
NoRequest == 0                      \* no leaf under .../request
NoConfig == 0                       \* no leaf under .../configuration

\* A stream: the token of its request, the token of the request its
\* configuration was computed for, the flag, and its place in the list.
Stream == [request: Nat, config: Nat, configured: BOOLEAN, place: Nat]

\* _read_stream fails on an entry that lacks its request, or its
\* configuration although the flag says there is one.
Readable(s) == s.request # NoRequest /\ (s.configured => s.config # NoConfig)

Used == DOMAIN streams
OfMac(ids, m) == {id \in ids : id[1] = m}

\* Mutants of NextNumber: the increment is lost; the talker is not compared;
\* only the streams that are not configured yet are listed.
NextNumberFromZero(ids, m) == Cardinality(OfMac(ids, m))
NextNumberAllTalkers(ids, m) == Cardinality(ids) + 1
NextNumberUnconfigured(ids, m) ==
  Cardinality({id \in OfMac(ids, m) \cap Used : ~streams[id].configured}) + 1

\* _generate_stream_id: one more than the streams listed for this talker.
NextNumber(ids, m) == Cardinality(OfMac(ids, m)) + 1

\* The stream id is written with its leaves, over an entry or as a new one.
Put(id, s) == [i \in Used \cup {id} |-> IF i = id THEN s ELSE streams[i]]
PlaceOf(id) == IF id \in Used THEN streams[id].place ELSE created
CreatedAfter(id) == IF id \in Used THEN created ELSE created + 1

(***************************************************************************)
(* REST request threads.  seen: the ids _generate_stream_id listed.        *)
(***************************************************************************)
Idle == [pc |-> "idle"]
Listed(m, t, seen) == [pc |-> "listed", mac |-> m, token |-> t, seen |-> seen]
Ready(m, t, seen) == [pc |-> "ready", mac |-> m, token |-> t, seen |-> seen]

NewId(r) == <<r.mac, NextNumber(r.seen, r.mac)>>

\* POST of a stream request: the ids in use are listed.
RequestList(w, m) ==
  /\ rest[w].pc = "idle" /\ issued < MaxRequests
  /\ issued' = issued + 1
  /\ rest' = [rest EXCEPT ![w] = Listed(m, issued + 1, Used)]
  /\ UNCHANGED <<streams, created, cuc, edit, pending, accepted, deleted,
                 replaced, deletes, computes, stops>>

\* Each listed stream is read; if one cannot be read the request fails.
RequestRead(w) ==
  LET r == rest[w] IN
  /\ r.pc = "listed"
  /\ rest' = [rest EXCEPT ![w] =
                IF \A id \in r.seen : id \in Used /\ Readable(streams[id])
                THEN Ready(r.mac, r.token, r.seen) ELSE Idle]
  /\ UNCHANGED <<streams, created, cuc, edit, pending, issued, accepted,
                 deleted, replaced, deletes, computes, stops>>

\* The request is written under the generated id, the flag is cleared, the
\* transaction is applied and the id is returned.  A configuration that the
\* entry already had is not removed.
RequestWrite(w) ==
  LET r == rest[w]
      id == NewId(r)
      old == IF id \in Used THEN streams[id].config ELSE NoConfig IN
  /\ r.pc = "ready"
  /\ streams' = Put(id, [request |-> r.token, config |-> old,
                         configured |-> FALSE, place |-> PlaceOf(id)])
  /\ created' = CreatedAfter(id)
  /\ replaced' = IF id \in Used THEN replaced \cup {id} ELSE replaced
  /\ accepted' = [t \in DOMAIN accepted \cup {r.token} |->
                    IF t = r.token THEN id ELSE accepted[t]]
  /\ rest' = [rest EXCEPT ![w] = Idle]
  /\ UNCHANGED <<cuc, edit, pending, issued, deleted, deletes, computes, stops>>

\* Mutant of Delete: the path names every stream of the talker.
DeleteOfTalker(w, id) ==
  /\ rest[w].pc = "idle" /\ deletes < MaxDeletes
  /\ streams' = [i \in Used \ OfMac(Used, id[1]) |-> streams[i]]
  /\ deleted' = deleted \cup {id}
  /\ deletes' = deletes + 1
  /\ UNCHANGED <<created, rest, cuc, edit, pending, issued, accepted, replaced,
                 computes, stops>>

\* DELETE of a stream.
Delete(w, id) ==
  /\ rest[w].pc = "idle" /\ deletes < MaxDeletes
  /\ streams' = [i \in Used \ {id} |-> streams[i]]
  /\ deleted' = deleted \cup {id}
  /\ deletes' = deletes + 1
  /\ UNCHANGED <<created, rest, cuc, edit, pending, issued, accepted, replaced,
                 computes, stops>>

\* The notification EVENT_STREAM_COMPUTATION_REQUESTED is sent; it reaches
\* the CUC only if that process is subscribed.
Compute(w) ==
  /\ rest[w].pc = "idle" /\ computes < MaxComputes
  /\ computes' = computes + 1
  /\ pending' = IF cuc.pc = "down" THEN pending ELSE pending + 1
  /\ UNCHANGED <<streams, created, rest, cuc, edit, issued, accepted, deleted,
                 replaced, deletes, stops>>

(***************************************************************************)
(* The CUC.  seen: id |-> place, the list as it was when it was read;      *)
(* posted: the streams in the POST body, as <<id, request token>>;         *)
(* holes: entries of the body that were never initialised.                 *)
(***************************************************************************)
CucIdle == [pc |-> "idle"]
CucDown == [pc |-> "down"]
CucListed(seen) == [pc |-> "listed", seen |-> seen]
CucPosted(posted, holes) == [pc |-> "posted", posted |-> posted, holes |-> holes]
CucWriting(results) == [pc |-> "writing", results |-> results]

Held == DOMAIN edit

\* What the CUC reads: its own refused edit lies over the datastore.
View(id) == IF id \in Held
            THEN [streams[id] EXCEPT !.config = edit[id], !.configured = TRUE]
            ELSE streams[id]

\* EVENT_STREAM_COMPUTATION_REQUESTED is delivered: streams_get_all(.., 1)
\* lists the streams.
CucTake ==
  /\ cuc.pc = "idle" /\ pending > 0
  /\ pending' = pending - 1
  /\ cuc' = CucListed([id \in Used \cup Held |-> PlaceOf(id)])
  /\ UNCHANGED <<streams, created, rest, edit, issued, accepted, deleted,
                 replaced, deletes, computes, stops>>

\* Mutant of Index: the index counts from 1.
IndexFromOne(seen, id) == Cardinality({i \in DOMAIN seen : seen[i] <= seen[id]})

\* The index of id in the list that was read, from 0.
Index(seen, id) == Cardinality({i \in DOMAIN seen : seen[i] < seen[id]})

Unconfigured(seen) == {id \in DOMAIN seen : ~View(id).configured}

\* _read_streams keeps an unconfigured stream at its index in the WHOLE list
\* but counts only the kept ones: the caller's loop stops at that count.
Kept(seen) == {id \in Unconfigured(seen) :
                 Index(seen, id) < Cardinality(Unconfigured(seen))}

\* Each listed stream is read.  Nothing is posted when one cannot be read or
\* when all are configured.
CucRead ==
  LET seen == cuc.seen
      ok == \A id \in DOMAIN seen : id \in Used /\ Readable(View(id))
  IN
  /\ cuc.pc = "listed"
  /\ cuc' = IF ok /\ Unconfigured(seen) # {}
            THEN CucPosted({<<id, streams[id].request>> : id \in Kept(seen)},
                   Cardinality(Unconfigured(seen)) - Cardinality(Kept(seen)))
            ELSE CucIdle
  /\ UNCHANGED <<streams, created, rest, edit, pending, issued, accepted,
                 deleted, replaced, deletes, computes, stops>>

\* The CNC returns every posted stream with a configuration.  What becomes of
\* an uninitialised entry is undefined: it is skipped here, makes the exchange
\* fail (CncFail), or ends the process (CucStop).
CncAnswer ==
  /\ cuc.pc = "posted"
  /\ cuc' = IF cuc.posted = {} THEN CucIdle ELSE CucWriting(cuc.posted)
  /\ UNCHANGED <<streams, created, rest, edit, pending, issued, accepted,
                 deleted, replaced, deletes, computes, stops>>

\* Mutant of CncFail: a failed computation is started again at once.
CncFailRetry ==
  /\ cuc.pc = "posted"
  /\ cuc' = CucListed([id \in Used \cup Held |-> PlaceOf(id)])
  /\ UNCHANGED <<streams, created, rest, edit, pending, issued, accepted,
                 deleted, replaced, deletes, computes, stops>>

\* The HTTP request fails, or its answer has no body: EVENT_ERROR or nothing.
CncFail ==
  /\ cuc.pc = "posted"
  /\ cuc' = CucIdle
  /\ UNCHANGED <<streams, created, rest, edit, pending, issued, accepted,
                 deleted, replaced, deletes, computes, stops>>

CucDone(r) == cuc' = IF cuc.results = {r} THEN CucIdle
                     ELSE CucWriting(cuc.results \ {r})

\* The edit of the session, with the configuration of r put over it.
Edited(r) == [id \in Held \cup {r[1]} |-> IF id = r[1] THEN r[2] ELSE edit[id]]

\* The streams, with all the configurations of edit e written.
Configured(e) ==
  [id \in Used |->
     IF id \in DOMAIN e
     THEN [streams[id] EXCEPT !.config = e[id], !.configured = TRUE]
     ELSE streams[id]]

\* sr_apply_changes: the whole edit of the session is committed when every
\* stream in it has its request, else it is refused and stays.
Commit(e) ==
  IF DOMAIN e \subseteq Used
  THEN streams' = Configured(e) /\ edit' = [id \in {} |-> 0]
  ELSE edit' = e /\ UNCHANGED streams

\* Mutants of CucWrite: the configuration of another entry of the answer is
\* taken; the flag is set without the configuration.
CucWriteOther ==
  /\ cuc.pc = "writing"
  /\ \E r, other \in cuc.results : Commit(Edited(<<r[1], other[2]>>)) /\ CucDone(r)
  /\ UNCHANGED <<created, rest, pending, issued, accepted, deleted, replaced,
                 deletes, computes, stops>>
CucWriteFlagOnly ==
  /\ cuc.pc = "writing"
  /\ \E r \in cuc.results : Commit(Edited(<<r[1], NoConfig>>)) /\ CucDone(r)
  /\ UNCHANGED <<created, rest, pending, issued, accepted, deleted, replaced,
                 deletes, computes, stops>>

\* stream_set_computed for one stream of the answer, its own transaction.  The
\* stream is not checked to exist; a refusal is printed and the loop goes on.
CucWrite ==
  /\ cuc.pc = "writing"
  /\ \E r \in cuc.results : Commit(Edited(r)) /\ CucDone(r)
  /\ UNCHANGED <<created, rest, pending, issued, accepted, deleted, replaced,
                 deletes, computes, stops>>

\* The process ends: it is killed, or dereferences an uninitialised entry.
\* Notifications it has not handled are lost, and so is the session's edit.
CucStop ==
  /\ cuc.pc # "down" /\ stops < MaxStops
  /\ stops' = stops + 1
  /\ cuc' = CucDown
  /\ pending' = 0 /\ edit' = [id \in {} |-> 0]
  /\ UNCHANGED <<streams, created, rest, issued, accepted, deleted, replaced,
                 deletes, computes>>

CucStart ==
  /\ cuc.pc = "down"
  /\ cuc' = CucIdle
  /\ UNCHANGED <<streams, created, rest, edit, pending, issued, accepted,
                 deleted, replaced, deletes, computes, stops>>

(***************************************************************************)
(* Specification                                                           *)
(***************************************************************************)
Init ==
  /\ streams = [id \in {} |-> 0] /\ created = 0
  /\ rest = [w \in Workers |-> Idle]
  /\ cuc = CucIdle /\ edit = [id \in {} |-> 0] /\ pending = 0
  /\ issued = 0 /\ accepted = [t \in {} |-> 0]
  /\ deleted = {} /\ replaced = {}
  /\ deletes = 0 /\ computes = 0 /\ stops = 0

CucStep == CucTake \/ CucRead \/ CncAnswer \/ CncFail \/ CucWrite

Next ==
  \/ \E w \in Workers :
       \/ \E m \in Macs : RequestList(w, m)
       \/ RequestRead(w)
       \/ RequestWrite(w)
       \/ \E id \in Used : Delete(w, id)
       \/ Compute(w)
  \/ CucStep
  \/ CucStop
  \/ CucStart

Spec == Init /\ [][Next]_vars

\* The subscription thread of a running CUC keeps going.  The CNC owes nothing:
\* the request is sent without a timeout, so an exchange may never end.  Users
\* owe nothing either.
FairSpec == Spec /\ WF_vars(CucTake \/ CucRead \/ CucWrite)

(***************************************************************************)
(* Properties                                                              *)
(***************************************************************************)
StoreType ==
  /\ Used \subseteq StreamId /\ \A id \in Used : streams[id] \in Stream
  /\ created \in Nat

RestType ==
  /\ issued \in Nat /\ DOMAIN rest = Workers
  /\ \A w \in Workers :
       /\ rest[w].pc \in {"idle", "listed", "ready"}
       /\ rest[w].pc # "idle" =>
            /\ rest[w].mac \in Macs /\ rest[w].token \in 1..issued
            /\ rest[w].seen \subseteq StreamId

CucType ==
  /\ pending \in Nat
  /\ Held \subseteq StreamId /\ \A id \in Held : edit[id] \in 1..issued
  /\ cuc.pc \in {"down", "idle", "listed", "posted", "writing"}
  /\ cuc.pc = "listed" => DOMAIN cuc.seen \subseteq StreamId
  /\ cuc.pc = "posted" => cuc.posted \subseteq StreamId \X (1..issued)
  /\ cuc.pc = "writing" => cuc.results \subseteq StreamId \X (1..issued)

HistoryType ==
  /\ DOMAIN accepted \subseteq 1..issued
  /\ \A t \in DOMAIN accepted : accepted[t] \in StreamId
  /\ deleted \subseteq StreamId /\ replaced \subseteq StreamId

\* Every variable stays in its range; in particular bodies and results only
\* carry requests that were submitted, and the store only streams whose id has
\* the form talker:number with a positive number.  For that the stored
\* requests must be known too.
TypeOK == StoreType /\ RestType /\ CucType /\ HistoryType
          /\ \A id \in Used : streams[id].request \in 0..issued

\* As long as no stream of a talker was ever deleted, the numbers in use for
\* that talker are 1..n, whatever requests, computations, failures and
\* restarts of the CUC were interleaved (_generate_stream_id counts).
Numbers(ids, m) == {id[2] : id \in OfMac(ids, m)}
Dense(ids, m) == Numbers(ids, m) = 1..Cardinality(OfMac(ids, m))
DenseNumbers == \A m \in Macs : OfMac(deleted, m) = {} => Dense(Used, m)

\* A request is written over another stream only in two ways: a stream of the
\* same talker was deleted some time before, or the other stream appeared
\* after this request had listed the streams (sysrepo_write_stream_request).
ReplaceOnlyAfterDeleteOrRace ==
  [][\A w \in Workers :
       RequestWrite(w) /\ NewId(rest[w]) \in Used
         => \/ OfMac(deleted, rest[w].mac) # {}
            \/ NewId(rest[w]) \notin rest[w].seen]_vars

\* What the client was told stays true: an accepted request is in the
\* datastore under the returned id until that stream is deleted or a later
\* request is written over it.
AcceptedIsStored ==
  \A t \in DOMAIN accepted :
    accepted[t] \notin deleted \cup replaced =>
      accepted[t] \in Used /\ streams[accepted[t]].request = t

\* A stream marked configured carries the configuration computed for its own
\* request, although the CUC writes it long after it read the request, unless
\* the stream was deleted or replaced at some time (cnc_compute_requests).
ConfigurationFitsRequest ==
  \A id \in Used :
    streams[id].configured /\ id \notin deleted \cup replaced =>
      streams[id].config = streams[id].request

\* No stream is ever stored that cannot be read (it would make every later
\* listing fail); and the CUC can get stuck, its session holding back the
\* configurations it computes, only after the configuration of a deleted
\* stream was written (sysrepo_write_stream_configuration).
StuckOnlyAfterDelete ==
  /\ \A id \in Used : Readable(streams[id])
  /\ Held # {} => Held \cap deleted # {}

\* The body posted to the CNC is complete and has no uninitialised entry
\* exactly when, in the list that was read, no configured stream stands
\* before an unconfigured one (the index of the copy in _read_streams).
PostCompleteIffConfiguredLast ==
  [][CucRead /\ cuc'.pc = "posted" =>
       LET un == Unconfigured(cuc.seen)
           full == cuc'.holes = 0 /\ {p[1] : p \in cuc'.posted} = un
           last == \A i \in un, j \in DOMAIN cuc.seen \ un :
                     cuc.seen[i] < cuc.seen[j]
       IN full <=> last]_vars

\* Every computation notification that reaches the CUC is worked off: the
\* subscription thread comes back to an empty queue, however reading, the CNC
\* or the writing of results fails, or the process ends.  The one thing that
\* keeps it is an exchange with the CNC that never ends: it holds the thread
\* for good, and all notifications behind it (_get_response_from_cnc).
PendingServed ==
  (pending > 0 \/ cuc.pc \in {"listed", "posted", "writing"})
    ~> \/ pending = 0 /\ cuc.pc \in {"idle", "down"}
       \/ [](cuc.pc = "posted")

\* Documented (ieee802-dot1q-tsn-types.yang): a stream id identifies one stream;
\* no two requests are given the same id, unless the first one's was deleted.
StreamIdsUnique ==
  \A t1, t2 \in DOMAIN accepted :
    t1 # t2 /\ accepted[t1] = accepted[t2] => accepted[t1] \in deleted
============================================================================
