----------------------- MODULE StreamLifecycle_proofs -----------------------
(***************************************************************************)
(* Proofs about StreamLifecycle, for every set of talkers and threads and  *)
(* every value of the bounds.                                              *)
(***************************************************************************)
EXTENDS StreamLifecycle, FiniteSetTheorems, WellFoundedInduction, TLAPS

(***************************************************************************)
(* Helpers                                                                 *)
(***************************************************************************)

\* Writing an entry keeps the list well typed.
LEMMA PutType ==
  ASSUME NEW id \in StreamId, NEW s \in Stream, TypeOK, streams' = Put(id, s)
  PROVE  Used' = Used \cup {id} /\ Used' \subseteq StreamId
         /\ \A i \in Used' : streams'[i] \in Stream
  BY DEF Put, Used, TypeOK, StoreType

\* The number _generate_stream_id chooses is a positive number.
LEMMA NewIdType ==
  ASSUME NEW w \in Workers, TypeOK, rest[w].pc # "idle",
         IsFiniteSet(rest[w].seen)
  PROVE  NewId(rest[w]) \in StreamId
<1>1. IsFiniteSet(OfMac(rest[w].seen, rest[w].mac))
  BY FS_Subset DEF OfMac
<1>2. Cardinality(OfMac(rest[w].seen, rest[w].mac)) \in Nat
  BY <1>1, FS_CardinalityType
<1> QED  BY <1>2 DEF NewId, NextNumber, StreamId, TypeOK, RestType

\* A commit of the CUC keeps the list of streams; it either writes what the
\* edit holds, and leaves no edit, or writes nothing and leaves the edit.
LEMMA CommitEffect ==
  ASSUME NEW e, Commit(e), \A id \in Used : streams[id] \in Stream,
         \A id \in DOMAIN e : e[id] \in Nat
  PROVE  /\ Used' = Used
         /\ \A id \in Used :
              \/ streams'[id] = streams[id]
              \/ /\ id \in DOMAIN e /\ streams'[id] \in Stream
                 /\ streams'[id].request = streams[id].request
                 /\ streams'[id].config = e[id]
         /\ \/ Held' = {}
            \/ edit' = e /\ streams' = streams /\ ~(DOMAIN e \subseteq Used)
<1>1. CASE DOMAIN e \subseteq Used
  <2>1. streams' = Configured(e) /\ Held' = {}
    BY <1>1 DEF Commit, Held
  <2>2. /\ Used' = Used
        /\ \A id \in Used : streams'[id] = IF id \in DOMAIN e
             THEN [streams[id] EXCEPT !.config = e[id], !.configured = TRUE]
             ELSE streams[id]
    BY <2>1 DEF Configured, Used
  <2>3. \A id \in Used \cap DOMAIN e :
          /\ streams'[id] \in Stream /\ streams'[id].config = e[id]
          /\ streams'[id].request = streams[id].request
    BY <2>2 DEF Stream
  <2> QED  BY <2>1, <2>2, <2>3
<1>2. CASE ~(DOMAIN e \subseteq Used)
  BY <1>2 DEF Commit, Used
<1> QED  BY <1>1, <1>2

(***************************************************************************)
(* Type correctness, with the finiteness of what the threads have read     *)
(***************************************************************************)
Finite ==
  /\ IsFiniteSet(Used)
  /\ \A w \in Workers : rest[w].pc # "idle" => IsFiniteSet(rest[w].seen)

TypeInv == TypeOK /\ Finite

\* The datastore is empty at first, and all that is listed is finite.
LEMMA InitType == Init => TypeInv
  BY FS_EmptySet DEF Init, TypeInv, TypeOK, StoreType, RestType, CucType,
    HistoryType, Finite, Used, Held, Idle, CucIdle

\* Every step, of a REST thread or of the CUC, keeps the types.
LEMMA NextType == TypeInv /\ [Next]_vars => TypeInv'
<1> SUFFICES ASSUME TypeInv, [Next]_vars PROVE TypeInv'
  OBVIOUS
<1> USE DEF TypeInv, TypeOK, StoreType, RestType, CucType, HistoryType, Held
<1>1. ASSUME NEW w \in Workers, NEW m \in Macs, RequestList(w, m) PROVE TypeInv'
  BY <1>1 DEF RequestList, Finite, Used, Listed
<1>2. ASSUME NEW w \in Workers, RequestRead(w) PROVE TypeInv'
  BY <1>2 DEF RequestRead, Finite, Used, Ready, Idle
<1>3. ASSUME NEW w \in Workers, RequestWrite(w) PROVE TypeInv'
  <2> DEFINE r == rest[w]
             id == NewId(r)
             old == IF id \in Used THEN streams[id].config ELSE NoConfig
             s == [request |-> r.token, config |-> old, configured |-> FALSE,
                   place |-> PlaceOf(id)]
  <2>1. r.pc = "ready" /\ id \in StreamId
    BY <1>3, NewIdType DEF RequestWrite, Finite
  <2>2. s \in Stream
    BY <2>1 DEF Stream, PlaceOf, NoConfig
  <2>3. streams' = Put(id, s)
    BY <1>3 DEF RequestWrite
  <2>4. Used' = Used \cup {id} /\ Used' \subseteq StreamId
        /\ \A i \in Used' : streams'[i] \in Stream
    BY <2>1, <2>2, <2>3, PutType
  <2>5. TypeOK'
    <3>0. created' \in Nat
      BY <1>3 DEF RequestWrite, CreatedAfter
    <3>1. StoreType'
      BY <2>4, <3>0
    <3>2. RestType'
      BY <1>3 DEF RequestWrite, Idle
    <3>3. CucType'
      BY <1>3 DEF RequestWrite
    <3>4. HistoryType'
      BY <1>3, <2>1 DEF RequestWrite
    <3>5. \A i \in Used' : streams'[i].request \in 0..issued'
      BY <1>3, <2>1, <2>3, <2>4 DEF RequestWrite, Put, Used
    <3> QED  BY <3>1, <3>2, <3>3, <3>4, <3>5
  <2>6. Finite'
    BY <1>3, <2>4, FS_AddElement DEF RequestWrite, Finite, Idle
  <2> QED  BY <2>5, <2>6
<1>4. ASSUME NEW w \in Workers, NEW id \in Used, Delete(w, id) PROVE TypeInv'
  <2>1. Used' = Used \ {id} /\ \A i \in Used' : streams'[i] = streams[i]
    BY <1>4 DEF Delete, Used
  <2>2. TypeOK'
    BY <1>4, <2>1 DEF Delete
  <2>3. Finite'
    BY <1>4, <2>1, FS_RemoveElement DEF Delete, Finite
  <2> QED  BY <2>2, <2>3
<1>5. ASSUME NEW w \in Workers, Compute(w) PROVE TypeInv'
  BY <1>5 DEF Compute, Finite, Used
<1>6. CASE CucTake
  BY <1>6 DEF CucTake, Finite, Used, CucListed
<1>7. CASE CucRead
  BY <1>7 DEF CucRead, Finite, Used, CucPosted, CucIdle, Readable,
    NoRequest, Kept, Unconfigured, Stream, View
<1>8. CASE CncAnswer
  BY <1>8 DEF CncAnswer, Finite, Used, CucWriting, CucIdle
<1>9. CASE CncFail
  BY <1>9 DEF CncFail, Finite, Used, CucIdle
<1>10. CASE CucWrite
  <2>1. PICK r \in cuc.results : Commit(Edited(r)) /\ CucDone(r)
    BY <1>10 DEF CucWrite
  <2>2. r \in StreamId \X (1..issued)
    BY <1>10, <2>1 DEF CucWrite
  <2>3. /\ DOMAIN Edited(r) \subseteq StreamId
        /\ \A id \in DOMAIN Edited(r) : Edited(r)[id] \in 1..issued
    BY <2>2 DEF Edited
  <2>4. /\ Used' = Used
        /\ \A id \in Used : /\ streams'[id] \in Stream
                            /\ streams'[id].request = streams[id].request
        /\ DOMAIN edit' = {} \/ edit' = Edited(r)
    BY <2>1, <2>3, CommitEffect
  <2>5. StoreType' /\ RestType' /\ HistoryType'
    BY <1>10, <2>4 DEF CucWrite
  <2>6. CucType'
    BY <1>10, <2>1, <2>3, <2>4 DEF CucWrite, CucDone, CucIdle, CucWriting
  <2>7. \A id \in Used' : streams'[id].request \in 0..issued'
    BY <1>10, <2>4 DEF CucWrite
  <2>8. Finite'
    BY <1>10, <2>4 DEF CucWrite, Finite
  <2> QED  BY <2>5, <2>6, <2>7, <2>8
<1>11. CASE CucStop
  BY <1>11 DEF CucStop, Finite, Used, CucDown
<1>12. CASE CucStart
  BY <1>12 DEF CucStart, Finite, Used, CucIdle
<1>13. CASE UNCHANGED vars
  BY <1>13 DEF vars, Finite, Used
<1> QED
  BY <1>1, <1>2, <1>3, <1>4, <1>5, <1>6, <1>7, <1>8, <1>9, <1>10, <1>11, <1>12,
     <1>13 DEF Next, CucStep

\* Every variable of StreamLifecycle stays in its range.
THEOREM TypeCorrect == Spec => []TypeOK
<1>1. TypeInv => TypeOK
  BY DEF TypeInv
<1> QED  BY <1>1, InitType, NextType, PTL DEF Spec

(***************************************************************************)
(* Accepted requests, configurations and readability.                      *)
(*                                                                         *)
(* The facts hold together: that a configuration fits the request of its   *)
(* stream follows from what is known of the answers the CUC has not        *)
(* written yet and of the edit its session holds back, and so does what    *)
(* makes a commit of the CUC refused.                                      *)
(***************************************************************************)
InFlight == IF cuc.pc = "posted" THEN cuc.posted
            ELSE IF cuc.pc = "writing" THEN cuc.results ELSE {}

InFlightKnown ==
  \A p \in InFlight :
    /\ p[1] \in Used \cup deleted
    /\ p[1] \notin deleted \cup replaced => streams[p[1]].request = p[2]

HeldKnown ==
  \A id \in Held :
    /\ id \in Used \cup deleted
    /\ id \notin deleted \cup replaced => streams[id].request = edit[id]

FitInv == /\ InFlightKnown /\ HeldKnown /\ AcceptedIsStored
          /\ ConfigurationFitsRequest /\ StuckOnlyAfterDelete

\* With no stream and no answer under way the facts hold.
LEMMA InitFit == Init => FitInv
  BY DEF Init, FitInv, InFlightKnown, InFlight, AcceptedIsStored, CucIdle,
    HeldKnown, Held, ConfigurationFitsRequest, StuckOnlyAfterDelete, Used

\* Steps that leave the store and the histories alone and bring no new result.
LEMMA KeepFit ==
  ASSUME FitInv, UNCHANGED <<streams, accepted, deleted, replaced>>,
         InFlight' \subseteq InFlight, edit' = edit \/ DOMAIN edit' = {}
  PROVE  FitInv'
<1>1. HeldKnown' /\ StuckOnlyAfterDelete'
  BY DEF FitInv, HeldKnown, StuckOnlyAfterDelete, Held, Used, Readable
<1> QED  BY <1>1 DEF FitInv, InFlightKnown, AcceptedIsStored,
           ConfigurationFitsRequest, Used

\* No step of a REST thread or of the CUC breaks one of the facts.
LEMMA NextFit == TypeInv /\ FitInv /\ [Next]_vars => FitInv'
<1> SUFFICES ASSUME TypeInv, FitInv, [Next]_vars PROVE FitInv'
  OBVIOUS
<1>1. ASSUME NEW w \in Workers, NEW m \in Macs, RequestList(w, m) PROVE FitInv'
  BY <1>1, KeepFit DEF RequestList, InFlight
<1>2. ASSUME NEW w \in Workers, RequestRead(w) PROVE FitInv'
  BY <1>2, KeepFit DEF RequestRead, InFlight
<1>3. ASSUME NEW w \in Workers, RequestWrite(w) PROVE FitInv'
  <2> DEFINE r == rest[w]
             id == NewId(r)
  <2>1. /\ Used' = Used \cup {id} /\ id \in Used'
        /\ \A i \in Used : i # id => streams'[i] = streams[i]
        /\ streams'[id].request = r.token /\ streams'[id].configured = FALSE
    BY <1>3 DEF RequestWrite, Put, Used
  <2>2. /\ id \in Used => replaced' = replaced \cup {id}
        /\ id \notin Used => replaced' = replaced
        /\ deleted' = deleted /\ cuc' = cuc /\ edit' = edit
        /\ DOMAIN accepted' = DOMAIN accepted \cup {r.token}
        /\ accepted'[r.token] = id
        /\ \A t \in DOMAIN accepted : t # r.token => accepted'[t] = accepted[t]
    BY <1>3 DEF RequestWrite
  <2>3. r.token # NoRequest
    BY <1>3 DEF RequestWrite, TypeInv, TypeOK, RestType, NoRequest
  <2>4. InFlightKnown'
    BY <2>1, <2>2 DEF FitInv, InFlightKnown, InFlight
  <2>5. AcceptedIsStored'
    BY <2>1, <2>2 DEF FitInv, AcceptedIsStored
  <2>6. ConfigurationFitsRequest'
    BY <2>1, <2>2 DEF FitInv, ConfigurationFitsRequest
  <2>7. StuckOnlyAfterDelete'
    BY <2>1, <2>2, <2>3 DEF FitInv, StuckOnlyAfterDelete, Readable, Held
  <2>8. HeldKnown'
    BY <2>1, <2>2 DEF FitInv, HeldKnown, Held
  <2> QED  BY <2>4, <2>5, <2>6, <2>7, <2>8 DEF FitInv
<1>4. ASSUME NEW w \in Workers, NEW id \in Used, Delete(w, id) PROVE FitInv'
  <2>1. /\ Used' = Used \ {id} /\ \A i \in Used' : streams'[i] = streams[i]
        /\ deleted' = deleted \cup {id}
        /\ UNCHANGED <<accepted, replaced, cuc, edit>>
    BY <1>4 DEF Delete, Used
  <2>2. HeldKnown' /\ StuckOnlyAfterDelete'
    BY <2>1 DEF FitInv, HeldKnown, StuckOnlyAfterDelete, Held, Readable
  <2> QED  BY <2>1, <2>2 DEF FitInv, InFlightKnown, InFlight, AcceptedIsStored,
             ConfigurationFitsRequest
<1>5. ASSUME NEW w \in Workers, Compute(w) PROVE FitInv'
  BY <1>5, KeepFit DEF Compute, InFlight
<1>6. CASE CucTake
  BY <1>6, KeepFit DEF CucTake, CucListed, InFlight
<1>7. CASE CucRead
  <2>1. \A p \in InFlight' : p[1] \in Used /\ streams[p[1]].request = p[2]
    BY <1>7 DEF CucRead, InFlight, CucPosted, CucIdle, Kept, Unconfigured
  <2>2. HeldKnown' /\ StuckOnlyAfterDelete'
    BY <1>7 DEF CucRead, FitInv, HeldKnown, StuckOnlyAfterDelete, Held, Used, Readable
  <2> QED  BY <1>7, <2>1, <2>2 DEF CucRead, FitInv, InFlightKnown,
             AcceptedIsStored, ConfigurationFitsRequest, Used
<1>8. CASE CncAnswer
  BY <1>8, KeepFit DEF CncAnswer, CucWriting, CucIdle, InFlight
<1>9. CASE CncFail
  BY <1>9, KeepFit DEF CncFail, CucIdle, InFlight
<1>10. CASE CucWrite
  <2>1. PICK r \in cuc.results : Commit(Edited(r)) /\ CucDone(r)
    BY <1>10 DEF CucWrite
  <2> DEFINE e == Edited(r)
  <2>2. /\ UNCHANGED <<accepted, deleted, replaced>>
        /\ InFlight' \subseteq InFlight /\ r \in InFlight
    BY <1>10, <2>1 DEF CucWrite, CucDone, InFlight, CucIdle, CucWriting
  <2>3. \A id \in DOMAIN e :
          /\ e[id] \in 1..issued /\ id \in Used \cup deleted
          /\ id \notin deleted \cup replaced => streams[id].request = e[id]
    <3>1. r[2] \in 1..issued
      BY <1>10, <2>1 DEF CucWrite, TypeInv, TypeOK, CucType
    <3>2. /\ r[1] \in Used \cup deleted
          /\ r[1] \notin deleted \cup replaced => streams[r[1]].request = r[2]
      BY <2>2 DEF FitInv, InFlightKnown
    <3> QED  BY <3>1, <3>2 DEF Edited, Held, HeldKnown, FitInv, TypeInv, TypeOK,
               CucType
  <2>4. /\ Used' = Used
        /\ \A id \in Used :
             \/ streams'[id] = streams[id]
             \/ /\ id \in DOMAIN e
                /\ streams'[id].request = streams[id].request
                /\ streams'[id].config = e[id]
        /\ \/ Held' = {}
           \/ edit' = e /\ streams' = streams /\ ~(DOMAIN e \subseteq Used)
    <3>1. \A id \in DOMAIN e : e[id] \in Nat
      BY <2>3 DEF TypeInv, TypeOK, RestType
    <3> QED  BY <2>1, <3>1, CommitEffect DEF TypeInv, TypeOK, StoreType
  <2>5. InFlightKnown'
    BY <2>2, <2>4 DEF FitInv, InFlightKnown
  <2>6. AcceptedIsStored'
    BY <2>2, <2>4 DEF FitInv, AcceptedIsStored
  <2>7. ConfigurationFitsRequest'
    BY <2>2, <2>3, <2>4 DEF FitInv, ConfigurationFitsRequest
  <2>8. StuckOnlyAfterDelete'
    BY <2>2, <2>3, <2>4 DEF FitInv, StuckOnlyAfterDelete, Readable, NoConfig, Held
  <2>9. HeldKnown'
    BY <2>2, <2>3, <2>4 DEF HeldKnown, Held
  <2> QED  BY <2>5, <2>6, <2>7, <2>8, <2>9 DEF FitInv
<1>11. CASE CucStop
  BY <1>11, KeepFit DEF CucStop, CucDown, InFlight
<1>12. CASE CucStart
  BY <1>12, KeepFit DEF CucStart, CucIdle, InFlight
<1>13. CASE UNCHANGED vars
  BY <1>13, KeepFit DEF vars, InFlight
<1> QED
  BY <1>1, <1>2, <1>3, <1>4, <1>5, <1>6, <1>7, <1>8, <1>9, <1>10, <1>11, <1>12,
     <1>13 DEF Next, CucStep

\* An accepted request stays stored under the id returned to the client until
\* that stream is deleted or replaced.
THEOREM AcceptedStaysStored == Spec => []AcceptedIsStored
<1>1. FitInv => AcceptedIsStored
  BY DEF FitInv
<1> QED  BY <1>1, InitType, InitFit, NextType, NextFit, PTL DEF Spec

\* The configuration of a stream never deleted nor replaced was computed for
\* the request the stream holds.
THEOREM ConfigurationsFit == Spec => []ConfigurationFitsRequest
<1>1. FitInv => ConfigurationFitsRequest
  BY DEF FitInv
<1> QED  BY <1>1, InitType, InitFit, NextType, NextFit, PTL DEF Spec

\* Every stored stream can be read, and only the late configuration of a
\* deleted stream makes the session of the CUC hold back what it computes.
THEOREM StuckNeedsDelete == Spec => []StuckOnlyAfterDelete
<1>1. FitInv => StuckOnlyAfterDelete
  BY DEF FitInv
<1> QED  BY <1>1, InitType, InitFit, NextType, NextFit, PTL DEF Spec

(***************************************************************************)
(* The numbers of a talker's streams.                                      *)
(*                                                                         *)
(* DenseNumbers is not inductive: the number a thread is about to use was  *)
(* computed from what it has read.  DenseInv adds that this, too, is a     *)
(* dense part of the streams in use.                                       *)
(***************************************************************************)
DenseInv ==
  \A m \in Macs : OfMac(deleted, m) = {} =>
    /\ Dense(Used, m)
    /\ \A w \in Workers :
         rest[w].pc # "idle" /\ rest[w].mac = m =>
           Dense(rest[w].seen, m) /\ OfMac(rest[w].seen, m) \subseteq Used

\* What _generate_stream_id counts is a natural number.
LEMMA CountType ==
  ASSUME NEW S, IsFiniteSet(S), NEW m
  PROVE  IsFiniteSet(OfMac(S, m)) /\ Cardinality(OfMac(S, m)) \in Nat
  BY FS_Subset, FS_CardinalityType DEF OfMac

\* Adding the number after some dense part of a dense set keeps it dense.
LEMMA DenseAdd ==
  ASSUME NEW m \in Macs, NEW S \in SUBSET StreamId, NEW T, IsFiniteSet(S),
         IsFiniteSet(T), Dense(S, m), OfMac(T, m) \subseteq S
  PROVE  Dense(S \cup {<<m, NextNumber(T, m)>>}, m)
<1> DEFINE c == Cardinality(OfMac(S, m))
           n == NextNumber(T, m)
           U == S \cup {<<m, n>>}
<1>1. c \in Nat /\ n \in Nat /\ n >= 1 /\ IsFiniteSet(OfMac(S, m))
  BY CountType DEF NextNumber
<1>2. n <= c + 1
  <2>1. OfMac(T, m) \in SUBSET OfMac(S, m)
    BY DEF OfMac
  <2>2. Cardinality(OfMac(T, m)) <= c /\ Cardinality(OfMac(T, m)) \in Nat
    BY <1>1, <2>1, FS_Subset, CountType
  <2> QED  BY <1>1, <2>2 DEF NextNumber
<1>3. OfMac(U, m) = OfMac(S, m) \cup {<<m, n>>}
  BY DEF OfMac
<1>4. Numbers(U, m) = Numbers(S, m) \cup {n}
  <2>1. <<m, n>>[2] = n
    OBVIOUS
  <2> HIDE DEF n, U
  <2>2. \A x : x \in Numbers(U, m) <=> x \in Numbers(S, m) \/ x = n
    BY <1>3, <2>1 DEF Numbers
  <2> QED  BY <2>2
<1>5. CASE n <= c
  <2>1. n \in Numbers(S, m)
    BY <1>1, <1>5 DEF Dense
  <2>2. PICK id \in OfMac(S, m) : id[2] = n
    BY <2>1 DEF Numbers
  <2>3. id = <<m, n>>
    BY <2>2 DEF OfMac, StreamId
  <2>4. OfMac(U, m) = OfMac(S, m)
    BY <1>3, <2>2, <2>3
  <2> QED  BY <2>4 DEF Dense, Numbers
<1>6. CASE n = c + 1
  <2>1. n \notin Numbers(S, m)
    BY <1>1, <1>6 DEF Dense
  <2>2. <<m, n>> \notin OfMac(S, m)
    BY <2>1 DEF Numbers
  <2>3. Cardinality(OfMac(U, m)) = c + 1
    BY <1>1, <1>3, <2>2, FS_AddElement
  <2>4. Numbers(U, m) = (1..c) \cup {c + 1}
    BY <1>4, <1>6 DEF Dense
  <2>5. (1..c) \cup {c + 1} = 1..(c + 1)
    BY <1>1
  <2> QED  BY <2>3, <2>4, <2>5 DEF Dense
<1> QED  BY <1>1, <1>2, <1>5, <1>6

\* The next number is not among the streams it was computed from.
LEMMA NextIsNew ==
  ASSUME NEW m, NEW T, IsFiniteSet(T), Dense(T, m)
  PROVE  <<m, NextNumber(T, m)>> \notin T
<1>1. Cardinality(OfMac(T, m)) \in Nat
  BY CountType
<1>2. NextNumber(T, m) \notin Numbers(T, m)
  BY <1>1 DEF NextNumber, Dense
<1> QED  BY <1>2 DEF Numbers, OfMac

\* No number is in use at first.
LEMMA InitDense == Init => DenseInv
<1>1. \A m : OfMac({}, m) = {} /\ Numbers({}, m) = {}
  BY DEF OfMac, Numbers
<1>2. \A m : Dense({}, m)
  <2>1. 1..0 = {}
    OBVIOUS
  <2> QED  BY <1>1, <2>1, FS_EmptySet DEF Dense
<1>3. Init => Used = {} /\ \A w \in Workers : rest[w].pc = "idle"
  BY DEF Init, Used, Idle
<1> QED  BY <1>2, <1>3 DEF DenseInv

\* Steps that leave the store alone and list nothing.
LEMMA KeepDense ==
  ASSUME DenseInv, Used' = Used, deleted' = deleted,
         \A w \in Workers : rest'[w].pc # "idle" =>
           /\ rest[w].pc # "idle"
           /\ rest'[w].mac = rest[w].mac /\ rest'[w].seen = rest[w].seen
  PROVE  DenseInv'
  BY DEF DenseInv, Dense, OfMac, Numbers

\* No step leaves a gap in the numbers, but after a deletion.
LEMMA NextDense == TypeInv /\ FitInv /\ DenseInv /\ [Next]_vars => DenseInv'
<1> SUFFICES ASSUME TypeInv, FitInv, DenseInv, [Next]_vars PROVE DenseInv'
  OBVIOUS
<1>1. ASSUME NEW w \in Workers, NEW m \in Macs, RequestList(w, m) PROVE DenseInv'
  BY <1>1 DEF RequestList, DenseInv, Listed, Used, OfMac, Dense, Numbers, TypeInv,
    TypeOK, RestType
<1>2. ASSUME NEW w \in Workers, RequestRead(w) PROVE DenseInv'
  BY <1>2, KeepDense DEF RequestRead, Ready, Idle, Used, TypeInv, TypeOK, RestType
<1>3. ASSUME NEW w \in Workers, RequestWrite(w) PROVE DenseInv'
  <2> DEFINE r == rest[w]
             id == NewId(r)
  <2>1. r.pc = "ready" /\ r.mac \in Macs /\ Used' = Used \cup {id}
        /\ deleted' = deleted /\ id = <<r.mac, NextNumber(r.seen, r.mac)>>
    BY <1>3 DEF RequestWrite, Put, Used, NewId, TypeInv, TypeOK, RestType
  <2>2. \A v \in Workers : rest'[v].pc # "idle" => rest'[v] = rest[v]
    BY <1>3 DEF RequestWrite, Idle, TypeInv, TypeOK, RestType
  <2> SUFFICES ASSUME NEW m \in Macs, OfMac(deleted, m) = {}
               PROVE  /\ Dense(Used', m)
                      /\ \A v \in Workers :
                           rest'[v].pc # "idle" /\ rest'[v].mac = m =>
                             Dense(rest'[v].seen, m)
                             /\ OfMac(rest'[v].seen, m) \subseteq Used'
    BY <2>1 DEF DenseInv, OfMac, Dense, Numbers
  <2>3. ASSUME m = r.mac PROVE Dense(Used', m)
    <3>1. Dense(Used, m) /\ OfMac(r.seen, m) \subseteq Used
      BY <2>1, <2>3 DEF DenseInv
    <3>2. IsFiniteSet(Used) /\ IsFiniteSet(r.seen) /\ Used \in SUBSET StreamId
      BY <2>1 DEF TypeInv, TypeOK, StoreType, Finite
    <3>3. Used' = Used \cup {<<m, NextNumber(r.seen, m)>>}
      BY <2>1, <2>3
    <3> QED  BY <3>1, <3>2, <3>3, DenseAdd
  <2>4. ASSUME m # r.mac PROVE Dense(Used', m)
    <3>1. OfMac(Used', m) = OfMac(Used, m)
      BY <2>1, <2>4 DEF OfMac
    <3> QED  BY <3>1 DEF DenseInv, Dense, Numbers
  <2>5. Dense(Used', m)
    BY <2>3, <2>4
  <2> QED  BY <2>1, <2>2, <2>5 DEF DenseInv
<1>4. ASSUME NEW w \in Workers, NEW id \in Used, Delete(w, id) PROVE DenseInv'
  <2>1. Used' = Used \ {id} /\ deleted' = deleted \cup {id} /\ rest' = rest
    BY <1>4 DEF Delete, Used
  <2> SUFFICES ASSUME NEW m \in Macs, OfMac(deleted', m) = {}
               PROVE  /\ Dense(Used', m)
                      /\ \A v \in Workers :
                           rest[v].pc # "idle" /\ rest[v].mac = m =>
                             Dense(rest[v].seen, m)
                             /\ OfMac(rest[v].seen, m) \subseteq Used'
    BY <2>1 DEF DenseInv, OfMac, Dense, Numbers
  <2>2. OfMac(deleted, m) = {} /\ id[1] # m
    BY <2>1 DEF OfMac
  <2>3. OfMac(Used', m) = OfMac(Used, m)
    BY <2>1, <2>2 DEF OfMac
  <2> QED  BY <2>1, <2>2, <2>3 DEF DenseInv, Dense, Numbers, OfMac
<1>5. ASSUME NEW w \in Workers, Compute(w) PROVE DenseInv'
  BY <1>5, KeepDense DEF Compute, Used
<1>6. CASE CucTake
  BY <1>6, KeepDense DEF CucTake, Used
<1>7. CASE CucRead
  BY <1>7, KeepDense DEF CucRead, Used
<1>8. CASE CncAnswer
  BY <1>8, KeepDense DEF CncAnswer, Used, CucIdle, CucWriting
<1>9. CASE CncFail
  BY <1>9, KeepDense DEF CncFail, Used
<1>10. CASE CucWrite
  BY <1>10, KeepDense DEF CucWrite, Commit, Configured, Used
<1>11. CASE CucStop
  BY <1>11, KeepDense DEF CucStop, Used
<1>12. CASE CucStart
  BY <1>12, KeepDense DEF CucStart, Used
<1>13. CASE UNCHANGED vars
  BY <1>13, KeepDense DEF vars, Used
<1> QED
  BY <1>1, <1>2, <1>3, <1>4, <1>5, <1>6, <1>7, <1>8, <1>9, <1>10, <1>11, <1>12,
     <1>13 DEF Next, CucStep

\* The numbers in use for a talker none of whose streams was deleted are 1..n.
THEOREM NumbersStayDense == Spec => []DenseNumbers
<1>1. DenseInv => DenseNumbers
  BY DEF DenseInv, DenseNumbers
<1> QED
  BY <1>1, InitType, InitFit, InitDense, NextType, NextFit, NextDense, PTL DEF Spec

\* A request is written over another stream only after a deletion for the
\* same talker, or when the other stream appeared after the listing.
THEOREM ReplaceNeedsDeleteOrRace == Spec => ReplaceOnlyAfterDeleteOrRace
<1> DEFINE P == \A w \in Workers :
                  RequestWrite(w) /\ NewId(rest[w]) \in Used
                    => \/ OfMac(deleted, rest[w].mac) # {}
                       \/ NewId(rest[w]) \notin rest[w].seen
<1>1. TypeInv /\ DenseInv => P
  BY NextIsNew DEF TypeInv, TypeOK, RestType, Finite, DenseInv, NewId, RequestWrite
<1> QED
  BY <1>1, InitType, InitFit, InitDense, NextType, NextFit, NextDense, PTL
  DEF Spec, ReplaceOnlyAfterDeleteOrRace

(***************************************************************************)
(* The body posted to the CNC.                                             *)
(*                                                                         *)
(* The streams have different places in the list.  So have those that the  *)
(* CUC has listed, but for streams that were not in the datastore and only *)
(* in its own refused edit: these stand at the end and count as configured.*)
(***************************************************************************)
SeenInv(seen) ==
  /\ IsFiniteSet(DOMAIN seen)
  /\ \A i \in DOMAIN seen : seen[i] \in 0..created
  /\ \A i \in DOMAIN seen \ Held, j \in DOMAIN seen : seen[i] = seen[j] => i = j

PlaceInv ==
  /\ \A i \in Used : streams[i].place < created
  /\ \A i, j \in Used : streams[i].place = streams[j].place => i = j
  /\ IsFiniteSet(Held)
  /\ cuc.pc = "listed" => SeenInv(cuc.seen)

\* A bounded set of numbers has a highest one.
LEMMA HighestExists ==
  ASSUME NEW S \in SUBSET Nat, S # {}, NEW b \in Nat, \A i \in S : i <= b
  PROVE  \E h \in S : \A i \in S : i <= h
<1> DEFINE T == {n \in Nat : \A i \in S : i <= n}
<1>1. T \subseteq Nat /\ T # {}
  OBVIOUS
<1>2. \E x \in T : \A y \in T : ~(<<y, x>> \in OpToRel(<, Nat))
  BY <1>1, NatLessThanWellFounded, WFMin
<1>3. PICK x \in T : \A y \in T : ~(y < x)
  BY <1>2 DEF OpToRel
<1>4. \E i \in S : i >= x
  <2>1. CASE x = 0
    <3>1. PICK i \in S : i \in Nat
      OBVIOUS
    <3> QED  BY <2>1, <3>1
  <2>2. CASE x # 0
    <3>1. x - 1 \in Nat /\ x - 1 < x
      BY <2>2
    <3>2. x - 1 \notin T
      BY <3>1, <1>3
    <3> QED  BY <3>1, <3>2
  <2> QED  BY <2>1, <2>2
<1> QED  BY <1>3, <1>4

\* No more than n entries are read, and each of n unconfigured ones is among the
\* first n of the list, just when these n come first.
LEMMA KeptAll ==
  ASSUME NEW seen, NEW un \in SUBSET DOMAIN seen, IsFiniteSet(DOMAIN seen),
         NEW b \in Nat, \A i \in DOMAIN seen : seen[i] \in 0..b,
         \A i \in un, j \in DOMAIN seen : seen[i] = seen[j] => i = j
  PROVE  (\A i \in un : Index(seen, i) < Cardinality(un))
           <=> \A i \in un, j \in DOMAIN seen \ un : seen[i] < seen[j]
<1> DEFINE Before(id) == {i \in DOMAIN seen : seen[i] < seen[id]}
<1>1. IsFiniteSet(un) /\ Cardinality(un) \in Nat
  BY FS_Subset, FS_CardinalityType
<1>2. \A id : IsFiniteSet(Before(id)) /\ Cardinality(Before(id)) \in Nat
  BY FS_Subset, FS_CardinalityType
<1>3. ASSUME \A i \in un, j \in DOMAIN seen \ un : seen[i] < seen[j], NEW id \in un
      PROVE  Index(seen, id) < Cardinality(un)
  <2>1. Before(id) \subseteq un \ {id}
    BY <1>3
  <2>2. /\ IsFiniteSet(un \ {id})
        /\ Cardinality(un \ {id}) = Cardinality(un) - 1
    BY <1>1, <1>3, FS_RemoveElement
  <2>3. Cardinality(Before(id)) <= Cardinality(un \ {id})
    BY <2>1, <2>2, FS_Subset
  <2> QED  BY <1>1, <1>2, <2>2, <2>3 DEF Index
<1>4. ASSUME \A i \in un : Index(seen, i) < Cardinality(un),
             NEW i \in un, NEW j \in DOMAIN seen \ un, ~(seen[i] < seen[j])
      PROVE  FALSE
  <2>1. seen[j] < seen[i]
    <3>1. seen[i] \in 0..b /\ seen[j] \in 0..b /\ seen[i] # seen[j]
      BY <1>4
    <3> QED  BY <3>1, <1>4
  <2>2. \E h \in {seen[k] : k \in un} : \A x \in {seen[k] : k \in un} : x <= h
    <3>1. {seen[k] : k \in un} \in SUBSET Nat /\ {seen[k] : k \in un} # {}
      BY <1>4
    <3>2. \A x \in {seen[k] : k \in un} : x <= b
      OBVIOUS
    <3> QED  BY <3>1, <3>2, HighestExists
  <2>3. PICK m \in un : \A k \in un : seen[k] <= seen[m]
    BY <2>2
  <2>4. \A k \in un \ {m} : seen[k] < seen[m]
    BY <2>3
  <2>5. seen[j] < seen[m]
    <3>1. seen[i] \in 0..b /\ seen[j] \in 0..b /\ seen[m] \in 0..b /\ seen[i] <= seen[m]
      BY <1>4, <2>3
    <3> QED  BY <2>1, <3>1
  <2>6. (un \ {m}) \cup {j} \subseteq Before(m)
    BY <2>4, <2>5
  <2>7. Cardinality((un \ {m}) \cup {j}) = Cardinality(un)
    <3>1. IsFiniteSet(un \ {m}) /\ Cardinality(un \ {m}) = Cardinality(un) - 1
      BY <1>1, FS_RemoveElement
    <3>2. j \notin un \ {m}
      BY <1>4
    <3>3. Cardinality((un \ {m}) \cup {j}) = Cardinality(un) - 1 + 1
      BY <3>1, <3>2, FS_AddElement
    <3> QED  BY <1>1, <3>3
  <2>8. Cardinality(un) <= Cardinality(Before(m))
    <3>1. (un \ {m}) \cup {j} \in SUBSET Before(m)
      BY <2>6
    <3> HIDE DEF Before
    <3>2. Cardinality((un \ {m}) \cup {j}) <= Cardinality(Before(m))
      BY <1>2, <3>1, FS_Subset
    <3> QED  BY <2>7, <3>2
  <2>9. Index(seen, m) = Cardinality(Before(m))
    BY DEF Index
  <2>10. Index(seen, m) < Cardinality(un)
    BY <1>4
  <2> HIDE DEF Before
  <2> QED  BY <1>1, <1>2, <2>8, <2>9, <2>10
<1> QED  BY <1>3, <1>4

\* What the CUC reads in a list whose places differ is posted whole just when
\* the configured streams come last.
LEMMA ReadPosts ==
  ASSUME TypeInv, PlaceInv, CucRead, cuc'.pc = "posted"
  PROVE  LET un == Unconfigured(cuc.seen)
             full == cuc'.holes = 0 /\ {p[1] : p \in cuc'.posted} = un
             last == \A i \in un, j \in DOMAIN cuc.seen \ un :
                       cuc.seen[i] < cuc.seen[j]
         IN full <=> last
<1> DEFINE seen == cuc.seen
           un == Unconfigured(seen)
           kept == Kept(seen)
<1>1. /\ cuc.pc = "listed" /\ \A id \in DOMAIN seen : id \in Used
      /\ cuc' = CucPosted({<<id, streams[id].request>> : id \in kept},
                          Cardinality(un) - Cardinality(kept))
  BY DEF CucRead, CucIdle
<1>2. cuc'.holes = Cardinality(un) - Cardinality(kept)
  BY <1>1 DEF CucPosted
<1>3. {p[1] : p \in cuc'.posted} = kept
  <2>1. cuc'.posted = {<<id, streams[id].request>> : id \in kept}
    BY <1>1 DEF CucPosted
  <2> HIDE DEF kept
  <2>2. ASSUME NEW p \in cuc'.posted PROVE p[1] \in kept
    BY <2>1
  <2>3. ASSUME NEW x \in kept PROVE \E p \in cuc'.posted : x = p[1]
    <3>1. <<x, streams[x].request>> \in cuc'.posted
      BY <2>1, <2>3
    <3>2. <<x, streams[x].request>>[1] = x
      OBVIOUS
    <3> QED  BY <3>1, <3>2
  <2> QED  BY <2>2, <2>3
<1>4. SeenInv(seen)
  BY <1>1 DEF PlaceInv
<1>5. un \subseteq DOMAIN seen \ Held
  BY <1>1 DEF Unconfigured, View, TypeInv, TypeOK, StoreType, Stream
<1>6. created \in Nat /\ un \in SUBSET DOMAIN seen
  BY <1>5 DEF TypeInv, TypeOK, StoreType
<1> HIDE DEF seen
<1>7. kept = {id \in un : Index(seen, id) < Cardinality(un)}
  BY DEF Kept
<1>8. (\A i \in un : Index(seen, i) < Cardinality(un))
        <=> \A i \in un, j \in DOMAIN seen \ un : seen[i] < seen[j]
  <2> HIDE DEF un
  <2> QED  BY <1>4, <1>5, <1>6, KeptAll DEF SeenInv
<1>9. kept = un <=> \A i \in un : Index(seen, i) < Cardinality(un)
  <2> HIDE DEF un, kept
  <2> QED  BY <1>7
<1>10. kept = un => cuc'.holes = 0
  <2>1. Cardinality(un) \in Nat
    BY <1>4, <1>6, FS_Subset, FS_CardinalityType DEF SeenInv
  <2> HIDE DEF un, kept
  <2> QED  BY <1>2, <2>1
<1> QED
  <2> HIDE DEF kept
  <2> QED  BY <1>3, <1>8, <1>9, <1>10 DEF seen

\* Streams that keep their places or go, and a list that is kept.
LEMMA PlacesStay ==
  ASSUME TypeInv, PlaceInv, created' = created, Used' \subseteq Used,
         \A i \in Used' : streams'[i].place = streams[i].place,
         edit' = edit \/ DOMAIN edit' = {},
         cuc'.pc = "listed" => UNCHANGED <<cuc, edit>>
  PROVE  PlaceInv'
<1>1. IsFiniteSet(Held')
  BY FS_EmptySet DEF PlaceInv, Held
<1>2. \A i \in Used' : streams'[i].place < created'
  BY DEF PlaceInv
<1>3. \A i, j \in Used' : streams'[i].place = streams'[j].place => i = j
  BY DEF PlaceInv
<1>4. cuc'.pc = "listed" => SeenInv(cuc.seen)'
  BY DEF PlaceInv, SeenInv, Held
<1> QED  BY <1>1, <1>2, <1>3, <1>4 DEF PlaceInv

\* Nothing is stored or listed at first.
LEMMA InitPlace == Init => PlaceInv
  BY FS_EmptySet DEF Init, PlaceInv, Used, Held, CucIdle

\* A new stream takes the next place, and no other step moves one.
LEMMA NextPlace == TypeInv /\ PlaceInv /\ [Next]_vars => PlaceInv'
<1> SUFFICES ASSUME TypeInv, PlaceInv, [Next]_vars PROVE PlaceInv'
  OBVIOUS
<1>1. ASSUME NEW w \in Workers, NEW m \in Macs, RequestList(w, m) PROVE PlaceInv'
  BY <1>1, PlacesStay DEF RequestList, Used
<1>2. ASSUME NEW w \in Workers, RequestRead(w) PROVE PlaceInv'
  BY <1>2, PlacesStay DEF RequestRead, Used
<1>3. ASSUME NEW w \in Workers, RequestWrite(w) PROVE PlaceInv'
  <2> DEFINE id == NewId(rest[w])
  <2>1. /\ Used' = Used \cup {id} /\ UNCHANGED <<cuc, edit>>
        /\ \A i \in Used : i # id => streams'[i].place = streams[i].place
        /\ streams'[id].place = IF id \in Used THEN streams[id].place ELSE created
        /\ created' = IF id \in Used THEN created ELSE created + 1
    BY <1>3 DEF RequestWrite, Put, Used, PlaceOf, CreatedAfter
  <2> HIDE DEF id
  <2>2. created \in Nat /\ \A i \in Used : streams[i].place \in Nat
    BY DEF TypeInv, TypeOK, StoreType, Stream
  <2>3. CASE id \in Used
    <3>1. Used' = Used /\ created' = created /\ \A i \in Used : streams'[i].place = streams[i].place
      BY <2>1, <2>3
    <3> QED  BY <2>1, <3>1, PlacesStay
  <2>4. CASE id \notin Used
    <3>1. \A i \in Used : streams'[i].place = streams[i].place
      BY <2>1, <2>4
    <3>2. streams'[id].place = created /\ created' = created + 1
      BY <2>1, <2>4
    <3>3. \A i \in Used' : streams'[i].place < created'
      BY <2>1, <2>2, <3>1, <3>2 DEF PlaceInv
    <3>4. \A i, j \in Used' : streams'[i].place = streams'[j].place => i = j
      <4>1. \A i \in Used : streams'[i].place < streams'[id].place
        BY <3>1, <3>2 DEF PlaceInv
      <4>2. \A i \in Used : streams'[i].place # streams'[id].place
        BY <2>2, <3>1, <3>2, <4>1
      <4> QED  BY <2>1, <3>1, <4>2 DEF PlaceInv
    <3>5. cuc.pc = "listed" => SeenInv(cuc.seen)'
      <4> SUFFICES ASSUME SeenInv(cuc.seen) PROVE SeenInv(cuc.seen)'
        BY DEF PlaceInv
      <4>1. 0..created \subseteq 0..created'
        BY <2>2, <3>2
      <4> QED  BY <2>1, <4>1 DEF SeenInv, Held
    <3> QED  BY <2>1, <3>3, <3>4, <3>5 DEF PlaceInv, Held
  <2> QED  BY <2>3, <2>4
<1>4. ASSUME NEW w \in Workers, NEW id \in Used, Delete(w, id) PROVE PlaceInv'
  <2>1. Used' \subseteq Used /\ \A i \in Used' : streams'[i] = streams[i]
    BY <1>4 DEF Delete, Used
  <2> QED  BY <1>4, <2>1, PlacesStay DEF Delete
<1>5. ASSUME NEW w \in Workers, Compute(w) PROVE PlaceInv'
  BY <1>5, PlacesStay DEF Compute, Used
<1>6. CASE CucTake
  <2> DEFINE seen == [id \in Used \cup Held |-> PlaceOf(id)]
  <2>1. cuc'.seen = seen /\ UNCHANGED <<streams, created, edit>>
    BY <1>6 DEF CucTake, CucListed
  <2>2. IsFiniteSet(Used \cup Held)
    BY FS_Union DEF PlaceInv, TypeInv, Finite
  <2>3. created \in Nat /\ \A i \in Used : streams[i].place \in 0..created
    BY DEF TypeInv, TypeOK, StoreType, Stream, PlaceInv
  <2>4. \A i \in Used \cup Held : seen[i] = IF i \in Used THEN streams[i].place ELSE created
    BY DEF PlaceOf
  <2>5. \A i \in Used \cup Held : seen[i] \in 0..created
    <3>1. created \in 0..created
      BY <2>3
    <3> HIDE DEF seen
    <3> QED  BY <2>3, <2>4, <3>1
  <2>6. \A i \in (Used \cup Held) \ Held, j \in Used \cup Held : seen[i] = seen[j] => i = j
    <3>1. \A i \in Used : seen[i] < created
      BY <2>4 DEF PlaceInv
    <3>2. \A i \in Used : seen[i] # created
      BY <2>3, <2>4, <3>1
    <3> QED  BY <2>4, <3>2 DEF PlaceInv
  <2>7. DOMAIN seen = Used \cup Held
    OBVIOUS
  <2> HIDE DEF seen
  <2>8. SeenInv(seen)
    BY <2>2, <2>5, <2>6, <2>7 DEF SeenInv
  <2> QED  BY <2>1, <2>8 DEF PlaceInv, SeenInv, Held, Used
<1>7. CASE CucRead
  BY <1>7, PlacesStay DEF CucRead, Used, CucPosted, CucIdle
<1>8. CASE CncAnswer
  BY <1>8, PlacesStay DEF CncAnswer, Used, CucIdle, CucWriting
<1>9. CASE CncFail
  BY <1>9, PlacesStay DEF CncFail, Used, CucIdle
<1>10. CASE CucWrite
  <2>1. PICK r \in cuc.results : Commit(Edited(r)) /\ CucDone(r)
    BY <1>10 DEF CucWrite
  <2> DEFINE e == Edited(r)
  <2>2. cuc'.pc # "listed" /\ created' = created
    BY <1>10, <2>1 DEF CucWrite, CucDone, CucIdle, CucWriting
  <2>3. Used' = Used /\ \A i \in Used : streams'[i].place = streams[i].place
    BY <2>1 DEF Commit, Configured, Used, TypeInv, TypeOK, StoreType, Stream
  <2>4. edit' = e \/ DOMAIN edit' = {}
    BY <2>1 DEF Commit
  <2>5. IsFiniteSet(DOMAIN e)
    BY FS_AddElement DEF Edited, PlaceInv
  <2>6. IsFiniteSet(Held')
    BY <2>4, <2>5, FS_EmptySet DEF Held
  <2> QED  BY <2>2, <2>3, <2>6 DEF PlaceInv
<1>11. CASE CucStop
  BY <1>11, PlacesStay DEF CucStop, Used, CucDown
<1>12. CASE CucStart
  BY <1>12, PlacesStay DEF CucStart, Used, CucIdle
<1>13. CASE UNCHANGED vars
  BY <1>13, PlacesStay DEF vars, Used
<1> QED
  BY <1>1, <1>2, <1>3, <1>4, <1>5, <1>6, <1>7, <1>8, <1>9, <1>10, <1>11, <1>12,
     <1>13 DEF Next, CucStep

\* The body posted to the CNC is whole and without uninitialised entries just
\* when no configured stream stands before an unconfigured one in the list.
THEOREM PostsCompleteJustThen == Spec => PostCompleteIffConfiguredLast
<1>1. TypeInv /\ PlaceInv => (CucRead /\ cuc'.pc = "posted" =>
         LET un == Unconfigured(cuc.seen)
             full == cuc'.holes = 0 /\ {p[1] : p \in cuc'.posted} = un
             last == \A i \in un, j \in DOMAIN cuc.seen \ un :
                       cuc.seen[i] < cuc.seen[j]
         IN full <=> last)
  BY ReadPosts
<1> QED
  BY <1>1, InitType, InitPlace, NextType, NextPlace, PTL
  DEF Spec, PostCompleteIffConfiguredLast
=============================================================================
