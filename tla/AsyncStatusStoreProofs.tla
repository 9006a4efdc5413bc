------------------------ MODULE AsyncStatusStoreProofs ------------------------
(***************************************************************************)
(* Proofs about AsyncStatusStore, for every set of keys and every bound.   *)
(*                                                                         *)
(* The base of both theorems is StoreInv: every update there is, wherever  *)
(* it is by now, disables its key and has an id that tells it apart from   *)
(* other updates of the key; and Replace never loses sight of the records  *)
(* of the updates it carries.  FlushInv adds how an update relates to the  *)
(* record it is for: unless it was reported for a version the record did   *)
(* not have (foreign), it was made with a version the record has had, or   *)
(* the record is gone or has been added anew, which only a call that is    *)
(* about to clear the update can have done.                                *)
(***************************************************************************)
EXTENDS AsyncStatusStore, TLAPS

\* The updates the worker has taken from the map.
Taken == batch \cup ({cur} \ {NoUpdate})

\* All updates that are waiting, being written or carried by Replace.
Known == Pending \cup Taken \cup carried

\* Every one of them disables a key, for a version that can be followed by
\* another one, and has an id that was given out.
UpdatesOK ==
  \A u \in Known : u.status = "disabled_auto" /\ u.expected < MaxVersion /\ u.id <= nextID

\* An update waits under its own key, and the update that waits under the key of
\* one the worker has taken is that one if their ids agree.
PendingOK ==
  /\ \A k \in Keys : pending[k] # NoUpdate => pending[k].key = k
  /\ \A u \in Taken : pending[u.key] # NoUpdate /\ pending[u.key].id = u.id => pending[u.key] = u

ReplaceSteps == {"list", "snapshot", "replace", "reconcile", "append", "relist", "requeue"}

\* The worker settles an update, and Replace has an id left to requeue with.
StepsOK ==
  /\ wpc = "settle" => cur # NoUpdate
  /\ call # NoCall /\ call.step \in ReplaceSteps => nextID < MaxUpdates

\* Only a disabled record reaches the last version.
ActiveOK ==
  \A records \in {rec, listed} : \A k \in Keys :
    records[k] # NoRecord /\ IsActiveStatus(records[k].status)
      => records[k].version = 1 \/ records[k].version < MaxVersion

\* From its last read of the records on, Replace knows a record for every update
\* it carries, and the worker alone changes it.
CarriedOK ==
  call # NoCall =>
    \A u \in carried :
      /\ call.step = "append" /\ listed[u.key] # NoRecord => rec[u.key] # NoRecord
      /\ call.step = "relist" => rec[u.key] # NoRecord
      /\ call.step = "requeue" =>
           /\ listed[u.key] # NoRecord /\ rec[u.key] # NoRecord
           /\ listed[u.key].version <= rec[u.key].version
           /\ rec[u.key] = listed[u.key] \/ ~IsActiveStatus(rec[u.key].status)

StoreInv == TypeOK /\ UpdatesOK /\ PendingOK /\ StepsOK /\ ActiveOK /\ CarriedOK

\* Replace has added the record of an update it carries again.
Readded(k) ==
  call # NoCall /\ call.step \in {"relist", "requeue"} /\ \E u \in carried : u.key = k

\* An update that is not foreign waits for a record that is gone only while the
\* call that removed the record has not cleared it yet.
GoneOK ==
  \A k \in Keys \ foreign : pending[k] # NoUpdate /\ rec[k] = NoRecord =>
    /\ call # NoCall
    /\ \/ call.step = "clear" /\ k \in call.keys
       \/ call.step \in {"reconcile", "append", "relist", "requeue"}

\* An update that is not foreign waits for a version its record has or had.
ReachedOK ==
  \A k \in Keys \ foreign : pending[k] # NoUpdate /\ rec[k] # NoRecord =>
    pending[k].expected <= rec[k].version \/ Readded(k)

\* When the worker settles an update that is still waiting, its record has moved on.
AppliedOK ==
  wpc = "settle" /\ pending[cur.key] = cur /\ rec[cur.key] # NoRecord /\ cur.key \notin foreign =>
    cur.expected < rec[cur.key].version \/ Readded(cur.key)

FlushInv == GoneOK /\ ReachedOK /\ AppliedOK

-----------------------------------------------------------------------------
(***************************************************************************)
(* What the operations of the base store do to one record.                 *)
(***************************************************************************)

LEMMA RecordFacts ==
  ASSUME NEW records \in Stores, NEW k \in Keys, records[k] # NoRecord
  PROVE  /\ records[k] \in Records /\ records[k].version \in Nat /\ records[k].version >= 1
         /\ records[k].version <= MaxVersion /\ records[k].status \in Statuses
<1>1. records[k] \in Records
  BY DEF Stores
<1> QED BY <1>1, RecordConstants DEF Records, Versions

\* setStatus: one record gets the next version.
LEMMA SetRecordFacts ==
  ASSUME NEW records \in Stores, NEW k \in Keys, NEW status \in Statuses,
         records[k] # NoRecord, records[k].version < MaxVersion
  PROVE  LET after == SetRecordStatus(records, k, status) IN
         /\ after \in Stores
         /\ after[k] # NoRecord /\ after[k].version = records[k].version + 1 /\ after[k].status = status
         /\ \A j \in Keys : j # k => after[j] = records[j]
<1> DEFINE new == [version |-> records[k].version + 1, status |-> status]
<1>1. records[k].version \in Nat /\ records[k].version >= 1 /\ MaxVersion \in Nat
  BY RecordFacts, RecordConstants
<1>2. new \in Records /\ new # NoRecord /\ new.version = records[k].version + 1 /\ new.status = status
  BY <1>1, RecordConstants DEF Records, Versions
<1>3. SetRecordStatus(records, k, status) = [records EXCEPT ![k] = new]
  BY DEF SetRecordStatus, nextRecordVersion
<1> HIDE DEF new
<1> QED BY <1>2, <1>3 DEF Stores

LEMMA NewRecordFacts ==
  NewRecord \in Records /\ NewRecord # NoRecord /\ NewRecord.version = 1 /\ NewRecord.status = "active"
BY RecordConstants DEF NewRecord, Records, Versions, Statuses

LEMMA DeleteFacts ==
  ASSUME NEW records \in Stores, NEW keys \in SUBSET Keys
  PROVE  /\ DeleteRecords(records, keys) \in Stores
         /\ \A k \in Keys : DeleteRecords(records, keys)[k] = IF k \in keys THEN NoRecord ELSE records[k]
BY DEF DeleteRecords, Stores

LEMMA AppendFacts ==
  ASSUME NEW records \in Stores, NEW keys
  PROVE  /\ AppendRecords(records, keys) \in Stores
         /\ \A k \in Keys : /\ records[k] # NoRecord => AppendRecords(records, keys)[k] = records[k]
                            /\ records[k] = NoRecord => AppendRecords(records, keys)[k] =
                                 IF k \in keys THEN NewRecord ELSE NoRecord
BY NewRecordFacts DEF AppendRecords, Stores

\* Replace: a record goes, stays, is new, or keeps its status with the next version.
LEMMA ReplaceFacts ==
  ASSUME NEW keys \in SUBSET Keys, rec \in Stores, Writable(keys)
  PROVE  /\ ReplaceRecords(rec, keys) \in Stores
         /\ \A k \in Keys :
              \/ ReplaceRecords(rec, keys)[k] \in {NoRecord, rec[k]}
              \/ rec[k] = NoRecord /\ ReplaceRecords(rec, keys)[k] = NewRecord
              \/ /\ rec[k] # NoRecord
                 /\ ReplaceRecords(rec, keys)[k].version = rec[k].version + 1
                 /\ rec[k].version + 1 < MaxVersion
<1>1. ASSUME NEW k \in keys, rec[k] # NoRecord
      PROVE  /\ Bumped(rec[k]) \in Records /\ Bumped(rec[k]).version = rec[k].version + 1
             /\ rec[k].version + 1 < MaxVersion
  <2>1. rec[k].version + 1 < MaxVersion
    BY <1>1 DEF Writable, nextRecordVersion
  <2>2. rec[k] \in Records /\ rec[k].version \in Nat /\ rec[k].version >= 1 /\ MaxVersion \in Nat
    BY <1>1, RecordFacts, RecordConstants
  <2>3. PICK r \in Records : r = rec[k]
    BY <2>2
  <2>4. [r EXCEPT !.version = r.version + 1] \in Records /\ [r EXCEPT !.version = r.version + 1].version = r.version + 1
    BY <2>1, <2>2, <2>3 DEF Records, Versions
  <2>5. Bumped(r) = [r EXCEPT !.version = r.version + 1]
    BY DEF Bumped, nextRecordVersion
  <2> QED BY <2>1, <2>3, <2>4, <2>5
<1>2. \A k \in Keys : ReplaceRecords(rec, keys)[k] =
        IF k \in keys THEN IF rec[k] = NoRecord THEN NewRecord ELSE Bumped(rec[k])
        ELSE IF Kept(rec[k]) THEN rec[k] ELSE NoRecord
  BY DEF ReplaceRecords
<1>3. \A k \in Keys : ReplaceRecords(rec, keys)[k] \in Records \cup {NoRecord}
  BY <1>1, <1>2, NewRecordFacts DEF Stores
<1>4. ReplaceRecords(rec, keys) \in Stores
  BY <1>3 DEF ReplaceRecords, Stores
<1> QED BY <1>1, <1>2, <1>4

-----------------------------------------------------------------------------
(***************************************************************************)
(* Every step keeps StoreInv.                                              *)
(***************************************************************************)

LEMMA UpdateFacts ==
  ASSUME NEW u \in Updates
  PROVE  /\ u # NoUpdate /\ u.key \in Keys /\ u.id \in Nat /\ u.id >= 1
         /\ u.expected \in Nat /\ u.expected >= 1 /\ u.status \in Statuses
BY StoreMarkers, StoreConstants, RecordConstants DEF Updates, Versions

LEMMA KnownFacts ==
  ASSUME TypeOK
  PROVE  /\ Known \subseteq Updates
         /\ \A k \in Keys : pending[k] # NoUpdate => pending[k] \in Pending
BY DEF TypeOK, Known, Taken, Pending

LEMMA CallFacts ==
  ASSUME TypeOK, call # NoCall
  PROVE  /\ call \in Calls /\ call.keys \in SUBSET Keys /\ call.status \in Statuses
         /\ \A step \in {"base", "clear", "list", "snapshot", "replace", "reconcile",
                         "append", "relist", "requeue", "ok", "err"} :
              Goto(step) => /\ call' \in Calls /\ call' # NoCall /\ call'.step = step
                            /\ call'.keys = call.keys
<1>1. call \in Calls
  BY DEF TypeOK
<1>2. PICK c \in Calls : c = call
  BY <1>1
<1>3. \A step \in {"base", "clear", "list", "snapshot", "replace", "reconcile",
                   "append", "relist", "requeue", "ok", "err"} :
        /\ [c EXCEPT !.step = step] \in Calls /\ [c EXCEPT !.step = step].step = step
        /\ [c EXCEPT !.step = step].keys = c.keys
  BY DEF Calls
<1>4. c.keys \in SUBSET Keys /\ c.status \in Statuses
  BY DEF Calls
<1>5. ASSUME NEW step \in {"base", "clear", "list", "snapshot", "replace", "reconcile",
                           "append", "relist", "requeue", "ok", "err"}, Goto(step)
      PROVE  /\ call' \in Calls /\ call' # NoCall /\ call'.step = step
             /\ call'.keys = call.keys
  <2>1. call' = [c EXCEPT !.step = step]
    BY <1>2, <1>5 DEF Goto
  <2> QED BY <1>2, <1>3, <2>1, StoreMarkers
<1> QED BY <1>1, <1>2, <1>4, <1>5

LEMMA StoreInitOK == Init => StoreInv
<1> SUFFICES ASSUME NEW records \in [Keys -> {NewRecord, NoRecord}], StoreInit(records) PROVE StoreInv
  BY DEF Init
<1>1. records \in Stores /\ [k \in Keys |-> NoRecord] \in Stores
  BY NewRecordFacts DEF Stores
<1>2. Known = {}
  BY DEF StoreInit, Known, Taken, Pending
<1>3. TypeOK
  <2>1. rec \in Stores /\ listed \in Stores
    BY <1>1 DEF StoreInit
  <2>2. pending \in [Keys -> Updates \cup {NoUpdate}] /\ nextID \in 0..MaxUpdates
    BY StoreConstants DEF StoreInit
  <2> QED BY <2>1, <2>2 DEF StoreInit, TypeOK
<1>4. UpdatesOK /\ PendingOK /\ StepsOK /\ CarriedOK
  BY <1>2 DEF StoreInit, UpdatesOK, PendingOK, StepsOK, CarriedOK, Known
<1>5. ActiveOK
  BY NewRecordFacts DEF StoreInit, ActiveOK
<1> QED BY <1>3, <1>4, <1>5 DEF StoreInv

\* A step of the worker or of Close that leaves the records, the updates and the
\* call alone.
LEMMA QuietKeeps ==
  ASSUME StoreInv, UNCHANGED <<rec, pending, nextID, batch, cur, callVars>>,
         CloseStore \/ WorkerWake \/ WorkerRetry \/ WorkerStop \/ WorkerFlushed \/ UNCHANGED storeVars
  PROVE  StoreInv'
<1>1. TypeOK'
  BY DEF StoreInv, TypeOK, CloseStore, WorkerWake, WorkerRetry, WorkerStop, WorkerFlushed, mapVars,
         workerVars, callVars, storeVars
<1>2. Known' = Known /\ Taken' = Taken /\ UNCHANGED <<rec, pending, nextID, call, listed, carried>>
  BY DEF Known, Taken, Pending, callVars
<1>3. wpc' = "settle" => wpc = "settle" /\ cur' = cur
  BY DEF CloseStore, WorkerWake, WorkerRetry, WorkerStop, WorkerFlushed, workerVars, storeVars
<1>4. UpdatesOK' /\ PendingOK' /\ StepsOK' /\ ActiveOK' /\ CarriedOK'
  BY <1>2, <1>3 DEF StoreInv, UpdatesOK, PendingOK, StepsOK, ActiveOK, CarriedOK
<1> QED BY <1>1, <1>4 DEF StoreInv

\* An update is accepted.
LEMMA AcceptKeeps ==
  ASSUME StoreInv, NEW k \in Keys, NEW v \in Versions, v < MaxVersion,
         SetStatusIfVersion(k, v, "disabled_auto")
  PROVE  StoreInv'
<1> DEFINE u == [id |-> nextID + 1, key |-> k, expected |-> v, status |-> "disabled_auto"]
<1>1. nextID \in Nat /\ nextID + 1 < MaxUpdates /\ nextID' = nextID + 1 /\ MaxUpdates \in Nat
  BY StoreConstants DEF SetStatusIfVersion, StoreInv, TypeOK
<1>2. /\ u \in Updates /\ u.id = nextID + 1 /\ u.key = k /\ u.expected = v /\ u.status = "disabled_auto"
  BY <1>1 DEF Updates, Statuses
<1>3. pending' = [pending EXCEPT ![k] = u]
  BY DEF SetStatusIfVersion
<1> HIDE DEF u
<1>4. /\ \A j \in Keys : pending'[j] = IF j = k THEN u ELSE pending[j]
      /\ pending' \in [Keys -> Updates \cup {NoUpdate}]
  BY <1>2, <1>3 DEF StoreInv, TypeOK
<1>5. /\ UNCHANGED <<rec, closed, timer, wpc, final, batch, cur, synced, call, listed, carried>> /\ wake' = TRUE
      /\ foreign' \subseteq Keys
  BY DEF SetStatusIfVersion, workerVars, callVars, StoreInv, TypeOK
<1>6. TypeOK'
  BY <1>1, <1>4, <1>5 DEF StoreInv, TypeOK
<1>7. Taken' = Taken /\ Known' \subseteq Known \cup {u}
  BY <1>4, <1>5 DEF Known, Taken, Pending
<1>8. \A w \in Known : w \in Updates /\ w.id <= nextID /\ w.id \in Nat /\ w.key \in Keys
  BY KnownFacts, UpdateFacts DEF StoreInv, UpdatesOK
<1>9. UpdatesOK'
  BY <1>1, <1>2, <1>7, <1>8 DEF StoreInv, UpdatesOK
<1>10. PendingOK'
  <2>1. \A j \in Keys : pending'[j] # NoUpdate => pending'[j].key = j
    BY <1>2, <1>4 DEF StoreInv, PendingOK
  <2>2. ASSUME NEW w \in Taken, pending'[w.key] # NoUpdate, pending'[w.key].id = w.id
        PROVE  pending'[w.key] = w
    <3>1. w \in Known
      BY DEF Known
    <3>2. w.key # k
      BY <1>1, <1>2, <1>4, <1>8, <2>2, <3>1
    <3> QED BY <1>4, <1>8, <2>2, <3>1, <3>2 DEF StoreInv, PendingOK
  <2> QED BY <1>7, <2>1, <2>2 DEF PendingOK
<1>11. StepsOK' /\ ActiveOK' /\ CarriedOK'
  BY <1>1, <1>5 DEF StoreInv, StepsOK, ActiveOK, CarriedOK
<1> QED BY <1>6, <1>9, <1>10, <1>11 DEF StoreInv

\* The worker takes what is waiting.
LEMMA SnapshotKeeps ==
  ASSUME StoreInv, WorkerSnapshot
  PROVE  StoreInv'
<1>1. /\ UNCHANGED <<rec, pending, nextID, closed, wake, foreign, timer, final, cur, call, listed, carried>>
      /\ batch' = Pending /\ synced' = TRUE /\ wpc' = "apply"
  BY DEF WorkerSnapshot, mapVars, callVars
<1>2. Pending \subseteq Updates
  BY KnownFacts DEF StoreInv, Known
<1>3. TypeOK'
  BY <1>1, <1>2 DEF StoreInv, TypeOK
<1>4. Known' \subseteq Known
  BY <1>1 DEF Known, Taken, Pending
<1>5. UpdatesOK'
  BY <1>1, <1>4 DEF StoreInv, UpdatesOK
<1>6. PendingOK'
  <2>1. ASSUME NEW u \in Pending PROVE pending[u.key] = u
    BY <2>1 DEF Pending, StoreInv, PendingOK
  <2> QED BY <1>1, <2>1 DEF StoreInv, PendingOK, Taken
<1>7. StepsOK' /\ ActiveOK' /\ CarriedOK'
  BY <1>1 DEF StoreInv, StepsOK, ActiveOK, CarriedOK
<1> QED BY <1>3, <1>5, <1>6, <1>7 DEF StoreInv

\* What writing an update does to the records: nothing, or the record of its key
\* has the version the update was made with and is disabled with the next one.
LEMMA ApplyEffect ==
  ASSUME StoreInv, NEW u \in batch, WorkerApply(u) \/ WorkerApplyFails(u)
  PROVE  /\ rec' \in Stores
         /\ \A k \in Keys :
              \/ rec'[k] = rec[k]
              \/ /\ k = u.key /\ rec[k] # NoRecord /\ rec[k].version = u.expected
                 /\ rec'[k] # NoRecord /\ rec'[k].version = rec[k].version + 1
                 /\ rec'[k].status = "disabled_auto"
<1>1. /\ u \in Updates /\ u.key \in Keys /\ u.expected < MaxVersion /\ u.status = "disabled_auto"
      /\ u.status \in Statuses
  BY KnownFacts, UpdateFacts DEF StoreInv, UpdatesOK, Known, Taken
<1>2. rec' = rec \/ (VersionMatches(rec, u.key, u.expected) /\ rec' = SetRecordStatus(rec, u.key, u.status))
  BY DEF WorkerApply, WorkerApplyFails
<1>3. CASE rec' = rec
  BY <1>3 DEF StoreInv, TypeOK
<1>4. CASE VersionMatches(rec, u.key, u.expected) /\ rec' = SetRecordStatus(rec, u.key, u.status)
  <2>1. rec \in Stores /\ rec[u.key] # NoRecord /\ rec[u.key].version = u.expected
    BY <1>4 DEF VersionMatches, StoreInv, TypeOK
  <2> QED BY <1>1, <1>4, <2>1, SetRecordFacts
<1> QED BY <1>2, <1>3, <1>4

\* The worker writes an update, is refused or fails.
LEMMA ApplyKeeps ==
  ASSUME StoreInv, NEW u \in batch, WorkerApply(u) \/ WorkerApplyFails(u)
  PROVE  StoreInv'
<1>1. /\ UNCHANGED <<pending, nextID, closed, wake, foreign, timer, final, call, listed, carried>>
      /\ batch' = batch \ {u} /\ u \in batch
      /\ cur' \in {cur, u} /\ wpc' \in {"apply", "settle"} /\ synced' \in BOOLEAN
      /\ wpc' = "settle" => cur' = u
  BY DEF WorkerApply, WorkerApplyFails, mapVars, callVars, StoreInv, TypeOK
<1>2. u \in Updates /\ u # NoUpdate /\ u.key \in Keys
  BY UpdateFacts DEF StoreInv, TypeOK
<1>3. TypeOK'
  BY <1>1, <1>2, ApplyEffect DEF StoreInv, TypeOK
<1>4. Known' \subseteq Known /\ Taken' \subseteq Taken
  BY <1>1, <1>2 DEF Known, Taken, Pending
<1>5. UpdatesOK' /\ PendingOK' /\ StepsOK'
  BY <1>1, <1>2, <1>4 DEF StoreInv, UpdatesOK, PendingOK, StepsOK
<1>6. ActiveOK'
  BY <1>1, ApplyEffect DEF StoreInv, ActiveOK, IsActiveStatus
<1>7. CarriedOK'
  <2> SUFFICES ASSUME call # NoCall, NEW w \in carried
               PROVE  /\ call.step = "append" /\ listed[w.key] # NoRecord => rec'[w.key] # NoRecord
                      /\ call.step = "relist" => rec'[w.key] # NoRecord
                      /\ call.step = "requeue" =>
                           /\ listed[w.key] # NoRecord /\ rec'[w.key] # NoRecord
                           /\ listed[w.key].version <= rec'[w.key].version
                           /\ rec'[w.key] = listed[w.key] \/ ~IsActiveStatus(rec'[w.key].status)
    BY <1>1 DEF CarriedOK
  <2>1. w.key \in Keys
    BY UpdateFacts DEF StoreInv, TypeOK
  <2>2. CASE rec'[w.key] = rec[w.key]
    BY <2>2 DEF StoreInv, CarriedOK
  <2>3. CASE /\ rec[w.key] # NoRecord /\ rec'[w.key] # NoRecord
             /\ rec'[w.key].version = rec[w.key].version + 1 /\ rec'[w.key].status = "disabled_auto"
    <3>1. rec[w.key].version \in Nat
      BY <2>1, <2>3, RecordFacts DEF StoreInv, TypeOK
    <3>2. call.step = "requeue" => listed[w.key] # NoRecord /\ listed[w.key].version <= rec[w.key].version
                                   /\ listed[w.key].version \in Nat
      BY <2>1, RecordFacts DEF StoreInv, CarriedOK, TypeOK
    <3> QED BY <2>3, <3>1, <3>2 DEF IsActiveStatus
  <2> QED BY <2>1, <2>2, <2>3, ApplyEffect
<1> QED BY <1>3, <1>5, <1>6, <1>7 DEF StoreInv

\* The settled update goes, unless another one took its place.
LEMMA SettleKeeps ==
  ASSUME StoreInv, WorkerSettle
  PROVE  /\ StoreInv'
         /\ \A k \in Keys : \/ pending'[k] = pending[k]
                            \/ k = cur.key /\ pending[k] = cur /\ pending'[k] = NoUpdate
<1>1. /\ wpc = "settle" /\ deletePendingIfMatch(cur) /\ cur' = NoUpdate /\ wpc' = "apply"
      /\ UNCHANGED <<rec, nextID, wake, closed, foreign, timer, final, batch, synced, call, listed, carried>>
  BY DEF WorkerSettle, callVars
<1>2. cur \in Updates /\ cur.key \in Keys /\ cur \in Taken
  BY <1>1, UpdateFacts DEF StoreInv, StepsOK, TypeOK, Taken
<1>3. \A k \in Keys : \/ pending'[k] = pending[k]
                      \/ k = cur.key /\ pending[k] = cur /\ pending'[k] = NoUpdate
  <2>1. \A k \in Keys : \/ pending'[k] = pending[k]
                        \/ k = cur.key /\ pending[k] # NoUpdate /\ pending[k].id = cur.id /\ pending'[k] = NoUpdate
    BY <1>1, <1>2 DEF deletePendingIfMatch, StoreInv, TypeOK
  <2> QED BY <1>2, <2>1 DEF StoreInv, PendingOK
<1>4. pending' \in [Keys -> Updates \cup {NoUpdate}]
  BY <1>1, <1>2 DEF deletePendingIfMatch, StoreInv, TypeOK
<1>5. TypeOK'
  BY <1>1, <1>4 DEF StoreInv, TypeOK
<1>6. Known' \subseteq Known /\ Taken' \subseteq Taken
  <2>1. Pending' \subseteq Pending
    BY <1>3 DEF Pending
  <2> QED BY <1>1, <2>1 DEF Known, Taken
<1>7. UpdatesOK'
  BY <1>1, <1>6 DEF StoreInv, UpdatesOK
<1>8. \A u \in Taken : u.key \in Keys
  BY KnownFacts, UpdateFacts DEF Known, StoreInv
<1>9. PendingOK'
  BY <1>3, <1>6, <1>8 DEF StoreInv, PendingOK
<1>10. StepsOK' /\ ActiveOK' /\ CarriedOK'
  BY <1>1 DEF StoreInv, StepsOK, ActiveOK, CarriedOK
<1> QED BY <1>3, <1>5, <1>7, <1>9, <1>10 DEF StoreInv

\* A step of a call that leaves the updates alone, or carries some of them.
LEMMA CallKeeps ==
  ASSUME StoreInv, UNCHANGED <<pending, nextID, batch, cur, wpc>>, carried' \subseteq Known,
         call' # NoCall /\ call'.step \in ReplaceSteps => nextID < MaxUpdates,
         TypeOK', ActiveOK', CarriedOK'
  PROVE  StoreInv'
<1>1. Taken' = Taken /\ Known' \subseteq Known
  BY DEF Known, Taken, Pending
<1>2. UpdatesOK' /\ PendingOK' /\ StepsOK'
  BY <1>1 DEF StoreInv, UpdatesOK, PendingOK, StepsOK
<1> QED BY <1>2 DEF StoreInv

\* A call begins, fails or returns.
LEMMA FrameKeeps ==
  ASSUME StoreInv,
         \/ \E op \in CallKinds, keys \in SUBSET Keys, status \in {"active", "disabled_manual"} :
              BeginCall(op, keys, status)
         \/ CallFails \/ SetStatusNotFound \/ EndCall
  PROVE  /\ StoreInv'
         /\ UNCHANGED <<rec, pending, nextID, foreign, batch, cur, wpc>>
         /\ call' # NoCall => call'.step \in {"base", "list", "err"}
<1>1. UNCHANGED <<rec, pending, nextID, wake, closed, foreign, timer, wpc, final, batch, cur, synced>>
  BY DEF BeginCall, CallFails, SetStatusNotFound, EndCall, mapVars, workerVars
<1>2. /\ call' \in Calls \cup {NoCall} /\ (call' # NoCall => call'.step \in {"base", "list", "err"})
      /\ call' # NoCall /\ call'.step = "list" => nextID + 1 < MaxUpdates
  <2>1. CASE EndCall
    BY <2>1 DEF EndCall
  <2>2. CASE CallFails \/ SetStatusNotFound
    <3>1. call # NoCall /\ Goto("err")
      BY <2>2 DEF CallFails, SetStatusNotFound
    <3> QED BY <3>1, CallFacts DEF StoreInv
  <2>3. ASSUME NEW op \in CallKinds, NEW keys \in SUBSET Keys, NEW status \in {"active", "disabled_manual"},
               BeginCall(op, keys, status)
        PROVE  /\ call' \in Calls /\ call'.step \in {"base", "list"}
               /\ call'.step = "list" => nextID + 1 < MaxUpdates
    <3>1. call' = [op |-> op, keys |-> keys, status |-> status,
                   step |-> IF op = "replace" THEN "list" ELSE "base"]
      BY <2>3 DEF BeginCall
    <3>2. op = "replace" => nextID + 1 < MaxUpdates
      BY <2>3 DEF BeginCall
    <3>3. call' \in Calls
      BY <3>1, StoreConstants DEF Calls, Statuses
    <3> QED BY <3>1, <3>2, <3>3
  <2> QED BY <2>1, <2>2, <2>3
<1>3. carried' \subseteq carried /\ listed' \in Stores
      /\ \A k \in Keys : listed'[k] \in {listed[k], NoRecord}
  <2>1. [k \in Keys |-> NoRecord] \in Stores /\ \A j \in Keys : [k \in Keys |-> NoRecord][j] = NoRecord
    BY DEF Stores
  <2>2. (listed' = [k \in Keys |-> NoRecord] /\ carried' = {}) \/ (listed' = listed /\ carried' = carried)
    BY DEF BeginCall, CallFails, SetStatusNotFound, EndCall
  <2> QED BY <2>1, <2>2 DEF StoreInv, TypeOK
<1>4. TypeOK'
  BY <1>1, <1>2, <1>3 DEF StoreInv, TypeOK
<1>5. ActiveOK'
  BY <1>1, <1>3 DEF StoreInv, ActiveOK
<1>6. CarriedOK'
  BY <1>2 DEF CarriedOK
<1>7. call' # NoCall /\ call'.step \in ReplaceSteps => nextID < MaxUpdates
  BY <1>2, StoreConstants DEF ReplaceSteps, StoreInv, TypeOK
<1>8. carried' \subseteq Known
  BY <1>3 DEF Known
<1> QED BY <1>1, <1>2, <1>4, <1>5, <1>6, <1>7, <1>8, CallKeeps

\* What the base-store part of a call does to the records.
LEMMA CallBaseEffect ==
  ASSUME StoreInv, CallBase
  PROVE  /\ call # NoCall /\ call.step = "base" /\ call' # NoCall /\ call'.keys = call.keys /\ rec' \in Stores
         /\ call' \in Calls
         /\ UNCHANGED <<pending, nextID, wake, closed, foreign, timer, wpc, final, batch, cur, synced, listed, carried>>
         /\ call'.step \in {"clear", "ok"}
         /\ \A k \in Keys :
              \/ rec'[k] = rec[k]
              \/ rec'[k] = NoRecord /\ call'.step = "clear" /\ k \in call.keys
              \/ rec[k] = NoRecord /\ rec'[k] = NewRecord
              \/ /\ rec[k] # NoRecord /\ rec'[k] # NoRecord
                 /\ rec'[k].version = rec[k].version + 1 /\ rec'[k].version < MaxVersion
<1>1. /\ call # NoCall /\ call.step = "base"
      /\ UNCHANGED <<pending, nextID, wake, closed, foreign, timer, wpc, final, batch, cur, synced, listed, carried>>
  BY DEF CallBase, mapVars, workerVars
<1>2. call.keys \in SUBSET Keys /\ call.status \in Statuses /\ rec \in Stores
  BY <1>1, CallFacts DEF StoreInv, TypeOK
<1>3. \/ /\ Goto("clear")
         /\ \E k \in call.keys : rec[k] # NoRecord /\ Writable({k}) /\ rec' = SetRecordStatus(rec, k, call.status)
      \/ Goto("clear") /\ rec' = DeleteRecords(rec, call.keys)
      \/ Goto("ok") /\ rec' = AppendRecords(rec, call.keys)
  BY DEF CallBase
<1>4. ASSUME NEW j \in call.keys, rec[j] # NoRecord, Writable({j}), rec' = SetRecordStatus(rec, j, call.status)
      PROVE  /\ rec' \in Stores
             /\ \A k \in Keys : \/ rec'[k] = rec[k]
                                \/ /\ rec[k] # NoRecord /\ rec'[k] # NoRecord
                                   /\ rec'[k].version = rec[k].version + 1 /\ rec'[k].version < MaxVersion
  <2>1. rec[j].version + 1 < MaxVersion
    BY <1>4 DEF Writable, nextRecordVersion
  <2>2. j \in Keys /\ rec[j].version \in Nat /\ MaxVersion \in Nat
    BY <1>2, <1>4, RecordFacts, RecordConstants
  <2>3. rec[j].version < MaxVersion
    BY <2>1, <2>2
  <2> QED BY <1>2, <1>4, <2>1, <2>2, <2>3, SetRecordFacts
<1>5. ASSUME rec' = DeleteRecords(rec, call.keys)
      PROVE  rec' \in Stores /\ \A k \in Keys : rec'[k] = rec[k] \/ (rec'[k] = NoRecord /\ k \in call.keys)
  BY <1>2, <1>5, DeleteFacts
<1>6. ASSUME rec' = AppendRecords(rec, call.keys)
      PROVE  rec' \in Stores /\ \A k \in Keys : rec'[k] = rec[k] \/ (rec[k] = NoRecord /\ rec'[k] = NewRecord)
  BY <1>2, <1>6, AppendFacts
<1>7. /\ call' \in Calls /\ call' # NoCall /\ call'.keys = call.keys
      /\ Goto("clear") => call'.step = "clear"
      /\ Goto("ok") => call'.step = "ok"
  BY <1>1, <1>3, CallFacts DEF StoreInv
<1> QED BY <1>1, <1>3, <1>4, <1>5, <1>6, <1>7

\* SetStatus, Delete, DeleteVendor or Append reaches the base store.
LEMMA CallBaseKeeps ==
  ASSUME StoreInv, CallBase
  PROVE  StoreInv'
<1>1. TypeOK'
  BY CallBaseEffect DEF StoreInv, TypeOK
<1>2. ActiveOK'
  BY CallBaseEffect, NewRecordFacts DEF StoreInv, ActiveOK
<1>3. CarriedOK' /\ (call' # NoCall /\ call'.step \in ReplaceSteps => nextID < MaxUpdates)
  BY CallBaseEffect DEF CarriedOK, ReplaceSteps
<1>4. carried' \subseteq Known /\ UNCHANGED <<pending, nextID, batch, cur, wpc>>
  BY CallBaseEffect DEF Known
<1> QED BY <1>1, <1>2, <1>3, <1>4, CallKeeps

\* Replace reads the records, collects the updates to carry and replaces the records.
LEMMA ReplaceEffect ==
  ASSUME StoreInv, ReplaceList \/ ReplaceSnapshot \/ ReplaceBase
  PROVE  /\ call # NoCall /\ call' # NoCall /\ call' \in Calls /\ rec' \in Stores
         /\ call.step \in {"list", "snapshot", "replace"}
         /\ call'.step \in {"snapshot", "replace", "reconcile"}
         /\ (rec' = rec \/ call'.step = "reconcile")
         /\ UNCHANGED <<pending, nextID, wake, closed, foreign, timer, wpc, final, batch, cur, synced>>
         /\ listed' \in {listed, rec} /\ (carried' = carried \/ carried' \subseteq Pending)
         /\ \A k \in Keys :
              \/ rec'[k] \in {NoRecord, rec[k]}
              \/ rec[k] = NoRecord /\ rec'[k] = NewRecord
              \/ /\ rec[k] # NoRecord /\ rec'[k] # NoRecord
                 /\ rec'[k].version = rec[k].version + 1 /\ rec'[k].version < MaxVersion
<1>1. /\ call # NoCall /\ call.step \in {"list", "snapshot", "replace"}
      /\ UNCHANGED <<pending, nextID, wake, closed, foreign, timer, wpc, final, batch, cur, synced>>
      /\ listed' \in {listed, rec} /\ (carried' = carried \/ carried' \subseteq Pending)
  BY DEF ReplaceList, ReplaceSnapshot, ReplaceBase, mapVars, workerVars
<1>2. rec \in Stores /\ call.keys \in SUBSET Keys
  BY <1>1, CallFacts DEF StoreInv, TypeOK
<1>3. CASE ReplaceBase
  <2>1. Writable(call.keys) /\ rec' = ReplaceRecords(rec, call.keys) /\ Goto("reconcile")
    BY <1>3 DEF ReplaceBase
  <2>2. call' \in Calls /\ call' # NoCall /\ call'.step = "reconcile"
    BY <1>1, <2>1, CallFacts DEF StoreInv
  <2>3. rec' \in Stores /\ \A k \in Keys :
          \/ rec'[k] \in {NoRecord, rec[k]}
          \/ rec[k] = NoRecord /\ rec'[k] = NewRecord
          \/ rec[k] # NoRecord /\ rec'[k].version = rec[k].version + 1 /\ rec[k].version + 1 < MaxVersion
    BY <1>2, <2>1, ReplaceFacts
  <2> QED BY <1>1, <2>2, <2>3
<1>4. CASE ReplaceList \/ ReplaceSnapshot
  <2>1. rec' = rec /\ (Goto("snapshot") \/ Goto("replace"))
    BY <1>4 DEF ReplaceList, ReplaceSnapshot
  <2>2. call' \in Calls /\ call' # NoCall /\ call'.step \in {"snapshot", "replace"}
    BY <1>1, <2>1, CallFacts DEF StoreInv
  <2> QED BY <1>1, <1>2, <2>1, <2>2
<1> QED BY <1>3, <1>4

LEMMA ReplaceKeeps ==
  ASSUME StoreInv, ReplaceList \/ ReplaceSnapshot \/ ReplaceBase
  PROVE  StoreInv'
<1>1. carried' \subseteq Known /\ UNCHANGED <<pending, nextID, batch, cur, wpc>>
  BY ReplaceEffect DEF Known
<1>2. listed' \in Stores /\ carried' \subseteq Updates
  BY <1>1, ReplaceEffect, KnownFacts DEF StoreInv, TypeOK
<1>3. TypeOK'
  BY <1>2, ReplaceEffect DEF StoreInv, TypeOK
<1>4. ActiveOK'
  BY ReplaceEffect, NewRecordFacts DEF StoreInv, ActiveOK
<1>5. CarriedOK'
  BY ReplaceEffect DEF CarriedOK
<1>6. nextID < MaxUpdates
  BY ReplaceEffect DEF StoreInv, StepsOK, ReplaceSteps
<1> QED BY <1>1, <1>3, <1>4, <1>5, <1>6, CallKeeps

\* Every carried update disables its key, so it is missing when its key has no record.
LEMMA MissingFacts ==
  ASSUME StoreInv, NEW records
  PROVE  /\ MissingDisabled(records) \subseteq {u.key : u \in carried}
         /\ \A u \in carried : records[u.key] = NoRecord => u.key \in MissingDisabled(records)
<1>1. \A u \in carried : ~IsActiveStatus(u.status)
  BY DEF StoreInv, UpdatesOK, Known, IsActiveStatus
<1> QED BY <1>1 DEF MissingDisabled

\* Replace reads the records again.
LEMMA ReconcileListKeeps ==
  ASSUME StoreInv, ReconcileList
  PROVE  /\ StoreInv' /\ UNCHANGED <<rec, pending, nextID, foreign, batch, cur, wpc, carried>>
         /\ call # NoCall /\ call' # NoCall
         /\ \/ call.step = "reconcile" /\ call'.step \in {"append", "requeue"}
            \/ call.step = "relist" /\ call'.step = "requeue"
<1>1. /\ call # NoCall /\ call.step \in {"reconcile", "relist"} /\ listed' = rec
      /\ UNCHANGED <<rec, pending, nextID, wake, closed, foreign, timer, wpc, final, batch, cur, synced, carried>>
  BY DEF ReconcileList, mapVars, workerVars
<1>2. \/ Goto("append") /\ call.step = "reconcile"
      \/ Goto("requeue") /\ (call.step = "reconcile" => MissingDisabled(rec) = {})
  BY <1>1 DEF ReconcileList
<1>3. /\ call' \in Calls /\ call' # NoCall
      /\ \/ call'.step = "append" /\ call.step = "reconcile"
         \/ call'.step = "requeue" /\ (call.step = "reconcile" => MissingDisabled(rec) = {})
  BY <1>1, <1>2, CallFacts DEF StoreInv
<1>4. TypeOK' /\ ActiveOK'
  BY <1>1, <1>3 DEF StoreInv, TypeOK, ActiveOK
<1>5. ASSUME NEW u \in carried
      PROVE  /\ u.key \in Keys /\ (call'.step = "requeue" => rec[u.key] # NoRecord)
             /\ rec[u.key] # NoRecord => rec[u.key].version \in Nat
  <2>1. u.key \in Keys
    BY UpdateFacts DEF StoreInv, TypeOK
  <2>2. CASE call.step = "relist"
    BY <1>1, <2>1, <2>2, RecordFacts DEF StoreInv, CarriedOK, TypeOK
  <2>3. CASE call.step = "reconcile"
    <3>1. call'.step = "requeue" => MissingDisabled(rec) = {}
      BY <1>3, <2>3
    <3> QED BY <2>1, <3>1, MissingFacts, RecordFacts DEF StoreInv, TypeOK
  <2> QED BY <1>1, <2>2, <2>3
<1>6. CarriedOK'
  BY <1>1, <1>3, <1>5 DEF CarriedOK
<1>7. nextID < MaxUpdates /\ carried' \subseteq Known
  BY <1>1 DEF StoreInv, StepsOK, ReplaceSteps, Known
<1>8. StoreInv'
  BY <1>1, <1>4, <1>6, <1>7, CallKeeps
<1> QED BY <1>1, <1>3, <1>8

\* Replace adds the keys it carries updates for again.
LEMMA ReconcileAppendKeeps ==
  ASSUME StoreInv, ReconcileAppend
  PROVE  /\ StoreInv' /\ UNCHANGED <<pending, nextID, foreign, batch, cur, wpc, carried>>
         /\ call # NoCall /\ call.step = "append" /\ call' # NoCall /\ call'.step = "relist"
         /\ \A k \in Keys : rec'[k] = rec[k] \/ (rec[k] = NoRecord /\ \E u \in carried : u.key = k)
<1>1. /\ call # NoCall /\ call.step = "append" /\ rec' = AppendRecords(rec, MissingDisabled(listed))
      /\ UNCHANGED <<pending, nextID, wake, closed, foreign, timer, wpc, final, batch, cur, synced, listed, carried>>
      /\ Goto("relist")
  BY DEF ReconcileAppend, mapVars, workerVars
<1>2. call' \in Calls /\ call' # NoCall /\ call'.step = "relist"
  BY <1>1, CallFacts DEF StoreInv
<1>3. /\ rec' \in Stores
      /\ \A k \in Keys : /\ rec[k] # NoRecord => rec'[k] = rec[k]
                         /\ rec[k] = NoRecord => rec'[k] =
                              IF k \in MissingDisabled(listed) THEN NewRecord ELSE NoRecord
  BY <1>1, AppendFacts DEF StoreInv, TypeOK
<1>4. TypeOK'
  BY <1>1, <1>2, <1>3 DEF StoreInv, TypeOK
<1>5. ActiveOK'
  BY <1>1, <1>3, NewRecordFacts DEF StoreInv, ActiveOK
<1>6. ASSUME NEW u \in carried PROVE rec'[u.key] # NoRecord
  <2>1. u.key \in Keys
    BY UpdateFacts DEF StoreInv, TypeOK
  <2>2. rec[u.key] # NoRecord \/ u.key \in MissingDisabled(listed)
    BY <1>1, MissingFacts DEF StoreInv, CarriedOK
  <2> QED BY <1>3, <2>1, <2>2, NewRecordFacts
<1>7. CarriedOK'
  BY <1>1, <1>2, <1>6 DEF CarriedOK
<1>8. nextID < MaxUpdates /\ carried' \subseteq Known
  BY <1>1 DEF StoreInv, StepsOK, ReplaceSteps, Known
<1>9. StoreInv'
  BY <1>1, <1>4, <1>5, <1>7, <1>8, CallKeeps
<1>10. \A k \in Keys : k \in MissingDisabled(listed) => \E u \in carried : u.key = k
  BY MissingFacts
<1> QED BY <1>1, <1>2, <1>3, <1>9, <1>10

\* Updates of the changed keys are cleared.
LEMMA ClearKeeps ==
  ASSUME StoreInv, CallClear
  PROVE  /\ StoreInv' /\ UNCHANGED <<rec, nextID, foreign, batch, cur, wpc, carried>>
         /\ call # NoCall /\ call.step = "clear" /\ call' # NoCall /\ call'.step \in {"clear", "ok"}
         /\ \A k \in Keys : pending'[k] \in {pending[k], NoUpdate}
         /\ \A k \in call.keys : pending'[k] = NoUpdate \/ (k \in call'.keys /\ call'.step = "clear")
<1>1. /\ call # NoCall /\ call.step = "clear"
      /\ UNCHANGED <<rec, nextID, wake, closed, foreign, timer, wpc, final, batch, cur, synced, listed, carried>>
  BY DEF CallClear, workerVars
<1>2. PICK ks \in SUBSET call.keys :
        /\ pending' = [k \in Keys |-> IF k \in ks THEN NoUpdate ELSE pending[k]]
        /\ call' = [call EXCEPT !.keys = @ \ ks, !.step = IF call.keys = ks THEN "ok" ELSE "clear"]
  BY DEF CallClear
<1>3. PICK c \in Calls : c = call
  BY <1>1, CallFacts DEF StoreInv
<1>4. /\ call' \in Calls /\ call'.keys = call.keys \ ks
      /\ call'.step = IF call.keys = ks THEN "ok" ELSE "clear"
  <2>1. call' = [c EXCEPT !.keys = c.keys \ ks, !.step = IF c.keys = ks THEN "ok" ELSE "clear"]
    BY <1>2, <1>3
  <2>2. c.keys \ ks \in SUBSET Keys
    BY DEF Calls
  <2> QED BY <1>3, <2>1, <2>2 DEF Calls
<1>5. call' # NoCall /\ call'.step \in {"clear", "ok"}
  BY <1>4, StoreMarkers
<1>6. \A k \in Keys : pending'[k] = IF k \in ks THEN NoUpdate ELSE pending[k]
  BY <1>2
<1>7. pending' \in [Keys -> Updates \cup {NoUpdate}]
  BY <1>2 DEF StoreInv, TypeOK
<1>8. TypeOK'
  BY <1>1, <1>4, <1>7 DEF StoreInv, TypeOK
<1>9. Known' \subseteq Known /\ Taken' = Taken
  <2>1. Pending' \subseteq Pending
    BY <1>6 DEF Pending
  <2> QED BY <1>1, <2>1 DEF Known, Taken
<1>10. UpdatesOK'
  BY <1>1, <1>9 DEF StoreInv, UpdatesOK
<1>11. \A u \in Taken : u.key \in Keys
  BY KnownFacts, UpdateFacts DEF Known, StoreInv
<1>12. PendingOK'
  BY <1>6, <1>9, <1>11 DEF StoreInv, PendingOK
<1>13. StepsOK' /\ ActiveOK' /\ CarriedOK'
  BY <1>1, <1>5 DEF StoreInv, StepsOK, ActiveOK, CarriedOK, ReplaceSteps
<1>14. \A k \in call.keys : pending'[k] = NoUpdate \/ (k \in call'.keys /\ call'.step = "clear")
  <2>1. call.keys \subseteq Keys
    BY <1>1, CallFacts DEF StoreInv
  <2> QED BY <1>4, <1>6, <2>1
<1> QED BY <1>1, <1>5, <1>6, <1>8, <1>10, <1>12, <1>13, <1>14 DEF StoreInv

\* The updates that are not in the records yet return for the version Replace has
\* read, all others of the vendor go.
LEMMA RequeueEffect ==
  ASSUME StoreInv, ReconcileRequeue
  PROVE  /\ call # NoCall /\ call.step = "requeue" /\ call' \in Calls /\ call' # NoCall /\ call'.step = "ok"
         /\ UNCHANGED <<rec, closed, timer, wpc, final, batch, cur, synced, listed, carried>>
         /\ wake' \in BOOLEAN /\ nextID < MaxUpdates /\ foreign' = {}
         /\ nextID' = IF Requeued = {} THEN nextID ELSE nextID + 1
         /\ pending' \in [Keys -> Updates \cup {NoUpdate}]
         /\ \A k \in Keys :
              \/ pending'[k] = NoUpdate /\ ~\E u \in Requeued : u.key = k
              \/ /\ \E u \in Requeued : u.key = k
                 /\ pending'[k] \in Updates /\ pending'[k].key = k /\ pending'[k].id = nextID + 1
                 /\ pending'[k].status = "disabled_auto" /\ pending'[k].expected < MaxVersion
                 /\ pending'[k].expected = listed[k].version
<1>1. /\ call # NoCall /\ call.step = "requeue" /\ Goto("ok")
      /\ UNCHANGED <<rec, closed, timer, wpc, final, batch, cur, synced, listed, carried>>
      /\ nextID' = IF Requeued = {} THEN nextID ELSE nextID + 1
      /\ pending' = [k \in Keys |->
           IF \E u \in Requeued : u.key = k
           THEN [CHOOSE u \in Requeued : u.key = k EXCEPT
                   !.expected = listed[k].version, !.id = nextID + 1]
           ELSE NoUpdate]
  BY DEF ReconcileRequeue, workerVars
<1>2. call' \in Calls /\ call' # NoCall /\ call'.step = "ok"
  BY <1>1, CallFacts DEF StoreInv
<1>3. nextID < MaxUpdates /\ nextID \in Nat /\ MaxUpdates \in Nat
  <2>1. call # NoCall /\ call.step = "requeue"
    BY <1>1
  <2> QED BY <2>1, StoreConstants DEF StoreInv, StepsOK, ReplaceSteps, TypeOK
<1>4. ASSUME NEW k \in Keys, \E u \in Requeued : u.key = k
      PROVE  LET p == [CHOOSE u \in Requeued : u.key = k EXCEPT
                         !.expected = listed[k].version, !.id = nextID + 1] IN
             /\ p \in Updates /\ p.key = k /\ p.id = nextID + 1 /\ p.status = "disabled_auto"
             /\ p.expected < MaxVersion /\ p.expected = listed[k].version
  <2>1. PICK w \in Requeued : w = (CHOOSE u \in Requeued : u.key = k) /\ w.key = k
    BY <1>4
  <2>2. /\ w \in carried /\ w \in Updates /\ w.expected < MaxVersion /\ w.status = "disabled_auto"
        /\ listed[k] # NoRecord /\ ~pendingUpdateReflected(listed[k], w)
    BY <2>1, KnownFacts DEF Requeued, StoreInv, UpdatesOK, Known, TypeOK
  <2>3. /\ listed[k].version \in Nat /\ listed[k].version >= 1 /\ w.expected \in Nat /\ w.expected >= 1
        /\ MaxVersion \in Nat
    BY <2>2, RecordFacts, UpdateFacts, RecordConstants DEF StoreInv, TypeOK
  <2>4. IsActiveStatus(listed[k].status)
    BY <2>2 DEF pendingUpdateReflected, IsActiveStatus
  <2>5. listed[k].version = 1 \/ listed[k].version < MaxVersion
    BY <2>2, <2>4 DEF StoreInv, ActiveOK
  <2>6. listed[k].version < MaxVersion
    BY <2>2, <2>3, <2>5
  <2>7. listed[k].version \in Versions /\ nextID + 1 \in 1..MaxUpdates
    BY <1>3, <2>3, <2>6 DEF Versions
  <2>8. LET p == [w EXCEPT !.expected = listed[k].version, !.id = nextID + 1] IN
        /\ p \in Updates /\ p.key = w.key /\ p.id = nextID + 1 /\ p.status = w.status
        /\ p.expected = listed[k].version
    BY <2>2, <2>7 DEF Updates
  <2> QED BY <2>1, <2>2, <2>6, <2>8
<1>5. \A k \in Keys :
        \/ pending'[k] = NoUpdate /\ ~\E u \in Requeued : u.key = k
        \/ /\ \E u \in Requeued : u.key = k
           /\ pending'[k] \in Updates /\ pending'[k].key = k /\ pending'[k].id = nextID + 1
           /\ pending'[k].status = "disabled_auto" /\ pending'[k].expected < MaxVersion
           /\ pending'[k].expected = listed[k].version
  BY <1>1, <1>4
<1>6. pending' \in [Keys -> Updates \cup {NoUpdate}]
  <2>1. \A k \in Keys : pending'[k] \in Updates \cup {NoUpdate}
    BY <1>5
  <2> QED BY <1>1, <2>1
<1>7. wake' \in BOOLEAN /\ foreign' = {}
  BY DEF ReconcileRequeue
<1> QED BY <1>1, <1>2, <1>3, <1>5, <1>6, <1>7

LEMMA RequeueKeeps ==
  ASSUME StoreInv, ReconcileRequeue
  PROVE  StoreInv'
<1>1. nextID \in Nat /\ MaxUpdates \in Nat /\ nextID' \in 0..MaxUpdates /\ nextID <= nextID'
      /\ (nextID' = nextID + 1 \/ Requeued = {})
  BY RequeueEffect, StoreConstants DEF StoreInv, TypeOK
<1>2. TypeOK'
  BY <1>1, RequeueEffect DEF StoreInv, TypeOK
<1>3. Taken' = Taken /\ Taken \subseteq Known /\ carried' = carried
  BY RequeueEffect DEF Known, Taken
<1>4. \A u \in Known : u.id \in Nat /\ u.id <= nextID /\ u.key \in Keys
  BY KnownFacts, UpdateFacts DEF StoreInv, UpdatesOK
<1>5. \A u \in Pending' : /\ u.status = "disabled_auto" /\ u.expected < MaxVersion /\ u.id = nextID + 1
                          /\ nextID' = nextID + 1
  BY <1>1, RequeueEffect DEF Pending
<1>6. UpdatesOK'
  <2> SUFFICES ASSUME NEW u \in Known'
               PROVE  u.status = "disabled_auto" /\ u.expected < MaxVersion /\ u.id <= nextID'
    BY DEF UpdatesOK
  <2>1. CASE u \in Pending'
    BY <1>1, <1>5, <2>1
  <2>2. CASE u \in Known
    BY <1>1, <1>4, <2>2 DEF StoreInv, UpdatesOK
  <2> QED BY <1>3, <2>1, <2>2 DEF Known
<1>7. PendingOK'
  <2>1. ASSUME NEW u \in Taken, pending'[u.key] # NoUpdate, pending'[u.key].id = u.id
        PROVE  FALSE
    <3>1. u.id <= nextID /\ u.id \in Nat /\ u.key \in Keys
      BY <1>3, <1>4
    <3>2. pending'[u.key].id = nextID + 1
      BY <2>1, <3>1, RequeueEffect
    <3> QED BY <1>1, <2>1, <3>1, <3>2
  <2>2. \A k \in Keys : pending'[k] # NoUpdate => pending'[k].key = k
    BY RequeueEffect
  <2> QED BY <1>3, <2>1, <2>2 DEF PendingOK
<1>8. StepsOK' /\ ActiveOK' /\ CarriedOK'
  BY RequeueEffect DEF StoreInv, StepsOK, ActiveOK, CarriedOK, ReplaceSteps
<1> QED BY <1>2, <1>6, <1>7, <1>8 DEF StoreInv

LEMMA StoreInductive == StoreInv /\ [Next]_storeVars => StoreInv'
<1> SUFFICES ASSUME StoreInv, [Next]_storeVars PROVE StoreInv'
  OBVIOUS
<1>1. CASE CloseStore \/ WorkerWake \/ WorkerRetry \/ WorkerStop \/ WorkerFlushed \/ UNCHANGED storeVars
  <2>1. UNCHANGED <<rec, pending, nextID, batch, cur, callVars>>
    BY <1>1 DEF CloseStore, WorkerWake, WorkerRetry, WorkerStop, WorkerFlushed, workerVars, mapVars, storeVars
  <2> QED BY <1>1, <2>1, QuietKeeps
<1>2. ASSUME NEW k \in Keys, NEW v \in Versions, v < MaxVersion, SetStatusIfVersion(k, v, "disabled_auto")
      PROVE  StoreInv'
  BY <1>2, AcceptKeeps
<1>3. ASSUME NEW u \in batch, WorkerApply(u) \/ WorkerApplyFails(u)
      PROVE  StoreInv'
  BY <1>3, ApplyKeeps
<1> QED
  BY <1>1, <1>2, <1>3, SnapshotKeeps, SettleKeeps, FrameKeeps, CallBaseKeeps, ClearKeeps, ReplaceKeeps,
     ReconcileListKeeps, ReconcileAppendKeeps, RequeueKeeps DEF Next, Worker, CallStep

-----------------------------------------------------------------------------
\* Replace loses no update it carries when it requeues them.
LEMMA RequeueLosesNone ==
  ASSUME StoreInv, ReconcileRequeue, NEW u \in carried
  PROVE  \/ rec[u.key] # NoRecord /\ ~IsActiveStatus(rec[u.key].status)
         \/ /\ pending'[u.key] # NoUpdate
            /\ VersionMatches(rec, u.key, pending'[u.key].expected)
<1>1. call # NoCall /\ call.step = "requeue"
  BY DEF ReconcileRequeue
<1>2. /\ listed[u.key] # NoRecord /\ rec[u.key] # NoRecord
      /\ rec[u.key] = listed[u.key] \/ ~IsActiveStatus(rec[u.key].status)
  BY <1>1 DEF StoreInv, CarriedOK
<1>3. u.status = "disabled_auto" /\ u.key \in Keys
  BY UpdateFacts DEF StoreInv, UpdatesOK, Known, TypeOK
<1>4. CASE u \in Requeued
  <2>1. pending'[u.key] \in Updates /\ pending'[u.key].expected = listed[u.key].version
    BY <1>3, <1>4, RequeueEffect
  <2> QED BY <1>2, <2>1, StoreMarkers DEF VersionMatches
<1>5. CASE u \notin Requeued
  <2>1. pendingUpdateReflected(listed[u.key], u)
    BY <1>2, <1>5 DEF Requeued
  <2>2. ~IsActiveStatus(listed[u.key].status)
    BY <1>3, <2>1 DEF pendingUpdateReflected, IsActiveStatus
  <2> QED BY <1>2, <2>2
<1> QED BY <1>4, <1>5

\* In every behaviour a disable that was pending when Replace took its snapshot is,
\* when Replace has reconciled, in the records or pending for their new version
\* (AsyncStatusStore.Replace, reconcilePendingAfterReplace).
THEOREM ReplacePreservesCorrect == Spec => ReplacePreservesPending
<1> DEFINE Step ==
             \A u \in carried :
               call # NoCall /\ call.step = "requeue" /\ call'.step = "ok"
               => \/ rec[u.key] # NoRecord /\ ~IsActiveStatus(rec[u.key].status)
                  \/ /\ pending'[u.key] # NoUpdate
                     /\ VersionMatches(rec, u.key, pending'[u.key].expected)
<1>1. StoreInv /\ [Next]_storeVars => Step
  <2> SUFFICES ASSUME StoreInv, [Next]_storeVars, NEW u \in carried,
                      call # NoCall, call.step = "requeue", call'.step = "ok"
               PROVE  \/ rec[u.key] # NoRecord /\ ~IsActiveStatus(rec[u.key].status)
                      \/ /\ pending'[u.key] # NoUpdate
                         /\ VersionMatches(rec, u.key, pending'[u.key].expected)
    OBVIOUS
  <2>1. ReconcileRequeue
    <3>1. call' # call
      OBVIOUS
    <3>2. ~CloseStore /\ ~Worker /\ ~UNCHANGED storeVars
          /\ \A k \in Keys, v \in Versions : ~SetStatusIfVersion(k, v, "disabled_auto")
      BY <3>1 DEF Worker, SetStatusIfVersion, CloseStore, WorkerWake, WorkerRetry, WorkerStop, WorkerSnapshot,
             WorkerApply, WorkerApplyFails, WorkerSettle, WorkerFlushed, callVars, storeVars
    <3>3. ~EndCall /\ ~CallFails /\ ~SetStatusNotFound /\ ~CallBase /\ ~CallClear
      BY DEF EndCall, CallFails, SetStatusNotFound, CallBase, CallClear
    <3>4. ~ReplaceList /\ ~ReplaceSnapshot /\ ~ReplaceBase /\ ~ReconcileList /\ ~ReconcileAppend
      BY DEF ReplaceList, ReplaceSnapshot, ReplaceBase, ReconcileList, ReconcileAppend
    <3>5. \A op \in CallKinds, keys \in SUBSET Keys, status \in {"active", "disabled_manual"} :
            ~BeginCall(op, keys, status)
      BY DEF BeginCall
    <3> QED BY <3>2, <3>3, <3>4, <3>5 DEF Next, CallStep
  <2> QED BY <2>1, RequeueLosesNone
<1>2. Spec => []StoreInv
  BY StoreInitOK, StoreInductive, PTL DEF Spec
<1> HIDE DEF Step
<1>3. Spec => [][Step]_storeVars
  BY <1>1, <1>2, PTL DEF Spec
<1> QED BY <1>3 DEF ReplacePreservesPending, Step

-----------------------------------------------------------------------------
(***************************************************************************)
(* The worker.  When Replace fails between replacing the records and       *)
(* requeueing what it carries, an update outlives its record and may meet  *)
(* a younger one, so FlushInv needs a base store that does not fail there. *)
(***************************************************************************)

LEMMA FlushInitOK == Init => FlushInv
BY DEF Init, StoreInit, FlushInv, GoneOK, ReachedOK, AppliedOK

\* A step that keeps the updates and takes no record with an update back, except
\* for adding it again.
LEMMA RecordsGrow ==
  ASSUME StoreInv, FlushInv, UNCHANGED <<pending, foreign, cur>>, wpc' = "settle" => wpc = "settle",
         \A k \in Keys : \/ rec'[k] = rec[k] \/ k \in foreign
                         \/ /\ rec[k] # NoRecord /\ rec'[k] # NoRecord
                            /\ rec'[k].version = rec[k].version + 1
                         \/ pending[k] = NoUpdate \/ rec'[k] = NoRecord \/ Readded(k)',
         \A k \in Keys : Readded(k) => Readded(k)'
  PROVE  ReachedOK' /\ AppliedOK'
<1>1. \A k \in Keys : /\ rec[k] # NoRecord => rec[k].version \in Nat
                      /\ pending[k] # NoUpdate => pending[k].expected \in Nat
  BY RecordFacts, UpdateFacts DEF StoreInv, TypeOK
<1>2. ReachedOK'
  BY <1>1 DEF FlushInv, ReachedOK
<1>3. AppliedOK'
  <2> SUFFICES ASSUME wpc = "settle", pending[cur.key] = cur, rec'[cur.key] # NoRecord,
                      cur.key \notin foreign
               PROVE  cur.expected < rec'[cur.key].version \/ Readded(cur.key)'
    BY DEF AppliedOK
  <2>1. cur # NoUpdate /\ cur.key \in Keys
    BY UpdateFacts DEF StoreInv, TypeOK, StepsOK
  <2>2. Readded(cur.key) \/ (\E k \in Keys : k = cur.key /\ Readded(k)') => Readded(cur.key)'
    BY <2>1 DEF Readded
  <2> QED BY <1>1, <2>1, <2>2 DEF FlushInv, AppliedOK
<1> QED BY <1>2, <1>3

LEMMA AcceptFollows ==
  ASSUME StoreInv, FlushInv, NEW k \in Keys, NEW v \in Versions,
         SetStatusIfVersion(k, v, "disabled_auto")
  PROVE  FlushInv'
<1> DEFINE u == [id |-> nextID + 1, key |-> k, expected |-> v, status |-> "disabled_auto"]
<1>1. /\ UNCHANGED <<rec, wpc, cur, call, listed, carried>> /\ pending' = [pending EXCEPT ![k] = u]
  BY DEF SetStatusIfVersion, workerVars, callVars
<1>2. u.id = nextID + 1 /\ u.expected = v /\ nextID \in Nat
  BY DEF StoreInv, TypeOK
<1> HIDE DEF u
<1>3. \A j \in Keys : pending'[j] = IF j = k THEN u ELSE pending[j]
  BY <1>1 DEF StoreInv, TypeOK
<1>4. \A j \in Keys : Readded(j)' = Readded(j)
  BY <1>1 DEF Readded
<1>5. /\ \A j \in Keys : j # k => (j \in foreign' <=> j \in foreign)
      /\ k \notin foreign' => rec[k] # NoRecord /\ v <= rec[k].version
  <2>1. foreign' = IF rec[k] = NoRecord \/ rec[k].version < v THEN foreign \cup {k} ELSE foreign \ {k}
    BY DEF SetStatusIfVersion
  <2>2. v \in Nat /\ (rec[k] # NoRecord => rec[k].version \in Nat)
    BY RecordFacts, RecordConstants DEF Versions, StoreInv, TypeOK
  <2> QED BY <2>1, <2>2
<1>6. GoneOK'
  BY <1>1, <1>3, <1>5 DEF FlushInv, GoneOK
<1>7. ReachedOK'
  BY <1>1, <1>2, <1>3, <1>4, <1>5 DEF FlushInv, ReachedOK
<1>8. AppliedOK'
  <2> SUFFICES ASSUME wpc = "settle", pending'[cur.key] = cur, rec[cur.key] # NoRecord,
                      cur.key \notin foreign'
               PROVE  cur.expected < rec[cur.key].version \/ Readded(cur.key)'
    BY <1>1 DEF AppliedOK
  <2>1. cur \in Updates /\ cur.key \in Keys /\ cur.id \in Nat /\ cur \in Known
    BY UpdateFacts DEF StoreInv, TypeOK, StepsOK, Known, Taken
  <2>2. cur.id <= nextID
    BY <2>1 DEF StoreInv, UpdatesOK
  <2>3. cur # u
    BY <1>2, <2>1, <2>2
  <2>4. Readded(cur.key)' <=> Readded(cur.key)
    BY <1>1 DEF Readded
  <2>5. pending[cur.key] = cur /\ cur.key # k /\ cur.key \notin foreign
    BY <1>3, <1>5, <2>1, <2>3
  <2> QED BY <2>4, <2>5 DEF FlushInv, AppliedOK
<1> QED BY <1>6, <1>7, <1>8 DEF FlushInv

LEMMA ApplyFollows ==
  ASSUME StoreInv, FlushInv, NEW u \in batch, WorkerApply(u) \/ WorkerApplyFails(u)
  PROVE  FlushInv'
<1>1. UNCHANGED <<pending, foreign, call, listed, carried>>
  BY DEF WorkerApply, WorkerApplyFails, mapVars, callVars
<1>2. \A k \in Keys : Readded(k)' = Readded(k)
  BY <1>1 DEF Readded
<1>3. \A k \in Keys : /\ rec[k] # NoRecord => rec[k].version \in Nat
                      /\ pending[k] # NoUpdate => pending[k].expected \in Nat
  BY RecordFacts, UpdateFacts DEF StoreInv, TypeOK
<1>4. GoneOK'
  BY <1>1, ApplyEffect DEF FlushInv, GoneOK
<1>5. ReachedOK'
  BY <1>1, <1>2, <1>3, ApplyEffect DEF FlushInv, ReachedOK
<1>6. u \in Updates /\ u # NoUpdate /\ u.key \in Keys /\ u.expected \in Nat
  BY UpdateFacts DEF StoreInv, TypeOK
<1>7. CASE WorkerApply(u)
  <2>1. cur' = u /\ rec' = IF VersionMatches(rec, u.key, u.expected)
                           THEN SetRecordStatus(rec, u.key, u.status) ELSE rec
    BY <1>7 DEF WorkerApply
  <2> SUFFICES ASSUME pending[u.key] = u, rec'[u.key] # NoRecord, u.key \notin foreign
               PROVE  u.expected < rec'[u.key].version \/ Readded(u.key)
    BY <1>1, <1>2, <1>4, <1>5, <1>6, <2>1 DEF FlushInv, AppliedOK
  <2>2. CASE rec'[u.key] = rec[u.key]
    <3>1. u.expected <= rec[u.key].version \/ Readded(u.key)
      BY <1>6, <2>2 DEF FlushInv, ReachedOK
    <3>2. rec[u.key].version # u.expected
      <4> SUFFICES ASSUME rec[u.key].version = u.expected PROVE FALSE
        OBVIOUS
      <4>1. VersionMatches(rec, u.key, u.expected)
        BY <2>2 DEF VersionMatches
      <4>2. rec' = SetRecordStatus(rec, u.key, u.status)
        BY <2>1, <4>1
      <4>3. u.expected < MaxVersion /\ u.status \in Statuses /\ rec \in Stores /\ rec[u.key] # NoRecord
        <5>1. u \in Known
          BY DEF Known, Taken
        <5> QED BY <1>6, <2>2, <5>1, UpdateFacts DEF StoreInv, UpdatesOK, TypeOK
      <4>4. rec'[u.key].version = rec[u.key].version + 1
        BY <1>6, <4>2, <4>3, SetRecordFacts
      <4> QED BY <1>6, <2>2, <4>4
    <3> QED BY <1>3, <1>6, <2>2, <3>1, <3>2
  <2>3. CASE rec[u.key] # NoRecord /\ rec[u.key].version = u.expected
             /\ rec'[u.key].version = rec[u.key].version + 1
    BY <1>6, <2>3
  <2> QED BY <1>6, <2>2, <2>3, ApplyEffect
<1>8. CASE WorkerApplyFails(u)
  <2>1. wpc' = "apply"
    BY <1>8 DEF WorkerApplyFails
  <2> QED BY <1>4, <1>5, <2>1 DEF FlushInv, AppliedOK
<1> QED BY <1>7, <1>8

\* The worker settles, reads the map or waits; nothing else changes.
LEMMA RestFollows ==
  ASSUME StoreInv, FlushInv,
         \/ CloseStore \/ WorkerWake \/ WorkerRetry \/ WorkerStop \/ WorkerFlushed \/ UNCHANGED storeVars
         \/ WorkerSnapshot \/ WorkerSettle
  PROVE  FlushInv'
<1>1. UNCHANGED <<rec, foreign, call, listed, carried>> /\ (wpc' = "settle" => UNCHANGED <<wpc, cur, pending>>)
  BY DEF CloseStore, WorkerWake, WorkerRetry, WorkerStop, WorkerFlushed, WorkerSnapshot, WorkerSettle,
         mapVars, workerVars, callVars, storeVars
<1>2. \A k \in Keys : pending'[k] \in {pending[k], NoUpdate}
  <2>1. CASE WorkerSettle
    BY <2>1, SettleKeeps
  <2>2. CASE ~WorkerSettle
    BY <2>2 DEF CloseStore, WorkerWake, WorkerRetry, WorkerStop, WorkerFlushed, WorkerSnapshot,
                mapVars, storeVars
  <2> QED BY <2>1, <2>2
<1>3. \A k : Readded(k)' = Readded(k)
  BY <1>1 DEF Readded
<1>4. GoneOK' /\ ReachedOK' /\ AppliedOK'
  BY <1>1, <1>2, <1>3 DEF FlushInv, GoneOK, ReachedOK, AppliedOK
<1> QED BY <1>4 DEF FlushInv

\* A call moves on and touches neither records nor updates, while no update outlives
\* its record.
LEMMA MoveFollows ==
  ASSUME StoreInv, FlushInv, UNCHANGED <<rec, pending, foreign, cur, wpc>>,
         call = NoCall \/ call.step \in {"base", "list", "replace", "ok", "err"}
  PROVE  FlushInv'
<1>1. GoneOK'
  BY DEF FlushInv, GoneOK
<1>2. \A k \in Keys : ~Readded(k)
  BY DEF Readded
<1>3. ReachedOK' /\ AppliedOK'
  BY <1>2, RecordsGrow
<1> QED BY <1>1, <1>3 DEF FlushInv

\* A call begins, fails or returns.
LEMMA FrameFollows ==
  ASSUME StoreInv, FlushInv, "reconcile" \notin Failing,
         \/ \E op \in CallKinds, keys \in SUBSET Keys, status \in {"active", "disabled_manual"} :
              BeginCall(op, keys, status)
         \/ CallFails \/ SetStatusNotFound \/ EndCall
  PROVE  FlushInv'
<1>1. UNCHANGED <<rec, pending, foreign, cur, wpc>>
  BY FrameKeeps
<1>2. call = NoCall \/ call.step \in {"base", "list", "replace", "ok", "err"}
  BY DEF BeginCall, CallFails, SetStatusNotFound, EndCall
<1> QED BY <1>1, <1>2, MoveFollows

LEMMA CallBaseFollows ==
  ASSUME StoreInv, FlushInv, CallBase
  PROVE  FlushInv'
<1>1. \A k \in Keys : pending[k] = NoUpdate \/ rec[k] # NoRecord \/ k \in foreign
  BY CallBaseEffect DEF FlushInv, GoneOK
<1>2. GoneOK'
  BY <1>1, CallBaseEffect DEF GoneOK
<1>3. \A k \in Keys : ~Readded(k)
  BY CallBaseEffect DEF Readded
<1>4. \A k \in Keys : \/ rec'[k] = rec[k] \/ k \in foreign
                      \/ /\ rec[k] # NoRecord /\ rec'[k] # NoRecord
                         /\ rec'[k].version = rec[k].version + 1
                      \/ pending[k] = NoUpdate \/ rec'[k] = NoRecord
  BY <1>1, CallBaseEffect
<1>5. ReachedOK' /\ AppliedOK'
  BY <1>3, <1>4, CallBaseEffect, RecordsGrow
<1> QED BY <1>2, <1>5 DEF FlushInv

LEMMA ReplaceFollows ==
  ASSUME StoreInv, FlushInv, ReplaceList \/ ReplaceSnapshot \/ ReplaceBase
  PROVE  FlushInv'
<1>1. \A k \in Keys : pending[k] = NoUpdate \/ rec[k] # NoRecord \/ k \in foreign
  BY ReplaceEffect DEF FlushInv, GoneOK
<1>2. GoneOK'
  BY <1>1, ReplaceEffect DEF GoneOK
<1>3. \A k \in Keys : ~Readded(k)
  BY ReplaceEffect DEF Readded
<1>4. \A k \in Keys : \/ rec'[k] = rec[k] \/ k \in foreign
                      \/ /\ rec[k] # NoRecord /\ rec'[k] # NoRecord
                         /\ rec'[k].version = rec[k].version + 1
                      \/ pending[k] = NoUpdate \/ rec'[k] = NoRecord
  BY <1>1, ReplaceEffect
<1>5. ReachedOK' /\ AppliedOK'
  BY <1>3, <1>4, ReplaceEffect, RecordsGrow
<1> QED BY <1>2, <1>5 DEF FlushInv

LEMMA ReconcileFollows ==
  ASSUME StoreInv, FlushInv, ReconcileList \/ ReconcileAppend
  PROVE  FlushInv'
<1>1. CASE ReconcileList
  <2>1. GoneOK'
    BY <1>1, ReconcileListKeeps DEF FlushInv, GoneOK
  <2>2. \A k \in Keys : Readded(k) => Readded(k)'
    BY <1>1, ReconcileListKeeps DEF Readded
  <2>3. ReachedOK' /\ AppliedOK'
    BY <1>1, <2>2, ReconcileListKeeps, RecordsGrow
  <2> QED BY <2>1, <2>3 DEF FlushInv
<1>2. CASE ReconcileAppend
  <2>1. GoneOK'
    BY <1>2, ReconcileAppendKeeps DEF FlushInv, GoneOK
  <2>2. \A k \in Keys : ~Readded(k) /\ (rec'[k] = rec[k] \/ Readded(k)')
    BY <1>2, ReconcileAppendKeeps DEF Readded
  <2>3. ReachedOK' /\ AppliedOK'
    BY <1>2, <2>2, ReconcileAppendKeeps, RecordsGrow
  <2> QED BY <2>1, <2>3 DEF FlushInv
<1> QED BY <1>1, <1>2

LEMMA ClearFollows ==
  ASSUME StoreInv, FlushInv, CallClear
  PROVE  FlushInv'
<1>1. GoneOK'
  BY ClearKeeps DEF FlushInv, GoneOK
<1>2. \A k : ~Readded(k)
  BY ClearKeeps DEF Readded
<1>3. ReachedOK'
  BY <1>2, ClearKeeps DEF FlushInv, ReachedOK
<1>4. AppliedOK'
  <2> SUFFICES ASSUME wpc = "settle", pending'[cur.key] = cur, rec[cur.key] # NoRecord,
                      cur.key \notin foreign
               PROVE  cur.expected < rec[cur.key].version
    BY ClearKeeps DEF AppliedOK
  <2>1. cur # NoUpdate /\ cur.key \in Keys
    BY UpdateFacts DEF StoreInv, TypeOK, StepsOK
  <2>2. pending[cur.key] = cur
    BY <2>1, ClearKeeps
  <2> QED BY <1>2, <2>2 DEF FlushInv, AppliedOK
<1> QED BY <1>1, <1>3, <1>4 DEF FlushInv

LEMMA RequeueFollows ==
  ASSUME StoreInv, FlushInv, ReconcileRequeue
  PROVE  FlushInv'
<1>1. ASSUME NEW k \in Keys, pending'[k] # NoUpdate
      PROVE  /\ rec[k] # NoRecord /\ pending'[k].expected <= rec[k].version
             /\ pending'[k].id = nextID + 1
  <2>1. PICK u \in Requeued : u.key = k
    BY <1>1, RequeueEffect
  <2>2. u \in carried
    BY DEF Requeued
  <2>3. rec[k] # NoRecord /\ listed[k].version <= rec[k].version
    BY <2>1, <2>2, RequeueEffect DEF StoreInv, CarriedOK
  <2> QED BY <1>1, <2>3, RequeueEffect
<1>2. GoneOK' /\ ReachedOK'
  BY <1>1, RequeueEffect DEF GoneOK, ReachedOK
<1>3. AppliedOK'
  <2> SUFFICES ASSUME wpc = "settle", pending'[cur.key] = cur PROVE FALSE
    BY RequeueEffect DEF AppliedOK
  <2>1. cur # NoUpdate /\ cur.key \in Keys /\ cur.id \in Nat /\ cur \in Known
    BY UpdateFacts DEF StoreInv, TypeOK, StepsOK, Known, Taken
  <2>2. cur.id <= nextID /\ nextID \in Nat
    BY <2>1 DEF StoreInv, UpdatesOK, TypeOK
  <2> QED BY <1>1, <2>1, <2>2
<1> QED BY <1>2, <1>3 DEF FlushInv

LEMMA FlushInductive ==
  ASSUME "reconcile" \notin Failing
  PROVE  StoreInv /\ FlushInv /\ [Next]_storeVars => FlushInv'
<1> SUFFICES ASSUME StoreInv, FlushInv, [Next]_storeVars PROVE FlushInv'
  OBVIOUS
<1>1. ASSUME NEW k \in Keys, NEW v \in Versions, SetStatusIfVersion(k, v, "disabled_auto")
      PROVE  FlushInv'
  BY <1>1, AcceptFollows
<1>2. ASSUME NEW u \in batch, WorkerApply(u) \/ WorkerApplyFails(u)
      PROVE  FlushInv'
  BY <1>2, ApplyFollows
<1> QED
  BY <1>1, <1>2, RestFollows, FrameFollows, CallBaseFollows, ReplaceFollows, ReconcileFollows, ClearFollows,
     RequeueFollows DEF Next, Worker, CallStep

\* When readers are shown a key as disabled.
ShownMeans ==
  \A k \in Keys : ShownDisabled(k) <=>
    /\ rec[k] # NoRecord
    /\ \/ ~IsActiveStatus(rec[k].status)
       \/ pending[k] # NoUpdate /\ ~(rec[k].version > pending[k].expected)

LEMMA ShownFacts == StoreInv => ShownMeans
<1> SUFFICES ASSUME StoreInv, NEW k \in Keys
             PROVE  ShownDisabled(k) <=>
                      /\ rec[k] # NoRecord
                      /\ \/ ~IsActiveStatus(rec[k].status)
                         \/ pending[k] # NoUpdate /\ ~(rec[k].version > pending[k].expected)
  BY DEF ShownMeans
<1>1. Overlay(rec, pending)[k] = Shown(rec[k], pending[k])
  BY DEF Overlay
<1>2. CASE rec[k] = NoRecord
  BY <1>1, <1>2 DEF ShownDisabled, Shown
<1>3. CASE rec[k] # NoRecord /\ (pending[k] = NoUpdate \/ rec[k].version > pending[k].expected)
  <2>1. Shown(rec[k], pending[k]) = rec[k]
    BY <1>3 DEF Shown
  <2> QED BY <1>1, <1>3, <2>1 DEF ShownDisabled
<1>4. CASE rec[k] # NoRecord /\ pending[k] # NoUpdate /\ ~(rec[k].version > pending[k].expected)
  <2> DEFINE n == IF rec[k].version > pending[k].expected + 1 THEN rec[k].version
                  ELSE pending[k].expected + 1
  <2>1. pending[k] \in Updates /\ pending[k].status = "disabled_auto" /\ pending[k].expected \in Nat
        /\ pending[k].expected < MaxVersion
    BY <1>4, KnownFacts, UpdateFacts DEF StoreInv, UpdatesOK, Known, TypeOK
  <2>2. rec[k].version \in Nat /\ rec[k].version >= 1
    BY <1>4, RecordFacts DEF StoreInv, TypeOK
  <2>3. n \in Versions
    BY <1>4, <2>1, <2>2, RecordConstants DEF Versions
  <2>4. Shown(rec[k], pending[k]) = [status |-> pending[k].status, version |-> n]
    BY <1>4 DEF Shown
  <2> HIDE DEF n
  <2>5. Shown(rec[k], pending[k]) \in Records /\ Shown(rec[k], pending[k]).status = "disabled_auto"
    BY <2>1, <2>3, <2>4 DEF Records, Statuses
  <2>6. Shown(rec[k], pending[k]) # NoRecord
    BY <2>5, RecordConstants
  <2> QED BY <1>1, <1>4, <2>5, <2>6 DEF ShownDisabled, IsActiveStatus
<1> QED BY <1>2, <1>3, <1>4

\* The worker keeps what readers see as disabled.
LEMMA WorkerKeepsShown ==
  ASSUME StoreInv, FlushInv, StoreInv', Worker, NEW k \in Keys, ShownDisabled(k),
         ~\E u \in carried : u.key = k, k \notin foreign
  PROVE  ShownDisabled(k)'
<1>1. /\ rec[k] # NoRecord
      /\ \/ ~IsActiveStatus(rec[k].status)
         \/ pending[k] # NoUpdate /\ ~(rec[k].version > pending[k].expected)
  BY ShownFacts DEF ShownMeans
<1>2. SUFFICES /\ rec'[k] # NoRecord
               /\ \/ ~IsActiveStatus(rec'[k].status)
                  \/ pending'[k] # NoUpdate /\ ~(rec'[k].version > pending'[k].expected)
  <2>1. ShownMeans'
    BY ShownFacts, PTL
  <2> QED BY <1>2, <2>1 DEF ShownMeans
<1>3. CASE UNCHANGED <<rec, pending>>
  BY <1>1, <1>3
<1>4. ASSUME NEW u \in batch, WorkerApply(u) \/ WorkerApplyFails(u)
      PROVE  /\ rec'[k] # NoRecord
             /\ \/ ~IsActiveStatus(rec'[k].status)
                \/ pending'[k] # NoUpdate /\ ~(rec'[k].version > pending'[k].expected)
  <2>1. pending' = pending
    BY <1>4 DEF WorkerApply, WorkerApplyFails, mapVars
  <2>2. CASE rec'[k] = rec[k]
    BY <1>1, <2>1, <2>2
  <2>3. CASE rec'[k] # NoRecord /\ rec'[k].status = "disabled_auto"
    BY <2>3 DEF IsActiveStatus
  <2> QED BY <1>4, <2>2, <2>3, ApplyEffect
<1>5. CASE WorkerSettle
  <2>1. rec' = rec /\ wpc = "settle"
    BY <1>5 DEF WorkerSettle
  <2>2. CASE pending'[k] = pending[k]
    BY <1>1, <2>1, <2>2
  <2>3. CASE k = cur.key /\ pending[k] = cur
    <3>1. ~Readded(cur.key)
      BY <2>3 DEF Readded
    <3>2. cur.expected < rec[k].version
      BY <1>1, <2>1, <2>3, <3>1 DEF FlushInv, AppliedOK
    <3>3. cur.expected \in Nat /\ rec[k].version \in Nat
      BY <1>1, <2>1, UpdateFacts, RecordFacts DEF StoreInv, StepsOK, TypeOK
    <3>4. rec[k].version > pending[k].expected
      BY <2>3, <3>2, <3>3
    <3> QED BY <1>1, <2>1, <3>4
  <2> QED BY <1>5, <2>2, <2>3, SettleKeeps
<1>6. \/ UNCHANGED <<rec, pending>> \/ WorkerSettle
      \/ \E u \in batch : WorkerApply(u) \/ WorkerApplyFails(u)
  BY DEF Worker, WorkerWake, WorkerRetry, WorkerStop, WorkerSnapshot, WorkerFlushed, mapVars
<1> QED BY <1>3, <1>4, <1>5, <1>6

\* In every behaviour no step of the worker makes a key that readers see as
\* disabled active again (AsyncStatusStore.flushPending, applyPending,
\* deletePendingIfMatch), except while Replace carries an update of the key or
\* when the key's last report came too late, after the key was deleted (and
\* perhaps added again), and provided that Replace is not interrupted by an error
\* once it has replaced the records.
THEOREM FlushCorrect ==
  ASSUME "reconcile" \notin Failing
  PROVE  Spec => FlushNeverResurrects
<1> DEFINE Step == Worker => \A k \in Keys : ShownDisabled(k)
                               => \/ ShownDisabled(k)'
                                  \/ \E u \in carried : u.key = k
                                  \/ k \in foreign
<1>1. StoreInv /\ FlushInv /\ [Next]_storeVars => Step
  BY StoreInductive, WorkerKeepsShown
<1>2. Spec => [](StoreInv /\ FlushInv)
  BY StoreInitOK, StoreInductive, FlushInitOK, FlushInductive, PTL DEF Spec
<1> HIDE DEF Step
<1>3. Spec => [][Step]_storeVars
  BY <1>1, <1>2, PTL DEF Spec
<1> QED BY <1>3 DEF FlushNeverResurrects, Step
===============================================================================
