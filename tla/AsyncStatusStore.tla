--------------------------- MODULE AsyncStatusStore ---------------------------
(***************************************************************************)
(* The key store the gateway and the console use                           *)
(* (internal/keystore/async_store.go): an auto-disable is accepted into a  *)
(* map of pending updates and a worker writes it to the base store later,  *)
(* on the condition that the record still has the version the disabled     *)
(* attempt was made with.  Administrative calls go to the base store at    *)
(* once and clear the pending updates of their keys; Service.changeMu lets *)
(* one of them run at a time.                                              *)
(*                                                                         *)
(* Steps are the critical sections of the two locks (of the pending map    *)
(* and of the base store).  signalFlush is part of the step that changes   *)
(* the map: it only sets a flag that the worker polls, and a worker that   *)
(* polls late is in the model anyway.                                      *)
(***************************************************************************)
EXTENDS KeyRecords

CONSTANTS
  NoUpdate,    \* a key without a pending update
  NoCall,      \* no administrative call is running
  MaxUpdates,  \* bound on the ids of updates, one kept for Replace to requeue
  CallKinds,   \* the administrative calls that occur
  Failing      \* who may meet an error: the worker, the caller of an
               \* administrative change, Replace once the records are replaced,
               \* a configuration update

ASSUME StoreConstants ==
  /\ MaxUpdates \in Nat
  /\ CallKinds \subseteq {"set", "delete", "deleteVendor", "append", "replace"}
  /\ Failing \subseteq {"worker", "caller", "reconcile", "config"}

VARIABLES
  rec,      \* the records of the base store
  pending,  \* AsyncStatusStore.pending
  nextID,   \* AsyncStatusStore.nextID
  closed,   \* AsyncStatusStore.closed, and stopCh is closed
  foreign,  \* history: the keys whose last report names a version that the
            \* record, if there is one, has not reached
  wake,     \* wakeCh holds a signal
  timer,    \* the retry timer is armed
  wpc,      \* where the worker goroutine is
  final,    \* the worker runs flushPendingFinal
  batch,    \* the updates of the worker's snapshot still to be applied
  cur,      \* the update the worker has applied and not yet settled
  synced,   \* allSynced of flushPending
  call,     \* the administrative call that is running, or NoCall
  listed,   \* the records Replace has read last
  carried   \* the pending updates Replace carries over

workerVars == <<timer, wpc, final, batch, cur, synced>>
callVars   == <<call, listed, carried>>
mapVars    == <<pending, nextID, wake, closed, foreign>>
storeVars  == <<rec, mapVars, workerVars, callVars>>

Updates == [id : 1..MaxUpdates, key : Keys, expected : Versions, status : Statuses]
Calls   == [op : {"set", "delete", "deleteVendor", "append", "replace"},
            keys : SUBSET Keys, status : Statuses,
            step : {"base", "clear", "list", "snapshot", "replace", "reconcile",
                    "append", "relist", "requeue", "ok", "err"}]

\* No update and no call is mistaken for the lack of one.
ASSUME StoreMarkers == NoUpdate \notin Updates /\ NoCall \notin Calls

Pending == {pending[k] : k \in Keys} \ {NoUpdate}

\* applyPendingVendorRecord: what a reader is shown of a record while an
\* update of its key is pending.  A missing key is not made up.
Shown(record, update) ==
  IF record = NoRecord \/ update = NoUpdate THEN record
  ELSE IF record.version > update.expected THEN record
  ELSE [status |-> update.status,
        version |-> IF record.version > update.expected + 1 THEN record.version
                    ELSE update.expected + 1]

\* The records ListAll returns from a base read and a later pending snapshot.
Overlay(records, updates) == [k \in Keys |-> Shown(records[k], updates[k])]

-----------------------------------------------------------------------------
(***************************************************************************)
(* Accepting an auto-disable, and closing the store.                       *)
(***************************************************************************)

\* Any key and any version is accepted: the request that reports them took the
\* key from its own router generation, and meanwhile the record may have moved
\* on, may be gone, or may have been added again with a version below.
SetStatusIfVersion(k, expected, status) ==
  /\ ~closed
  /\ nextID + 1 < MaxUpdates
  /\ nextID' = nextID + 1
  /\ pending' = [pending EXCEPT ![k] = [id |-> nextID + 1, key |-> k,
                                        expected |-> expected, status |-> status]]
  /\ wake' = TRUE
  /\ foreign' = IF rec[k] = NoRecord \/ rec[k].version < expected
                THEN foreign \cup {k} ELSE foreign \ {k}
  /\ UNCHANGED <<rec, closed, workerVars, callVars>>

\* main closes the store after every handler has returned.
CloseStore ==
  /\ ~closed
  /\ call = NoCall
  /\ closed' = TRUE
  /\ UNCHANGED <<rec, pending, nextID, wake, foreign, workerVars, callVars>>

-----------------------------------------------------------------------------
(***************************************************************************)
(* The worker goroutine.                                                   *)
(***************************************************************************)

WorkerWake ==
  /\ wpc = "select" /\ wake
  /\ wake' = FALSE
  /\ wpc' = "snapshot"
  /\ UNCHANGED <<rec, pending, nextID, closed, foreign, timer, final, batch, cur, synced,
                callVars>>

WorkerRetry ==
  /\ wpc = "select" /\ timer
  /\ timer' = FALSE
  /\ wpc' = "snapshot"
  /\ UNCHANGED <<rec, mapVars, final, batch, cur, synced, callVars>>

WorkerStop ==
  /\ wpc = "select" /\ closed
  /\ final' = TRUE
  /\ wpc' = "snapshot"
  /\ UNCHANGED <<rec, mapVars, timer, batch, cur, synced, callVars>>

\* pendingSnapshot at the start of flushPending and flushPendingFinal.
WorkerSnapshot ==
  /\ wpc = "snapshot"
  /\ batch' = Pending
  /\ synced' = TRUE
  /\ wpc' = "apply"
  /\ UNCHANGED <<rec, mapVars, timer, final, cur, callVars>>

\* applyPending succeeds, or finds another version or no record: either way
\* the update is done with.
WorkerApply(u) ==
  /\ wpc = "apply" /\ u \in batch
  /\ rec' = IF VersionMatches(rec, u.key, u.expected)
            THEN SetRecordStatus(rec, u.key, u.status) ELSE rec
  /\ batch' = batch \ {u}
  /\ cur' = u
  /\ wpc' = "settle"
  /\ UNCHANGED <<mapVars, timer, final, synced, callVars>>

\* Mutant of WorkerApplyFails: the update is given up after one failure.
WorkerGivesUp(u) ==
  /\ "worker" \in Failing
  /\ wpc = "apply" /\ u \in batch
  /\ batch' = batch \ {u}
  /\ cur' = u
  /\ wpc' = "settle"
  /\ UNCHANGED <<rec, mapVars, timer, final, synced, callVars>>

\* applyPending fails.  With PostgreSQL the statement may have been committed
\* before the deadline passed, so the record may have changed all the same.
WorkerApplyFails(u) ==
  /\ "worker" \in Failing
  /\ wpc = "apply" /\ u \in batch
  /\ \/ UNCHANGED rec
     \/ /\ VersionMatches(rec, u.key, u.expected)
        /\ rec' = SetRecordStatus(rec, u.key, u.status)
  /\ batch' = batch \ {u}
  /\ synced' = FALSE
  /\ UNCHANGED <<mapVars, timer, wpc, final, cur, callVars>>

\* Mutant of deletePendingIfMatch: the id is not compared.
deletePending(u) == pending' = [pending EXCEPT ![u.key] = NoUpdate]

deletePendingIfMatch(u) ==
  pending' = [pending EXCEPT ![u.key] =
                IF @ # NoUpdate /\ @.id = u.id THEN NoUpdate ELSE @]

WorkerSettle ==
  /\ wpc = "settle"
  /\ deletePendingIfMatch(cur)
  /\ cur' = NoUpdate
  /\ wpc' = "apply"
  /\ UNCHANGED <<rec, nextID, wake, closed, foreign, timer, final, batch, synced, callVars>>

\* Mutants of WorkerFlushed: the retry timer is never armed; the worker goes on
\* after the last flush.
WorkerFlushedOnce ==
  /\ wpc = "apply" /\ batch = {}
  /\ timer' = FALSE
  /\ wpc' = IF final THEN "done" ELSE "select"
  /\ UNCHANGED <<rec, mapVars, final, batch, cur, synced, callVars>>

WorkerFlushedOpen ==
  /\ wpc = "apply" /\ batch = {}
  /\ timer' = ~synced
  /\ wpc' = "select"
  /\ UNCHANGED <<rec, mapVars, final, batch, cur, synced, callVars>>

\* The flush is over: arm or stop the retry timer, or end after the last one.
WorkerFlushed ==
  /\ wpc = "apply" /\ batch = {}
  /\ timer' = (~synced /\ ~final)
  /\ wpc' = IF final THEN "done" ELSE "select"
  /\ UNCHANGED <<rec, mapVars, final, batch, cur, synced, callVars>>

Worker ==
  \/ WorkerWake \/ WorkerRetry \/ WorkerStop \/ WorkerSnapshot
  \/ \E u \in batch : WorkerApply(u) \/ WorkerApplyFails(u)
  \/ WorkerSettle \/ WorkerFlushed

-----------------------------------------------------------------------------
(***************************************************************************)
(* The administrative calls.                                               *)
(***************************************************************************)

\* Administrative versions stay below the bound, so that the worker can write.
Writable(keys) ==
  \A k \in keys : rec[k] # NoRecord => nextRecordVersion(rec[k].version) < MaxVersion

BeginCall(op, keys, status) ==
  /\ call = NoCall /\ ~closed
  /\ op \in CallKinds
  /\ op = "set" => \E k \in Keys : keys = {k}
  /\ op = "deleteVendor" => keys = Keys
  /\ op \in {"delete", "append"} => keys # {}
  /\ op # "set" => status = "active"
  /\ op \in {"set", "replace"} => Writable(keys)
  /\ op = "replace" => nextID + 1 < MaxUpdates
  /\ call' = [op |-> op, keys |-> keys, status |-> status,
              step |-> IF op = "replace" THEN "list" ELSE "base"]
  /\ UNCHANGED <<rec, mapVars, workerVars, listed, carried>>

Goto(step) == call' = [call EXCEPT !.step = step]

\* A base-store operation of the call fails: the call returns its error.
CallFails ==
  /\ call # NoCall
  /\ \/ "caller" \in Failing /\ call.step \in {"base", "list", "replace"}
     \/ "reconcile" \in Failing /\ call.step \in {"reconcile", "append", "relist"}
  /\ Goto("err")
  /\ UNCHANGED <<rec, mapVars, workerVars, listed, carried>>

\* SetStatus of a key that is missing.
SetStatusNotFound ==
  /\ call # NoCall /\ call.step = "base" /\ call.op = "set"
  /\ \A k \in call.keys : rec[k] = NoRecord
  /\ Goto("err")
  /\ UNCHANGED <<rec, mapVars, workerVars, listed, carried>>

\* The base store's part of SetStatus, Delete, DeleteVendor and Append.
CallBase ==
  /\ call # NoCall /\ call.step = "base"
  /\ \/ /\ call.op = "set"
        /\ \E k \in call.keys : rec[k] # NoRecord /\ Writable({k})
                                /\ rec' = SetRecordStatus(rec, k, call.status)
        /\ Goto("clear")
     \/ /\ call.op \in {"delete", "deleteVendor"}
        /\ rec' = DeleteRecords(rec, call.keys)
        /\ Goto("clear")
     \/ /\ call.op = "append"
        /\ rec' = AppendRecords(rec, call.keys)
        /\ Goto("ok")
  /\ UNCHANGED <<mapVars, workerVars, listed, carried>>

\* clearKeyPending, one key at a time, or clearVendorPending.
CallClear ==
  /\ call # NoCall /\ call.step = "clear"
  /\ \E ks \in SUBSET call.keys :
       /\ IF call.op = "deleteVendor" THEN ks = call.keys ELSE \E k \in Keys : ks = {k}
       /\ pending' = [k \in Keys |-> IF k \in ks THEN NoUpdate ELSE pending[k]]
       /\ call' = [call EXCEPT !.keys = @ \ ks,
                               !.step = IF call.keys = ks THEN "ok" ELSE "clear"]
  /\ UNCHANGED <<rec, nextID, wake, closed, foreign, workerVars, listed, carried>>

\* effectivePendingForVendor reads the records and then the pending updates.
ReplaceList ==
  /\ call # NoCall /\ call.step = "list"
  /\ listed' = rec
  /\ Goto("snapshot")
  /\ UNCHANGED <<rec, mapVars, workerVars, carried>>

Effective(records, u) == records[u.key] # NoRecord /\ records[u.key].version <= u.expected

ReplaceSnapshot ==
  /\ call # NoCall /\ call.step = "snapshot"
  /\ carried' = {u \in Pending : Effective(listed, u)}
  /\ Goto("replace")
  /\ UNCHANGED <<rec, mapVars, workerVars, listed>>

ReplaceBase ==
  /\ call # NoCall /\ call.step = "replace"
  /\ Writable(call.keys)
  /\ rec' = ReplaceRecords(rec, call.keys)
  /\ Goto("reconcile")
  /\ UNCHANGED <<mapVars, workerVars, listed, carried>>

\* Mutant of MissingDisabled: a key that is gone is not added again.
MissingNone(records) == {}

MissingDisabled(records) ==
  {u.key : u \in {v \in carried : ~IsActiveStatus(v.status) /\ records[v.key] = NoRecord}}

\* reconcilePendingAfterReplace: read the records, add the carried disabled
\* keys that are gone again, and read once more if any was.
ReconcileList ==
  /\ call # NoCall /\ call.step \in {"reconcile", "relist"}
  /\ listed' = rec
  /\ Goto(IF call.step = "reconcile" /\ MissingDisabled(rec) # {} THEN "append" ELSE "requeue")
  /\ UNCHANGED <<rec, mapVars, workerVars, carried>>

ReconcileAppend ==
  /\ call # NoCall /\ call.step = "append"
  /\ rec' = AppendRecords(rec, MissingDisabled(listed))
  /\ Goto("relist")
  /\ UNCHANGED <<mapVars, workerVars, listed, carried>>

pendingUpdateReflected(record, u) ==
  \/ record.status = u.status
  \/ ~IsActiveStatus(record.status) /\ ~IsActiveStatus(u.status)

Requeued == {u \in carried : /\ listed[u.key] # NoRecord
                             /\ ~pendingUpdateReflected(listed[u.key], u)}

\* Under the map's lock all pending updates of the vendor go, and the carried
\* ones that are not in the records yet return with the new version.  Ids are
\* compared only between updates of one key, so one new id serves them all.
ReconcileRequeue ==
  /\ call # NoCall /\ call.step = "requeue"
  /\ pending' = [k \in Keys |->
       IF \E u \in Requeued : u.key = k
       THEN [CHOOSE u \in Requeued : u.key = k EXCEPT
               !.expected = listed[k].version, !.id = nextID + 1]
       ELSE NoUpdate]
  /\ nextID' = IF Requeued = {} THEN nextID ELSE nextID + 1
  /\ wake' = (wake \/ Requeued # {})
  /\ foreign' = {}
  /\ Goto("ok")
  /\ UNCHANGED <<rec, closed, workerVars, listed, carried>>

\* The call returns; the scratch values of Replace go with it.
EndCall ==
  /\ call # NoCall /\ call.step \in {"ok", "err"}
  /\ call' = NoCall
  /\ listed' = [k \in Keys |-> NoRecord]
  /\ carried' = {}
  /\ UNCHANGED <<rec, mapVars, workerVars>>

CallStep ==
  \/ CallFails \/ SetStatusNotFound \/ CallBase \/ CallClear
  \/ ReplaceList \/ ReplaceSnapshot \/ ReplaceBase
  \/ ReconcileList \/ ReconcileAppend \/ ReconcileRequeue

-----------------------------------------------------------------------------
StoreInit(records) ==
  /\ rec = records
  /\ pending = [k \in Keys |-> NoUpdate]
  /\ nextID = 0
  /\ closed = FALSE /\ wake = FALSE /\ timer = FALSE /\ foreign = {}
  /\ wpc = "select" /\ final = FALSE /\ synced = TRUE
  /\ batch = {} /\ cur = NoUpdate
  /\ call = NoCall
  /\ listed = [k \in Keys |-> NoRecord]
  /\ carried = {}

Init == \E records \in [Keys -> {NewRecord, NoRecord}] : StoreInit(records)

\* In this module the gateway is the environment: an attempt may report any key,
\* with any version (below the bound, so that the worker can write).
Next ==
  \/ \E k \in Keys, v \in Versions :
       v < MaxVersion /\ SetStatusIfVersion(k, v, "disabled_auto")
  \/ CloseStore
  \/ Worker
  \/ \E op \in CallKinds, keys \in SUBSET Keys, status \in {"active", "disabled_manual"} :
       BeginCall(op, keys, status)
  \/ CallStep
  \/ EndCall

\* The worker goroutine is scheduled, and a base store that keeps being tried
\* with the updates of a key works again some time.
Fairness ==
  /\ WF_storeVars(Worker)
  /\ \A k \in Keys : SF_storeVars(\E u \in batch : u.key = k /\ WorkerApply(u))

Spec == Init /\ [][Next]_storeVars

FairSpec == Spec /\ Fairness

-----------------------------------------------------------------------------
(***************************************************************************)
(* Properties.                                                             *)
(***************************************************************************)

\* The types of the variables.
TypeOK ==
  /\ rec \in Stores
  /\ pending \in [Keys -> Updates \cup {NoUpdate}]
  /\ nextID \in 0..MaxUpdates
  /\ closed \in BOOLEAN /\ wake \in BOOLEAN /\ timer \in BOOLEAN
  /\ foreign \subseteq Keys
  /\ wpc \in {"select", "snapshot", "apply", "settle", "done"}
  /\ final \in BOOLEAN /\ synced \in BOOLEAN
  /\ batch \subseteq Updates
  /\ cur \in Updates \cup {NoUpdate}
  /\ call \in Calls \cup {NoCall}
  /\ listed \in Stores
  /\ carried \subseteq Updates

\* A reader of the store sees the key disabled.
ShownDisabled(k) ==
  LET shown == Overlay(rec, pending)[k]
  IN  shown # NoRecord /\ ~IsActiveStatus(shown.status)

\* No step of the worker makes a key that readers see as disabled active again:
\* a write, a refused write, a failed one and the removal of the settled update
\* all keep it disabled, also when a newer update took its place while the older
\* one was being written.  Two exceptions: while Replace carries an update of the
\* key, the key may look active until Replace has requeued it; and the late report
\* of an attempt on a key that was deleted meanwhile, or deleted and added again
\* with a lower version, is shown to readers until the worker is refused.
FlushNeverResurrects ==
  [][Worker => \A k \in Keys : ShownDisabled(k)
                              => \/ ShownDisabled(k)'
                                 \/ \E u \in carried : u.key = k
                                 \/ k \in foreign]_storeVars

\* A disable that was pending when Replace took its snapshot is, when Replace
\* has reconciled, either in the records or pending for their new version,
\* even if the worker wrote it, dropped it or was refused meanwhile.
ReplacePreservesPending ==
  [][\A u \in carried :
       call # NoCall /\ call.step = "requeue" /\ call'.step = "ok"
       => \/ rec[u.key] # NoRecord /\ ~IsActiveStatus(rec[u.key].status)
          \/ /\ pending'[u.key] # NoUpdate
             /\ VersionMatches(rec, u.key, pending'[u.key].expected)]_storeVars

\* Replacing the records does not enable a key that is selected again: if readers
\* see it disabled it stays disabled, or Replace carries the update that disables
\* it.
ReplaceKeepsDisabled ==
  [][ReplaceBase => \A k \in call.keys : ShownDisabled(k)
                                        => \/ ShownDisabled(k)'
                                           \/ \E u \in carried : u.key = k]_storeVars

\* An accepted update leaves the pending map while the store is open: a lost
\* wake-up, a failed write or a stopped timer never strands it.
PendingDrained ==
  \A k \in Keys : pending[k] # NoUpdate ~> pending[k] = NoUpdate \/ closed

\* Close ends: the worker notices, flushes once more and stops.
CloseEnds == closed ~> wpc = "done"
=============================================================================
