--------------------------- MODULE KeyHealthProofs ---------------------------
(***************************************************************************)
(* Proofs about KeyHealth, in three layers.                                *)
(*                                                                         *)
(* HealthInv puts the invariants of the two components side by side and    *)
(* ties the phase of the rebuild and the store call to the console         *)
(* operation.  It gives the types, and that the pool inside the system     *)
(* implements KeyPool, for every console operation.                        *)
(*                                                                         *)
(* KeptInv relates the versions of memory, records, updates and rebuilds   *)
(* when no key is removed and the vendor keeps its pool (NoRemoval).  It   *)
(* gives that a manual disable takes effect and that nothing but an enable *)
(* ends a disable.                                                         *)
(*                                                                         *)
(* AgreeInv adds that every disable is on its way to the other side, when  *)
(* no key is enabled either (NoEnabling).  It gives that store and memory  *)
(* agree once everything has settled.                                      *)
(***************************************************************************)
EXTENDS KeyHealth, TLAPS

P == INSTANCE KeyPoolProofs
S == INSTANCE AsyncStatusStoreProofs

\* The rebuild of the pool is at the step the operation is at.
PhaseOK ==
  /\ phase \in {"built", "aggregate"} <=> op # NoOp /\ op.step = "share"
  /\ phase = "shared" <=> op # NoOp /\ op.step = "publish"

\* The vendor has a key pool unless the console may make an aggregate of it.
PlainOK ==
  /\ plain \in BOOLEAN
  /\ "aggregate" \notin AdminOps => plain /\ phase # "aggregate"

\* A store call runs while the operation waits for it.
OpOK ==
  /\ op \in Ops \cup {NoOp}
  /\ op # NoOp => op.todo \subseteq op.keys
  /\ base \in Stores /\ ahead \in BOOLEAN
  /\ call # NoCall <=> op # NoOp /\ op.step = "wait"
  /\ PhaseOK /\ PlainOK

HealthInv == P!Inv /\ S!StoreInv /\ OpOK

-----------------------------------------------------------------------------
(***************************************************************************)
(* The proofs about the two components are about other instances of their  *)
(* modules than the ones KeyHealth is made of: the definitions agree.      *)
(***************************************************************************)

LEMMA SamePool ==
  /\ Pool!Init <=> P!Init
  /\ Pool!Next <=> P!Next
  /\ Pool!poolVars = P!poolVars
  /\ Pool!TypeOK <=> P!TypeOK
BY DEF Pool!Init, P!Init, Pool!Next, P!Next, Pool!poolVars, P!poolVars, Pool!TypeOK,
     P!TypeOK, Pool!Stores, P!Stores, Pool!PoolInit, P!PoolInit, Pool!StartRequest,
     P!StartRequest, Pool!AcquireVersioned, P!AcquireVersioned, Pool!ReleaseAttempt,
     P!ReleaseAttempt, Pool!Outcomes, P!Outcomes, Pool!CompleteAttempt, P!CompleteAttempt,
     Pool!PersistDisabledKeyAsync, P!PersistDisabledKeyAsync, Pool!EndRequest,
     P!EndRequest, Pool!Tick, P!Tick, Pool!BuildRouter, P!BuildRouter, Pool!AbandonRouter,
     P!AbandonRouter, Pool!ShareRuntimeStateFrom, P!ShareRuntimeStateFrom, Pool!SharePool, P!SharePool,
     Pool!LeavePool, P!LeavePool, Pool!BuildAggregate, P!BuildAggregate,
     Pool!PublishRouter, P!PublishRouter, Pool!RecoverKey, P!RecoverKey, Pool!stateVars,
     P!stateVars, Pool!buildVars, P!buildVars, Pool!reqVars, P!reqVars, Pool!Objects,
     P!Objects, Pool!Health, P!Health, Pool!Attempts, P!Attempts, Pool!Records, P!Records,
     Pool!NewKeyState, P!NewKeyState, Pool!BlankKeyState, P!BlankKeyState,
     Pool!isAvailableLocked, P!isAvailableLocked, Pool!releaseInflightLocked,
     P!releaseInflightLocked, Pool!LeaveRouter, P!LeaveRouter, Pool!currentVersionLocked,
     P!currentVersionLocked, Pool!HealthAfter, P!HealthAfter, Pool!LastErrAfter,
     P!LastErrAfter, Pool!Supersedes, P!Supersedes, Pool!IsActiveStatus, P!IsActiveStatus,
     Pool!RemovedObjects, P!RemovedObjects, Pool!enableLocked, P!enableLocked,
     Pool!Statuses, P!Statuses, Pool!Versions, P!Versions, Pool!Cooled, P!Cooled,
     Pool!disableLocked, P!disableLocked, Pool!scaledCooldownDuration,
     P!scaledCooldownDuration

LEMMA SameStore ==
  /\ Store!TypeOK <=> S!TypeOK
  /\ \A records : Store!StoreInit(records) <=> S!StoreInit(records)
  /\ Store!CloseStore <=> S!CloseStore
  /\ \A k, v, status : Store!SetStatusIfVersion(k, v, status) <=> S!SetStatusIfVersion(k, v, status)
  /\ Store!Worker <=> S!Worker
  /\ \A kind, keys, status : Store!BeginCall(kind, keys, status) <=> S!BeginCall(kind, keys, status)
  /\ Store!CallStep <=> S!CallStep
  /\ Store!EndCall <=> S!EndCall
BY DEF Store!TypeOK, S!TypeOK, Store!StoreInit, S!StoreInit, Store!CloseStore, S!CloseStore,
     Store!SetStatusIfVersion, S!SetStatusIfVersion, Store!Worker, S!Worker,
     Store!BeginCall, S!BeginCall, Store!CallStep, S!CallStep, Store!EndCall, S!EndCall,
     Store!Stores, S!Stores, Store!Updates, S!Updates, Store!Calls, S!Calls,
     Store!workerVars, S!workerVars, Store!callVars, S!callVars, Store!WorkerWake,
     S!WorkerWake, Store!WorkerRetry, S!WorkerRetry, Store!WorkerStop, S!WorkerStop,
     Store!WorkerSnapshot, S!WorkerSnapshot, Store!WorkerApply, S!WorkerApply,
     Store!WorkerApplyFails, S!WorkerApplyFails, Store!WorkerSettle, S!WorkerSettle,
     Store!WorkerFlushed, S!WorkerFlushed, Store!Writable, S!Writable, Store!mapVars,
     S!mapVars, Store!CallFails, S!CallFails, Store!SetStatusNotFound, S!SetStatusNotFound,
     Store!CallBase, S!CallBase, Store!CallClear, S!CallClear, Store!ReplaceList,
     S!ReplaceList, Store!ReplaceSnapshot, S!ReplaceSnapshot, Store!ReplaceBase,
     S!ReplaceBase, Store!ReconcileList, S!ReconcileList, Store!ReconcileAppend,
     S!ReconcileAppend, Store!ReconcileRequeue, S!ReconcileRequeue, Store!Records,
     S!Records, Store!Versions, S!Versions, Store!Statuses, S!Statuses, Store!Pending,
     S!Pending, Store!VersionMatches, S!VersionMatches, Store!SetRecordStatus,
     S!SetRecordStatus, Store!deletePendingIfMatch, S!deletePendingIfMatch,
     Store!nextRecordVersion, S!nextRecordVersion, Store!Goto, S!Goto, Store!DeleteRecords,
     S!DeleteRecords, Store!AppendRecords, S!AppendRecords, Store!Effective, S!Effective,
     Store!ReplaceRecords, S!ReplaceRecords, Store!MissingDisabled, S!MissingDisabled,
     Store!Requeued, S!Requeued, Store!NewRecord, S!NewRecord, Store!Bumped, S!Bumped,
     Store!Kept, S!Kept, Store!IsActiveStatus, S!IsActiveStatus,
     Store!pendingUpdateReflected, S!pendingUpdateReflected

\* What the components assume holds of their constants here.
LEMMA PoolAssumptions == P!PoolConstants /\ P!RecordConstants
BY PartConstants, RecordConstants
   DEF Pool!PoolConstants, P!PoolConstants, P!IsFiniteSet, Pool!IsFiniteSet, P!RecordConstants,
       P!Records, Records, P!Versions, Versions, P!Statuses, Statuses

LEMMA StoreAssumptions == S!StoreConstants /\ S!StoreMarkers /\ S!RecordConstants
BY PartConstants, RecordConstants
   DEF Store!StoreConstants, S!StoreConstants, S!StoreMarkers, Store!StoreMarkers, Store!Updates, S!Updates,
       Store!Calls, S!Calls, S!RecordConstants, S!Records, Records, Store!Versions, S!Versions, Versions,
       Store!Statuses, S!Statuses, Statuses

LEMMA SameRecords == Stores = P!Stores /\ Stores = S!Stores /\ Stores = Pool!Stores
BY DEF Stores, P!Stores, S!Stores, Pool!Stores, Records, P!Records, S!Records, Pool!Records, Versions,
       P!Versions, S!Versions, Pool!Versions, Statuses, P!Statuses, S!Statuses, Pool!Statuses

-----------------------------------------------------------------------------
(***************************************************************************)
(* The inductive steps of the components.                                  *)
(***************************************************************************)

LEMMA PoolKept ==
  ASSUME P!Inv, Pool!Next \/ UNCHANGED Pool!poolVars
  PROVE  P!Inv'
<1>1. Pool!Next => P!Next
  BY SamePool
<1>2. UNCHANGED Pool!poolVars => UNCHANGED P!poolVars
  BY DEF Pool!poolVars, P!poolVars, Pool!stateVars, P!stateVars, Pool!buildVars, P!buildVars,
     Pool!reqVars, P!reqVars
<1> QED BY <1>1, <1>2, P!NextInv, PoolAssumptions

LEMMA CallStepKept ==
  ASSUME S!StoreInv, Store!CallStep
  PROVE  S!StoreInv' /\ call # NoCall /\ call' # NoCall
<1> USE StoreAssumptions
<1>1. S!CallStep
  BY SameStore
<1>2. S!StoreInv'
  BY <1>1, S!FrameKeeps, S!CallBaseKeeps, S!ClearKeeps, S!ReplaceKeeps, S!ReconcileListKeeps,
     S!ReconcileAppendKeeps, S!RequeueKeeps DEF S!CallStep
<1>3. call # NoCall
  BY <1>1 DEF S!CallStep, S!CallFails, S!SetStatusNotFound, S!CallBase, S!CallClear, S!ReplaceList,
     S!ReplaceSnapshot, S!ReplaceBase, S!ReconcileList, S!ReconcileAppend, S!ReconcileRequeue
<1>4. ASSUME S!CallFails \/ S!SetStatusNotFound
      PROVE  call' # NoCall
  BY <1>3, <1>4, S!CallFacts DEF S!CallFails, S!SetStatusNotFound, S!StoreInv
<1>5. call' # NoCall
  BY <1>1, <1>4, S!CallBaseEffect, S!ClearKeeps, S!ReplaceEffect, S!ReconcileListKeeps, S!ReconcileAppendKeeps,
     S!RequeueEffect DEF S!CallStep
<1> QED BY <1>2, <1>3, <1>5

-----------------------------------------------------------------------------
(***************************************************************************)
(* What a rebuild reads, and how an operation moves on.                    *)
(***************************************************************************)

\* A reader is shown the record, or an update of it that waits for a version the
\* record has or will have.
LEMMA OverlayFacts ==
  ASSUME S!StoreInv, NEW records \in Stores
  PROVE  /\ Store!Overlay(records, pending) \in Stores
         /\ \A k \in Keys :
              LET shown == Store!Overlay(records, pending)[k] IN
              \/ shown = records[k]
              \/ /\ records[k] # NoRecord /\ pending[k] # NoUpdate
                 /\ records[k].version <= pending[k].expected
                 /\ shown # NoRecord /\ shown.status = "disabled_auto"
                 /\ shown.version = pending[k].expected + 1
<1> DEFINE over == Store!Overlay(records, pending)
<1>1. ASSUME NEW k \in Keys
      PROVE  /\ over[k] \in Records \cup {NoRecord}
             /\ \/ over[k] = records[k]
                \/ /\ records[k] # NoRecord /\ pending[k] # NoUpdate
                   /\ records[k].version <= pending[k].expected
                   /\ over[k] # NoRecord /\ over[k].status = "disabled_auto"
                   /\ over[k].version = pending[k].expected + 1
  <2>1. over[k] = Store!Shown(records[k], pending[k])
    BY DEF Store!Overlay
  <2>2. records[k] \in Records \cup {NoRecord}
    BY DEF Stores
  <2>3. CASE records[k] = NoRecord \/ pending[k] = NoUpdate
    BY <2>1, <2>2, <2>3 DEF Store!Shown
  <2>4. CASE records[k] # NoRecord /\ pending[k] # NoUpdate
    <3>1. pending[k] \in S!Updates /\ pending[k] \in S!Known
      BY <2>4 DEF S!StoreInv, S!TypeOK, S!Known, S!Pending
    <3>2. PICK u \in S!Updates : u = pending[k]
      BY <3>1
    <3>3. u.expected \in Nat /\ u.expected >= 1 /\ u.expected < MaxVersion /\ u.status = "disabled_auto"
      BY <3>1, <3>2, RecordConstants DEF S!StoreInv, S!UpdatesOK, S!Updates, S!Versions
    <3>4. PICK r \in Records : r = records[k]
      BY <2>2, <2>4
    <3>5. r.version \in Nat /\ MaxVersion \in Nat
      BY RecordConstants DEF Records, Versions
    <3>6. CASE r.version > u.expected
      BY <2>1, <2>2, <2>4, <3>2, <3>3, <3>4, <3>6 DEF Store!Shown
    <3>7. CASE ~(r.version > u.expected)
      <4> DEFINE new == [status |-> "disabled_auto", version |-> u.expected + 1]
      <4>1. Store!Shown(r, u) = new
        BY <2>4, <3>2, <3>3, <3>4, <3>5, <3>7 DEF Store!Shown
      <4>2. new \in Records /\ new.status = "disabled_auto" /\ new.version = u.expected + 1
        BY <3>3, <3>5 DEF Records, Versions, Statuses
      <4> HIDE DEF new
      <4> QED BY <2>1, <2>4, <3>2, <3>3, <3>4, <3>5, <3>7, <4>1, <4>2, RecordConstants
    <3> QED BY <3>6, <3>7
  <2> QED BY <2>3, <2>4
<1>2. over \in Stores
  <2>1. over = [k \in Keys |-> over[k]]
    BY DEF Store!Overlay
  <2> HIDE DEF over
  <2> QED BY <1>1, <2>1 DEF Stores
<1> QED BY <1>1, <1>2

Steps == {"store", "wait", "read", "overlay", "share", "publish", "recover"}

-----------------------------------------------------------------------------
(***************************************************************************)
(* Every step is a step of the pool or leaves it alone, and HealthInv is   *)
(* inductive.                                                              *)
(***************************************************************************)

PoolStep == Pool!Next \/ UNCHANGED Pool!poolVars

LEMMA QuietPool == ASSUME UNCHANGED poolVars PROVE PoolStep
BY DEF PoolStep, poolVars, Pool!poolVars, Pool!stateVars, Pool!buildVars, Pool!reqVars

LEMMA QuietStore == ASSUME S!StoreInv, UNCHANGED storeVars PROVE S!StoreInv'
<1>1. UNCHANGED S!storeVars /\ UNCHANGED <<rec, pending, nextID, batch, cur, S!callVars>>
  BY DEF storeVars, S!storeVars, S!mapVars, S!workerVars, S!callVars
<1> QED BY <1>1, S!QuietKeeps, StoreAssumptions

LEMMA RequestStep ==
  ASSUME HealthInv, NEW r \in Requests, Request(r)
  PROVE  HealthInv' /\ PoolStep
<1>1. PoolStep
  BY DEF Request, PoolStep, Pool!Next
<1>2. UNCHANGED <<storeVars, op, base, plain, ahead, phase>>
  BY DEF Request, Pool!StartRequest, Pool!AcquireVersioned, Pool!ReleaseAttempt, Pool!CompleteAttempt,
         Pool!EndRequest, Pool!buildVars
<1>3. P!Inv' /\ S!StoreInv'
  BY <1>1, <1>2, PoolKept, QuietStore DEF HealthInv, PoolStep
<1> QED BY <1>1, <1>2, <1>3 DEF HealthInv, OpOK, PhaseOK, PlainOK, storeVars

LEMMA PersistStep ==
  ASSUME HealthInv, NEW r \in Requests, PersistDisabledKey(r)
  PROVE  /\ HealthInv' /\ PoolStep
         /\ held[r] \in P!Attempts /\ held[r].obj[1] \in Keys /\ held[r].version \in S!Versions
<1>1. PoolStep
  BY DEF PersistDisabledKey, PoolStep, Pool!Next
<1>2. UNCHANGED <<op, base, plain, ahead, phase, call>>
  BY DEF PersistDisabledKey, Pool!PersistDisabledKeyAsync, Pool!buildVars, Store!SetStatusIfVersion,
         Store!callVars
<1>3. held[r] \in P!Attempts
  BY DEF PersistDisabledKey, HealthInv, P!Inv, P!HeldOK
<1>4. held[r].obj[1] \in Keys /\ held[r].version \in S!Versions
  BY <1>3 DEF P!Attempts, P!Objects, P!Versions, S!Versions
<1>5. S!SetStatusIfVersion(held[r].obj[1], held[r].version, "disabled_auto") /\ held[r].version < MaxVersion
  BY SameStore DEF PersistDisabledKey
<1>6. P!Inv' /\ S!StoreInv'
  BY <1>1, <1>4, <1>5, PoolKept, S!AcceptKeeps, StoreAssumptions DEF HealthInv, PoolStep
<1> QED BY <1>1, <1>2, <1>3, <1>4, <1>6 DEF HealthInv, OpOK, PhaseOK, PlainOK

LEMMA WorkerStep ==
  ASSUME HealthInv, Worker
  PROVE  HealthInv' /\ PoolStep /\ S!Worker
<1>1. PoolStep /\ S!Worker
  BY QuietPool, SameStore DEF Worker
<1>2. UNCHANGED <<op, base, plain, ahead, phase, call>>
  BY <1>1 DEF Worker, poolVars, S!Worker, S!WorkerWake, S!WorkerRetry, S!WorkerStop, S!WorkerSnapshot,
         S!WorkerApply, S!WorkerApplyFails, S!WorkerSettle, S!WorkerFlushed, S!callVars
<1>3. S!StoreInv'
  <2>1. CASE S!WorkerWake \/ S!WorkerRetry \/ S!WorkerStop \/ S!WorkerFlushed
    <3>1. UNCHANGED <<rec, pending, nextID, batch, cur, S!callVars>>
      BY <2>1 DEF S!WorkerWake, S!WorkerRetry, S!WorkerStop, S!WorkerFlushed, S!mapVars
    <3> QED BY <2>1, <3>1, S!QuietKeeps, StoreAssumptions DEF HealthInv
  <2> QED BY <1>1, <2>1, S!SnapshotKeeps, S!ApplyKeeps, S!SettleKeeps, StoreAssumptions DEF S!Worker, HealthInv
<1> QED BY <1>1, <1>2, <1>3, PoolKept DEF HealthInv, OpOK, PhaseOK, PlainOK, PoolStep

LEMMA ShutdownStep ==
  ASSUME HealthInv, Shutdown
  PROVE  /\ HealthInv' /\ PoolStep
         /\ UNCHANGED <<rec, pending, nextID, batch, cur, wpc, call, listed, carried>>
<1>1. PoolStep /\ S!CloseStore
  BY QuietPool, SameStore DEF Shutdown
<1>2. UNCHANGED <<op, base, plain, ahead, phase, rec, pending, nextID, batch, cur, wpc, call, listed, carried>>
  BY <1>1 DEF Shutdown, poolVars, S!CloseStore, S!callVars, S!workerVars
<1>3. S!StoreInv'
  BY <1>1, <1>2, S!QuietKeeps, StoreAssumptions DEF HealthInv, S!callVars
<1> QED BY <1>1, <1>2, <1>3, PoolKept DEF HealthInv, OpOK, PhaseOK, PlainOK, PoolStep

\* How the operations that do not touch the store move on: what they read and where
\* they are next.
LEMMA BeginStep ==
  ASSUME HealthInv, NEW name \in AdminOps, NEW keys \in SUBSET Keys, BeginOp(name, keys)
  PROVE  /\ HealthInv' /\ PoolStep
         /\ op = NoOp /\ op' # NoOp /\ op'.name = name /\ op'.keys = keys /\ op'.todo = keys
         /\ op'.changed = FALSE /\ op'.step \in {"store", "read"}
         /\ op'.step = "read" => keys = {}
<1> DEFINE o == [name |-> name, keys |-> keys, todo |-> keys, changed |-> FALSE,
                 step |-> IF name \in ConfigOps THEN "read" ELSE "store"]
<1>1. /\ o \in Ops /\ o.name = name /\ o.keys = keys /\ o.todo = keys
      /\ o.changed = FALSE /\ o.step \in {"store", "read"} /\ (o.step = "read" => name \in ConfigOps)
  BY DEF Ops
<1>2. op = NoOp /\ op' = o /\ (name \in ConfigOps => keys = {})
  BY DEF BeginOp
<1> HIDE DEF o
<1>3. o # NoOp
  BY <1>1, PartConstants
<1>4. PoolStep /\ P!Inv' /\ S!StoreInv' /\ UNCHANGED <<base, plain, ahead, phase, call>>
  BY QuietPool, QuietStore, PoolKept DEF BeginOp, HealthInv, PoolStep, poolVars, storeVars
<1>5. OpOK'
  BY <1>1, <1>2, <1>3, <1>4 DEF HealthInv, OpOK, PhaseOK, PlainOK
<1> QED BY <1>1, <1>2, <1>3, <1>4, <1>5 DEF HealthInv

LEMMA CallStoreStep ==
  ASSUME HealthInv, CallStore
  PROVE  /\ HealthInv' /\ PoolStep
         /\ op # NoOp /\ op.step = "store" /\ op' # NoOp /\ op'.step = "wait"
         /\ op'.name = op.name /\ op'.keys = op.keys /\ op'.changed = op.changed
         /\ call = NoCall /\ call' # NoCall
         /\ UNCHANGED <<rec, pending, nextID, foreign, batch, cur, wpc, carried>>
         /\ \/ /\ op.name \in {"enable", "disable", "recover"}
               /\ \E k \in op.todo :
                    /\ call'.keys = {k} /\ call'.op = "set" /\ call'.step = "base"
                    /\ call'.status = IF op.name = "disable" THEN "disabled_manual" ELSE "active"
                    /\ op'.todo = op.todo \ {k}
            \/ /\ op.name \in {"append", "delete", "replace"} /\ op'.todo = {} /\ call'.op = op.name
               /\ op.name # "replace" => call'.step = "base"
<1> DEFINE kind   == IF op.name \in {"append", "delete", "replace"} THEN op.name ELSE "set"
           status == IF op.name = "disable" THEN "disabled_manual" ELSE "active"
<1>1. op # NoOp /\ op \in Ops /\ op.step = "store" /\ UNCHANGED <<base, plain, ahead, phase>>
  BY DEF CallStore, HealthInv, OpOK, poolVars
<1>2. PICK keys \in SUBSET Keys :
        /\ S!BeginCall(kind, keys, status)
        /\ kind \in CallKinds /\ status \in {"active", "disabled_manual"}
        /\ \/ /\ op.name \in {"enable", "disable", "recover"}
              /\ \E k \in op.todo : keys = {k} /\ op' = [op EXCEPT !.step = "wait", !.todo = op.todo \ {k}]
           \/ /\ op.name \in {"append", "delete", "replace"}
              /\ op' = [op EXCEPT !.step = "wait", !.todo = {}]
  <2>1. op.keys \in SUBSET Keys /\ op.todo \in SUBSET Keys
    BY <1>1 DEF Ops
  <2>2. CASE op.name \in {"append", "delete", "replace"}
    <3>1. Store!BeginCall(op.name, op.keys, "active") /\ op' = [op EXCEPT !.step = "wait", !.todo = {}]
      BY <2>2 DEF CallStore
    <3> QED BY <2>1, <2>2, <3>1, SameStore DEF CallKinds
  <2>3. CASE op.name \notin {"append", "delete", "replace"}
    <3>1. PICK k \in op.todo : /\ Store!BeginCall("set", {k}, status)
                               /\ op.name \in {"enable", "disable", "recover"}
                               /\ op' = [op EXCEPT !.step = "wait", !.todo = op.todo \ {k}]
      BY <1>1, <2>3 DEF CallStore
    <3>2. {k} \in SUBSET Keys
      BY <2>1
    <3> QED BY <2>3, <3>1, <3>2, SameStore DEF CallKinds
  <2> QED BY <2>2, <2>3
<1>3. S!StoreInv' /\ UNCHANGED <<rec, pending, nextID, foreign, batch, cur, wpc, carried>>
  <2>1. UNCHANGED carried
    BY <1>2 DEF S!BeginCall
  <2> QED BY <1>2, <2>1, S!FrameKeeps, StoreAssumptions DEF HealthInv
<1>4. /\ call = NoCall /\ call' # NoCall
      /\ call'.op = kind /\ call'.keys = keys /\ call'.status = status
      /\ kind # "replace" => call'.step = "base"
  <2> DEFINE c == [op |-> kind, keys |-> keys, status |-> status,
                   step |-> IF kind = "replace" THEN "list" ELSE "base"]
  <2>1. call = NoCall /\ call' = c
    BY <1>2 DEF S!BeginCall
  <2>2. c \in S!Calls /\ c.op = kind /\ c.keys = keys /\ c.status = status /\ (kind # "replace" => c.step = "base")
    BY <1>2 DEF S!Calls, S!Statuses, CallKinds
  <2> HIDE DEF c, kind, status
  <2> QED BY <2>1, <2>2, StoreAssumptions DEF S!StoreMarkers
<1>5. /\ op' \in Ops /\ op' # NoOp /\ op'.step = "wait" /\ op'.todo \subseteq op'.keys
      /\ op'.name = op.name /\ op'.keys = op.keys /\ op'.changed = op.changed
      /\ \/ /\ op.name \in {"enable", "disable", "recover"}
            /\ \E k \in op.todo : keys = {k} /\ op'.todo = op.todo \ {k}
         \/ op.name \in {"append", "delete", "replace"} /\ op'.todo = {}
  <2>1. op.todo \subseteq op.keys /\ op.todo \in SUBSET Keys /\ "wait" \in Steps
    BY <1>1 DEF HealthInv, OpOK, Ops, Steps
  <2>2. \A k : (op.todo \ {k}) \in SUBSET Keys
    BY <2>1
  <2> HIDE DEF kind, status
  <2>3. op.changed \in BOOLEAN /\ {} \in SUBSET Keys
    BY <1>1 DEF Ops
  <2>4. CASE op.name \in {"append", "delete", "replace"} /\ op' = [op EXCEPT !.step = "wait", !.todo = {}]
    <3>1. /\ op' \in Ops /\ op' # NoOp /\ op'.step = "wait" /\ op'.todo = {}
          /\ op'.name = op.name /\ op'.keys = op.keys /\ op'.changed = op.changed
      BY <1>1, <2>1, <2>3, <2>4, PartConstants DEF Ops, Steps
    <3> QED BY <2>4, <3>1
  <2>5. CASE \E k \in op.todo : keys = {k} /\ op' = [op EXCEPT !.step = "wait", !.todo = op.todo \ {k}]
    <3>1. PICK k \in op.todo : keys = {k} /\ op' = [op EXCEPT !.step = "wait", !.todo = op.todo \ {k}]
      BY <2>5
    <3> DEFINE todo == op.todo \ {k}
    <3>2. todo \in SUBSET Keys /\ todo \subseteq op.keys /\ op' = [op EXCEPT !.step = "wait", !.todo = todo]
      BY <2>1, <3>1
    <3> HIDE DEF todo
    <3>3. /\ op' \in Ops /\ op' # NoOp /\ op'.step = "wait" /\ op'.todo = todo
          /\ op'.name = op.name /\ op'.keys = op.keys /\ op'.changed = op.changed
      BY <1>1, <2>1, <2>3, <3>2, PartConstants DEF Ops, Steps
    <3>4. CASE op.name \in {"append", "delete", "replace"}
      BY <1>2, <2>4, <3>4
    <3>5. CASE op.name \in {"enable", "disable", "recover"}
      BY <3>1, <3>2, <3>3, <3>5 DEF todo
    <3> QED BY <1>2, <3>4, <3>5
  <2> QED BY <1>2, <2>4, <2>5
<1>6. PoolStep /\ P!Inv'
  BY QuietPool, PoolKept DEF CallStore, HealthInv, PoolStep
<1>7. OpOK'
  BY <1>1, <1>4, <1>5 DEF HealthInv, OpOK, PhaseOK, PlainOK
<1> QED BY <1>1, <1>3, <1>4, <1>5, <1>6, <1>7 DEF HealthInv

LEMMA StoreStepStep ==
  ASSUME HealthInv, StoreStep
  PROVE  /\ HealthInv' /\ PoolStep
         /\ op # NoOp /\ op.step = "wait" /\ op' # NoOp /\ op'.step = "wait"
         /\ op'.name = op.name /\ op'.keys = op.keys /\ op'.todo = op.todo
         /\ op'.changed = (op.changed \/ rec' # rec)
         /\ S!CallStep /\ call # NoCall /\ call' # NoCall
<1>1. S!StoreInv' /\ call # NoCall /\ call' # NoCall /\ S!CallStep
  BY CallStepKept, SameStore DEF StoreStep, HealthInv
<1>2. op # NoOp /\ op \in Ops /\ op.step = "wait" /\ op.todo \subseteq op.keys /\ UNCHANGED <<base, plain, ahead, phase>>
  BY <1>1 DEF HealthInv, OpOK, StoreStep, poolVars
<1>3. PICK changed \in BOOLEAN : changed = (op.changed \/ rec' # rec)
  BY <1>2 DEF Ops
<1>4. /\ op' \in Ops /\ op' # NoOp /\ op'.step = "wait" /\ op'.todo = op.todo
      /\ op'.name = op.name /\ op'.keys = op.keys /\ op'.changed = changed
  <2>1. op' = [op EXCEPT !.changed = changed]
    BY <1>3 DEF StoreStep
  <2> QED BY <1>2, <2>1, PartConstants DEF Ops
<1>5. PoolStep /\ P!Inv'
  BY QuietPool, PoolKept DEF StoreStep, HealthInv, PoolStep
<1>6. OpOK'
  BY <1>1, <1>2, <1>4 DEF HealthInv, OpOK, PhaseOK, PlainOK
<1> QED BY <1>1, <1>2, <1>3, <1>4, <1>5, <1>6 DEF HealthInv

LEMMA ReturnsStep ==
  ASSUME HealthInv, StoreReturns
  PROVE  /\ HealthInv' /\ PoolStep
         /\ op # NoOp /\ op.step = "wait" /\ call # NoCall /\ call.step \in {"ok", "err"}
         /\ UNCHANGED <<rec, pending, nextID, batch, cur, wpc>>
         /\ carried' = {} /\ call' = NoCall
         /\ \/ op' = NoOp /\ call.step = "err" /\ ahead' = (ahead \/ op.changed)
            \/ op' = NoOp /\ ~op.changed /\ ahead' = ahead
            \/ /\ call.step = "ok" /\ ahead' = ahead
               /\ op' # NoOp /\ op'.name = op.name /\ op'.keys = op.keys /\ op'.todo = op.todo
               /\ op'.changed = op.changed
               /\ IF op.todo = {} THEN op'.step = "read" ELSE op'.step = "store"
<1>1. /\ op # NoOp /\ op \in Ops /\ op.step = "wait" /\ op.todo \subseteq op.keys
      /\ UNCHANGED <<base, plain, phase>> /\ S!EndCall /\ ahead \in BOOLEAN
  BY SameStore DEF HealthInv, OpOK, StoreReturns, poolVars
<1>2. /\ call # NoCall /\ call.step \in {"ok", "err"} /\ call' = NoCall /\ carried' = {}
  BY <1>1 DEF S!EndCall
<1>3. S!StoreInv' /\ UNCHANGED <<rec, pending, nextID, batch, cur, wpc>>
  BY <1>1, S!FrameKeeps, StoreAssumptions DEF HealthInv
<1>4. PoolStep /\ P!Inv'
  BY QuietPool, PoolKept DEF StoreReturns, HealthInv, PoolStep
<1>5. \/ op' = NoOp /\ call.step = "err" /\ ahead' = (ahead \/ op.changed)
      \/ op' = NoOp /\ ~op.changed /\ ahead' = ahead
      \/ /\ call.step = "ok" /\ ahead' = ahead
         /\ \/ op.todo # {} /\ op' = [op EXCEPT !.step = "store"]
            \/ op.todo = {} /\ op' = [op EXCEPT !.step = "read"]
  BY <1>1, <1>2 DEF StoreReturns
<1>6. ASSUME NEW step \in {"store", "read"}, op' = [op EXCEPT !.step = step]
      PROVE  /\ op' \in Ops /\ op' # NoOp /\ op'.name = op.name /\ op'.keys = op.keys /\ op'.todo = op.todo
             /\ op'.changed = op.changed /\ op'.step = step
  BY <1>1, <1>6, PartConstants DEF Ops
<1>7. op' = NoOp \/ (/\ op' \in Ops /\ op' # NoOp /\ op'.keys = op.keys /\ op'.todo = op.todo
                     /\ op'.step \in {"store", "read"})
  BY <1>5, <1>6
<1>8. ahead' \in BOOLEAN
  BY <1>1, <1>5 DEF Ops
<1>9. OpOK'
  BY <1>1, <1>2, <1>7, <1>8 DEF HealthInv, OpOK, PhaseOK, PlainOK
<1> QED BY <1>1, <1>2, <1>3, <1>4, <1>5, <1>6, <1>9 DEF HealthInv

LEMMA ReadStep ==
  ASSUME HealthInv, RefreshRead
  PROVE  /\ HealthInv' /\ PoolStep
         /\ op # NoOp /\ op.step = "read" /\ base' = rec
         /\ op' # NoOp /\ op'.step = "overlay"
         /\ op'.name = op.name /\ op'.keys = op.keys /\ op'.todo = op.todo /\ op'.changed = op.changed
<1>1. /\ op # NoOp /\ op \in Ops /\ op.step = "read" /\ op.todo \subseteq op.keys
      /\ UNCHANGED <<phase, call, plain, ahead>> /\ base' = rec
  BY DEF HealthInv, OpOK, RefreshRead, poolVars, storeVars
<1>2. op' = [op EXCEPT !.step = "overlay"]
  BY DEF RefreshRead
<1>3. /\ op' \in Ops /\ op' # NoOp /\ op'.step = "overlay"
      /\ op'.name = op.name /\ op'.keys = op.keys /\ op'.todo = op.todo /\ op'.changed = op.changed
  BY <1>1, <1>2, PartConstants DEF Ops
<1>4. PoolStep /\ P!Inv' /\ S!StoreInv'
  BY QuietPool, QuietStore, PoolKept DEF RefreshRead, HealthInv, PoolStep
<1>5. rec \in Stores
  BY SameRecords DEF HealthInv, S!StoreInv, S!TypeOK
<1>6. OpOK'
  BY <1>1, <1>3, <1>5 DEF HealthInv, OpOK, PhaseOK, PlainOK
<1> QED BY <1>1, <1>3, <1>4, <1>6 DEF HealthInv

LEMMA BuildStep ==
  ASSUME HealthInv, RefreshBuild
  PROVE  /\ HealthInv' /\ PoolStep
         /\ op # NoOp /\ op.step = "overlay" /\ op' # NoOp /\ op'.step = "share"
         /\ op'.name = op.name /\ op'.keys = op.keys /\ op'.todo = op.todo /\ op'.changed = op.changed
<1>1. /\ op # NoOp /\ op \in Ops /\ op.step = "overlay" /\ op.todo \subseteq op.keys
      /\ UNCHANGED <<call, plain, ahead>> /\ base' = NoRecords /\ plain \in BOOLEAN
      /\ \/ BuildsPool /\ phase' = "built"
         \/ ~BuildsPool /\ phase' = "aggregate"
  BY DEF HealthInv, OpOK, PlainOK, RefreshBuild, storeVars, Pool!BuildRouter, Pool!BuildAggregate
<1>2. op' = [op EXCEPT !.step = "share"]
  BY DEF RefreshBuild
<1>3. /\ op' \in Ops /\ op' # NoOp /\ op'.step = "share"
      /\ op'.name = op.name /\ op'.keys = op.keys /\ op'.todo = op.todo /\ op'.changed = op.changed
  BY <1>1, <1>2, PartConstants DEF Ops
<1>4. Store!Overlay(base, pending) \in Pool!Stores
  BY OverlayFacts, SameRecords DEF HealthInv, OpOK
<1>5. PoolStep
  BY <1>4 DEF RefreshBuild, PoolStep, Pool!Next
<1>6. P!Inv' /\ S!StoreInv'
  BY <1>5, QuietStore, PoolKept DEF RefreshBuild, HealthInv, PoolStep
<1>7. NoRecords \in Stores
  BY DEF NoRecords, Stores
<1>8. "aggregate" \notin AdminOps => BuildsPool
  BY <1>1 DEF BuildsPool, ConfigOps, Ops, HealthInv, OpOK, PlainOK
<1>9. OpOK'
  BY <1>1, <1>3, <1>7, <1>8 DEF HealthInv, OpOK, PhaseOK, PlainOK
<1> QED BY <1>1, <1>3, <1>5, <1>6, <1>9 DEF HealthInv

LEMMA FailsStep ==
  ASSUME HealthInv, RefreshFails
  PROVE  /\ HealthInv' /\ PoolStep
         /\ op # NoOp /\ op' = NoOp /\ ahead' = (ahead \/ op.changed)
         /\ op.step = "read" \/ op.name \in ConfigOps
         /\ UNCHANGED <<born, health, plan, nextPlan, pc, view, held>> /\ phase' = "idle"
<1>1. /\ op # NoOp /\ op \in Ops /\ UNCHANGED <<call, base, plain>> /\ op' = NoOp /\ ahead' = (ahead \/ op.changed)
      /\ op.step \in {"read", "share"} /\ (op.step = "read" \/ op.name \in ConfigOps) /\ ahead \in BOOLEAN
  BY DEF HealthInv, OpOK, RefreshFails, storeVars
<1>2. UNCHANGED poolVars \/ Pool!AbandonRouter
  BY DEF RefreshFails
<1>3. PoolStep
  BY <1>2, QuietPool DEF PoolStep, Pool!Next
<1>4. P!Inv' /\ S!StoreInv'
  BY <1>3, QuietStore, PoolKept DEF RefreshFails, HealthInv, PoolStep
<1>5. UNCHANGED <<born, health, plan, nextPlan, pc, view, held>> /\ phase' = "idle"
  <2>1. CASE op.step = "read"
    <3>1. phase = "idle"
      BY <1>1, <2>1 DEF HealthInv, OpOK, PhaseOK, PlainOK, P!Inv, P!TypeOK
    <3> QED BY <2>1, <3>1 DEF RefreshFails, poolVars
  <2>2. CASE op.step = "share"
    BY <2>2 DEF RefreshFails, Pool!AbandonRouter, Pool!stateVars, Pool!reqVars
  <2> QED BY <1>1, <2>1, <2>2
<1>6. OpOK'
  BY <1>1, <1>5 DEF HealthInv, OpOK, PhaseOK, PlainOK, Ops
<1> QED BY <1>1, <1>3, <1>4, <1>5, <1>6 DEF HealthInv

LEMMA ShareStep ==
  ASSUME HealthInv, RefreshShare
  PROVE  /\ HealthInv' /\ PoolStep
         /\ op # NoOp /\ op.step = "share" /\ phase \in {"built", "aggregate"}
         /\ op' # NoOp /\ op'.step = "publish"
         /\ op'.name = op.name /\ op'.keys = op.keys /\ op'.todo = op.todo /\ op'.changed = op.changed
<1>1. /\ op # NoOp /\ op \in Ops /\ op.step = "share" /\ op.todo \subseteq op.keys
      /\ UNCHANGED <<call, plain, ahead, base>> /\ phase \in {"built", "aggregate"} /\ phase' = "shared"
  BY DEF HealthInv, OpOK, RefreshShare, storeVars, Pool!ShareRuntimeStateFrom, Pool!SharePool, Pool!LeavePool
<1>2. op' = [op EXCEPT !.step = "publish"]
  BY DEF RefreshShare
<1>3. /\ op' \in Ops /\ op' # NoOp /\ op'.step = "publish"
      /\ op'.name = op.name /\ op'.keys = op.keys /\ op'.todo = op.todo /\ op'.changed = op.changed
  BY <1>1, <1>2, PartConstants DEF Ops
<1>4. PoolStep
  BY DEF RefreshShare, PoolStep, Pool!Next
<1>5. P!Inv' /\ S!StoreInv'
  BY <1>4, QuietStore, PoolKept DEF RefreshShare, HealthInv, PoolStep
<1>6. OpOK'
  BY <1>1, <1>3 DEF HealthInv, OpOK, PhaseOK, PlainOK
<1> QED BY <1>1, <1>3, <1>4, <1>5, <1>6 DEF HealthInv

LEMMA PublishStep ==
  ASSUME HealthInv, RefreshPublish
  PROVE  /\ HealthInv' /\ PoolStep
         /\ op # NoOp /\ op.step = "publish" /\ phase = "shared" /\ phase' = "idle"
         /\ plan' = nextPlan /\ UNCHANGED <<born, health, pc, view, held>> /\ ahead' = FALSE
         /\ \/ op' = NoOp
            \/ /\ op.name = "recover" /\ op' # NoOp /\ op'.step = "recover"
               /\ op'.name = op.name /\ op'.keys = op.keys /\ op'.changed = op.changed
<1>1. /\ op # NoOp /\ op \in Ops /\ op.step = "publish" /\ UNCHANGED <<call, base>> /\ ahead' = FALSE
      /\ phase = "shared" /\ phase' = "idle" /\ plan' = nextPlan /\ UNCHANGED <<born, health, pc, view, held>>
  BY DEF HealthInv, OpOK, RefreshPublish, storeVars, Pool!PublishRouter, Pool!stateVars, Pool!reqVars
<1>2. op' = NoOp \/ (op.name = "recover" /\ op' = [op EXCEPT !.step = "recover", !.todo = op.keys])
  BY DEF RefreshPublish
<1>3. \/ op' = NoOp
      \/ /\ op.name = "recover" /\ op' \in Ops /\ op' # NoOp /\ op'.step = "recover" /\ op'.todo = op'.keys
         /\ op'.name = op.name /\ op'.keys = op.keys /\ op'.changed = op.changed
  BY <1>1, <1>2, PartConstants DEF Ops
<1>4. PoolStep
  BY DEF RefreshPublish, PoolStep, Pool!Next
<1>5. PlainOK'
  <2>1. plain' \in BOOLEAN
    BY DEF RefreshPublish, BuildsPool, HealthInv, OpOK, PlainOK
  <2>2. "aggregate" \notin AdminOps => plain'
    BY <1>1 DEF RefreshPublish, BuildsPool, ConfigOps, Ops, HealthInv, OpOK, PlainOK
  <2> QED BY <1>1, <2>1, <2>2 DEF PlainOK
<1>6. P!Inv' /\ S!StoreInv'
  BY <1>4, QuietStore, PoolKept DEF RefreshPublish, HealthInv, PoolStep
<1>7. OpOK'
  BY <1>1, <1>3, <1>5 DEF HealthInv, OpOK, PhaseOK
<1> QED BY <1>1, <1>3, <1>4, <1>6, <1>7 DEF HealthInv

LEMMA RecoverStep ==
  ASSUME HealthInv, NEW k \in Keys, RecoverOne(k)
  PROVE  /\ HealthInv' /\ PoolStep
         /\ op # NoOp /\ op.step = "recover" /\ UNCHANGED <<born, plan, phase, nextPlan, pc, view, held, incoming>>
         /\ UNCHANGED health \/ (plan[k] # NoState /\ health' = [health EXCEPT ![plan[k]] = Pool!enableLocked(@)])
         /\ \/ op' = NoOp
            \/ /\ op' # NoOp /\ op'.step = "recover"
               /\ op'.name = op.name /\ op'.keys = op.keys /\ op'.changed = op.changed
<1>1. /\ op # NoOp /\ op \in Ops /\ op.step = "recover" /\ op.todo \subseteq op.keys
      /\ UNCHANGED <<call, plain, ahead, base>>
  BY DEF HealthInv, OpOK, RecoverOne, storeVars
<1>2. op' = NoOp \/ op' = [op EXCEPT !.todo = op.todo \ {k}]
  BY <1>1 DEF RecoverOne
<1>3. \/ op' = NoOp
      \/ /\ op' \in Ops /\ op' # NoOp /\ op'.step = "recover" /\ op'.todo \subseteq op'.keys
         /\ op'.name = op.name /\ op'.keys = op.keys /\ op'.changed = op.changed
  <2>1. PICK todo \in SUBSET Keys : todo = op.todo \ {k}
    BY <1>1 DEF Ops
  <2>2. todo \subseteq op.keys
    BY <1>1, <2>1
  <2> QED BY <1>1, <1>2, <2>1, <2>2, PartConstants DEF Ops
<1>4. UNCHANGED poolVars \/ Pool!RecoverKey(k)
  BY DEF RecoverOne
<1>5. /\ UNCHANGED <<born, plan, phase, nextPlan, pc, view, held, incoming>>
      /\ UNCHANGED health \/ (plan[k] # NoState /\ health' = [health EXCEPT ![plan[k]] = Pool!enableLocked(@)])
  BY <1>4 DEF poolVars, Pool!RecoverKey, Pool!buildVars, Pool!reqVars
<1>6. PoolStep
  BY <1>4, QuietPool DEF PoolStep, Pool!Next
<1>7. P!Inv' /\ S!StoreInv'
  BY <1>6, QuietStore, PoolKept DEF RecoverOne, HealthInv, PoolStep
<1>8. OpOK'
  BY <1>1, <1>3, <1>5 DEF HealthInv, OpOK, PhaseOK, PlainOK
<1> QED BY <1>1, <1>3, <1>5, <1>6, <1>7, <1>8 DEF HealthInv

LEMMA HealthInitOK == Init => HealthInv /\ Pool!Init
<1> SUFFICES ASSUME NEW records \in [Keys -> {NewRecord, NoRecord}], Pool!PoolInit(records),
                    Store!StoreInit(records), op = NoOp, base = NoRecords, plain = TRUE, ahead = FALSE
             PROVE  HealthInv /\ Pool!Init
  BY DEF Init
<1>1. records \in Pool!Stores
  <2>1. NewRecord \in Records
    BY RecordConstants DEF NewRecord, Records, Versions, Statuses
  <2> QED BY <2>1, SameRecords DEF Stores
<1>2. Pool!Init /\ P!Init
  BY <1>1, SamePool DEF Pool!Init
<1>3. S!Init
  <2>1. [Keys -> {NewRecord, NoRecord}] = [Keys -> {S!NewRecord, NoRecord}]
    BY DEF NewRecord, S!NewRecord
  <2>2. S!StoreInit(records)
    BY SameStore
  <2> QED BY <2>1, <2>2 DEF S!Init
<1>4. P!Inv /\ S!StoreInv
  BY <1>2, <1>3, P!InitInv, S!StoreInitOK, PoolAssumptions, StoreAssumptions
<1>5. OpOK
  BY DEF OpOK, PhaseOK, PlainOK, Pool!PoolInit, Store!StoreInit, NoRecords, Stores
<1> QED BY <1>2, <1>4, <1>5 DEF HealthInv

LEMMA HealthInductive == HealthInv /\ [Next]_vars => HealthInv' /\ PoolStep
<1> SUFFICES ASSUME HealthInv, [Next]_vars PROVE HealthInv' /\ PoolStep
  OBVIOUS
<1>1. CASE UNCHANGED vars
  <2>1. UNCHANGED poolVars /\ UNCHANGED storeVars /\ UNCHANGED <<op, base, plain, ahead>>
    BY <1>1 DEF vars
  <2>2. PoolStep /\ P!Inv' /\ S!StoreInv'
    BY <2>1, QuietPool, QuietStore, PoolKept DEF HealthInv, PoolStep
  <2> QED BY <2>1, <2>2 DEF HealthInv, OpOK, PhaseOK, PlainOK, poolVars, storeVars
<1>2. CASE Console
  BY <1>2, BeginStep, CallStoreStep, StoreStepStep, ReturnsStep, ReadStep, BuildStep, FailsStep, ShareStep,
     PublishStep, RecoverStep DEF Console
<1> QED BY <1>1, <1>2, RequestStep, PersistStep, WorkerStep, ShutdownStep DEF Next

\* In every behaviour of the whole system each variable has its type, and a store
\* call runs exactly while the console waits for it.
THEOREM HealthTypeCorrect == Spec => []TypeOK
<1>1. HealthInv => TypeOK
  BY SamePool, SameStore DEF HealthInv, OpOK, PlainOK, TypeOK, P!Inv, S!StoreInv
<1> QED BY <1>1, HealthInitOK, HealthInductive, PTL DEF Spec

\* The pool inside the whole system implements KeyPool: whatever store, worker and
\* console do, requests and rebuilds take only the steps that KeyPool allows
\* (Runtime.updateLocked, Service.changeMu).
THEOREM PoolImplemented == Spec => ImplementsPool
<1>1. HealthInv /\ [Next]_vars => [Pool!Next]_(Pool!poolVars)
  BY HealthInductive DEF PoolStep
<1> QED BY <1>1, HealthInitOK, HealthInductive, PTL DEF Spec, ImplementsPool, Pool!Spec

\* So what is proved of the pool holds in the whole system: no inflight count is
\* lost or leaked, and every KeyState is in the latest pool, retired, or left behind
\* by a pool that an aggregate has replaced.
THEOREM PoolPropertiesHold == Spec => [](P!InflightConserved /\ P!RetiredMatchesPlan)
<1>1. Pool!Spec => P!Spec
  <2>1. [Pool!Next]_(Pool!poolVars) => [P!Next]_(P!poolVars)
    <3>1. UNCHANGED Pool!poolVars => UNCHANGED P!poolVars
      BY DEF Pool!poolVars, P!poolVars, Pool!stateVars, P!stateVars, Pool!buildVars, P!buildVars,
     Pool!reqVars, P!reqVars
    <3> QED BY <3>1, SamePool
  <2> QED BY <2>1, SamePool, PTL DEF Pool!Spec, P!Spec
<1>2. P!Spec => []P!InflightConserved
  BY P!InflightCorrect, PoolAssumptions
<1>3. P!Spec => []P!RetiredMatchesPlan
  BY P!RetiredCorrect, PoolAssumptions
<1> QED BY <1>1, <1>2, <1>3, PoolImplemented, PTL DEF ImplementsPool

-----------------------------------------------------------------------------
(***************************************************************************)
(* Store and memory, as long as no key is removed.  The versions of a      *)
(* record then only grow, and a key has one KeyState for good.             *)
(***************************************************************************)

NoRemoval == AdminOps \cap {"delete", "replace", "aggregate"} = {}

\* Every rebuild then makes a key pool of the vendor.
LEMMA PoolBuilt ==
  ASSUME HealthInv, NoRemoval, RefreshBuild
  PROVE  Pool!BuildRouter(Store!Overlay(base, pending))
<1>1. op # NoOp /\ op \in Ops
  BY DEF RefreshBuild, HealthInv, OpOK
<1>2. plain /\ op.name # "aggregate"
  BY <1>1 DEF NoRemoval, Ops, HealthInv, OpOK, PlainOK
<1>3. BuildsPool
  BY <1>2 DEF BuildsPool, ConfigOps
<1> QED BY <1>3 DEF RefreshBuild

LEMMA PoolBound ==
  ASSUME HealthInv, NoRemoval, RefreshShare
  PROVE  Pool!SharePool
<1>1. phase # "aggregate"
  BY DEF NoRemoval, HealthInv, OpOK, PlainOK
<1> QED BY <1>1 DEF RefreshShare, Pool!ShareRuntimeStateFrom, Pool!LeavePool

\* The KeyState of a key: no key is removed, so it is the first one made for it.
State(k) == health[<<k, 1>>]

Active(record) == record # NoRecord /\ IsActiveStatus(record.status)
Inactive(record) == record # NoRecord /\ ~IsActiveStatus(record.status)

Reading  == op # NoOp /\ op.step = "overlay"
Sharing  == op # NoOp /\ op.step = "share"
Rebuilt  == op # NoOp /\ op.step \in {"publish", "recover"}
Enabling == op # NoOp /\ op.name \in {"enable", "recover"} /\ op.changed

\* The call of the running operation, as the steps of such a call.
CallOK ==
  /\ call # NoCall =>
       \/ /\ op.name \in {"enable", "disable", "recover"} /\ call.op = "set"
          /\ call.step \in {"base", "clear", "ok", "err"}
          /\ call.status = IF op.name = "disable" THEN "disabled_manual" ELSE "active"
          /\ call.keys \subseteq op.keys \ op.todo
          /\ call.step = "base" => \E k \in op.keys : call.keys = {k}
       \/ op.name = "append" /\ call.op = "append" /\ call.step \in {"base", "ok", "err"}
  /\ op # NoOp /\ op.step = "recover" => op.name = "recover"
  /\ op # NoOp /\ op.step \in {"read", "overlay", "share", "publish"} => op.todo = {}

\* A key that has a KeyState has a record, and every rebuild finds it.
KeysOK ==
  \A k \in Keys :
    /\ born[k] \in {0, 1}
    /\ plan[k] # NoState => born[k] = 1
    /\ born[k] = 1 =>
         /\ rec[k] # NoRecord
         /\ IF phase = "shared" THEN nextPlan[k] # NoState ELSE plan[k] # NoState
         /\ Reading => base[k] # NoRecord
         /\ Sharing => incoming[k] # NoRecord

\* Memory is at most one version ahead of the store, and then it is disabled.
VersionsOK ==
  /\ \A k \in Keys : born[k] = 1 =>
       /\ State(k).version <= rec[k].version + 1
       /\ IsActiveStatus(State(k).status) => State(k).version <= rec[k].version
  /\ \A u \in S!Known : /\ born[u.key] = 1
                        /\ u.expected <= rec[u.key].version
                        /\ u.expected <= State(u.key).version
  /\ \A r \in Requests : pc[r] \in {"attempt", "persist"} =>
       held[r].version <= rec[held[r].obj[1]].version

\* A record that was read is still the record, or a disable has been written since.
Current(k, record) ==
  \/ record = rec[k]
  \/ /\ born[k] = 1 /\ record # NoRecord /\ Inactive(rec[k])
     /\ record.version < rec[k].version
     /\ IsActiveStatus(record.status) => record.version <= State(k).version

ReadOK ==
  /\ Reading => \A k \in Keys : Current(k, base[k])
  /\ Sharing => \A k \in Keys :
       \/ Current(k, incoming[k])
       \/ /\ born[k] = 1 /\ Inactive(incoming[k]) /\ incoming[k].version <= rec[k].version + 1
          /\ Active(rec[k]) => rec[k].version <= incoming[k].version

\* Memory has seen every enable in the store.
Followed(k) == born[k] = 1 /\ Active(rec[k]) => rec[k].version <= State(k).version

FollowedOK == Rebuilt \/ (~ahead /\ ~Enabling) => \A k \in Keys : Followed(k)

\* A record that memory will obey if it does not serve the key as disabled anyway.
Binding(k, record) ==
  /\ Inactive(record)
  /\ born[k] = 1 /\ IsActiveStatus(State(k).status) => State(k).version < record.version

DisableOK ==
  op # NoOp /\ op.name = "disable" =>
    \A k \in op.keys \ op.todo :
      /\ op.step = "wait" => \/ call.step = "base" /\ k \in call.keys
                             \/ call.step = "err"
                             \/ Binding(k, rec[k])
      /\ op.step \in {"store", "read"} => Binding(k, rec[k])
      /\ op.step = "overlay" => Binding(k, base[k])
      /\ op.step = "share" => Binding(k, incoming[k])
      /\ op.step = "publish" => born[k] = 1 /\ ~IsActiveStatus(State(k).status)

\* Whatever memory, a request or an update says about the key is older than its
\* record.
Older(k) ==
  /\ rec[k] # NoRecord
  /\ born[k] = 1 => /\ State(k).version <= rec[k].version
                    /\ IsActiveStatus(State(k).status) => State(k).version < rec[k].version
  /\ \A u \in S!Known : u.key = k => u.expected < rec[k].version
  /\ \A r \in Requests : pc[r] \in {"attempt", "persist"} /\ held[r].obj[1] = k =>
       held[r].version < rec[k].version

\* A key that is being recovered is not ahead of its record when its health is
\* cleared.
RecoverOK ==
  op # NoOp /\ op.name = "recover" =>
    \A k \in op.keys :
      /\ k \notin op.todo =>
           /\ op.step = "wait" => \/ call.step = "base" /\ k \in call.keys
                                  \/ call.step = "err"
                                  \/ Older(k)
           /\ op.step \in {"store", "read", "overlay", "share"} => Older(k)
           /\ op.step = "share" => incoming[k] # NoRecord /\ incoming[k].version <= rec[k].version
      /\ op.step \in {"publish", "recover"} => born[k] = 1 /\ State(k).version <= rec[k].version

KeptInv == CallOK /\ KeysOK /\ VersionsOK /\ ReadOK /\ FollowedOK /\ DisableOK /\ RecoverOK

\* What the types of the components say about one key, one request, one update.
LEMMA KeyFacts ==
  ASSUME HealthInv, NEW k \in Keys
  PROVE  /\ State(k).version \in Nat /\ <<k, 1>> \in P!Objects /\ State(k) \in P!Health
         /\ rec[k] # NoRecord => rec[k].version \in Nat
         /\ base[k] # NoRecord => base[k].version \in Nat
         /\ incoming[k] # NoRecord => incoming[k].version \in Nat
         /\ born[k] = 1 /\ plan[k] # NoState => plan[k] = <<k, 1>>
         /\ born[k] = 1 /\ phase = "shared" /\ nextPlan[k] # NoState => nextPlan[k] = <<k, 1>>
<1>1. <<k, 1>> \in P!Objects
  BY PoolAssumptions DEF P!Objects, P!PoolConstants
<1>2. State(k) \in P!Health
  BY <1>1 DEF State, HealthInv, P!Inv, P!TypeOK
<1>3. rec \in Stores /\ base \in Stores /\ incoming \in Stores
  BY SameRecords DEF HealthInv, OpOK, P!Inv, P!TypeOK, S!StoreInv, S!TypeOK
<1>4. \A records \in Stores : records[k] # NoRecord => records[k].version \in Nat
  <2> SUFFICES ASSUME NEW records \in Stores, records[k] # NoRecord PROVE records[k].version \in Nat
    OBVIOUS
  <2>1. records[k] \in Records
    BY DEF Stores
  <2> QED BY <2>1, RecordConstants DEF Records, Versions
<1>5. \A o \in P!Objects : o[1] = k /\ o[2] <= 1 => o = <<k, 1>>
  BY PoolAssumptions DEF P!Objects, P!PoolConstants
<1>6. plan[k] # NoState => plan[k] \in P!Objects /\ plan[k][1] = k /\ plan[k][2] <= born[k]
  BY DEF HealthInv, P!Inv, P!TypeOK, P!Names
<1>7. phase = "shared" /\ nextPlan[k] # NoState =>
        nextPlan[k] \in P!Objects /\ nextPlan[k][1] = k /\ nextPlan[k][2] <= born[k]
  BY DEF HealthInv, P!Inv, P!TypeOK, P!Names
<1>8. State(k).version \in Nat
  BY <1>2 DEF P!Health, P!Versions
<1> QED BY <1>1, <1>2, <1>3, <1>4, <1>5, <1>6, <1>7, <1>8

LEMMA HeldFacts ==
  ASSUME HealthInv, KeysOK, NEW r \in Requests, pc[r] \in {"attempt", "persist"}
  PROVE  /\ held[r].obj[1] \in Keys /\ held[r].obj = <<held[r].obj[1], 1>> /\ born[held[r].obj[1]] = 1
         /\ held[r] \in P!Attempts
         /\ held[r].version \in Nat /\ held[r].version <= State(held[r].obj[1]).version
<1>1. /\ held[r] \in P!Attempts /\ held[r].obj[2] <= born[held[r].obj[1]]
      /\ held[r].version <= health[held[r].obj].version
  BY DEF HealthInv, P!Inv, P!HeldOK
<1>2. PICK o \in P!Objects : o = held[r].obj
  BY <1>1 DEF P!Attempts
<1>3. o[1] \in Keys /\ o[2] \in Nat /\ o[2] >= 1 /\ o = <<o[1], o[2]>>
  BY PoolAssumptions DEF P!Objects, P!PoolConstants
<1>4. born[o[1]] = 1 /\ o[2] = 1
  BY <1>1, <1>2, <1>3 DEF KeysOK
<1>5. held[r].version \in Nat
  BY <1>1 DEF P!Attempts, P!Versions
<1> QED BY <1>1, <1>2, <1>3, <1>4, <1>5 DEF State

LEMMA UpdateFacts ==
  ASSUME HealthInv, NEW u \in S!Known
  PROVE  u.key \in Keys /\ u.expected \in Nat
<1>1. u \in S!Updates
  BY S!KnownFacts, StoreAssumptions DEF HealthInv, S!StoreInv
<1> QED BY <1>1 DEF S!Updates, S!Versions

-----------------------------------------------------------------------------
(***************************************************************************)
(* Requests.                                                               *)
(***************************************************************************)

\* A request changes no version in memory and activates no key; a key it picks is
\* active, a key it disables it goes on to report.
RequestEffect(r) ==
  /\ \A k \in Keys : born[k] = 1 =>
       /\ State(k)'.version = State(k).version
       /\ IsActiveStatus(State(k)'.status) => IsActiveStatus(State(k).status)
       /\ IsActiveStatus(State(k).status) /\ ~IsActiveStatus(State(k)'.status) =>
            pc'[r] = "persist" /\ held'[r].obj[1] = k
  /\ \A q \in Requests :
       /\ pc'[q] \in {"attempt", "persist"} =>
            \/ pc[q] \in {"attempt", "persist"} /\ held'[q] = held[q]
            \/ \E k \in Keys : /\ born[k] = 1 /\ held'[q].obj[1] = k
                               /\ IsActiveStatus(State(k).status) /\ held'[q].version = State(k).version
       /\ pc[q] = "persist" => pc'[q] = "persist" /\ held'[q] = held[q]
       /\ \A k \in Keys : pc'[q] = "persist" /\ held'[q].obj[1] = k =>
            pc[q] = "persist" \/ ~IsActiveStatus(State(k)'.status)

LEMMA AcquireEffect ==
  ASSUME HealthInv, KeysOK, NEW r \in Requests, NEW k \in Keys, Pool!AcquireVersioned(r, k)
  PROVE  RequestEffect(r)
<1> DEFINE o == view[r][k]
           a == [obj |-> o, version |-> health[o].version]
<1>1. /\ pc[r] = "routing" /\ o # NoState /\ IsActiveStatus(health[o].status) /\ UNCHANGED health
      /\ pc' = [pc EXCEPT ![r] = "attempt"] /\ held' = [held EXCEPT ![r] = a]
  BY DEF Pool!AcquireVersioned, Pool!isAvailableLocked, Pool!IsActiveStatus, IsActiveStatus
<1>2. o \in P!Objects /\ o[1] = k /\ o[2] <= born[k]
  BY <1>1 DEF HealthInv, P!Inv, P!TypeOK, P!Names
<1>3. o = <<k, 1>> /\ born[k] = 1
  <2>1. o[2] \in Nat /\ o[2] >= 1 /\ o = <<o[1], o[2]>> /\ born[k] \in {0, 1}
    BY <1>2, PoolAssumptions DEF P!Objects, P!PoolConstants, KeysOK
  <2> QED BY <1>2, <2>1
<1>4. a.obj = o /\ a.version = health[o].version
  OBVIOUS
<1>5. pc \in [Requests -> {"idle", "routing", "attempt", "persist"}] /\ DOMAIN held = Requests
  BY DEF HealthInv, P!Inv, P!TypeOK
<1> HIDE DEF a, o
<1>6. \A q \in Requests : \/ q = r /\ pc'[q] = "attempt" /\ held'[q] = a
                          \/ q # r /\ pc'[q] = pc[q] /\ held'[q] = held[q]
  BY <1>1, <1>5
<1>7. \A j : State(j)' = State(j)
  BY <1>1 DEF State
<1>8. a.obj[1] = k /\ IsActiveStatus(State(k).status) /\ a.version = State(k).version
  BY <1>1, <1>2, <1>3, <1>4 DEF State
<1> QED BY <1>1, <1>3, <1>6, <1>7, <1>8 DEF RequestEffect

LEMMA CompleteEffect ==
  ASSUME HealthInv, KeysOK, NEW r \in Requests, NEW outcome \in Pool!Outcomes, NEW duration \in BaseCooldowns,
         Pool!CompleteAttempt(r, outcome, duration)
  PROVE  RequestEffect(r)
<1> DEFINE a == held[r]
           o == a.obj
           k == o[1]
           current == Pool!currentVersionLocked(a)
           after == Pool!HealthAfter(health[o], outcome, duration)
<1>1. /\ pc[r] = "attempt"
      /\ outcome = "cooldown" => health[o].failures < MaxFailures
      /\ health' = IF current THEN [health EXCEPT ![o] = after] ELSE health
      /\ held' = IF current /\ outcome = "disable" THEN held ELSE [held EXCEPT ![r] = NoAttempt]
      /\ pc' \in {[pc EXCEPT ![r] = "idle"], [pc EXCEPT ![r] = "routing"], [pc EXCEPT ![r] = "persist"]}
      /\ pc' = [pc EXCEPT ![r] = "persist"] <=> (current /\ outcome = "disable")
  <2>1. pc[r] = "attempt" /\ (outcome = "cooldown" => health[o].failures < MaxFailures)
    BY DEF Pool!CompleteAttempt
  <2>2. /\ health' = IF current THEN [health EXCEPT ![o] = after] ELSE health
        /\ held' = IF current /\ outcome = "disable" THEN held ELSE [held EXCEPT ![r] = NoAttempt]
    BY DEF Pool!CompleteAttempt
  <2>3. \/ outcome \in {"success", "interrupted"} /\ pc' = [pc EXCEPT ![r] = "idle"]
        \/ /\ outcome \notin {"success", "interrupted"}
           /\ pc' = [pc EXCEPT ![r] = IF current /\ outcome = "disable" THEN "persist" ELSE "routing"]
    BY DEF Pool!CompleteAttempt, Pool!LeaveRouter
  <2>4. r \in DOMAIN pc
    BY DEF HealthInv, P!Inv, P!TypeOK
  <2>5. [pc EXCEPT ![r] = "idle"][r] = "idle" /\ [pc EXCEPT ![r] = "routing"][r] = "routing"
        /\ [pc EXCEPT ![r] = "persist"][r] = "persist"
    BY <2>4
  <2> HIDE DEF current
  <2> QED BY <2>1, <2>2, <2>3, <2>5
<1>2. k \in Keys /\ o = <<k, 1>> /\ born[k] = 1 /\ o \in P!Objects
  BY <1>1, HeldFacts DEF P!Attempts
<1>3. health[o] \in P!Health /\ DOMAIN health = P!Objects
  BY <1>2 DEF HealthInv, P!Inv, P!TypeOK
<1>4. outcome \in P!Outcomes /\ after = P!HealthAfter(health[o], outcome, duration)
  BY DEF Pool!HealthAfter, P!HealthAfter, Pool!Outcomes, P!Outcomes, Pool!Cooled, P!Cooled,
     Pool!disableLocked, P!disableLocked, Pool!scaledCooldownDuration,
     P!scaledCooldownDuration, Pool!NewKeyState, P!NewKeyState
<1>5. after.version = health[o].version /\ (IsActiveStatus(after.status) => IsActiveStatus(health[o].status))
  <2>1. after.version = health[o].version
    BY <1>1, <1>3, <1>4, P!HealthAfterType, PoolAssumptions
  <2>2. P!IsActiveStatus(after.status) => P!IsActiveStatus(health[o].status)
    BY <1>3, <1>4, P!HealthAfterStatus, PoolAssumptions
  <2> QED BY <2>1, <2>2 DEF P!IsActiveStatus, IsActiveStatus
<1>6. outcome = "disable" => after.status = "disabled_auto"
  BY DEF Pool!HealthAfter, Pool!disableLocked, Pool!NewKeyState
<1>7. outcome # "disable" => after.status = health[o].status
  BY <1>3 DEF Pool!HealthAfter, Pool!Cooled, Pool!Outcomes, P!Health
<1>8. \A j \in Keys : State(j)' = IF j = k /\ current THEN after ELSE State(j)
  BY <1>1, <1>2, <1>3 DEF State
<1>9. pc \in [Requests -> {"idle", "routing", "attempt", "persist"}] /\ DOMAIN held = Requests
  BY DEF HealthInv, P!Inv, P!TypeOK
<1> HIDE DEF current, after
<1>10. \A q \in Requests :
         \/ q # r /\ pc'[q] = pc[q] /\ held'[q] = held[q]
         \/ q = r /\ pc'[q] \in {"idle", "routing"} /\ ~(current /\ outcome = "disable")
         \/ q = r /\ pc'[q] = "persist" /\ held'[q] = a /\ current /\ outcome = "disable"
  BY <1>1, <1>9
<1>11. \A j \in Keys :
         /\ State(j)'.version = State(j).version
         /\ IsActiveStatus(State(j)'.status) => IsActiveStatus(State(j).status)
         /\ IsActiveStatus(State(j).status) /\ ~IsActiveStatus(State(j)'.status) =>
              pc'[r] = "persist" /\ held'[r].obj[1] = j
  <2> SUFFICES ASSUME NEW j \in Keys
               PROVE  /\ State(j)'.version = State(j).version
                      /\ IsActiveStatus(State(j)'.status) => IsActiveStatus(State(j).status)
                      /\ IsActiveStatus(State(j).status) /\ ~IsActiveStatus(State(j)'.status) =>
                           pc'[r] = "persist" /\ held'[r].obj[1] = j
    OBVIOUS
  <2>1. CASE ~(j = k /\ current)
    BY <1>8, <2>1
  <2>2. CASE j = k /\ current
    <3>1. State(j)' = after /\ State(j) = health[o]
      BY <1>2, <1>8, <2>2 DEF State
    <3> QED BY <1>5, <1>7, <1>10, <2>2, <3>1
  <2> QED BY <2>1, <2>2
<1>12. \A j \in Keys : j = k /\ current /\ outcome = "disable" => ~IsActiveStatus(State(j)'.status)
  BY <1>2, <1>6, <1>8 DEF IsActiveStatus
<1> QED BY <1>1, <1>10, <1>11, <1>12 DEF RequestEffect

LEMMA RequestHasEffect ==
  ASSUME HealthInv, KeysOK, NEW r \in Requests, Request(r)
  PROVE  /\ RequestEffect(r)
         /\ UNCHANGED <<storeVars, op, base, ahead, born, plan, phase, incoming, nextPlan>>
<1>1. UNCHANGED <<storeVars, op, base, ahead, born, plan, phase, incoming, nextPlan>>
  BY DEF Request, Pool!StartRequest, Pool!AcquireVersioned, Pool!ReleaseAttempt, Pool!CompleteAttempt,
         Pool!EndRequest, Pool!buildVars, Pool!stateVars
<1>2. CASE Pool!StartRequest(r) \/ Pool!ReleaseAttempt(r) \/ Pool!EndRequest(r)
  <2>1. pc \in [Requests -> {"idle", "routing", "attempt", "persist"}] /\ DOMAIN held = Requests
    BY DEF HealthInv, P!Inv, P!TypeOK
  <2>2. UNCHANGED health /\ pc[r] # "persist"
        /\ pc' \in {[pc EXCEPT ![r] = "idle"], [pc EXCEPT ![r] = "routing"]}
        /\ (held' = held \/ held' = [held EXCEPT ![r] = NoAttempt])
    BY <1>2 DEF Pool!StartRequest, Pool!ReleaseAttempt, Pool!EndRequest, Pool!LeaveRouter, Pool!stateVars
  <2>3. \A q \in Requests : \/ q # r /\ pc'[q] = pc[q] /\ held'[q] = held[q]
                            \/ q = r /\ pc'[q] \in {"idle", "routing"}
    BY <2>1, <2>2
  <2>4. \A k : State(k)' = State(k)
    BY <2>2 DEF State
  <2> QED BY <1>1, <2>2, <2>3, <2>4 DEF RequestEffect
<1> QED BY <1>1, <1>2, AcquireEffect, CompleteEffect DEF Request

LEMMA OlderKept ==
  ASSUME HealthInv, NEW k \in Keys, Older(k),
         rec'[k] # NoRecord, rec'[k].version \in Nat, rec'[k].version >= rec[k].version,
         born'[k] = 1 => /\ born[k] = 1 /\ State(k)'.version = State(k).version
                         /\ IsActiveStatus(State(k)'.status) => IsActiveStatus(State(k).status),
         \A u \in S!Known' : u.key = k => u.expected \in Nat /\ u.expected < rec[k].version,
         \A r \in Requests : pc'[r] \in {"attempt", "persist"} /\ held'[r].obj[1] = k =>
           held'[r].version \in Nat /\ held'[r].version < rec[k].version
  PROVE  Older(k)'
<1>1. State(k).version \in Nat /\ rec[k].version \in Nat
  BY KeyFacts DEF Older
<1> QED BY <1>1 DEF Older

\* Whatever happens to the health of keys short of a new version or an enable, the
\* store, the operation and the rebuild do not mind.
LEMMA MemoryKeeps ==
  ASSUME KeptInv, HealthInv, UNCHANGED <<storeVars, op, base, ahead, born, plan, phase, incoming, nextPlan>>,
         \A k \in Keys : born[k] = 1 =>
           /\ State(k)'.version = State(k).version
           /\ IsActiveStatus(State(k)'.status) => IsActiveStatus(State(k).status),
         \A r \in Requests : pc'[r] \in {"attempt", "persist"} =>
           \/ pc[r] \in {"attempt", "persist"} /\ held'[r] = held[r]
           \/ \E k \in Keys : /\ born[k] = 1 /\ held'[r].obj[1] = k
                              /\ IsActiveStatus(State(k).status) /\ held'[r].version = State(k).version
  PROVE  KeptInv'
<1>1. /\ UNCHANGED <<rec, pending, batch, cur, call, carried>>
      /\ S!Known' = S!Known
  BY DEF storeVars, S!Known, S!Taken, S!Pending
<1>2. CallOK' /\ KeysOK'
  BY <1>1 DEF KeptInv, CallOK, KeysOK, Reading, Sharing
<1>3. \A q \in Requests : pc'[q] \in {"attempt", "persist"} =>
        held'[q].version <= rec[held'[q].obj[1]].version
  BY DEF KeptInv, VersionsOK
<1>4. VersionsOK'
  BY <1>1, <1>3, UpdateFacts DEF KeptInv, VersionsOK
<1>5. ReadOK'
  <2>1. ASSUME Reading, NEW k \in Keys PROVE Current(k, base[k])'
    <3>1. Current(k, base[k])
      BY <2>1 DEF KeptInv, ReadOK
    <3> QED BY <1>1, <3>1 DEF Current, Inactive
  <2>2. ASSUME Sharing, NEW k \in Keys, Current(k, incoming[k]) PROVE Current(k, incoming[k])'
    BY <1>1, <2>2 DEF Current, Inactive
  <2> QED BY <1>1, <2>1, <2>2 DEF KeptInv, ReadOK, Reading, Sharing, Inactive, Active
<1>6. FollowedOK'
  BY <1>1 DEF KeptInv, FollowedOK, Followed, Active, Rebuilt, Enabling
<1>7. DisableOK'
  <2> SUFFICES ASSUME op # NoOp, op.name = "disable", NEW k \in op.keys \ op.todo
               PROVE  /\ op.step = "wait" => \/ call.step = "base" /\ k \in call.keys
                                             \/ call.step = "err"
                                             \/ Binding(k, rec[k])'
                      /\ op.step \in {"store", "read"} => Binding(k, rec[k])'
                      /\ op.step = "overlay" => Binding(k, base[k])'
                      /\ op.step = "share" => Binding(k, incoming[k])'
                      /\ op.step = "publish" => born[k] = 1 /\ ~IsActiveStatus(State(k)'.status)
    BY <1>1 DEF DisableOK
  <2>1. k \in Keys
    BY DEF HealthInv, OpOK, Ops
  <2>2. /\ Binding(k, rec[k]) => Binding(k, rec[k])'
        /\ Binding(k, base[k]) => Binding(k, base[k])'
        /\ Binding(k, incoming[k]) => Binding(k, incoming[k])'
    BY <1>1, <2>1 DEF Binding, Inactive
  <2> QED BY <2>1, <2>2 DEF KeptInv, DisableOK
<1>8. ASSUME NEW k \in Keys, Older(k) PROVE Older(k)'
  <2>1. rec[k] # NoRecord /\ rec[k].version \in Nat /\ State(k).version \in Nat
    BY <1>8, KeyFacts DEF Older
  <2>2. \A u \in S!Known' : u.key = k => u.expected \in Nat /\ u.expected < rec[k].version
    BY <1>1, <1>8, UpdateFacts DEF Older
  <2>3. \A q \in Requests : pc'[q] \in {"attempt", "persist"} /\ held'[q].obj[1] = k =>
          held'[q].version \in Nat /\ held'[q].version < rec[k].version
    BY <1>8, <2>1, HeldFacts DEF KeptInv, Older
  <2> QED BY <1>1, <1>8, <2>1, <2>2, <2>3, OlderKept
<1>9. RecoverOK'
  <2> SUFFICES ASSUME op # NoOp, op.name = "recover", NEW k \in op.keys
               PROVE  /\ k \notin op.todo =>
                           /\ op.step = "wait" => \/ call.step = "base" /\ k \in call.keys
                                                  \/ call.step = "err"
                                                  \/ Older(k)'
                           /\ op.step \in {"store", "read", "overlay", "share"} => Older(k)'
                           /\ op.step = "share" => incoming[k] # NoRecord /\ incoming[k].version <= rec[k].version
                      /\ op.step \in {"publish", "recover"} => born[k] = 1 /\ State(k)'.version <= rec[k].version
    BY <1>1 DEF RecoverOK
  <2>1. k \in Keys
    BY DEF HealthInv, OpOK, Ops
  <2> QED BY <1>8, <2>1 DEF KeptInv, RecoverOK
<1> QED BY <1>2, <1>4, <1>5, <1>6, <1>7, <1>9 DEF KeptInv

LEMMA RequestKept ==
  ASSUME HealthInv, KeptInv, NEW r \in Requests, Request(r)
  PROVE  KeptInv'
<1>1. /\ RequestEffect(r)
      /\ UNCHANGED <<storeVars, op, base, ahead, born, plan, phase, incoming, nextPlan>>
  BY RequestHasEffect DEF KeptInv
<1> QED BY <1>1, MemoryKeeps DEF RequestEffect

-----------------------------------------------------------------------------
(***************************************************************************)
(* The report of a disable and the worker.                                 *)
(***************************************************************************)

\* The worker has disabled the record of a key that memory had seen.
Written(k) ==
  /\ born[k] = 1 /\ rec[k] # NoRecord /\ rec[k].version <= State(k).version
  /\ Inactive(rec[k])' /\ rec'[k].version = rec[k].version + 1

LEMMA WritesKeep ==
  ASSUME HealthInv, KeptInv,
         UNCHANGED <<op, base, ahead, call, born, plan, phase, incoming, nextPlan, health>>,
         \A r \in Requests : pc'[r] \in {"attempt", "persist"} => pc'[r] = pc[r] /\ held'[r] = held[r],
         \A k \in Keys : rec'[k] = rec[k] \/ Written(k),
         \A u \in S!Known' : \/ u \in S!Known
                             \/ \E r \in Requests : /\ pc[r] = "persist" /\ u.key = held[r].obj[1]
                                                    /\ u.expected = held[r].version
  PROVE  KeptInv'
<1>1. \A k : State(k)' = State(k)
  BY DEF State
<1>2. \A k \in Keys : /\ rec[k] # NoRecord => rec[k].version \in Nat /\ rec'[k] # NoRecord
                      /\ rec[k] # NoRecord => rec'[k].version \in Nat /\ rec'[k].version >= rec[k].version
                      /\ Active(rec[k])' => rec'[k] = rec[k]
                      /\ Inactive(rec[k]) => Inactive(rec[k])'
                      /\ State(k).version \in Nat
  <2> SUFFICES ASSUME NEW k \in Keys
               PROVE  /\ rec[k] # NoRecord => rec[k].version \in Nat /\ rec'[k] # NoRecord
                      /\ rec[k] # NoRecord => rec'[k].version \in Nat /\ rec'[k].version >= rec[k].version
                      /\ Active(rec[k])' => rec'[k] = rec[k]
                      /\ Inactive(rec[k]) => Inactive(rec[k])'
                      /\ State(k).version \in Nat
    OBVIOUS
  <2>1. State(k).version \in Nat /\ (rec[k] # NoRecord => rec[k].version \in Nat)
    BY KeyFacts
  <2>2. CASE rec'[k] = rec[k]
    BY <2>1, <2>2 DEF Active, Inactive
  <2>3. CASE Written(k)
    BY <2>1, <2>3 DEF Written, Active, Inactive
  <2> QED BY <2>2, <2>3
<1>3. CallOK' /\ KeysOK'
  BY <1>2 DEF KeptInv, CallOK, KeysOK, Reading, Sharing
<1>4. VersionsOK'
  <2>1. \A k \in Keys : born[k] = 1 =>
          /\ State(k).version <= rec'[k].version + 1
          /\ IsActiveStatus(State(k).status) => State(k).version <= rec'[k].version
    BY <1>2 DEF KeptInv, VersionsOK, KeysOK
  <2>2. \A u \in S!Known' : /\ born[u.key] = 1 /\ u.expected <= State(u.key).version
                            /\ u.expected <= rec'[u.key].version
    <3> SUFFICES ASSUME NEW u \in S!Known'
                 PROVE  /\ born[u.key] = 1 /\ u.expected <= State(u.key).version
                        /\ u.expected <= rec'[u.key].version
      OBVIOUS
    <3>1. /\ u.key \in Keys /\ u.expected \in Nat /\ born[u.key] = 1
          /\ u.expected <= rec[u.key].version /\ u.expected <= State(u.key).version
      BY UpdateFacts, HeldFacts DEF KeptInv, VersionsOK
    <3> QED BY <1>2, <3>1 DEF KeptInv, KeysOK
  <2>3. \A r \in Requests : pc'[r] \in {"attempt", "persist"} => held'[r].version <= rec'[held'[r].obj[1]].version
    <3> SUFFICES ASSUME NEW r \in Requests, pc'[r] \in {"attempt", "persist"}
                 PROVE  held'[r].version <= rec'[held'[r].obj[1]].version
      OBVIOUS
    <3>1. pc[r] \in {"attempt", "persist"} /\ held'[r] = held[r]
      OBVIOUS
    <3>2. /\ held[r].obj[1] \in Keys /\ born[held[r].obj[1]] = 1 /\ held[r].version \in Nat
          /\ held[r].version <= rec[held[r].obj[1]].version
      BY <3>1, HeldFacts DEF KeptInv, VersionsOK
    <3> QED BY <1>2, <3>1, <3>2 DEF KeptInv, KeysOK
  <2> QED BY <1>1, <2>1, <2>2, <2>3 DEF VersionsOK
<1>5. ASSUME NEW k \in Keys, NEW record, Current(k, record), record # NoRecord => record.version \in Nat
      PROVE  Current(k, record)'
  BY <1>1, <1>2, <1>5 DEF Current, Written, Inactive
<1>6. ReadOK'
  <2>1. ASSUME Reading, NEW k \in Keys PROVE Current(k, base[k])'
    <3>1. Current(k, base[k])
      BY <2>1 DEF KeptInv, ReadOK
    <3>2. PICK record : record = base[k]
      OBVIOUS
    <3>3. Current(k, record)'
      BY <1>5, <3>1, <3>2, KeyFacts
    <3> QED BY <3>2, <3>3
  <2>2. ASSUME NEW k \in Keys, Current(k, incoming[k]) PROVE Current(k, incoming[k])'
    <3>1. PICK record : record = incoming[k]
      OBVIOUS
    <3>2. Current(k, record)'
      BY <1>5, <2>2, <3>1, KeyFacts
    <3> QED BY <3>1, <3>2
  <2>3. ASSUME Sharing, NEW k \in Keys, ~Current(k, incoming[k])
        PROVE  /\ born[k] = 1 /\ Inactive(incoming[k]) /\ incoming[k].version <= rec'[k].version + 1
               /\ Active(rec[k])' => rec'[k].version <= incoming[k].version
    <3>1. /\ born[k] = 1 /\ Inactive(incoming[k]) /\ incoming[k].version <= rec[k].version + 1
          /\ Active(rec[k]) => rec[k].version <= incoming[k].version
      BY <2>3 DEF KeptInv, ReadOK
    <3>2. rec[k] # NoRecord /\ incoming[k].version \in Nat
      BY <3>1, KeyFacts DEF KeptInv, KeysOK, Inactive
    <3> QED BY <1>2, <3>1, <3>2 DEF Active
  <2> QED BY <2>1, <2>2, <2>3 DEF ReadOK, Reading, Sharing, Inactive
<1>7. FollowedOK'
  BY <1>1, <1>2 DEF KeptInv, FollowedOK, Followed, Rebuilt, Enabling, Active
<1>8. DisableOK'
  <2> SUFFICES ASSUME op # NoOp, op.name = "disable", NEW k \in op.keys \ op.todo
               PROVE  /\ op.step = "wait" => \/ call.step = "base" /\ k \in call.keys
                                             \/ call.step = "err"
                                             \/ Binding(k, rec[k])'
                      /\ op.step \in {"store", "read"} => Binding(k, rec[k])'
                      /\ op.step = "overlay" => Binding(k, base[k])'
                      /\ op.step = "share" => Binding(k, incoming[k])'
                      /\ op.step = "publish" => born[k] = 1 /\ ~IsActiveStatus(State(k)'.status)
    BY DEF DisableOK
  <2>1. k \in Keys
    BY DEF HealthInv, OpOK, Ops
  <2>2. Binding(k, rec[k]) => Binding(k, rec[k])'
    BY <1>1, <1>2, <2>1 DEF Binding, Inactive
  <2>3. /\ Binding(k, base[k]) => Binding(k, base[k])'
        /\ Binding(k, incoming[k]) => Binding(k, incoming[k])'
    BY <1>1, <2>1 DEF Binding, Inactive
  <2> QED BY <1>1, <2>1, <2>2, <2>3 DEF KeptInv, DisableOK
<1>9. ASSUME NEW k \in Keys, Older(k) PROVE Older(k)'
  <2>1. rec[k] # NoRecord /\ rec'[k] # NoRecord /\ rec'[k].version \in Nat /\ rec'[k].version >= rec[k].version
    BY <1>2, <1>9 DEF Older
  <2>2. \A u \in S!Known' : u.key = k => u.expected \in Nat /\ u.expected < rec[k].version
    BY <1>9, UpdateFacts, HeldFacts DEF KeptInv, Older
  <2>3. \A q \in Requests : pc'[q] \in {"attempt", "persist"} /\ held'[q].obj[1] = k =>
          held'[q].version \in Nat /\ held'[q].version < rec[k].version
    BY <1>9, HeldFacts DEF KeptInv, Older
  <2> QED BY <1>1, <1>9, <2>1, <2>2, <2>3, OlderKept
<1>10. RecoverOK'
  <2> SUFFICES ASSUME op # NoOp, op.name = "recover", NEW k \in op.keys
               PROVE  /\ k \notin op.todo =>
                           /\ op.step = "wait" => \/ call.step = "base" /\ k \in call.keys
                                                  \/ call.step = "err"
                                                  \/ Older(k)'
                           /\ op.step \in {"store", "read", "overlay", "share"} => Older(k)'
                           /\ op.step = "share" => incoming[k] # NoRecord /\ incoming[k].version <= rec'[k].version
                      /\ op.step \in {"publish", "recover"} => born[k] = 1 /\ State(k).version <= rec'[k].version
    BY <1>1 DEF RecoverOK
  <2>1. k \in Keys
    BY DEF HealthInv, OpOK, Ops
  <2>2. born[k] = 1 => rec[k] # NoRecord
    BY <2>1 DEF KeptInv, KeysOK
  <2>3. incoming[k] # NoRecord => incoming[k].version \in Nat
    BY <2>1, KeyFacts
  <2> QED BY <1>2, <1>9, <2>1, <2>2, <2>3 DEF KeptInv, RecoverOK, Older
<1> QED BY <1>3, <1>4, <1>6, <1>7, <1>8, <1>10 DEF KeptInv

LEMMA PersistKept ==
  ASSUME HealthInv, KeptInv, NEW r \in Requests, PersistDisabledKey(r)
  PROVE  KeptInv'
<1> DEFINE k == held[r].obj[1]
           v == held[r].version
           u == [id |-> nextID + 1, key |-> k, expected |-> v, status |-> "disabled_auto"]
<1>1. /\ pc[r] = "persist" /\ pc' = [pc EXCEPT ![r] = "routing"] /\ held' = [held EXCEPT ![r] = NoAttempt]
      /\ UNCHANGED <<op, base, ahead, call, born, plan, phase, incoming, nextPlan, health, rec, batch, cur, carried>>
      /\ pending' = [pending EXCEPT ![k] = u]
  BY DEF PersistDisabledKey, Pool!PersistDisabledKeyAsync, Store!SetStatusIfVersion, Pool!stateVars,
         Pool!buildVars, Store!workerVars, Store!callVars
<1>2. k \in Keys /\ v \in Nat /\ born[k] = 1 /\ v <= State(k).version /\ v <= rec[k].version
  BY <1>1, HeldFacts DEF KeptInv, VersionsOK
<1>3. u.key = k /\ u.expected = v
  OBVIOUS
<1>4. S!Known' \subseteq S!Known \cup {u}
  <2>1. \A j \in Keys : pending'[j] \in {pending[j], u}
    BY <1>1 DEF HealthInv, S!StoreInv, S!TypeOK
  <2> HIDE DEF u
  <2>2. S!Pending' \subseteq S!Pending \cup {u}
    BY <2>1 DEF S!Pending
  <2> QED BY <1>1, <2>2 DEF S!Known, S!Taken
<1>5. \A q \in Requests : pc'[q] \in {"attempt", "persist"} => pc'[q] = pc[q] /\ held'[q] = held[q]
  <2>1. pc \in [Requests -> {"idle", "routing", "attempt", "persist"}] /\ DOMAIN held = Requests
    BY DEF HealthInv, P!Inv, P!TypeOK
  <2> QED BY <1>1, <2>1
<1>6. \A w \in S!Known' : \/ w \in S!Known
                          \/ \E q \in Requests : /\ pc[q] = "persist" /\ w.key = held[q].obj[1]
                                                 /\ w.expected = held[q].version
  <2> HIDE DEF u
  <2> QED BY <1>1, <1>3, <1>4
<1> HIDE DEF k, v, u
<1> QED BY <1>1, <1>5, <1>6, WritesKeep

\* The worker takes updates and drops them, and writes only for versions that
\* memory has had.
LEMMA WorkerEffect ==
  ASSUME HealthInv, KeptInv, Worker
  PROVE  /\ UNCHANGED <<poolVars, op, base, ahead, call, carried>>
         /\ S!Known' \subseteq S!Known
         /\ \A k \in Keys : rec'[k] = rec[k] \/ (Written(k) /\ \E u \in S!Known : u.key = k)
<1>1. S!Worker
  BY WorkerStep
<1>2. UNCHANGED <<poolVars, op, base, ahead, call, carried>>
  BY <1>1 DEF Worker, S!Worker, S!WorkerWake, S!WorkerRetry, S!WorkerStop, S!WorkerSnapshot,
         S!WorkerApply, S!WorkerApplyFails, S!WorkerSettle, S!WorkerFlushed, S!callVars
<1>3. CASE S!WorkerWake \/ S!WorkerRetry \/ S!WorkerStop \/ S!WorkerFlushed
  <2>1. UNCHANGED <<rec, pending, batch, cur>>
    BY <1>3 DEF S!WorkerWake, S!WorkerRetry, S!WorkerStop, S!WorkerFlushed, S!mapVars
  <2> QED BY <1>2, <2>1 DEF S!Known, S!Taken, S!Pending
<1>4. CASE S!WorkerSnapshot
  <2>1. UNCHANGED <<rec, pending, cur>> /\ batch' = S!Pending
    BY <1>4 DEF S!WorkerSnapshot, S!mapVars
  <2> QED BY <1>2, <2>1 DEF S!Known, S!Taken, S!Pending
<1>5. CASE S!WorkerSettle
  <2>1. UNCHANGED <<rec, batch>> /\ cur' = NoUpdate
    BY <1>5 DEF S!WorkerSettle
  <2>2. \A k \in Keys : pending'[k] \in {pending[k], NoUpdate}
    BY <1>5, S!SettleKeeps, StoreAssumptions DEF HealthInv
  <2>3. S!Pending' \subseteq S!Pending
    BY <2>2 DEF S!Pending
  <2> QED BY <1>2, <2>1, <2>3 DEF S!Known, S!Taken
<1>6. ASSUME NEW u \in batch, S!WorkerApply(u) \/ S!WorkerApplyFails(u)
      PROVE  /\ S!Known' \subseteq S!Known
             /\ \A k \in Keys : rec'[k] = rec[k] \/ (Written(k) /\ \E w \in S!Known : w.key = k)
  <2>1. UNCHANGED pending /\ batch' = batch \ {u} /\ cur' \in {cur, u}
    BY <1>6 DEF S!WorkerApply, S!WorkerApplyFails, S!mapVars
  <2>2. u \in S!Known
    BY DEF S!Known, S!Taken
  <2>3. S!Known' \subseteq S!Known
    BY <1>2, <2>1, <2>2 DEF S!Known, S!Taken, S!Pending
  <2>4. \A k \in Keys :
          \/ rec'[k] = rec[k]
          \/ /\ k = u.key /\ rec[k] # NoRecord /\ rec[k].version = u.expected
             /\ rec'[k] # NoRecord /\ rec'[k].version = rec[k].version + 1
             /\ rec'[k].status = "disabled_auto"
    BY <1>6, S!ApplyEffect, StoreAssumptions DEF HealthInv
  <2>5. born[u.key] = 1 /\ u.expected <= State(u.key).version
    BY <2>2 DEF KeptInv, VersionsOK
  <2> QED BY <2>2, <2>3, <2>4, <2>5 DEF Written, Inactive, IsActiveStatus
<1> QED BY <1>1, <1>2, <1>3, <1>4, <1>5, <1>6 DEF S!Worker

LEMMA WorkerKept ==
  ASSUME HealthInv, KeptInv, Worker \/ Shutdown
  PROVE  KeptInv'
<1>1. CASE Worker
  BY <1>1, WorkerEffect, WritesKeep DEF poolVars
<1>2. CASE Shutdown
  <2>1. UNCHANGED <<poolVars, op, base, ahead, rec, pending, batch, cur, call, carried>>
    BY <1>2, ShutdownStep DEF Shutdown
  <2>2. S!Known' = S!Known
    BY <2>1 DEF S!Known, S!Taken, S!Pending
  <2> QED BY <2>1, <2>2, WritesKeep DEF poolVars
<1> QED BY <1>1, <1>2

-----------------------------------------------------------------------------
(***************************************************************************)
(* The store calls of the console.                                         *)
(***************************************************************************)

\* The call has moved on with its operation, keys and status.
SameCall == call'.op = call.op /\ call'.keys = call.keys /\ call'.status = call.status

CallEnds == UNCHANGED <<rec, pending>> /\ call'.step = "err" /\ SameCall

\* SetStatus gives the record the next version.
CallSets ==
  /\ call.op = "set" /\ call.step = "base" /\ call'.step = "clear" /\ SameCall /\ UNCHANGED pending
  /\ \E k \in Keys :
       /\ call.keys = {k} /\ rec[k] # NoRecord /\ rec'[k] # NoRecord
       /\ rec'[k].version = rec[k].version + 1 /\ rec'[k].status = call.status
       /\ \A j \in Keys : j # k => rec'[j] = rec[j]

CallAppends ==
  /\ call.op = "append" /\ call.step = "base" /\ call'.step = "ok" /\ SameCall /\ UNCHANGED pending
  /\ \A k \in Keys : rec'[k] = rec[k] \/ (rec[k] = NoRecord /\ rec'[k] = NewRecord)

CallClears ==
  /\ call.step = "clear" /\ call'.step \in {"clear", "ok"} /\ UNCHANGED rec
  /\ call'.op = call.op /\ call'.status = call.status /\ call'.keys \subseteq call.keys
  /\ \A k \in Keys : pending'[k] = pending[k] \/ (pending'[k] = NoUpdate /\ k \in call.keys)

LEMMA GotoFacts ==
  ASSUME S!StoreInv, call # NoCall, NEW step, S!Goto(step)
  PROVE  call'.step = step /\ SameCall
<1>1. PICK c \in S!Calls : c = call
  BY DEF S!StoreInv, S!TypeOK
<1>2. call' = [c EXCEPT !.step = step]
  BY <1>1 DEF S!Goto
<1> QED BY <1>1, <1>2 DEF S!Calls, SameCall

LEMMA CallEffect ==
  ASSUME HealthInv, KeptInv, StoreStep
  PROVE  /\ CallEnds \/ CallSets \/ CallAppends \/ CallClears
         /\ UNCHANGED <<batch, cur, wpc, carried>> /\ S!Known' \subseteq S!Known
<1>1. S!CallStep /\ call # NoCall /\ S!StoreInv /\ rec \in S!Stores /\ S!TypeOK
  BY StoreStepStep DEF HealthInv, S!StoreInv, S!TypeOK
<1>2. /\ call.op \in {"set", "append"} /\ call.step \in {"base", "clear", "ok", "err"}
      /\ call.op = "append" => call.step # "clear"
      /\ call.op = "set" /\ call.step = "base" => \E k \in Keys : call.keys = {k}
  <2>1. op # NoOp /\ op \in Ops
    BY <1>1 DEF HealthInv, OpOK
  <2> QED BY <1>1, <2>1 DEF KeptInv, CallOK, Ops
<1>3. call \in S!Calls /\ call.keys \in SUBSET Keys /\ call.status \in S!Statuses
  BY <1>1, S!CallFacts, StoreAssumptions
<1>4. S!CallFails \/ S!SetStatusNotFound \/ S!CallBase \/ S!CallClear
  BY <1>1, <1>2 DEF S!CallStep, S!ReplaceList, S!ReplaceSnapshot, S!ReplaceBase, S!ReconcileList,
     S!ReconcileAppend, S!ReconcileRequeue
<1>5. CASE S!CallFails \/ S!SetStatusNotFound
  <2>1. S!Goto("err") /\ UNCHANGED <<rec, pending, batch, cur, wpc, carried>>
    BY <1>5 DEF S!CallFails, S!SetStatusNotFound, S!mapVars, S!workerVars
  <2>2. CallEnds
    BY <1>1, <2>1, GotoFacts DEF CallEnds
  <2> QED BY <2>1, <2>2 DEF S!Known, S!Taken, S!Pending
<1>6. CASE S!CallBase
  <2>1. call.step = "base" /\ UNCHANGED <<pending, batch, cur, wpc, carried>>
    BY <1>6 DEF S!CallBase, S!mapVars, S!workerVars
  <2>2. CASE call.op = "append"
    <3>1. S!Goto("ok") /\ rec' = S!AppendRecords(rec, call.keys)
      BY <1>6, <2>2 DEF S!CallBase
    <3>2. \A k \in Keys : rec'[k] = rec[k] \/ (rec[k] = NoRecord /\ rec'[k] = NewRecord)
      BY <3>1 DEF S!AppendRecords, NewRecord, S!NewRecord
    <3>3. CallAppends
      BY <1>1, <2>1, <2>2, <3>1, <3>2, GotoFacts DEF CallAppends
    <3> QED BY <2>1, <3>3 DEF S!Known, S!Taken, S!Pending
  <2>3. CASE call.op = "set"
    <3>1. PICK k \in call.keys : /\ S!Goto("clear") /\ rec[k] # NoRecord /\ S!Writable({k})
                                 /\ rec' = S!SetRecordStatus(rec, k, call.status)
      BY <1>6, <2>3 DEF S!CallBase
    <3>2. call.keys = {k} /\ k \in Keys
      BY <1>2, <2>1, <2>3, <3>1
    <3>3. rec[k].version < MaxVersion
      <4>1. rec[k].version + 1 < MaxVersion
        BY <3>1 DEF S!Writable, S!nextRecordVersion
      <4>2. rec[k].version \in Nat /\ MaxVersion \in Nat
        BY <3>1, <3>2, KeyFacts, RecordConstants
      <4> QED BY <4>1, <4>2
    <3>4. /\ rec'[k] # NoRecord /\ rec'[k].version = rec[k].version + 1 /\ rec'[k].status = call.status
          /\ \A j \in Keys : j # k => rec'[j] = rec[j]
      BY <1>1, <1>3, <3>1, <3>2, <3>3, S!SetRecordFacts, StoreAssumptions
    <3>5. CallSets
      BY <1>1, <2>1, <2>3, <3>1, <3>2, <3>4, GotoFacts DEF CallSets
    <3> QED BY <2>1, <3>5 DEF S!Known, S!Taken, S!Pending
  <2> QED BY <1>2, <2>2, <2>3
<1>7. CASE S!CallClear
  <2>1. call.step = "clear" /\ UNCHANGED <<rec, batch, cur, wpc, carried>>
    BY <1>7 DEF S!CallClear, S!workerVars
  <2>2. PICK ks \in SUBSET call.keys :
          /\ pending' = [k \in Keys |-> IF k \in ks THEN NoUpdate ELSE pending[k]]
          /\ call' = [call EXCEPT !.keys = call.keys \ ks, !.step = IF call.keys = ks THEN "ok" ELSE "clear"]
    BY <1>7 DEF S!CallClear
  <2>3. PICK c \in S!Calls : c = call
    BY <1>3
  <2>4. /\ call'.step \in {"clear", "ok"} /\ call'.op = call.op /\ call'.status = call.status
        /\ call'.keys \subseteq call.keys
    BY <2>2, <2>3 DEF S!Calls
  <2>5. \A k \in Keys : pending'[k] = pending[k] \/ (pending'[k] = NoUpdate /\ k \in call.keys)
    BY <2>2
  <2>6. CallClears
    BY <2>1, <2>4, <2>5 DEF CallClears
  <2>7. S!Pending' \subseteq S!Pending
    BY <2>5 DEF S!Pending
  <2> QED BY <2>1, <2>6, <2>7 DEF S!Known, S!Taken
<1> QED BY <1>4, <1>5, <1>6, <1>7


-----------------------------------------------------------------------------
(***************************************************************************)
(* The operation moves on and leaves records and memory alone.             *)
(***************************************************************************)

LEMMA OpMoves ==
  ASSUME HealthInv, KeptInv, UNCHANGED <<poolVars, rec>>, S!Known' \subseteq S!Known
  PROVE  /\ VersionsOK'
         /\ \A k \in Keys : State(k)' = State(k) /\ (Older(k) => Older(k)')
         /\ ~Reading' /\ ~Sharing' => KeysOK' /\ ReadOK'
<1>1. /\ UNCHANGED <<born, plan, phase, incoming, nextPlan, health, pc, held>>
      /\ \A k : State(k)' = State(k)
  BY DEF poolVars, State
<1>2. VersionsOK'
  BY <1>1, UpdateFacts DEF KeptInv, VersionsOK
<1>3. \A k \in Keys : Older(k) => Older(k)'
  BY <1>1 DEF Older
<1>4. ~Reading' /\ ~Sharing' => KeysOK' /\ ReadOK'
  BY <1>1 DEF KeptInv, KeysOK, ReadOK
<1> QED BY <1>1, <1>2, <1>3, <1>4

LEMMA BeginKept ==
  ASSUME HealthInv, KeptInv, NEW name \in AdminOps, NEW keys \in SUBSET Keys, BeginOp(name, keys)
  PROVE  KeptInv'
<1>1. /\ op = NoOp /\ op' # NoOp /\ op'.name = name /\ op'.keys = keys /\ op'.todo = keys
      /\ op'.changed = FALSE /\ op'.step \in {"store", "read"}
      /\ op'.step = "read" => keys = {}
  BY BeginStep
<1>2. UNCHANGED <<poolVars, storeVars, base, ahead>>
  BY DEF BeginOp
<1>3. UNCHANGED <<rec, call>> /\ S!Known' = S!Known /\ call = NoCall /\ UNCHANGED <<born, health>>
  BY <1>1, <1>2 DEF poolVars, storeVars, S!Known, S!Taken, S!Pending, HealthInv, OpOK
<1>4. KeysOK' /\ VersionsOK' /\ ReadOK'
  BY <1>1, <1>2, <1>3, OpMoves DEF Reading, Sharing
<1>5. CallOK'
  BY <1>1, <1>3 DEF CallOK
<1>6. FollowedOK'
  BY <1>1, <1>2, <1>3 DEF KeptInv, FollowedOK, Rebuilt, Enabling, Followed, State, Active
<1>7. DisableOK' /\ RecoverOK'
  BY <1>1 DEF DisableOK, RecoverOK
<1> QED BY <1>4, <1>5, <1>6, <1>7 DEF KeptInv

LEMMA CallStoreKept ==
  ASSUME HealthInv, KeptInv, NoRemoval, CallStore
  PROVE  KeptInv'
<1>1. /\ op # NoOp /\ op.step = "store" /\ op' # NoOp /\ op'.step = "wait" /\ op \in Ops
      /\ op'.name = op.name /\ op'.keys = op.keys /\ op'.changed = op.changed
      /\ UNCHANGED <<rec, pending, batch, cur>> /\ call' # NoCall
  BY CallStoreStep DEF HealthInv, OpOK
<1>2. UNCHANGED <<poolVars, ahead, carried>>
  <2>1. \A kind, keys, status : Store!BeginCall(kind, keys, status) => UNCHANGED carried
    BY DEF Store!BeginCall
  <2> QED BY <2>1 DEF CallStore
<1>3. S!Known' = S!Known /\ UNCHANGED <<born, health>>
  BY <1>1, <1>2 DEF S!Known, S!Taken, S!Pending, poolVars
<1>4. KeysOK' /\ VersionsOK' /\ ReadOK' /\ \A k \in Keys : State(k)' = State(k) /\ (Older(k) => Older(k)')
  BY <1>1, <1>2, <1>3, OpMoves DEF Reading, Sharing
<1>5. \/ /\ op.name \in {"enable", "disable", "recover"}
         /\ \E k \in op.todo :
              /\ call'.keys = {k} /\ call'.op = "set" /\ call'.step = "base"
              /\ call'.status = IF op.name = "disable" THEN "disabled_manual" ELSE "active"
              /\ op'.todo = op.todo \ {k}
      \/ op.name = "append" /\ op'.todo = {} /\ call'.op = "append" /\ call'.step = "base"
  <2>1. op.name \notin {"delete", "replace"}
    BY <1>1 DEF NoRemoval, Ops
  <2> QED BY <2>1, CallStoreStep
<1>6. op.todo \subseteq op.keys
  BY <1>1 DEF HealthInv, OpOK
<1>7. CallOK'
  BY <1>1, <1>5, <1>6 DEF CallOK
<1>8. FollowedOK'
  BY <1>1, <1>2, <1>3 DEF KeptInv, FollowedOK, Rebuilt, Enabling, Followed, State, Active
<1>9. \A k \in Keys : Binding(k, rec[k]) => Binding(k, rec[k])'
  BY <1>1, <1>3, <1>4 DEF Binding, Inactive
<1>10. op'.keys \subseteq Keys
  BY <1>1 DEF Ops
<1>11. \A k \in op'.keys \ op'.todo : op.name # "append" => k \in op.keys \ op.todo \/ (call'.step = "base" /\ k \in call'.keys)
  BY <1>1, <1>5
<1>12. DisableOK'
  BY <1>1, <1>9, <1>10, <1>11 DEF KeptInv, DisableOK
<1>13. RecoverOK'
  BY <1>1, <1>4, <1>10, <1>11 DEF KeptInv, RecoverOK
<1> QED BY <1>4, <1>7, <1>8, <1>12, <1>13 DEF KeptInv

LEMMA ReturnsKept ==
  ASSUME HealthInv, KeptInv, StoreReturns
  PROVE  KeptInv'
<1>1. /\ op # NoOp /\ op.step = "wait" /\ call # NoCall /\ call.step \in {"ok", "err"} /\ op \in Ops
      /\ UNCHANGED <<rec, pending, batch, cur>> /\ carried' = {} /\ call' = NoCall
  BY ReturnsStep DEF HealthInv, OpOK
<1>2. UNCHANGED poolVars
  BY DEF StoreReturns
<1>3. S!Known' \subseteq S!Known /\ UNCHANGED <<born, health>>
  BY <1>1, <1>2 DEF S!Known, S!Taken, S!Pending, poolVars
<1>4. \/ op' = NoOp /\ call.step = "err" /\ ahead' = (ahead \/ op.changed)
      \/ op' = NoOp /\ ~op.changed /\ ahead' = ahead
      \/ /\ call.step = "ok" /\ ahead' = ahead
         /\ op' # NoOp /\ op'.name = op.name /\ op'.keys = op.keys /\ op'.todo = op.todo
         /\ op'.changed = op.changed
         /\ IF op.todo = {} THEN op'.step = "read" ELSE op'.step = "store"
  BY ReturnsStep
<1>5. KeysOK' /\ VersionsOK' /\ ReadOK' /\ \A k \in Keys : State(k)' = State(k) /\ (Older(k) => Older(k)')
  BY <1>1, <1>2, <1>3, <1>4, OpMoves DEF Reading, Sharing
<1>6. CallOK'
  BY <1>1, <1>4 DEF CallOK
<1>7. FollowedOK'
  BY <1>1, <1>3, <1>4 DEF KeptInv, FollowedOK, Rebuilt, Enabling, Followed, State, Active
<1>8. \A k \in Keys : Binding(k, rec[k]) => Binding(k, rec[k])'
  BY <1>1, <1>3, <1>5 DEF Binding, Inactive
<1>9. op.keys \subseteq Keys
  BY <1>1 DEF Ops
<1>10. DisableOK'
  BY <1>1, <1>4, <1>8, <1>9 DEF KeptInv, DisableOK
<1>11. RecoverOK'
  BY <1>1, <1>4, <1>5, <1>9 DEF KeptInv, RecoverOK
<1> QED BY <1>5, <1>6, <1>7, <1>10, <1>11 DEF KeptInv

\* The records that ListAll reads are current when it reads them.
LEMMA ReadKept ==
  ASSUME HealthInv, KeptInv, RefreshRead
  PROVE  KeptInv'
<1>1. /\ op # NoOp /\ op.step = "read" /\ base' = rec /\ op' # NoOp /\ op'.step = "overlay" /\ op \in Ops
      /\ op'.name = op.name /\ op'.keys = op.keys /\ op'.todo = op.todo /\ op'.changed = op.changed
  BY ReadStep DEF HealthInv, OpOK
<1>2. UNCHANGED <<poolVars, storeVars, ahead>>
  BY DEF RefreshRead
<1>3. /\ UNCHANGED <<rec, call, born, plan, phase, nextPlan, health>> /\ S!Known' = S!Known /\ call = NoCall
  BY <1>1, <1>2 DEF S!Known, S!Taken, S!Pending, poolVars, storeVars, HealthInv, OpOK
<1>4. VersionsOK' /\ \A k \in Keys : State(k)' = State(k) /\ (Older(k) => Older(k)')
  BY <1>2, <1>3, OpMoves
<1>5. KeysOK'
  BY <1>1, <1>3 DEF KeptInv, KeysOK, Reading, Sharing
<1>6. ReadOK'
  BY <1>1, <1>3 DEF ReadOK, Current, Reading, Sharing
<1>7. CallOK'
  BY <1>1, <1>3 DEF KeptInv, CallOK
<1>8. FollowedOK'
  BY <1>1, <1>2, <1>3 DEF KeptInv, FollowedOK, Rebuilt, Enabling, Followed, State, Active
<1>9. \A k \in Keys : Binding(k, rec[k]) => Binding(k, base[k])'
  BY <1>1, <1>3, <1>4 DEF Binding, Inactive
<1>10. op.keys \subseteq Keys
  BY <1>1 DEF Ops
<1>11. DisableOK'
  BY <1>1, <1>9, <1>10 DEF KeptInv, DisableOK
<1>12. RecoverOK'
  BY <1>1, <1>4, <1>10 DEF KeptInv, RecoverOK
<1> QED BY <1>4, <1>5, <1>6, <1>7, <1>8, <1>11, <1>12 DEF KeptInv


\* A step of a store call: what it writes is newer than all that memory, requests
\* and updates know of the key.
LEMMA StoreStepKept ==
  ASSUME HealthInv, KeptInv, StoreStep
  PROVE  KeptInv'
<1>1. /\ op # NoOp /\ op.step = "wait" /\ op' # NoOp /\ op'.step = "wait" /\ op \in Ops
      /\ op'.name = op.name /\ op'.keys = op.keys /\ op'.todo = op.todo
      /\ op'.changed = (op.changed \/ rec' # rec) /\ call # NoCall /\ call' # NoCall
  BY StoreStepStep DEF HealthInv, OpOK
<1>2. UNCHANGED <<poolVars, base, ahead>>
  BY DEF StoreStep
<1>3. /\ CallEnds \/ CallSets \/ CallAppends \/ CallClears
      /\ S!Known' \subseteq S!Known
  BY CallEffect
<1>4. UNCHANGED <<born, plan, phase, incoming, nextPlan, health, pc, held>> /\ \A k : State(k)' = State(k)
  BY <1>2 DEF poolVars, State
<1>5. op.keys \subseteq Keys
  BY <1>1 DEF Ops
<1>6. ReadOK' /\ ~Reading' /\ ~Sharing' /\ ~Rebuilt'
  BY <1>1 DEF ReadOK, Reading, Sharing, Rebuilt
<1>7. CallOK'
  BY <1>1, <1>3 DEF KeptInv, CallOK, CallEnds, CallSets, CallAppends, CallClears, SameCall
<1>8. CASE CallEnds \/ CallClears
  <2>1. UNCHANGED rec /\ (call'.step = "err" \/ (call.step = "clear" /\ call'.step # "base"))
    BY <1>8 DEF CallEnds, CallClears
  <2>2. KeysOK' /\ VersionsOK' /\ \A k \in Keys : Older(k) => Older(k)'
    BY <1>2, <1>3, <1>6, <2>1, OpMoves
  <2>3. FollowedOK'
    BY <1>1, <1>2, <1>4, <1>6, <2>1 DEF KeptInv, FollowedOK, Enabling, Followed, Active
  <2>4. \A k \in Keys : Binding(k, rec[k]) => Binding(k, rec[k])'
    BY <1>4, <2>1 DEF Binding, Inactive
  <2>5. DisableOK'
    BY <1>1, <1>5, <2>1, <2>4 DEF KeptInv, DisableOK
  <2>6. RecoverOK'
    BY <1>1, <1>5, <2>1, <2>2 DEF KeptInv, RecoverOK
  <2> QED BY <1>6, <1>7, <2>2, <2>3, <2>5, <2>6 DEF KeptInv
<1>9. CASE CallAppends
  <2>1. op.name = "append"
    BY <1>1, <1>9 DEF CallAppends, KeptInv, CallOK
  <2>2. \A k \in Keys : born[k] = 1 => rec[k] # NoRecord /\ rec'[k] = rec[k]
    BY <1>9 DEF CallAppends, KeptInv, KeysOK
  <2>3. KeysOK'
    BY <1>4, <1>6, <2>2 DEF KeptInv, KeysOK
  <2>4. \A u \in S!Known' : /\ born[u.key] = 1 /\ u.expected <= State(u.key).version
                            /\ u.expected <= rec'[u.key].version
    BY <1>3, <2>2, UpdateFacts DEF KeptInv, VersionsOK
  <2>5. \A r \in Requests : pc[r] \in {"attempt", "persist"} => held[r].version <= rec'[held[r].obj[1]].version
    BY <2>2, HeldFacts DEF KeptInv, VersionsOK
  <2>6. VersionsOK'
    BY <1>4, <2>2, <2>4, <2>5 DEF KeptInv, VersionsOK
  <2>7. FollowedOK'
    BY <1>1, <1>2, <1>4, <1>6, <2>1, <2>2 DEF KeptInv, FollowedOK, Enabling, Followed, Active
  <2>8. DisableOK' /\ RecoverOK'
    BY <1>1, <2>1 DEF DisableOK, RecoverOK
  <2> QED BY <1>6, <1>7, <2>3, <2>6, <2>7, <2>8 DEF KeptInv
<1>10. CASE CallSets
  <2>1. PICK k \in Keys :
          /\ call.keys = {k} /\ rec[k] # NoRecord /\ rec'[k] # NoRecord
          /\ rec'[k].version = rec[k].version + 1 /\ rec'[k].status = call.status
          /\ \A j \in Keys : j # k => rec'[j] = rec[j]
    BY <1>10 DEF CallSets
  <2>2. call.step = "base" /\ call'.step = "clear"
        /\ op.name \in {"enable", "disable", "recover"}
        /\ call.status = IF op.name = "disable" THEN "disabled_manual" ELSE "active"
    BY <1>1, <1>10 DEF CallSets, KeptInv, CallOK
  <2>3. rec[k].version \in Nat /\ rec'[k].version \in Nat /\ rec' # rec
    <3>1. rec[k].version \in Nat
      BY <2>1, KeyFacts
    <3>2. rec'[k].version # rec[k].version /\ rec'[k].version \in Nat
      BY <2>1, <3>1
    <3> QED BY <3>1, <3>2
  <2>4. \A j \in Keys : State(j).version \in Nat /\ (rec[j] # NoRecord => rec[j].version \in Nat)
    BY KeyFacts
  <2>5. KeysOK'
    BY <1>4, <1>6, <2>1 DEF KeptInv, KeysOK
  <2>6. \A j \in Keys : born[j] = 1 =>
          /\ State(j).version <= rec'[j].version + 1
          /\ IsActiveStatus(State(j).status) => State(j).version <= rec'[j].version
          /\ j = k => /\ State(j).version <= rec'[j].version
                      /\ IsActiveStatus(State(j).status) => State(j).version < rec'[j].version
    BY <2>1, <2>3, <2>4 DEF KeptInv, VersionsOK
  <2>7. \A u \in S!Known' : /\ born[u.key] = 1 /\ u.expected <= State(u.key).version
                            /\ u.expected <= rec'[u.key].version
                            /\ u.key = k => u.expected < rec'[u.key].version
    <3> SUFFICES ASSUME NEW u \in S!Known'
                 PROVE  /\ born[u.key] = 1 /\ u.expected <= State(u.key).version
                        /\ u.expected <= rec'[u.key].version
                        /\ u.key = k => u.expected < rec'[u.key].version
      OBVIOUS
    <3>1. /\ u.key \in Keys /\ u.expected \in Nat /\ born[u.key] = 1
          /\ u.expected <= rec[u.key].version /\ u.expected <= State(u.key).version
      BY <1>3, UpdateFacts DEF KeptInv, VersionsOK
    <3> QED BY <2>1, <2>3, <3>1
  <2>8. \A r \in Requests : pc[r] \in {"attempt", "persist"} =>
          /\ held[r].version <= rec'[held[r].obj[1]].version
          /\ held[r].obj[1] = k => held[r].version < rec'[k].version
    <3> SUFFICES ASSUME NEW r \in Requests, pc[r] \in {"attempt", "persist"}
                 PROVE  /\ held[r].version <= rec'[held[r].obj[1]].version
                        /\ held[r].obj[1] = k => held[r].version < rec'[k].version
      OBVIOUS
    <3>1. /\ held[r].obj[1] \in Keys /\ held[r].version \in Nat
          /\ held[r].version <= rec[held[r].obj[1]].version
      BY HeldFacts DEF KeptInv, VersionsOK
    <3> QED BY <2>1, <2>3, <3>1
  <2>9. VersionsOK'
    BY <1>4, <2>6, <2>7, <2>8 DEF VersionsOK
  <2>10. FollowedOK'
    <3>1. CASE op.name \in {"enable", "recover"}
      BY <1>1, <1>6, <2>3, <3>1 DEF FollowedOK, Enabling
    <3>2. CASE op.name = "disable"
      <4>1. ~Active(rec'[k])
        BY <2>1, <2>2, <3>2 DEF Active, IsActiveStatus
      <4>2. ~Enabling
        BY <3>2 DEF Enabling
      <4> QED BY <1>2, <1>4, <1>6, <2>1, <4>1, <4>2 DEF KeptInv, FollowedOK, Followed, Active
    <3> QED BY <2>2, <3>1, <3>2
  <2>11. DisableOK'
    <3> SUFFICES ASSUME op.name = "disable", NEW j \in op.keys \ op.todo
                 PROVE  call'.step = "err" \/ Binding(j, rec[j])'
      BY <1>1 DEF DisableOK
    <3>1. CASE j = k
      <4>1. Inactive(rec[j])'
        BY <2>1, <2>2, <3>1 DEF Inactive, IsActiveStatus
      <4> QED BY <1>4, <2>6, <3>1, <4>1 DEF Binding
    <3>2. CASE j # k
      <4>1. j \in Keys /\ Binding(j, rec[j])
        BY <1>1, <1>5, <2>1, <2>2, <3>2 DEF KeptInv, DisableOK
      <4> QED BY <1>4, <2>1, <3>2, <4>1 DEF Binding, Inactive
    <3> QED BY <3>1, <3>2
  <2>12. RecoverOK'
    <3> SUFFICES ASSUME op.name = "recover", NEW j \in op.keys, j \notin op.todo
                 PROVE  call'.step = "err" \/ Older(j)'
      BY <1>1 DEF RecoverOK
    <3>1. CASE j = k
      BY <1>4, <2>1, <2>6, <2>7, <2>8, <3>1 DEF Older
    <3>2. CASE j # k
      <4>1. j \in Keys /\ Older(j)
        BY <1>1, <1>5, <2>1, <2>2, <3>2 DEF KeptInv, RecoverOK
      <4> QED BY <1>3, <1>4, <2>1, <3>2, <4>1 DEF Older
    <3> QED BY <3>1, <3>2
  <2> QED BY <1>6, <1>7, <2>5, <2>9, <2>10, <2>11, <2>12 DEF KeptInv
<1> QED BY <1>3, <1>8, <1>9, <1>10


-----------------------------------------------------------------------------
(***************************************************************************)
(* The rebuild.                                                            *)
(***************************************************************************)

\* A pending update that is laid over a record is about that record's version.
LEMMA BuildKept ==
  ASSUME HealthInv, KeptInv, NoRemoval, RefreshBuild
  PROVE  KeptInv'
<1>1. /\ op # NoOp /\ op.step = "overlay" /\ op' # NoOp /\ op'.step = "share" /\ op \in Ops
      /\ op'.name = op.name /\ op'.keys = op.keys /\ op'.todo = op.todo /\ op'.changed = op.changed
      /\ incoming' = Store!Overlay(base, pending)
  BY BuildStep, PoolBuilt DEF HealthInv, OpOK, Pool!BuildRouter
<1>2. /\ UNCHANGED <<storeVars, ahead, born, health, plan, nextPlan, pc, held>> /\ phase = "idle" /\ phase' = "built"
  BY PoolBuilt DEF RefreshBuild, Pool!BuildRouter, Pool!stateVars, Pool!reqVars
<1>3. UNCHANGED <<rec, call>> /\ S!Known' = S!Known /\ call = NoCall /\ \A k : State(k)' = State(k)
  BY <1>1, <1>2 DEF S!Known, S!Taken, S!Pending, storeVars, HealthInv, OpOK, State
<1>4. ASSUME NEW k \in Keys
      PROVE  /\ \/ incoming'[k] = base[k]
                \/ /\ base[k] # NoRecord /\ Inactive(incoming[k])'
                   /\ \E u \in S!Known : /\ u.key = k /\ base[k].version <= u.expected
                                         /\ incoming'[k].version = u.expected + 1
             /\ Current(k, base[k])
  <2>1. \/ incoming'[k] = base[k]
        \/ /\ base[k] # NoRecord /\ pending[k] # NoUpdate
           /\ base[k].version <= pending[k].expected
           /\ incoming'[k] # NoRecord /\ incoming'[k].status = "disabled_auto"
           /\ incoming'[k].version = pending[k].expected + 1
    BY <1>1, OverlayFacts DEF HealthInv, OpOK
  <2>2. pending[k] # NoUpdate => pending[k] \in S!Known /\ pending[k].key = k
    BY DEF HealthInv, S!StoreInv, S!PendingOK, S!Known, S!Pending
  <2>3. Current(k, base[k])
    BY <1>1 DEF KeptInv, ReadOK, Reading
  <2> QED BY <2>1, <2>2, <2>3 DEF Inactive, IsActiveStatus
<1>5. KeysOK'
  BY <1>1, <1>2, <1>3, <1>4 DEF KeptInv, KeysOK, Reading, Sharing, Inactive
<1>6. VersionsOK'
  BY <1>2, <1>3, UpdateFacts DEF KeptInv, VersionsOK
<1>7. CallOK'
  BY <1>1, <1>3 DEF KeptInv, CallOK
<1>8. FollowedOK'
  BY <1>1, <1>2, <1>3 DEF KeptInv, FollowedOK, Rebuilt, Enabling, Followed, Active
<1>9. ReadOK'
  <2> SUFFICES ASSUME NEW k \in Keys, ~Current(k, incoming[k])'
               PROVE  /\ born[k] = 1 /\ Inactive(incoming[k])' /\ incoming'[k].version <= rec[k].version + 1
                      /\ Active(rec[k]) => rec[k].version <= incoming'[k].version
    BY <1>1, <1>2, <1>3 DEF ReadOK, Reading, Sharing, Active, Inactive
  <2>1. incoming'[k] # base[k]
    BY <1>2, <1>3, <1>4 DEF Current, Inactive
  <2>2. PICK u \in S!Known : /\ u.key = k /\ base[k].version <= u.expected /\ base[k] # NoRecord
                             /\ incoming'[k].version = u.expected + 1 /\ Inactive(incoming[k])'
    BY <1>4, <2>1
  <2>3. u.expected \in Nat /\ born[k] = 1 /\ u.expected <= rec[k].version
    BY <2>2, UpdateFacts DEF KeptInv, VersionsOK
  <2>4. rec[k].version \in Nat /\ base[k].version \in Nat
    BY <2>2, <2>3, KeyFacts DEF KeptInv, KeysOK
  <2>5. Active(rec[k]) => rec[k] = base[k]
    BY <1>4 DEF Current, Active, Inactive
  <2> QED BY <2>2, <2>3, <2>4, <2>5
<1>10. op.keys \subseteq Keys
  BY <1>1 DEF Ops
<1>11. DisableOK'
  <2> SUFFICES ASSUME op.name = "disable", NEW k \in op.keys \ op.todo
               PROVE  Binding(k, incoming[k])'
    BY <1>1 DEF DisableOK
  <2>1. k \in Keys /\ Binding(k, base[k])
    BY <1>1, <1>10 DEF KeptInv, DisableOK
  <2>2. CASE incoming'[k] = base[k]
    BY <1>2, <1>3, <2>1, <2>2 DEF Binding, Inactive
  <2>3. CASE incoming'[k] # base[k]
    <3>1. PICK u \in S!Known : /\ base[k].version <= u.expected /\ base[k] # NoRecord
                               /\ incoming'[k].version = u.expected + 1 /\ Inactive(incoming[k])'
      BY <1>4, <2>1, <2>3
    <3>2. u.expected \in Nat /\ State(k).version \in Nat /\ base[k].version \in Nat
      BY <2>1, <3>1, UpdateFacts, KeyFacts
    <3> QED BY <1>2, <1>3, <2>1, <3>1, <3>2 DEF Binding
  <2> QED BY <2>2, <2>3
<1>12. RecoverOK'
  <2> SUFFICES ASSUME op.name = "recover", NEW k \in op.keys, k \notin op.todo
               PROVE  Older(k)' /\ incoming'[k] # NoRecord /\ incoming'[k].version <= rec[k].version
    BY <1>1, <1>3 DEF RecoverOK
  <2>1. k \in Keys /\ Older(k)
    BY <1>1, <1>10 DEF KeptInv, RecoverOK
  <2>2. Older(k)'
    BY <1>2, <1>3, <2>1 DEF Older
  <2>3. rec[k] # NoRecord /\ rec[k].version \in Nat /\ base[k] # NoRecord /\ base[k].version \in Nat
    BY <1>4, <2>1, KeyFacts DEF Older, Current
  <2>4. CASE incoming'[k] = base[k]
    BY <1>4, <2>1, <2>2, <2>3, <2>4 DEF Current
  <2>5. CASE incoming'[k] # base[k]
    <3>1. PICK u \in S!Known : u.key = k /\ incoming'[k].version = u.expected + 1 /\ Inactive(incoming[k])'
      BY <1>4, <2>1, <2>5
    <3>2. u.expected \in Nat /\ u.expected < rec[k].version
      BY <2>1, <3>1, UpdateFacts DEF Older
    <3> QED BY <2>2, <2>3, <3>1, <3>2 DEF Inactive
  <2> QED BY <2>4, <2>5
<1> QED BY <1>5, <1>6, <1>7, <1>8, <1>9, <1>11, <1>12 DEF KeptInv

LEMMA FailsKept ==
  ASSUME HealthInv, KeptInv, RefreshFails
  PROVE  KeptInv'
<1>1. /\ op # NoOp /\ op' = NoOp /\ ahead' = (ahead \/ op.changed)
      /\ UNCHANGED <<born, health, plan, nextPlan, pc, held>> /\ phase' = "idle"
  BY FailsStep
<1>2. op.step \in {"read", "share"} /\ UNCHANGED storeVars
  BY DEF RefreshFails
<1>3. /\ UNCHANGED <<rec, call>> /\ S!Known' = S!Known /\ call = NoCall /\ (\A k : State(k)' = State(k))
      /\ phase # "shared"
  BY <1>1, <1>2 DEF S!Known, S!Taken, S!Pending, storeVars, HealthInv, OpOK, PhaseOK, PlainOK, State
<1>4. KeysOK'
  BY <1>1, <1>3 DEF KeptInv, KeysOK, Reading, Sharing
<1>5. VersionsOK'
  BY <1>1, <1>3, UpdateFacts DEF KeptInv, VersionsOK
<1>6. CallOK' /\ ReadOK' /\ DisableOK' /\ RecoverOK'
  BY <1>1, <1>3 DEF CallOK, ReadOK, DisableOK, RecoverOK, Reading, Sharing
<1>7. FollowedOK'
  BY <1>1, <1>3 DEF KeptInv, FollowedOK, Rebuilt, Enabling, Followed, Active
<1> QED BY <1>4, <1>5, <1>6, <1>7 DEF KeptInv


\* Binding the new pool gives a key the state that was read when the key is new or
\* its record newer than memory, and leaves it alone otherwise.
Rebound(k) ==
  /\ incoming[k] # NoRecord /\ born'[k] = 1
  /\ born[k] = 1 => incoming[k].version > State(k).version
  /\ State(k)'.version = incoming[k].version /\ State(k)'.status = incoming[k].status

LEMMA ShareEffect ==
  ASSUME HealthInv, KeysOK, NoRemoval, RefreshShare, NEW k \in Keys
  PROVE  /\ \/ Rebound(k)
            \/ /\ born[k] = 1 /\ born'[k] = 1 /\ incoming[k] # NoRecord
               /\ incoming[k].version <= State(k).version /\ State(k)' = State(k)
            \/ born[k] = 0 /\ born'[k] = 0 /\ incoming[k] = NoRecord
         /\ incoming[k] # NoRecord => nextPlan'[k] # NoState
<1>1. /\ phase = "built" /\ op # NoOp /\ op.step = "share"
      /\ nextPlan' = [j \in Keys |->
           IF incoming[j] # NoRecord /\ plan[j] = NoState THEN <<j, born[j] + 1>>
           ELSE IF incoming[j] # NoRecord /\ plan[j] # NoState THEN plan[j] ELSE NoState]
      /\ born' = [j \in Keys |-> IF incoming[j] # NoRecord /\ plan[j] = NoState THEN born[j] + 1 ELSE born[j]]
  BY ShareStep, PoolBound DEF RefreshShare, Pool!SharePool
<1>2. /\ born[k] \in {0, 1} /\ (born[k] = 1 <=> plan[k] # NoState) /\ (born[k] = 1 => incoming[k] # NoRecord)
  BY <1>1 DEF KeysOK, Sharing
<1>3. born[k] = 1 => plan[k] = <<k, 1>>
  BY <1>2, KeyFacts
<1>4. /\ <<k, 1>> \in P!Objects /\ State(k).version \in Nat
      /\ incoming[k] # NoRecord => incoming[k].version \in Nat
  BY KeyFacts
<1>5. <<k, 1>> \in Pool!Objects
  BY <1>4 DEF Pool!Objects, P!Objects
<1>6. State(k)' =
        IF incoming[k] # NoRecord /\ plan[k] = NoState /\ 1 = born[k] + 1 THEN Pool!NewKeyState(incoming[k])
        ELSE IF /\ incoming[k] # NoRecord /\ plan[k] # NoState
                /\ incoming[k].version > health[plan[k]].version /\ <<k, 1>> = plan[k]
             THEN Pool!NewKeyState(incoming[k]) ELSE State(k)
  <2>1. health' = [o \in Pool!Objects |->
          IF /\ o[1] \in {j \in Keys : incoming[j] # NoRecord /\ plan[j] = NoState}
             /\ o = <<o[1], born[o[1]] + 1>>
          THEN Pool!NewKeyState(incoming[o[1]])
          ELSE IF /\ o[1] \in {j \in {i \in Keys : incoming[i] # NoRecord /\ plan[i] # NoState} :
                                 Pool!Supersedes(incoming[j], health[plan[j]])}
                  /\ o = plan[o[1]]
          THEN Pool!NewKeyState(incoming[o[1]])
          ELSE health[o]]
    BY PoolBound DEF Pool!SharePool
  <2>2. /\ <<k, 1>>[1] = k /\ (<<k, 1>> = <<k, born[k] + 1>> <=> 1 = born[k] + 1)
    OBVIOUS
  <2> QED BY <1>5, <2>1, <2>2 DEF State, Pool!Supersedes
<1>7. /\ Pool!NewKeyState(incoming[k]).version = incoming[k].version
      /\ Pool!NewKeyState(incoming[k]).status = incoming[k].status
  BY DEF Pool!NewKeyState
<1>8. CASE born[k] = 0 /\ incoming[k] # NoRecord
  <2>1. born'[k] = 1 /\ State(k)' = Pool!NewKeyState(incoming[k])
    BY <1>1, <1>2, <1>6, <1>8
  <2>2. nextPlan'[k] = <<k, 1>> /\ <<k, 1>> # NoState
    BY <1>1, <1>2, <1>4, <1>8, PoolAssumptions DEF P!PoolConstants, P!Objects
  <2> QED BY <1>7, <1>8, <2>1, <2>2 DEF Rebound
<1>9. CASE born[k] = 0 /\ incoming[k] = NoRecord
  BY <1>1, <1>9
<1>10. CASE born[k] = 1
  <2>1. /\ plan[k] = <<k, 1>> /\ plan[k] # NoState /\ incoming[k] # NoRecord /\ born'[k] = 1
        /\ nextPlan'[k] = plan[k]
    BY <1>1, <1>2, <1>3, <1>10
  <2>2. State(k)' = IF incoming[k].version > State(k).version THEN Pool!NewKeyState(incoming[k]) ELSE State(k)
    BY <1>6, <2>1 DEF State
  <2> QED BY <1>4, <1>7, <1>10, <2>1, <2>2 DEF Rebound
<1> QED BY <1>2, <1>8, <1>9, <1>10

LEMMA ShareKept ==
  ASSUME HealthInv, KeptInv, NoRemoval, RefreshShare
  PROVE  KeptInv'
<1>1. /\ op # NoOp /\ op.step = "share" /\ op' # NoOp /\ op'.step = "publish" /\ op \in Ops
      /\ op'.name = op.name /\ op'.keys = op.keys /\ op'.todo = op.todo /\ op'.changed = op.changed
  BY ShareStep DEF HealthInv, OpOK
<1>2. UNCHANGED <<storeVars, ahead, plan, pc, held>> /\ phase' = "shared"
  BY PoolBound DEF RefreshShare, Pool!SharePool, Pool!reqVars
<1>3. UNCHANGED <<rec, call>> /\ S!Known' = S!Known /\ call = NoCall
  BY <1>1, <1>2 DEF S!Known, S!Taken, S!Pending, storeVars, HealthInv, OpOK
<1>4. ASSUME NEW k \in Keys
      PROVE  /\ \/ Rebound(k)
                \/ /\ born[k] = 1 /\ born'[k] = 1 /\ incoming[k] # NoRecord
                   /\ incoming[k].version <= State(k).version /\ State(k)' = State(k)
                \/ born[k] = 0 /\ born'[k] = 0 /\ incoming[k] = NoRecord
             /\ incoming[k] # NoRecord => nextPlan'[k] # NoState
             /\ State(k).version \in Nat
             /\ incoming[k] # NoRecord => incoming[k].version \in Nat
             /\ rec[k] # NoRecord => rec[k].version \in Nat
             /\ \/ Current(k, incoming[k])
                \/ /\ born[k] = 1 /\ Inactive(incoming[k]) /\ incoming[k].version <= rec[k].version + 1
                   /\ Active(rec[k]) => rec[k].version <= incoming[k].version
             /\ born[k] = 1 => rec[k] # NoRecord /\ incoming[k] # NoRecord
             /\ born[k] = 0 /\ born'[k] = 1 => rec[k] = incoming[k]
  <2>1. /\ \/ Rebound(k)
           \/ /\ born[k] = 1 /\ born'[k] = 1 /\ incoming[k] # NoRecord
              /\ incoming[k].version <= State(k).version /\ State(k)' = State(k)
           \/ born[k] = 0 /\ born'[k] = 0 /\ incoming[k] = NoRecord
        /\ incoming[k] # NoRecord => nextPlan'[k] # NoState
    BY ShareEffect DEF KeptInv
  <2>2. \/ Current(k, incoming[k])
        \/ /\ born[k] = 1 /\ Inactive(incoming[k]) /\ incoming[k].version <= rec[k].version + 1
           /\ Active(rec[k]) => rec[k].version <= incoming[k].version
    BY <1>1 DEF KeptInv, ReadOK, Sharing
  <2>3. born[k] = 1 => rec[k] # NoRecord /\ incoming[k] # NoRecord
    BY <1>1 DEF KeptInv, KeysOK, Sharing
  <2>4. born[k] = 0 => rec[k] = incoming[k]
    BY <2>2 DEF Current
  <2> QED BY <2>1, <2>2, <2>3, <2>4, KeyFacts
<1>5. KeysOK'
  <2> SUFFICES ASSUME NEW k \in Keys
               PROVE  /\ born'[k] \in {0, 1}
                      /\ plan[k] # NoState => born'[k] = 1
                      /\ born'[k] = 1 => rec[k] # NoRecord /\ nextPlan'[k] # NoState
    BY <1>1, <1>2, <1>3 DEF KeysOK, Reading, Sharing
  <2>1. (plan[k] # NoState => born[k] = 1) /\ born[k] \in {0, 1}
    BY DEF KeptInv, KeysOK
  <2> QED BY <1>4, <2>1 DEF Rebound
<1>6. ASSUME NEW k \in Keys, born'[k] = 1
      PROVE  /\ State(k)'.version <= rec[k].version + 1
             /\ IsActiveStatus(State(k)'.status) => State(k)'.version <= rec[k].version
             /\ Active(rec[k]) => rec[k].version <= State(k)'.version
             /\ State(k)'.version \in Nat
             /\ born[k] = 1 => State(k).version <= State(k)'.version
  <2>1. CASE Rebound(k)
    BY <1>4, <1>6, <2>1 DEF Rebound, Current, Inactive, Active
  <2>2. CASE /\ born[k] = 1 /\ incoming[k] # NoRecord
             /\ incoming[k].version <= State(k).version /\ State(k)' = State(k)
    BY <1>4, <2>2 DEF KeptInv, VersionsOK, Current, Inactive, Active
  <2> QED BY <1>4, <1>6, <2>1, <2>2
<1>7. VersionsOK'
  <2>1. \A u \in S!Known' : /\ born'[u.key] = 1
                            /\ u.expected <= rec[u.key].version
                            /\ u.expected <= State(u.key)'.version
    <3> SUFFICES ASSUME NEW u \in S!Known
                 PROVE  /\ born'[u.key] = 1
                        /\ u.expected <= rec[u.key].version
                        /\ u.expected <= State(u.key)'.version
      BY <1>3
    <3>1. /\ u.key \in Keys /\ u.expected \in Nat /\ born[u.key] = 1
          /\ u.expected <= rec[u.key].version /\ u.expected <= State(u.key).version
      BY UpdateFacts DEF KeptInv, VersionsOK
    <3>2. PICK k \in Keys : k = u.key
      BY <3>1
    <3>3. born'[k] = 1
      BY <1>4, <3>1, <3>2 DEF Rebound
    <3>4. State(k).version <= State(k)'.version /\ State(k)'.version \in Nat /\ State(k).version \in Nat
      BY <1>4, <1>6, <3>1, <3>2, <3>3
    <3>5. u.expected <= State(k)'.version
      BY <3>1, <3>2, <3>4
    <3> QED BY <3>1, <3>2, <3>3, <3>5
  <2> QED BY <1>2, <1>3, <1>6, <2>1 DEF KeptInv, VersionsOK
<1>8. CallOK'
  BY <1>1, <1>3 DEF KeptInv, CallOK
<1>9. ReadOK'
  BY <1>1 DEF ReadOK, Reading, Sharing
<1>10. FollowedOK'
  BY <1>3, <1>6 DEF FollowedOK, Followed, Active
<1>11. op.keys \subseteq Keys
  BY <1>1 DEF Ops
<1>12. DisableOK'
  <2> SUFFICES ASSUME op.name = "disable", NEW k \in op.keys \ op.todo
               PROVE  born'[k] = 1 /\ ~IsActiveStatus(State(k)'.status)
    BY <1>1 DEF DisableOK
  <2>1. k \in Keys /\ Binding(k, incoming[k])
    BY <1>1, <1>11 DEF KeptInv, DisableOK
  <2> QED BY <1>4, <2>1 DEF Binding, Inactive, Rebound
<1>13. RecoverOK'
  <2> SUFFICES ASSUME op.name = "recover", NEW k \in op.keys
               PROVE  born'[k] = 1 /\ State(k)'.version <= rec[k].version
    BY <1>1, <1>3 DEF RecoverOK
  <2>1. op.todo = {}
    BY <1>1 DEF KeptInv, CallOK
  <2>2. k \in Keys /\ Older(k) /\ incoming[k] # NoRecord /\ incoming[k].version <= rec[k].version
    BY <1>1, <1>11, <2>1 DEF KeptInv, RecoverOK
  <2> QED BY <1>4, <2>2 DEF Older, Rebound
<1> QED BY <1>5, <1>7, <1>8, <1>9, <1>10, <1>12, <1>13 DEF KeptInv

LEMMA PublishKept ==
  ASSUME HealthInv, KeptInv, RefreshPublish
  PROVE  KeptInv'
<1>1. /\ op # NoOp /\ op.step = "publish" /\ phase = "shared" /\ phase' = "idle" /\ op \in Ops
      /\ plan' = nextPlan /\ UNCHANGED <<born, health, pc, held>> /\ ahead' = FALSE
      /\ \/ op' = NoOp
         \/ /\ op.name = "recover" /\ op' # NoOp /\ op'.step = "recover"
            /\ op'.name = op.name /\ op'.keys = op.keys /\ op'.changed = op.changed
  BY PublishStep DEF HealthInv, OpOK
<1>2. UNCHANGED storeVars
  BY DEF RefreshPublish
<1>3. UNCHANGED <<rec, call>> /\ S!Known' = S!Known /\ call = NoCall /\ \A k : State(k)' = State(k)
  BY <1>1, <1>2 DEF S!Known, S!Taken, S!Pending, storeVars, HealthInv, OpOK, State
<1>4. \A k \in Keys : nextPlan[k] # NoState => born[k] = 1
  <2> SUFFICES ASSUME NEW k \in Keys, nextPlan[k] # NoState PROVE born[k] = 1
    OBVIOUS
  <2>1. nextPlan[k] \in P!Objects /\ nextPlan[k][1] = k /\ nextPlan[k][2] <= born[k]
    BY <1>1 DEF HealthInv, P!Inv, P!TypeOK, P!Names
  <2>2. PICK o \in P!Objects : o = nextPlan[k]
    BY <2>1
  <2>3. o[2] \in Nat /\ o[2] >= 1
    BY PoolAssumptions DEF P!Objects, P!PoolConstants
  <2> QED BY <2>1, <2>2, <2>3 DEF KeptInv, KeysOK
<1>5. KeysOK'
  BY <1>1, <1>3, <1>4 DEF KeptInv, KeysOK, Reading, Sharing
<1>6. VersionsOK'
  BY <1>1, <1>3, UpdateFacts DEF KeptInv, VersionsOK
<1>7. CallOK' /\ ReadOK'
  BY <1>1, <1>3 DEF CallOK, ReadOK, Reading, Sharing
<1>8. FollowedOK'
  BY <1>1, <1>3 DEF KeptInv, FollowedOK, Rebuilt, Followed, Active
<1>9. DisableOK'
  BY <1>1 DEF DisableOK
<1>10. RecoverOK'
  BY <1>1, <1>3 DEF KeptInv, RecoverOK
<1> QED BY <1>5, <1>6, <1>7, <1>8, <1>9, <1>10 DEF KeptInv

LEMMA RecoverKept ==
  ASSUME HealthInv, KeptInv, NEW k \in Keys, RecoverOne(k)
  PROVE  KeptInv'
<1>1. /\ op # NoOp /\ op.step = "recover" /\ op \in Ops /\ UNCHANGED <<born, plan, phase, nextPlan, pc, held>>
      /\ UNCHANGED health \/ (plan[k] # NoState /\ health' = [health EXCEPT ![plan[k]] = Pool!enableLocked(@)])
      /\ \/ op' = NoOp
         \/ /\ op' # NoOp /\ op'.step = "recover"
            /\ op'.name = op.name /\ op'.keys = op.keys /\ op'.changed = op.changed
  BY RecoverStep DEF HealthInv, OpOK
<1>2. UNCHANGED storeVars /\ k \in op.todo /\ op.todo \subseteq op.keys
  BY <1>1 DEF RecoverOne, HealthInv, OpOK
<1>3. UNCHANGED <<rec, call>> /\ S!Known' = S!Known /\ call = NoCall
  BY <1>1, <1>2 DEF S!Known, S!Taken, S!Pending, storeVars, HealthInv, OpOK
<1>4. op.name = "recover" /\ born[k] = 1 /\ State(k).version <= rec[k].version
  BY <1>1, <1>2 DEF KeptInv, CallOK, RecoverOK
<1>5. \A j \in Keys : /\ State(j)'.version = State(j).version
                      /\ j # k => State(j)' = State(j)
  <2>1. CASE UNCHANGED health
    BY <2>1 DEF State
  <2>2. CASE plan[k] # NoState /\ health' = [health EXCEPT ![plan[k]] = Pool!enableLocked(@)]
    <3>1. plan[k] = <<k, 1>> /\ <<k, 1>> \in P!Objects /\ DOMAIN health = P!Objects
      BY <1>4, <2>2, KeyFacts DEF HealthInv, P!Inv, P!TypeOK
    <3>2. State(k)' = Pool!enableLocked(State(k))
      BY <2>2, <3>1 DEF State
    <3>3. State(k)'.version = State(k).version
      BY <3>2 DEF Pool!enableLocked, Pool!NewKeyState
    <3>4. \A j \in Keys : j # k => State(j)' = State(j)
      BY <2>2, <3>1 DEF State
    <3> QED BY <3>3, <3>4
  <2> QED BY <1>1, <2>1, <2>2
<1>6. KeysOK'
  BY <1>1, <1>3 DEF KeptInv, KeysOK, Reading, Sharing
<1>7. VersionsOK'
  <2>1. \A j \in Keys : born[j] = 1 =>
          /\ State(j)'.version <= rec[j].version + 1
          /\ IsActiveStatus(State(j)'.status) => State(j)'.version <= rec[j].version
    BY <1>4, <1>5 DEF KeptInv, VersionsOK
  <2>2. \A u \in S!Known : born[u.key] = 1 /\ u.expected <= rec[u.key].version
                           /\ u.expected <= State(u.key)'.version
    BY <1>5, UpdateFacts DEF KeptInv, VersionsOK
  <2> QED BY <1>1, <1>3, <2>1, <2>2 DEF KeptInv, VersionsOK
<1>8. CallOK' /\ ReadOK'
  BY <1>1, <1>3, <1>4 DEF CallOK, ReadOK, Reading, Sharing
<1>9. FollowedOK'
  BY <1>1, <1>3, <1>5 DEF KeptInv, FollowedOK, Rebuilt, Followed, Active
<1>10. DisableOK'
  BY <1>1, <1>4 DEF DisableOK
<1>11. RecoverOK'
  <2>1. op.keys \subseteq Keys
    BY <1>1 DEF Ops
  <2> QED BY <1>1, <1>3, <1>5, <2>1 DEF KeptInv, RecoverOK
<1> QED BY <1>6, <1>7, <1>8, <1>9, <1>10, <1>11 DEF KeptInv


-----------------------------------------------------------------------------
(***************************************************************************)
(* The invariant, and what it says about disabling and enabling.           *)
(***************************************************************************)

LEMMA KeptInit == Init => KeptInv
<1> SUFFICES ASSUME Init PROVE KeptInv
  OBVIOUS
<1>1. PICK records \in [Keys -> {NewRecord, NoRecord}] :
        /\ Pool!PoolInit(records) /\ Store!StoreInit(records) /\ op = NoOp /\ ahead = FALSE
  BY DEF Init
<1>2. /\ rec = records /\ \A k \in Keys : pending[k] = NoUpdate
      /\ batch = {} /\ cur = NoUpdate /\ carried = {} /\ call = NoCall
  BY <1>1 DEF Store!StoreInit
<1>3. /\ phase = "idle" /\ \A r \in Requests : pc[r] = "idle"
      /\ \A k \in Keys : /\ born[k] = IF records[k] = NoRecord THEN 0 ELSE 1
                         /\ plan[k] # NoState => records[k] # NoRecord
                         /\ records[k] # NoRecord => plan[k] = <<k, 1>>
  BY <1>1 DEF Pool!PoolInit
<1>4. S!Known = {}
  BY <1>2 DEF S!Known, S!Taken, S!Pending
<1>5. \A k \in Keys : <<k, 1>> \in Pool!Objects /\ <<k, 1>> # NoState
  BY PoolAssumptions DEF P!PoolConstants, P!Objects, Pool!Objects
<1>6. NewRecord.status = "active" /\ NewRecord.version = 1
  BY DEF NewRecord
<1>7. \A k \in Keys : born[k] = 1 => rec[k] = NewRecord /\ NewRecord # NoRecord /\ State(k).version = 1
  <2> SUFFICES ASSUME NEW k \in Keys, born[k] = 1
               PROVE  rec[k] = NewRecord /\ NewRecord # NoRecord /\ State(k).version = 1
    OBVIOUS
  <2>1. records[k] = NewRecord /\ records[k] # NoRecord
    BY <1>3
  <2>2. health = [o \in Pool!Objects |->
          IF o[2] = 1 /\ records[o[1]] # NoRecord THEN Pool!NewKeyState(records[o[1]]) ELSE Pool!BlankKeyState]
    BY <1>1 DEF Pool!PoolInit
  <2>3. State(k) = Pool!NewKeyState(NewRecord)
    BY <1>5, <2>1, <2>2 DEF State
  <2> QED BY <1>2, <1>6, <2>1, <2>3 DEF Pool!NewKeyState
<1>8. KeysOK
  <2>1. ~Reading /\ ~Sharing /\ phase # "shared"
    BY <1>1, <1>3 DEF Reading, Sharing
  <2>2. \A k \in Keys : /\ born[k] \in {0, 1} /\ (plan[k] # NoState => born[k] = 1)
                        /\ born[k] = 1 => rec[k] # NoRecord /\ plan[k] # NoState
    <3> SUFFICES ASSUME NEW k \in Keys
                 PROVE  /\ born[k] \in {0, 1} /\ (plan[k] # NoState => born[k] = 1)
                        /\ born[k] = 1 => rec[k] # NoRecord /\ plan[k] # NoState
      OBVIOUS
    <3>1. CASE records[k] = NoRecord
      BY <1>3, <3>1
    <3>2. CASE records[k] # NoRecord
      BY <1>2, <1>3, <1>5, <3>2
    <3> QED BY <3>1, <3>2
  <2> QED BY <2>1, <2>2 DEF KeysOK
<1>9. VersionsOK
  BY <1>3, <1>4, <1>6, <1>7 DEF VersionsOK
<1>10. CallOK /\ ReadOK /\ DisableOK /\ RecoverOK
  BY <1>1, <1>2 DEF CallOK, ReadOK, DisableOK, RecoverOK, Reading, Sharing
<1>11. FollowedOK
  BY <1>6, <1>7 DEF FollowedOK, Followed
<1> QED BY <1>8, <1>9, <1>10, <1>11 DEF KeptInv

LEMMA KeptInductive ==
  ASSUME NoRemoval
  PROVE  HealthInv /\ KeptInv /\ [Next]_vars => KeptInv'
<1> SUFFICES ASSUME HealthInv, KeptInv, [Next]_vars PROVE KeptInv'
  OBVIOUS
<1>1. CASE UNCHANGED vars
  <2>1. UNCHANGED <<poolVars, storeVars, op, base, ahead>>
    BY <1>1 DEF vars
  <2>2. UNCHANGED <<rec, pending, batch, cur, call, carried>> /\ S!Known' = S!Known
    BY <2>1 DEF storeVars, S!Known, S!Taken, S!Pending
  <2> QED BY <2>1, <2>2, WritesKeep DEF poolVars
<1>2. CASE Console
  BY <1>2, BeginKept, CallStoreKept, StoreStepKept, ReturnsKept, ReadKept, BuildKept, FailsKept, ShareKept,
     PublishKept, RecoverKept DEF Console
<1> QED BY <1>1, <1>2, RequestKept, PersistKept, WorkerKept DEF Next

\* As long as no key is removed, a disable that the console reports as done is
\* effective: none of its keys takes traffic (Service.changeUpstreamKeyStatus).
THEOREM ManualDisableCorrect ==
  ASSUME NoRemoval
  PROVE  Spec => ManualDisableEffective
<1>1. ASSUME HealthInv, KeptInv, RefreshPublish, op.name = "disable", NEW k \in op.keys, plan'[k] # NoState
      PROVE  ServedDisabled(k)'
  <2>1. /\ op # NoOp /\ op \in Ops /\ op.step = "publish" /\ phase = "shared"
        /\ plan' = nextPlan /\ UNCHANGED <<born, health>>
    BY <1>1, PublishStep DEF HealthInv, OpOK
  <2>2. op.todo = {} /\ k \in Keys
    BY <1>1, <2>1 DEF KeptInv, CallOK, Ops
  <2>3. born[k] = 1 /\ ~IsActiveStatus(State(k).status)
    BY <1>1, <2>1, <2>2 DEF KeptInv, DisableOK
  <2>4. plan'[k] = <<k, 1>>
    BY <1>1, <2>1, <2>2, <2>3, KeyFacts
  <2> QED BY <1>1, <2>1, <2>3, <2>4 DEF ServedDisabled, State
<1>2. HealthInv /\ KeptInv /\ [Next]_vars =>
        [RefreshPublish /\ op.name = "disable" => \A k \in op.keys : plan'[k] = NoState \/ ServedDisabled(k)']_vars
  BY <1>1
<1> QED BY <1>2, HealthInitOK, HealthInductive, KeptInit, KeptInductive, PTL DEF Spec, ManualDisableEffective

\* A step that enables a key in memory belongs to an operation that asks for it, or
\* makes up for one that failed on its way.
LEMMA EnablingSteps ==
  ASSUME HealthInv, KeptInv, NoRemoval, [Next]_vars, NEW k \in Keys,
         ServedDisabled(k), plan'[k] = plan[k], IsActiveStatus(health'[plan[k]].status)
  PROVE  ahead \/ (op # NoOp /\ op.name \in {"enable", "recover"})
<1>1. /\ born[k] = 1 /\ plan[k] = <<k, 1>>
  BY KeyFacts DEF ServedDisabled, KeptInv, KeysOK
<1>2. ~IsActiveStatus(State(k).status) /\ IsActiveStatus(State(k)'.status) /\ health' # health
  BY <1>1 DEF ServedDisabled, State
<1>3. ASSUME NEW r \in Requests, Request(r) \/ PersistDisabledKey(r) PROVE FALSE
  <2>1. CASE Request(r)
    BY <1>1, <1>2, <2>1, RequestHasEffect DEF RequestEffect, KeptInv
  <2>2. CASE PersistDisabledKey(r)
    BY <1>2, <2>2 DEF PersistDisabledKey, Pool!PersistDisabledKeyAsync, Pool!stateVars
  <2> QED BY <1>3, <2>1, <2>2
<1>4. CASE RefreshShare
  <2>1. op # NoOp /\ op.step = "share"
    BY <1>4, ShareStep
  <2>2. /\ incoming[k].version > State(k).version /\ Active(incoming[k])
    BY <1>1, <1>2, <1>4, ShareEffect DEF KeptInv, Rebound, Active
  <2>3. Current(k, incoming[k])
    BY <2>1, <2>2 DEF KeptInv, ReadOK, Sharing, Active, Inactive
  <2>4. incoming[k].version \in Nat /\ State(k).version \in Nat
    BY <2>2, KeyFacts DEF Active
  <2>5. rec[k] = incoming[k]
    BY <2>2, <2>3, <2>4 DEF Current, Active
  <2>6. ~Followed(k)
    BY <1>1, <2>2, <2>4, <2>5 DEF Followed
  <2> QED BY <2>1, <2>6 DEF KeptInv, FollowedOK, Enabling
<1>5. CASE \E j \in Keys : RecoverOne(j)
  BY <1>5, RecoverStep DEF KeptInv, CallOK
<1>6. CASE Console
  <2>1. \/ UNCHANGED health \/ RefreshShare \/ \E j \in Keys : RecoverOne(j)
    BY <1>6, FailsStep, PublishStep DEF Console, BeginOp, CallStore, StoreStep, StoreReturns, RefreshRead,
       RefreshBuild, Pool!BuildRouter, Pool!BuildAggregate, Pool!stateVars, poolVars
  <2> QED BY <1>2, <1>4, <1>5, <2>1
<1>7. CASE Worker \/ Shutdown \/ UNCHANGED vars
  BY <1>2, <1>7 DEF Worker, Shutdown, vars, poolVars
<1> QED BY <1>3, <1>6, <1>7 DEF Next

\* As long as no key is removed, a disabled key in the pool becomes active only in an
\* operation that enables or recovers it, or after one that has failed half way
\* (buildRouter, ShareRuntimeStateFrom, RecoverUpstreamKeys).
THEOREM OnlyAdminEnablesCorrect ==
  ASSUME NoRemoval
  PROVE  Spec => OnlyAdminEnables
<1>1. HealthInv /\ KeptInv /\ [Next]_vars =>
        [\A k \in Keys :
           ServedDisabled(k) /\ plan'[k] = plan[k] /\ IsActiveStatus(health'[plan[k]].status)
           => ahead \/ (op # NoOp /\ op.name \in {"enable", "recover"})]_vars
  BY EnablingSteps
<1> QED BY <1>1, HealthInitOK, HealthInductive, KeptInit, KeptInductive, PTL DEF Spec, OnlyAdminEnables


-----------------------------------------------------------------------------
(***************************************************************************)
(* Store and memory agree, as long as nobody enables a key either.  Then a *)
(* key is disabled once and for all, whoever does it.                      *)
(***************************************************************************)

NoEnabling == AdminOps \cap {"enable", "recover"} = {}

First(record) ==
  (Active(record) => record.version = 1) /\ (Inactive(record) => record.version >= 2)

\* An active record has the first version, a disabled one a later version; an active
\* key has the first version in memory.
FirstOK ==
  \A k \in Keys :
    /\ First(rec[k])
    /\ Reading => First(base[k])
    /\ Sharing => First(incoming[k])
    /\ born[k] = 1 /\ IsActiveStatus(State(k).status) => State(k).version = 1

\* Whoever reports or writes a disable, memory has it already, and what the worker
\* has written is in the store.
ReportedOK ==
  /\ \A u \in S!Known : ~IsActiveStatus(State(u.key).status)
  /\ \A r \in Requests : pc[r] = "persist" => ~IsActiveStatus(State(held[r].obj[1]).status)
  /\ wpc = "settle" => Inactive(rec[cur.key])

Reporting(k) == \E r \in Requests : pc[r] = "persist" /\ held[r].obj[1] = k

Reaching(k) == Inactive(rec[k]) \/ pending[k] # NoUpdate \/ Reporting(k)

\* A disable in memory is in the store or on its way there.
ReachingOK ==
  \A k \in Keys :
    /\ born[k] = 1 /\ ~IsActiveStatus(State(k).status) => Reaching(k)
    /\ Sharing /\ Inactive(incoming[k]) => Reaching(k)

Served(k) == born[k] = 1 /\ ~IsActiveStatus(State(k).status)

\* A disable in the store is in memory, or an operation has yet to publish it.
ServedOK ==
  \A k \in Keys : Inactive(rec[k]) =>
    /\ born[k] = 1 => \/ Served(k)
                      \/ ~Rebuilt /\ (ahead \/ (op # NoOp /\ op.changed))
    /\ Reading => Inactive(base[k]) \/ Served(k)
    /\ Sharing => Inactive(incoming[k]) \/ Served(k)

AgreeInv == FirstOK /\ ReportedOK /\ ReachingOK /\ ServedOK

\* Keys are disabled in memory, reported, and written for keys that memory has
\* disabled.
LEMMA AgreeFrame ==
  ASSUME HealthInv, KeptInv, AgreeInv, UNCHANGED <<op, base, ahead, born, incoming>>,
         \A k \in Keys : born[k] = 1 =>
           /\ State(k)'.version = State(k).version
           /\ IsActiveStatus(State(k)'.status) => IsActiveStatus(State(k).status)
           /\ IsActiveStatus(State(k).status) /\ ~IsActiveStatus(State(k)'.status) => Reporting(k)'
           /\ pending[k] # NoUpdate \/ Reporting(k) => Reaching(k)',
         \A k \in Keys : \/ rec'[k] = rec[k]
                         \/ Served(k) /\ Inactive(rec[k])' /\ rec'[k].version >= 2,
         \A u \in S!Known' : u \in S!Known \/ (u.key \in Keys /\ Served(u.key)),
         \A r \in Requests : pc'[r] = "persist" =>
           \E k \in Keys : held'[r].obj[1] = k /\ ~IsActiveStatus(State(k)'.status),
         wpc' = "settle" => Inactive(rec'[cur'.key])
  PROVE  AgreeInv'
<1>1. \A k \in Keys : Served(k) => Served(k)'
  BY DEF Served
<1>2. FirstOK'
  <2> SUFFICES ASSUME NEW k \in Keys
               PROVE  /\ First(rec[k])'
                      /\ Reading => First(base[k])
                      /\ Sharing => First(incoming[k])
                      /\ born[k] = 1 /\ IsActiveStatus(State(k)'.status) => State(k)'.version = 1
    BY DEF FirstOK, Reading, Sharing, First, Active, Inactive
  <2>1. First(rec[k])'
    <3>1. CASE rec'[k] = rec[k]
      BY <3>1 DEF AgreeInv, FirstOK, First, Active, Inactive
    <3>2. CASE Inactive(rec[k])' /\ rec'[k].version >= 2
      BY <3>2 DEF First, Active, Inactive
    <3> QED BY <3>1, <3>2
  <2> QED BY <2>1 DEF AgreeInv, FirstOK
<1>3. ReportedOK'
  <2>1. \A u \in S!Known' : u.key \in Keys /\ Served(u.key)
    BY UpdateFacts DEF AgreeInv, ReportedOK, KeptInv, VersionsOK, Served
  <2>2. \A u \in S!Known' : ~IsActiveStatus(State(u.key)'.status)
    BY <1>1, <2>1 DEF Served
  <2> QED BY <2>2 DEF ReportedOK, Inactive
<1>4. \A k \in Keys : Inactive(rec[k]) => Inactive(rec[k])'
  BY DEF Inactive
<1>5. ReachingOK'
  <2>1. ASSUME NEW k \in Keys, Served(k)' PROVE Reaching(k)'
    <3>1. CASE IsActiveStatus(State(k).status)
      BY <2>1, <3>1 DEF Served, Reaching
    <3>2. CASE ~IsActiveStatus(State(k).status)
      <4>1. Reaching(k) /\ born[k] = 1
        BY <2>1, <3>2 DEF Served, AgreeInv, ReachingOK
      <4>2. CASE Inactive(rec[k])
        BY <1>4, <4>2 DEF Reaching
      <4> QED BY <4>1, <4>2 DEF Reaching
    <3> QED BY <3>1, <3>2
  <2>2. ASSUME NEW k \in Keys, Sharing, Inactive(incoming[k]) PROVE Reaching(k)'
    <3>1. Reaching(k)
      BY <2>2 DEF AgreeInv, ReachingOK
    <3>2. CASE Inactive(rec[k])
      BY <1>4, <3>2 DEF Reaching
    <3>3. CASE ~Inactive(rec[k])
      <4>1. pending[k] # NoUpdate \/ Reporting(k)
        BY <3>1, <3>3 DEF Reaching
      <4>2. born[k] = 1
        <5>1. CASE pending[k] # NoUpdate
          BY <5>1 DEF HealthInv, S!StoreInv, S!PendingOK, KeptInv, VersionsOK, S!Known, S!Pending
        <5>2. CASE Reporting(k)
          BY <5>2, HeldFacts DEF Reporting, KeptInv
        <5> QED BY <4>1, <5>1, <5>2
      <4> QED BY <4>1, <4>2
    <3> QED BY <3>2, <3>3
  <2> QED BY <2>1, <2>2 DEF ReachingOK, Sharing, Served, Inactive
<1>6. ServedOK'
  <2> SUFFICES ASSUME NEW k \in Keys, Inactive(rec[k])'
               PROVE  /\ born[k] = 1 => \/ Served(k)'
                                        \/ ~Rebuilt /\ (ahead \/ (op # NoOp /\ op.changed))
                      /\ Reading => Inactive(base[k]) \/ Served(k)'
                      /\ Sharing => Inactive(incoming[k]) \/ Served(k)'
    BY DEF ServedOK, Rebuilt, Reading, Sharing, Inactive
  <2>1. CASE Served(k)
    BY <1>1, <2>1
  <2>2. CASE rec'[k] = rec[k]
    <3>1. Inactive(rec[k])
      BY <2>2 DEF Inactive
    <3> QED BY <1>1, <3>1 DEF AgreeInv, ServedOK
  <2> QED BY <2>1, <2>2
<1> QED BY <1>2, <1>3, <1>5, <1>6 DEF AgreeInv

LEMMA RequestAgrees ==
  ASSUME HealthInv, KeptInv, AgreeInv, NEW r \in Requests, Request(r)
  PROVE  AgreeInv'
<1>1. /\ RequestEffect(r)
      /\ UNCHANGED <<storeVars, op, base, ahead, born, plan, phase, incoming, nextPlan>>
  BY RequestHasEffect DEF KeptInv
<1>2. UNCHANGED <<rec, pending, batch, cur, wpc, carried>> /\ S!Known' = S!Known
  BY <1>1 DEF storeVars, S!Known, S!Taken, S!Pending
<1>3. \A k \in Keys : Reporting(k) => Reporting(k)'
  BY <1>1 DEF RequestEffect, Reporting
<1>4. \A q \in Requests : pc'[q] = "persist" =>
        \E k \in Keys : held'[q].obj[1] = k /\ ~IsActiveStatus(State(k)'.status)
  <2> SUFFICES ASSUME NEW q \in Requests, pc'[q] = "persist"
               PROVE  \E k \in Keys : held'[q].obj[1] = k /\ ~IsActiveStatus(State(k)'.status)
    OBVIOUS
  <2>1. held'[q].obj[1] \in Keys
    BY <1>1, HeldFacts DEF RequestEffect, KeptInv
  <2>2. PICK k \in Keys : k = held'[q].obj[1]
    BY <2>1
  <2>3. CASE pc[q] = "persist"
    <3>1. held'[q] = held[q] /\ born[k] = 1 /\ ~IsActiveStatus(State(k).status)
      BY <1>1, <2>2, <2>3, HeldFacts DEF RequestEffect, KeptInv, AgreeInv, ReportedOK
    <3> QED BY <1>1, <2>2, <3>1 DEF RequestEffect
  <2>4. CASE pc[q] # "persist"
    <3>1. ~IsActiveStatus(State(k)'.status)
      BY <1>1, <2>2, <2>4 DEF RequestEffect
    <3> QED BY <2>2, <3>1
  <2> QED BY <2>3, <2>4
<1>5. \A k \in Keys : pending[k] # NoUpdate \/ Reporting(k) => Reaching(k)'
  BY <1>2, <1>3 DEF Reaching
<1>6. \A k \in Keys : born[k] = 1 /\ IsActiveStatus(State(k).status) /\ ~IsActiveStatus(State(k)'.status) => Reporting(k)'
  BY <1>1 DEF RequestEffect, Reporting
<1>7. \A k \in Keys : born[k] = 1 =>
        /\ State(k)'.version = State(k).version
        /\ IsActiveStatus(State(k)'.status) => IsActiveStatus(State(k).status)
  BY <1>1 DEF RequestEffect
<1>8. wpc' = "settle" => Inactive(rec'[cur'.key])
  BY <1>2 DEF AgreeInv, ReportedOK
<1> QED BY <1>1, <1>2, <1>4, <1>5, <1>6, <1>7, <1>8, AgreeFrame

LEMMA PersistAgrees ==
  ASSUME HealthInv, KeptInv, AgreeInv, NEW r \in Requests, PersistDisabledKey(r)
  PROVE  AgreeInv'
<1> DEFINE k == held[r].obj[1]
           u == [id |-> nextID + 1, key |-> k, expected |-> held[r].version, status |-> "disabled_auto"]
<1>1. /\ pc[r] = "persist" /\ pc' = [pc EXCEPT ![r] = "routing"] /\ held' = [held EXCEPT ![r] = NoAttempt]
      /\ UNCHANGED <<op, base, ahead, born, incoming, health, rec, batch, cur, carried, wpc>>
      /\ pending' = [pending EXCEPT ![k] = u] /\ nextID' = nextID + 1
  BY DEF PersistDisabledKey, Pool!PersistDisabledKeyAsync, Store!SetStatusIfVersion, Pool!stateVars,
         Pool!buildVars, Store!workerVars, Store!callVars
<1>2. k \in Keys /\ Served(k)
  BY <1>1, HeldFacts DEF KeptInv, AgreeInv, ReportedOK, Served
<1>3. pending'[k] # NoUpdate
  <2>1. u \in S!Updates
    BY <1>1, <1>2, PersistStep DEF S!Updates, S!Statuses, HealthInv, S!StoreInv, S!TypeOK
  <2>2. pending'[k] = u
    BY <1>1, <1>2 DEF HealthInv, S!StoreInv, S!TypeOK
  <2> HIDE DEF u
  <2> QED BY <2>1, <2>2, StoreAssumptions DEF S!StoreMarkers
<1>4. \A j \in Keys : j # k => pending'[j] = pending[j]
  BY <1>1, <1>2 DEF HealthInv, S!StoreInv, S!TypeOK
<1>5. \A w \in S!Known' : w \in S!Known \/ (w.key \in Keys /\ Served(w.key))
  <2>1. u.key = k
    OBVIOUS
  <2>2. \A j \in Keys : pending'[j] \in {pending[j], u}
    BY <1>1 DEF HealthInv, S!StoreInv, S!TypeOK
  <2> HIDE DEF u
  <2>3. S!Pending' \subseteq S!Pending \cup {u}
    BY <2>2 DEF S!Pending
  <2>4. S!Known' \subseteq S!Known \cup {u}
    BY <1>1, <2>3 DEF S!Known, S!Taken
  <2> QED BY <1>2, <2>1, <2>4
<1>6. \A q \in Requests : \/ q = r /\ pc'[q] = "routing"
                          \/ q # r /\ pc'[q] = pc[q] /\ held'[q] = held[q]
  <2>1. pc \in [Requests -> {"idle", "routing", "attempt", "persist"}] /\ DOMAIN held = Requests
    BY DEF HealthInv, P!Inv, P!TypeOK
  <2> QED BY <1>1, <2>1
<1>7. \A j : State(j)' = State(j)
  BY <1>1 DEF State
<1>8. \A j \in Keys : pending[j] # NoUpdate \/ Reporting(j) => Reaching(j)'
  BY <1>3, <1>4, <1>6 DEF Reaching, Reporting
<1>9. \A q \in Requests : pc'[q] = "persist" =>
        \E j \in Keys : held'[q].obj[1] = j /\ ~IsActiveStatus(State(j)'.status)
  BY <1>6, <1>7, HeldFacts DEF AgreeInv, ReportedOK, KeptInv
<1>10. wpc' = "settle" => Inactive(rec'[cur'.key])
  BY <1>1 DEF AgreeInv, ReportedOK
<1> HIDE DEF k, u
<1> QED BY <1>1, <1>5, <1>7, <1>8, <1>9, <1>10, AgreeFrame

\* An update that the worker is done with has disabled the record, or found it
\* disabled already.
LEMMA WorkerAgrees ==
  ASSUME HealthInv, KeptInv, AgreeInv, Worker \/ Shutdown
  PROVE  AgreeInv'
<1>1. UNCHANGED <<poolVars, op, base, ahead>>
  BY DEF Worker, Shutdown
<1>2. UNCHANGED <<born, incoming, pc, held, health>> /\ (\A j : State(j)' = State(j)) /\ (\A j : Reporting(j)' <=> Reporting(j))
  BY <1>1 DEF poolVars, State, Reporting
<1>3. S!Worker \/ UNCHANGED <<rec, pending, batch, cur, wpc, carried>>
  BY ShutdownStep, WorkerStep
<1>4. S!Known' \subseteq S!Known
  BY <1>3, WorkerEffect, ShutdownStep DEF S!Known, S!Taken, S!Pending
<1>5. \A u \in S!Known : u.key \in Keys /\ Served(u.key) /\ u.expected \in Nat /\ u.expected <= rec[u.key].version
  BY UpdateFacts DEF KeptInv, VersionsOK, AgreeInv, ReportedOK, Served
<1>6. \A k \in Keys : rec[k] # NoRecord => rec[k].version \in Nat /\ rec[k].version >= 1
  BY SameRecords, RecordConstants DEF HealthInv, S!StoreInv, S!TypeOK, S!Stores, S!Records, S!Versions
<1>7. \A k \in Keys : \/ rec'[k] = rec[k]
                      \/ Served(k) /\ Inactive(rec[k])' /\ rec'[k].version >= 2
  <2> SUFFICES ASSUME NEW k \in Keys, rec'[k] # rec[k]
               PROVE  Served(k) /\ Inactive(rec[k])' /\ rec'[k].version >= 2
    OBVIOUS
  <2>1. Worker
    BY ShutdownStep
  <2>2. Written(k) /\ \E u \in S!Known : u.key = k
    BY <2>1, WorkerEffect
  <2> QED BY <1>5, <1>6, <2>2 DEF Written
<1>8. wpc' = "settle" => Inactive(rec'[cur'.key])
  <2> SUFFICES ASSUME wpc' = "settle" PROVE Inactive(rec'[cur'.key])
    OBVIOUS
  <2>1. CASE \E u \in batch : S!WorkerApply(u)
    <3>1. PICK u \in batch : S!WorkerApply(u)
      BY <2>1
    <3>2. u \in S!Known /\ cur' = u
      BY <3>1 DEF S!Known, S!Taken, S!WorkerApply
    <3>3. u.key \in Keys /\ born[u.key] = 1 /\ u.expected \in Nat /\ u.expected <= rec[u.key].version /\ rec[u.key] # NoRecord
      BY <1>5, <3>2 DEF KeptInv, KeysOK, Served
    <3>4. CASE Inactive(rec[u.key])
      BY <1>7, <3>2, <3>3, <3>4 DEF Inactive
    <3>5. CASE ~Inactive(rec[u.key])
      <4>1. rec[u.key].version = 1
        BY <3>3, <3>5 DEF AgreeInv, FirstOK, First, Active, Inactive
      <4>2. u.expected >= 1
        BY <3>2, S!KnownFacts, StoreAssumptions, RecordConstants DEF HealthInv, S!StoreInv, S!Updates, S!Versions
      <4>3. S!VersionMatches(rec, u.key, u.expected) /\ u.expected = rec[u.key].version
        BY <3>3, <4>1, <4>2 DEF S!VersionMatches
      <4>4. rec' = S!SetRecordStatus(rec, u.key, u.status)
        BY <3>1, <4>3 DEF S!WorkerApply
      <4>5. u.status = "disabled_auto" /\ u.expected < MaxVersion /\ u.status \in S!Statuses
        BY <3>2 DEF HealthInv, S!StoreInv, S!UpdatesOK, S!Statuses
      <4>6. rec \in S!Stores
        BY DEF HealthInv, S!StoreInv, S!TypeOK
      <4>7. rec'[u.key] # NoRecord /\ rec'[u.key].status = "disabled_auto"
        BY <3>3, <4>3, <4>4, <4>5, <4>6, S!SetRecordFacts, StoreAssumptions
      <4> QED BY <3>2, <4>7 DEF Inactive, IsActiveStatus
    <3> QED BY <3>4, <3>5
  <2>2. CASE ~\E u \in batch : S!WorkerApply(u)
    <3>1. wpc = "settle" /\ cur' = cur
      BY <1>3, <2>2 DEF S!Worker, S!WorkerWake, S!WorkerRetry, S!WorkerStop, S!WorkerSnapshot,
         S!WorkerApplyFails, S!WorkerSettle, S!WorkerFlushed
    <3>2. cur \in S!Known
      BY <3>1 DEF HealthInv, S!StoreInv, S!StepsOK, S!Known, S!Taken
    <3>3. cur.key \in Keys /\ Inactive(rec[cur.key])
      BY <1>5, <3>1, <3>2 DEF AgreeInv, ReportedOK
    <3> QED BY <1>7, <3>1, <3>3 DEF Inactive
  <2> QED BY <2>1, <2>2
<1>9. \A k \in Keys : pending[k] # NoUpdate \/ Reporting(k) => Reaching(k)'
  <2> SUFFICES ASSUME NEW k \in Keys, pending[k] # NoUpdate, pending'[k] = NoUpdate
               PROVE  Inactive(rec[k])'
    BY <1>2 DEF Reaching
  <2>1. S!WorkerSettle
    BY <1>3 DEF S!Worker, S!WorkerWake, S!WorkerRetry, S!WorkerStop, S!WorkerSnapshot, S!WorkerApply,
       S!WorkerApplyFails, S!WorkerFlushed, S!mapVars
  <2>2. k = cur.key /\ wpc = "settle" /\ rec' = rec
    BY <2>1, S!SettleKeeps, StoreAssumptions DEF HealthInv, S!WorkerSettle
  <2> QED BY <2>2 DEF AgreeInv, ReportedOK, Inactive
<1>10. \A q \in Requests : pc'[q] = "persist" =>
        \E j \in Keys : held'[q].obj[1] = j /\ ~IsActiveStatus(State(j)'.status)
  BY <1>2, HeldFacts DEF AgreeInv, ReportedOK, KeptInv
<1> QED BY <1>1, <1>2, <1>4, <1>7, <1>8, <1>9, <1>10, AgreeFrame


LEMMA AgreeMoves ==
  ASSUME HealthInv, KeptInv, AgreeInv, UNCHANGED <<poolVars, rec, pending, wpc, cur>>, S!Known' \subseteq S!Known,
         ~Sharing'
  PROVE  /\ ReportedOK' /\ ReachingOK' /\ (~Reading' => FirstOK')
         /\ \A k \in Keys : (Inactive(rec[k])' <=> Inactive(rec[k])) /\ (Served(k)' <=> Served(k))
<1>1. /\ UNCHANGED <<born, incoming, health, pc, held>> /\ \A k : State(k)' = State(k)
  BY DEF poolVars, State
<1>2. ReportedOK'
  BY <1>1 DEF AgreeInv, ReportedOK, Inactive
<1>3. ReachingOK'
  BY <1>1 DEF AgreeInv, ReachingOK, Reaching, Reporting, Inactive
<1>4. ~Reading' => FirstOK'
  BY <1>1 DEF AgreeInv, FirstOK, First, Active, Inactive
<1>5. \A k \in Keys : (Inactive(rec[k])' <=> Inactive(rec[k])) /\ (Served(k)' <=> Served(k))
  BY <1>1 DEF Inactive, Served
<1> QED BY <1>2, <1>3, <1>4, <1>5

LEMMA BeginAgrees ==
  ASSUME HealthInv, KeptInv, AgreeInv, NEW name \in AdminOps, NEW keys \in SUBSET Keys, BeginOp(name, keys)
  PROVE  AgreeInv'
<1>1. op = NoOp /\ op' # NoOp /\ op'.step \in {"store", "read"}
  BY BeginStep
<1>2. UNCHANGED <<poolVars, storeVars, base, ahead>>
  BY DEF BeginOp
<1>3. UNCHANGED <<rec, pending, wpc, cur, born>> /\ S!Known' = S!Known
  BY <1>2 DEF poolVars, storeVars, S!Known, S!Taken, S!Pending
<1>4. ~Sharing' /\ ~Reading' /\ ~Rebuilt'
  BY <1>1 DEF Sharing, Reading, Rebuilt
<1>5. /\ ReportedOK' /\ ReachingOK' /\ FirstOK'
      /\ \A k \in Keys : (Inactive(rec[k])' <=> Inactive(rec[k])) /\ (Served(k)' <=> Served(k))
  BY <1>2, <1>3, <1>4, AgreeMoves
<1>6. ServedOK'
  BY <1>1, <1>2, <1>3, <1>4, <1>5 DEF AgreeInv, ServedOK
<1> QED BY <1>5, <1>6 DEF AgreeInv

LEMMA CallStoreAgrees ==
  ASSUME HealthInv, KeptInv, AgreeInv, CallStore
  PROVE  AgreeInv'
<1>1. /\ op # NoOp /\ op' # NoOp /\ op'.step = "wait" /\ op'.changed = op.changed
      /\ UNCHANGED <<rec, pending, batch, cur, wpc>>
  BY CallStoreStep
<1>2. UNCHANGED <<poolVars, ahead, carried>>
  <2>1. \A kind, keys, status : Store!BeginCall(kind, keys, status) => UNCHANGED carried
    BY DEF Store!BeginCall
  <2> QED BY <2>1 DEF CallStore
<1>3. S!Known' = S!Known /\ UNCHANGED born
  BY <1>1, <1>2 DEF S!Known, S!Taken, S!Pending, poolVars
<1>4. ~Sharing' /\ ~Reading' /\ ~Rebuilt'
  BY <1>1 DEF Sharing, Reading, Rebuilt
<1>5. /\ ReportedOK' /\ ReachingOK' /\ FirstOK'
      /\ \A k \in Keys : (Inactive(rec[k])' <=> Inactive(rec[k])) /\ (Served(k)' <=> Served(k))
  BY <1>1, <1>2, <1>3, <1>4, AgreeMoves
<1>6. ServedOK'
  BY <1>1, <1>2, <1>3, <1>4, <1>5 DEF AgreeInv, ServedOK
<1> QED BY <1>5, <1>6 DEF AgreeInv

LEMMA StoreStepAgrees ==
  ASSUME HealthInv, KeptInv, AgreeInv, NoEnabling, StoreStep
  PROVE  AgreeInv'
<1>1. /\ op # NoOp /\ op.step = "wait" /\ op' # NoOp /\ op'.step = "wait" /\ op \in Ops /\ op.changed \in BOOLEAN
      /\ op'.changed = (op.changed \/ rec' # rec) /\ call # NoCall
  BY StoreStepStep DEF HealthInv, OpOK, Ops
<1>2. UNCHANGED <<poolVars, base, ahead>>
  BY DEF StoreStep
<1>3. /\ CallEnds \/ CallSets \/ CallAppends \/ CallClears
      /\ S!Known' \subseteq S!Known /\ UNCHANGED <<cur, wpc>>
  BY CallEffect
<1>4. /\ UNCHANGED <<born, incoming, health, pc, held>> /\ (\A k : State(k)' = State(k))
      /\ \A k : (Reporting(k)' <=> Reporting(k)) /\ (Served(k)' <=> Served(k))
  BY <1>2 DEF poolVars, State, Reporting, Served
<1>5. ~Sharing' /\ ~Reading' /\ ~Rebuilt'
  BY <1>1 DEF Sharing, Reading, Rebuilt
<1>6. op.name \in {"disable", "append"}
  BY <1>1 DEF KeptInv, CallOK, Ops, NoEnabling
<1>7. \A k \in Keys : rec[k] # NoRecord => rec[k].version \in Nat /\ rec[k].version >= 1
  BY SameRecords, RecordConstants DEF HealthInv, S!StoreInv, S!TypeOK, S!Stores, S!Records, S!Versions
<1>8. \A k \in Keys : /\ First(rec[k])'
                      /\ Inactive(rec[k]) => Inactive(rec[k])'
                      /\ Inactive(rec[k])' => Inactive(rec[k]) \/ rec' # rec
  <2> SUFFICES ASSUME NEW k \in Keys
               PROVE  First(rec[k])' /\ (Inactive(rec[k]) => Inactive(rec[k])')
    BY DEF Inactive
  <2>1. First(rec[k])
    BY DEF AgreeInv, FirstOK
  <2>2. CASE rec'[k] = rec[k]
    BY <2>1, <2>2 DEF First, Active, Inactive
  <2>3. CASE rec[k] = NoRecord /\ rec'[k] = NewRecord
    BY <2>3 DEF First, Active, Inactive, NewRecord, IsActiveStatus
  <2>4. CASE CallSets /\ rec'[k] # rec[k]
    <3>1. /\ rec[k] # NoRecord /\ rec'[k] # NoRecord /\ rec'[k].version = rec[k].version + 1
          /\ rec'[k].status = "disabled_manual"
      BY <1>1, <1>6, <2>4 DEF CallSets, KeptInv, CallOK
    <3> QED BY <1>7, <3>1 DEF First, Active, Inactive, IsActiveStatus
  <2> QED BY <1>3, <2>2, <2>3, <2>4 DEF CallEnds, CallAppends, CallClears
<1>9. FirstOK'
  BY <1>4, <1>5, <1>8 DEF AgreeInv, FirstOK
<1>10. ReportedOK'
  <2>1. wpc = "settle" => Inactive(rec'[cur.key])
    <3> SUFFICES ASSUME wpc = "settle" PROVE Inactive(rec'[cur.key])
      OBVIOUS
    <3>1. cur \in S!Known
      BY DEF HealthInv, S!StoreInv, S!StepsOK, S!Known, S!Taken
    <3>2. cur.key \in Keys /\ Inactive(rec[cur.key])
      BY <3>1, UpdateFacts DEF AgreeInv, ReportedOK
    <3> QED BY <1>8, <3>2 DEF Inactive
  <2> QED BY <1>3, <1>4, <2>1 DEF AgreeInv, ReportedOK, Inactive
<1>11. \A k \in Keys : Reaching(k) => Reaching(k)'
  <2> SUFFICES ASSUME NEW k \in Keys, pending[k] # NoUpdate, pending'[k] = NoUpdate
               PROVE  Inactive(rec[k])
    BY <1>4, <1>8 DEF Reaching
  <2>1. CallClears /\ k \in call.keys /\ call.step = "clear"
    BY <1>3 DEF CallEnds, CallSets, CallAppends, CallClears
  <2>2. op.name = "disable" /\ k \in op.keys \ op.todo
    BY <1>1, <1>6, <2>1 DEF KeptInv, CallOK
  <2> QED BY <1>1, <2>1, <2>2 DEF KeptInv, DisableOK, Binding
<1>12. ReachingOK'
  BY <1>4, <1>5, <1>11 DEF AgreeInv, ReachingOK
<1>13. ServedOK'
  BY <1>1, <1>2, <1>4, <1>5, <1>8 DEF AgreeInv, ServedOK
<1> QED BY <1>9, <1>10, <1>12, <1>13 DEF AgreeInv

LEMMA ReturnsAgrees ==
  ASSUME HealthInv, KeptInv, AgreeInv, StoreReturns \/ RefreshRead
  PROVE  AgreeInv'
<1>1. /\ op # NoOp /\ UNCHANGED <<rec, pending, batch, cur, wpc, poolVars>> /\ carried' \in {{}, carried}
  BY ReturnsStep, ReadStep DEF StoreReturns, RefreshRead, storeVars
<1>2. S!Known' \subseteq S!Known /\ UNCHANGED born
  BY <1>1 DEF S!Known, S!Taken, S!Pending, poolVars
<1>3. \/ op' = NoOp /\ ahead' = (ahead \/ op.changed)
      \/ op' = NoOp /\ ~op.changed /\ ahead' = ahead
      \/ op' # NoOp /\ ahead' = ahead /\ op'.changed = op.changed /\ op'.step \in {"read", "store", "overlay"}
  BY ReturnsStep, ReadStep DEF RefreshRead
<1>4. ~Sharing' /\ ~Rebuilt' /\ (Reading' => base' = rec)
  BY <1>3, ReturnsStep, ReadStep DEF Sharing, Reading, Rebuilt
<1>5. /\ ReportedOK' /\ ReachingOK' /\ (~Reading' => FirstOK')
      /\ \A k \in Keys : (Inactive(rec[k])' <=> Inactive(rec[k])) /\ (Served(k)' <=> Served(k))
  BY <1>1, <1>2, <1>4, AgreeMoves
<1>6. FirstOK'
  <2>1. \A k : State(k)' = State(k)
    BY <1>1 DEF poolVars, State
  <2> QED BY <1>1, <1>2, <1>4, <2>1 DEF AgreeInv, FirstOK, First, Active, Inactive
<1>7. ServedOK'
  <2>1. \A k \in Keys : Reading' /\ Inactive(rec[k]) => Inactive(base[k])'
    BY <1>4 DEF Inactive
  <2>2. ahead \/ op.changed => ahead' \/ (op' # NoOp /\ op'.changed)
    BY <1>3
  <2> QED BY <1>1, <1>2, <1>4, <1>5, <2>1, <2>2 DEF AgreeInv, ServedOK
<1> QED BY <1>5, <1>6, <1>7 DEF AgreeInv

LEMMA BuildAgrees ==
  ASSUME HealthInv, KeptInv, AgreeInv, NoRemoval, RefreshBuild
  PROVE  AgreeInv'
<1>1. /\ op # NoOp /\ op.step = "overlay" /\ op' # NoOp /\ op'.step = "share" /\ op'.changed = op.changed
      /\ incoming' = Store!Overlay(base, pending)
  BY BuildStep, PoolBuilt DEF Pool!BuildRouter
<1>2. UNCHANGED <<storeVars, ahead, born, health, pc, held>>
  BY PoolBuilt DEF RefreshBuild, Pool!BuildRouter, Pool!stateVars, Pool!reqVars
<1>3. /\ UNCHANGED <<rec, pending, wpc, cur>> /\ S!Known' = S!Known
      /\ \A k : /\ State(k)' = State(k) /\ (Reporting(k)' <=> Reporting(k)) /\ (Served(k)' <=> Served(k))
                /\ Reaching(k)' <=> Reaching(k)
                /\ Inactive(rec[k])' <=> Inactive(rec[k])
  BY <1>2 DEF S!Known, S!Taken, S!Pending, storeVars, State, Reporting, Served, Reaching, Inactive
<1>4. ~Reading' /\ Sharing' /\ ~Rebuilt' /\ Reading
  BY <1>1 DEF Reading, Sharing, Rebuilt
<1>5. ASSUME NEW k \in Keys
      PROVE  /\ First(incoming[k])'
             /\ Inactive(incoming[k])' => Reaching(k)
             /\ Inactive(base[k]) => Inactive(incoming[k])'
  <2>1. \/ incoming'[k] = base[k]
        \/ /\ base[k] # NoRecord /\ pending[k] # NoUpdate
           /\ base[k].version <= pending[k].expected
           /\ incoming'[k] # NoRecord /\ incoming'[k].status = "disabled_auto"
           /\ incoming'[k].version = pending[k].expected + 1
    BY <1>1, OverlayFacts DEF HealthInv, OpOK
  <2>2. Current(k, base[k]) /\ First(base[k])
    BY <1>4 DEF KeptInv, ReadOK, AgreeInv, FirstOK
  <2>3. CASE incoming'[k] = base[k]
    BY <2>2, <2>3 DEF First, Active, Inactive, Current, Reaching
  <2>4. CASE /\ pending[k] # NoUpdate /\ incoming'[k] # NoRecord /\ incoming'[k].status = "disabled_auto"
             /\ incoming'[k].version = pending[k].expected + 1
    <3>1. pending[k] \in S!Updates /\ pending[k] \in S!Known
      BY <2>4 DEF HealthInv, S!StoreInv, S!TypeOK, S!Known, S!Pending
    <3>2. pending[k].expected \in Nat /\ pending[k].expected >= 1
      BY <3>1, RecordConstants DEF S!Updates, S!Versions
    <3> QED BY <2>4, <3>2 DEF First, Active, Inactive, IsActiveStatus, Reaching
  <2> QED BY <2>1, <2>3, <2>4
<1>6. FirstOK'
  <2>1. \A k \in Keys : First(rec[k])'
    BY <1>3 DEF AgreeInv, FirstOK, First, Active, Inactive
  <2> QED BY <1>2, <1>3, <1>4, <1>5, <2>1 DEF AgreeInv, FirstOK
<1>7. ReportedOK'
  BY <1>2, <1>3 DEF AgreeInv, ReportedOK, Inactive
<1>8. ReachingOK'
  BY <1>2, <1>3, <1>4, <1>5 DEF AgreeInv, ReachingOK
<1>9. ServedOK'
  BY <1>1, <1>2, <1>3, <1>4, <1>5 DEF AgreeInv, ServedOK
<1> QED BY <1>6, <1>7, <1>8, <1>9 DEF AgreeInv

LEMMA FailsAgrees ==
  ASSUME HealthInv, KeptInv, AgreeInv, RefreshFails
  PROVE  AgreeInv'
<1>1. /\ op # NoOp /\ op' = NoOp /\ ahead' = (ahead \/ op.changed)
      /\ UNCHANGED <<born, health, pc, held>>
  BY FailsStep
<1>2. UNCHANGED storeVars
  BY DEF RefreshFails
<1>3. /\ UNCHANGED <<rec, pending, wpc, cur>> /\ S!Known' = S!Known
      /\ \A k : /\ State(k)' = State(k) /\ (Served(k)' <=> Served(k)) /\ (Reaching(k)' <=> Reaching(k))
                /\ Inactive(rec[k])' <=> Inactive(rec[k])
  BY <1>1, <1>2 DEF S!Known, S!Taken, S!Pending, storeVars, State, Reporting, Served, Reaching, Inactive
<1>4. ~Reading' /\ ~Sharing' /\ ~Rebuilt'
  BY <1>1 DEF Reading, Sharing, Rebuilt
<1>5. FirstOK'
  BY <1>1, <1>3, <1>4 DEF AgreeInv, FirstOK, First, Active, Inactive
<1>6. ReportedOK' /\ ReachingOK'
  BY <1>1, <1>3, <1>4 DEF AgreeInv, ReportedOK, ReachingOK, Inactive
<1>7. ServedOK'
  BY <1>1, <1>3, <1>4 DEF AgreeInv, ServedOK
<1> QED BY <1>5, <1>6, <1>7 DEF AgreeInv

\* A disable that was read reaches memory: its version is newer than that of an
\* active key.
LEMMA ShareAgrees ==
  ASSUME HealthInv, KeptInv, AgreeInv, NoRemoval, RefreshShare
  PROVE  AgreeInv'
<1>1. /\ op # NoOp /\ op.step = "share" /\ op' # NoOp /\ op'.step = "publish"
  BY ShareStep
<1>2. UNCHANGED <<storeVars, ahead, pc, held>>
  BY PoolBound DEF RefreshShare, Pool!SharePool, Pool!reqVars
<1>3. /\ UNCHANGED <<rec, pending, wpc, cur>> /\ S!Known' = S!Known
      /\ \A k : (Reaching(k)' <=> Reaching(k)) /\ (Inactive(rec[k])' <=> Inactive(rec[k]))
  BY <1>2 DEF S!Known, S!Taken, S!Pending, storeVars, Reporting, Reaching, Inactive
<1>4. ~Reading' /\ ~Sharing' /\ Sharing
  BY <1>1 DEF Reading, Sharing
<1>5. ASSUME NEW k \in Keys
      PROVE  /\ born'[k] = 1 /\ IsActiveStatus(State(k)'.status) => State(k)'.version = 1
             /\ Served(k) => Served(k)'
             /\ Served(k)' => Reaching(k)
             /\ Inactive(rec[k]) /\ born'[k] = 1 => Served(k)'
  <2>1. \/ Rebound(k)
        \/ /\ born[k] = 1 /\ born'[k] = 1 /\ incoming[k] # NoRecord
           /\ incoming[k].version <= State(k).version /\ State(k)' = State(k)
        \/ born[k] = 0 /\ born'[k] = 0 /\ incoming[k] = NoRecord
    BY ShareEffect DEF KeptInv
  <2>2. /\ First(incoming[k]) /\ (born[k] = 1 /\ IsActiveStatus(State(k).status) => State(k).version = 1)
        /\ Served(k) => Reaching(k)
        /\ Inactive(incoming[k]) => Reaching(k)
        /\ Inactive(rec[k]) => Inactive(incoming[k]) \/ Served(k)
    BY <1>4 DEF AgreeInv, FirstOK, ReachingOK, ServedOK, Served
  <2>3. State(k).version \in Nat /\ State(k).version >= 1 /\ (incoming[k] # NoRecord => incoming[k].version \in Nat)
    <3>1. PICK h \in P!Health : h = State(k)
      BY KeyFacts
    <3>2. h.version \in Nat /\ h.version >= 1
      BY RecordConstants DEF P!Health, P!Versions
    <3> QED BY <3>1, <3>2, KeyFacts
  <2>4. CASE Rebound(k)
    BY <2>2, <2>3, <2>4 DEF Rebound, First, Active, Inactive, Served
  <2>5. CASE /\ born[k] = 1 /\ born'[k] = 1 /\ incoming[k] # NoRecord
             /\ incoming[k].version <= State(k).version /\ State(k)' = State(k)
    BY <2>2, <2>3, <2>5 DEF First, Active, Inactive, Served
  <2>6. CASE born[k] = 0 /\ born'[k] = 0
    BY <2>6 DEF Served
  <2> QED BY <2>1, <2>4, <2>5, <2>6
<1>6. FirstOK'
  BY <1>3, <1>4, <1>5 DEF AgreeInv, FirstOK, First, Active, Inactive
<1>7. ReportedOK'
  <2>1. \A u \in S!Known : ~IsActiveStatus(State(u.key)'.status)
    BY <1>5, UpdateFacts DEF AgreeInv, ReportedOK, KeptInv, VersionsOK, Served
  <2>2. \A r \in Requests : pc[r] = "persist" => ~IsActiveStatus(State(held[r].obj[1])'.status)
    <3> SUFFICES ASSUME NEW r \in Requests, pc[r] = "persist"
                 PROVE  ~IsActiveStatus(State(held[r].obj[1])'.status)
      OBVIOUS
    <3>1. PICK k \in Keys : k = held[r].obj[1] /\ Served(k)
      BY HeldFacts DEF AgreeInv, ReportedOK, KeptInv, Served
    <3>2. ~IsActiveStatus(State(k)'.status)
      BY <1>5, <3>1 DEF Served
    <3> QED BY <1>2, <3>1, <3>2
  <2> QED BY <1>2, <1>3, <2>1, <2>2 DEF AgreeInv, ReportedOK, Inactive
<1>8. ReachingOK'
  BY <1>3, <1>4, <1>5 DEF ReachingOK, Served
<1>9. ServedOK'
  BY <1>3, <1>4, <1>5 DEF ServedOK
<1> QED BY <1>6, <1>7, <1>8, <1>9 DEF AgreeInv

LEMMA PublishAgrees ==
  ASSUME HealthInv, KeptInv, AgreeInv, NoEnabling, RefreshPublish
  PROVE  AgreeInv'
<1>1. /\ op # NoOp /\ op.step = "publish" /\ UNCHANGED <<born, health, pc, held>> /\ op' = NoOp
  <2>1. op \in Ops
    BY PublishStep DEF HealthInv, OpOK
  <2> QED BY <2>1, PublishStep DEF NoEnabling, Ops
<1>2. UNCHANGED storeVars
  BY DEF RefreshPublish
<1>3. /\ UNCHANGED <<rec, pending, wpc, cur>> /\ S!Known' = S!Known
      /\ \A k : /\ State(k)' = State(k) /\ (Served(k)' <=> Served(k)) /\ (Reaching(k)' <=> Reaching(k))
                /\ Inactive(rec[k])' <=> Inactive(rec[k])
  BY <1>1, <1>2 DEF S!Known, S!Taken, S!Pending, storeVars, State, Reporting, Served, Reaching, Inactive
<1>4. ~Reading' /\ ~Sharing' /\ ~Rebuilt' /\ Rebuilt
  BY <1>1 DEF Reading, Sharing, Rebuilt
<1>5. FirstOK'
  BY <1>1, <1>3, <1>4 DEF AgreeInv, FirstOK, First, Active, Inactive
<1>6. ReportedOK' /\ ReachingOK'
  BY <1>1, <1>3, <1>4 DEF AgreeInv, ReportedOK, ReachingOK, Inactive
<1>7. ServedOK'
  BY <1>1, <1>3, <1>4 DEF AgreeInv, ServedOK
<1> QED BY <1>5, <1>6, <1>7 DEF AgreeInv

LEMMA AgreeInit == Init => AgreeInv
<1> SUFFICES ASSUME Init PROVE AgreeInv
  OBVIOUS
<1>1. PICK records \in [Keys -> {NewRecord, NoRecord}] :
        /\ Pool!PoolInit(records) /\ Store!StoreInit(records) /\ op = NoOp
  BY DEF Init
<1>2. /\ rec = records /\ \A k \in Keys : pending[k] = NoUpdate
      /\ batch = {} /\ cur = NoUpdate /\ carried = {} /\ wpc = "select"
  BY <1>1 DEF Store!StoreInit
<1>3. S!Known = {} /\ \A r \in Requests : pc[r] = "idle"
  BY <1>1, <1>2 DEF S!Known, S!Taken, S!Pending, Pool!PoolInit
<1>4. NewRecord.status = "active" /\ NewRecord.version = 1
  BY DEF NewRecord
<1>5. \A k \in Keys : ~Inactive(rec[k]) /\ First(rec[k])
  BY <1>2, <1>4 DEF Inactive, First, Active, IsActiveStatus
<1>6. \A k \in Keys : born[k] = 1 => State(k).status = "active" /\ State(k).version = 1
  <2> SUFFICES ASSUME NEW k \in Keys, born[k] = 1
               PROVE  State(k).status = "active" /\ State(k).version = 1
    OBVIOUS
  <2>1. records[k] = NewRecord /\ records[k] # NoRecord /\ <<k, 1>> \in Pool!Objects
    BY <1>1, PoolAssumptions DEF Pool!PoolInit, P!PoolConstants, Pool!Objects
  <2>2. health = [o \in Pool!Objects |->
          IF o[2] = 1 /\ records[o[1]] # NoRecord THEN Pool!NewKeyState(records[o[1]]) ELSE Pool!BlankKeyState]
    BY <1>1 DEF Pool!PoolInit
  <2>3. State(k) = Pool!NewKeyState(NewRecord)
    BY <2>1, <2>2 DEF State
  <2> QED BY <1>4, <2>3 DEF Pool!NewKeyState
<1>7. ~Reading /\ ~Sharing
  BY <1>1 DEF Reading, Sharing
<1> QED BY <1>2, <1>3, <1>5, <1>6, <1>7 DEF AgreeInv, FirstOK, ReportedOK, ReachingOK, ServedOK, IsActiveStatus

LEMMA AgreeInductive ==
  ASSUME NoRemoval, NoEnabling
  PROVE  HealthInv /\ KeptInv /\ AgreeInv /\ [Next]_vars => AgreeInv'
<1> SUFFICES ASSUME HealthInv, KeptInv, AgreeInv, [Next]_vars PROVE AgreeInv'
  OBVIOUS
<1>1. CASE UNCHANGED vars
  <2>1. UNCHANGED <<poolVars, storeVars, op, base, ahead>>
    BY <1>1 DEF vars
  <2>2. /\ UNCHANGED <<rec, pending, cur, wpc, born, incoming, pc, held, health>> /\ S!Known' = S!Known
        /\ \A k : (State(k)' = State(k)) /\ (Reporting(k)' <=> Reporting(k))
    BY <2>1 DEF poolVars, storeVars, S!Known, S!Taken, S!Pending, State, Reporting
  <2>3. \A r \in Requests : pc'[r] = "persist" =>
          \E k \in Keys : held'[r].obj[1] = k /\ ~IsActiveStatus(State(k)'.status)
    BY <2>2, HeldFacts DEF AgreeInv, ReportedOK, KeptInv
  <2>4. wpc' = "settle" => Inactive(rec'[cur'.key])
    BY <2>2 DEF AgreeInv, ReportedOK
  <2>5. \A k : pending[k] # NoUpdate \/ Reporting(k) => Reaching(k)'
    BY <2>2 DEF Reaching
  <2> QED BY <2>1, <2>2, <2>3, <2>4, <2>5, AgreeFrame
<1>2. ASSUME NEW k \in Keys, RecoverOne(k) PROVE FALSE
  <2>1. op # NoOp /\ op \in Ops /\ op.step = "recover"
    BY <1>2, RecoverStep DEF HealthInv, OpOK
  <2> QED BY <2>1 DEF KeptInv, CallOK, NoEnabling, Ops
<1>3. CASE Console
  BY <1>2, <1>3, BeginAgrees, CallStoreAgrees, StoreStepAgrees, ReturnsAgrees, BuildAgrees, FailsAgrees, ShareAgrees,
     PublishAgrees DEF Console
<1> QED BY <1>1, <1>3, RequestAgrees, PersistAgrees, WorkerAgrees DEF Next

\* As long as no key is removed and none is enabled, an auto-disable is never lost:
\* once everything has settled, a key that is out of service is disabled in the store
\* (persistDisabledKeyAsync, asyncStatusStore.flushPending).
THEOREM DisablesReachStoreCorrect ==
  ASSUME NoRemoval, NoEnabling
  PROVE  Spec => []DisablesReachStore
<1>1. HealthInv /\ KeptInv /\ AgreeInv => DisablesReachStore
  <2> SUFFICES ASSUME HealthInv, KeptInv, AgreeInv, Settled, NEW k \in Keys, ServedDisabled(k)
               PROVE  StoredDisabled(k)
    BY DEF DisablesReachStore
  <2>1. born[k] = 1 /\ plan[k] = <<k, 1>>
    BY KeyFacts DEF ServedDisabled, KeptInv, KeysOK
  <2>2. Reaching(k)
    BY <2>1 DEF ServedDisabled, State, AgreeInv, ReachingOK
  <2>3. pending[k] = NoUpdate /\ ~Reporting(k)
    BY DEF Settled, Store!Pending, Reporting
  <2> QED BY <2>2, <2>3 DEF Reaching, Inactive, StoredDisabled
<1> QED BY <1>1, HealthInitOK, HealthInductive, KeptInit, KeptInductive, AgreeInit, AgreeInductive, PTL DEF Spec

\* Under the same conditions a key that the store calls disabled takes no traffic once
\* everything has settled: no disable is written behind the back of memory.
THEOREM StoreDisablesServedCorrect ==
  ASSUME NoRemoval, NoEnabling
  PROVE  Spec => []StoreDisablesServed
<1>1. HealthInv /\ KeptInv /\ AgreeInv => StoreDisablesServed
  <2> SUFFICES ASSUME HealthInv, KeptInv, AgreeInv, Settled, NEW k \in Keys, StoredDisabled(k), plan[k] # NoState
               PROVE  ServedDisabled(k)
    BY DEF StoreDisablesServed
  <2>1. born[k] = 1 /\ plan[k] = <<k, 1>>
    BY KeyFacts DEF KeptInv, KeysOK
  <2>2. Served(k)
    BY <2>1 DEF StoredDisabled, Inactive, AgreeInv, ServedOK, Settled
  <2> QED BY <2>1, <2>2 DEF Served, ServedDisabled, State
<1> QED BY <1>1, HealthInitOK, HealthInductive, KeptInit, KeptInductive, AgreeInit, AgreeInductive, PTL DEF Spec

-----------------------------------------------------------------------------
(***************************************************************************)
(* The store inside the whole system.                                      *)
(***************************************************************************)

\* Whoever else is at work: when Replace reports success, every disable that was
\* pending when it took its snapshot is in the records or pending for their new
\* version (asyncStatusStore.Replace).
THEOREM ReplaceInSystemCorrect == Spec => S!ReplacePreservesPending
<1> DEFINE Step ==
             \A u \in carried :
               call # NoCall /\ call.step = "requeue" /\ call'.step = "ok"
               => \/ rec[u.key] # NoRecord /\ ~S!IsActiveStatus(rec[u.key].status)
                  \/ /\ pending'[u.key] # NoUpdate
                     /\ S!VersionMatches(rec, u.key, pending'[u.key].expected)
<1>1. HealthInv /\ [Next]_vars => Step
  <2> SUFFICES ASSUME HealthInv, [Next]_vars, NEW u \in carried,
                      call # NoCall, call.step = "requeue", call'.step = "ok"
               PROVE  \/ rec[u.key] # NoRecord /\ ~S!IsActiveStatus(rec[u.key].status)
                      \/ /\ pending'[u.key] # NoUpdate
                         /\ S!VersionMatches(rec, u.key, pending'[u.key].expected)
    OBVIOUS
  <2>1. Store!CallStep
    <3>1. call' # call
      OBVIOUS
    <3>2. ~UNCHANGED storeVars /\ ~UNCHANGED vars
      BY <3>1 DEF storeVars, vars
    <3>3. ASSUME NEW r \in Requests PROVE ~Request(r) /\ ~PersistDisabledKey(r)
      BY <3>1, <3>2, <3>3 DEF Request, PersistDisabledKey, Store!SetStatusIfVersion, Store!callVars
    <3>4. ~Worker /\ ~Shutdown
      BY <3>1 DEF Worker, Shutdown, Store!Worker, Store!WorkerWake, Store!WorkerRetry, Store!WorkerStop,
             Store!WorkerSnapshot, Store!WorkerApply, Store!WorkerApplyFails, Store!WorkerSettle,
             Store!WorkerFlushed, Store!CloseStore, Store!callVars
    <3>5. ~CallStore /\ ~StoreReturns
      <4>1. ~CallStore
        BY CallStoreStep
      <4>2. ~Store!EndCall
        BY DEF Store!EndCall
      <4> QED BY <4>1, <4>2 DEF StoreReturns
    <3>6. /\ \A name \in AdminOps, keys \in SUBSET Keys : ~BeginOp(name, keys)
          /\ ~RefreshRead /\ ~RefreshBuild /\ ~RefreshFails /\ ~RefreshShare /\ ~RefreshPublish
          /\ \A k \in Keys : ~RecoverOne(k)
      BY <3>2 DEF BeginOp, RefreshRead, RefreshBuild, RefreshFails, RefreshShare, RefreshPublish, RecoverOne
    <3> QED BY <3>2, <3>3, <3>4, <3>5, <3>6 DEF Next, Console, StoreStep
  <2>2. S!ReconcileRequeue
    <3>1. S!CallStep
      BY <2>1, SameStore
    <3>2. ~S!CallFails /\ ~S!SetStatusNotFound /\ ~S!CallBase /\ ~S!CallClear
      BY DEF S!CallFails, S!SetStatusNotFound, S!CallBase, S!CallClear
    <3>3. ~S!ReplaceList /\ ~S!ReplaceSnapshot /\ ~S!ReplaceBase /\ ~S!ReconcileList /\ ~S!ReconcileAppend
      BY DEF S!ReplaceList, S!ReplaceSnapshot, S!ReplaceBase, S!ReconcileList, S!ReconcileAppend
    <3> QED BY <3>1, <3>2, <3>3 DEF S!CallStep
  <2> QED BY <2>2, S!RequeueLosesNone, StoreAssumptions DEF HealthInv
<1> HIDE DEF Step
<1>2. Spec => [][Step]_(S!storeVars)
  BY <1>1, HealthInitOK, HealthInductive, PTL DEF Spec
<1> QED BY <1>2 DEF S!ReplacePreservesPending, Step

\* As long as no key is removed, a report comes with a version that its record has
\* or had, whatever was enabled meanwhile, and no update is carried over a Replace:
\* the exceptions that FlushNeverResurrects makes do not occur.
NoneExcepted == foreign = {} /\ carried = {}

LEMMA NoExceptions ==
  ASSUME NoRemoval
  PROVE  HealthInv /\ KeptInv /\ NoneExcepted /\ [Next]_vars => NoneExcepted'
<1> SUFFICES ASSUME HealthInv, KeptInv, foreign = {}, carried = {}, [Next]_vars
             PROVE  foreign' = {} /\ carried' = {}
  BY DEF NoneExcepted
<1>1. CASE UNCHANGED storeVars
  BY <1>1 DEF storeVars
<1>2. ASSUME NEW r \in Requests, PersistDisabledKey(r)
      PROVE  foreign' = {} /\ carried' = {}
  <2> DEFINE k == held[r].obj[1]
             v == held[r].version
  <2>1. k \in Keys /\ v \in S!Versions /\ pc[r] = "persist"
    BY <1>2, PersistStep DEF PersistDisabledKey
  <2>2. born[k] = 1
    BY <2>1, HeldFacts DEF KeptInv
  <2>3. rec[k] # NoRecord /\ v <= rec[k].version
    BY <2>1, <2>2 DEF KeptInv, KeysOK, VersionsOK
  <2>4. S!SetStatusIfVersion(k, v, "disabled_auto")
    BY <1>2, SameStore DEF PersistDisabledKey
  <2> HIDE DEF k, v
  <2>5. rec[k].version \in Nat /\ v \in Nat
    <3>1. rec[k].version \in Nat
      BY <2>1, <2>3, KeyFacts
    <3> QED BY <2>1, <3>1, RecordConstants DEF S!Versions
  <2>6. foreign' = foreign \ {k} /\ UNCHANGED carried
    BY <2>3, <2>4, <2>5 DEF S!SetStatusIfVersion, S!callVars
  <2> QED BY <2>6
<1>3. CASE Worker
  <2>1. S!Worker
    BY <1>3, SameStore DEF Worker
  <2> QED BY <2>1 DEF S!Worker, S!WorkerWake, S!WorkerRetry, S!WorkerStop, S!WorkerSnapshot, S!WorkerApply,
             S!WorkerApplyFails, S!WorkerSettle, S!WorkerFlushed, S!callVars, S!mapVars
<1>4. CASE Shutdown
  <2>1. S!CloseStore
    BY <1>4, SameStore DEF Shutdown
  <2> QED BY <2>1 DEF S!CloseStore, S!callVars, S!mapVars
<1>5. CASE CallStore
  BY <1>5, CallStoreStep
<1>6. CASE StoreReturns
  <2>1. S!EndCall
    BY <1>6, SameStore DEF StoreReturns
  <2> QED BY <2>1 DEF S!EndCall, S!mapVars
<1>7. CASE StoreStep
  <2>1. S!CallStep
    BY <1>7, SameStore DEF StoreStep
  <2>2. call # NoCall /\ call.step \in {"base", "clear"}
    BY <2>1 DEF KeptInv, CallOK, S!CallStep, S!CallFails, S!SetStatusNotFound, S!CallBase, S!CallClear,
       S!ReplaceList, S!ReplaceSnapshot, S!ReplaceBase, S!ReconcileList, S!ReconcileAppend, S!ReconcileRequeue
  <2>3. S!CallFails \/ S!SetStatusNotFound \/ S!CallBase \/ S!CallClear
    BY <2>1, <2>2 DEF S!CallStep, S!ReplaceList, S!ReplaceSnapshot, S!ReplaceBase, S!ReconcileList,
       S!ReconcileAppend, S!ReconcileRequeue
  <2> QED BY <2>3 DEF S!CallFails, S!SetStatusNotFound, S!CallBase, S!CallClear, S!mapVars
<1>8. CASE \E r \in Requests : Request(r)
  BY <1>1, <1>8 DEF Request
<1>9. CASE \/ \E name \in AdminOps, keys \in SUBSET Keys : BeginOp(name, keys)
           \/ RefreshRead \/ RefreshBuild \/ RefreshFails \/ RefreshShare \/ RefreshPublish
           \/ \E k \in Keys : RecoverOne(k)
  BY <1>1, <1>9 DEF BeginOp, RefreshRead, RefreshBuild, RefreshFails, RefreshShare, RefreshPublish, RecoverOne
<1>10. CASE UNCHANGED vars
  BY <1>1, <1>10 DEF vars
<1> QED BY <1>2, <1>3, <1>4, <1>5, <1>6, <1>7, <1>8, <1>9, <1>10 DEF Next, Console

\* Every step keeps the invariant of the flush.
LEMMA FlushKept ==
  ASSUME NoRemoval
  PROVE  HealthInv /\ KeptInv /\ S!FlushInv /\ [Next]_vars => S!FlushInv'
<1> SUFFICES ASSUME HealthInv, KeptInv, S!FlushInv, [Next]_vars PROVE S!FlushInv'
  OBVIOUS
<1> USE StoreAssumptions
<1>1. S!StoreInv
  BY DEF HealthInv
<1>2. CASE UNCHANGED storeVars
  <2>1. UNCHANGED S!storeVars
    BY <1>2 DEF storeVars, S!storeVars, S!mapVars, S!workerVars, S!callVars
  <2> QED BY <1>1, <2>1, S!RestFollows
<1>3. ASSUME NEW r \in Requests, PersistDisabledKey(r)
      PROVE  S!FlushInv'
  <2> DEFINE k == held[r].obj[1]
             v == held[r].version
  <2>1. k \in Keys /\ v \in S!Versions /\ pc[r] = "persist"
    BY <1>3, PersistStep DEF PersistDisabledKey
  <2>2. S!SetStatusIfVersion(k, v, "disabled_auto")
    BY <1>3, SameStore DEF PersistDisabledKey
  <2> HIDE DEF k, v
  <2> QED BY <1>1, <2>1, <2>2, S!AcceptFollows
<1>4. CASE Worker
  <2>1. S!Worker
    BY <1>4, SameStore DEF Worker
  <2> QED BY <1>1, <2>1, S!ApplyFollows, S!RestFollows DEF S!Worker
<1>5. CASE Shutdown
  <2>1. S!CloseStore
    BY <1>5, SameStore DEF Shutdown
  <2> QED BY <1>1, <2>1, S!RestFollows
<1>6. CASE CallStore
  BY <1>1, <1>6, CallStoreStep, S!MoveFollows
<1>7. CASE StoreReturns
  <2>1. S!EndCall
    BY <1>7, SameStore DEF StoreReturns
  <2>2. call.step \in {"ok", "err"} /\ UNCHANGED <<rec, pending, foreign, cur, wpc>>
    BY <2>1 DEF S!EndCall, S!mapVars, S!workerVars
  <2> QED BY <1>1, <2>2, S!MoveFollows
<1>8. CASE StoreStep
  <2>1. S!CallStep
    BY <1>8, SameStore DEF StoreStep
  <2>2. CASE S!CallFails \/ S!SetStatusNotFound
    <3>1. call # NoCall /\ UNCHANGED <<rec, pending, foreign, cur, wpc>>
      BY <2>2 DEF S!CallFails, S!SetStatusNotFound, S!mapVars, S!workerVars
    <3>2. call.step \in {"base", "list", "replace"}
      BY <2>2, <3>1 DEF S!CallFails, S!SetStatusNotFound, KeptInv, CallOK
    <3> QED BY <1>1, <3>1, <3>2, S!MoveFollows
  <2> QED BY <1>1, <2>1, <2>2, S!CallBaseFollows, S!ClearFollows, S!ReplaceFollows, S!ReconcileFollows,
             S!RequeueFollows DEF S!CallStep
<1>9. CASE \E r \in Requests : Request(r)
  BY <1>2, <1>9 DEF Request
<1>10. CASE \/ \E name \in AdminOps, keys \in SUBSET Keys : BeginOp(name, keys)
            \/ RefreshRead \/ RefreshBuild \/ RefreshFails \/ RefreshShare \/ RefreshPublish
            \/ \E k \in Keys : RecoverOne(k)
  BY <1>2, <1>10 DEF BeginOp, RefreshRead, RefreshBuild, RefreshFails, RefreshShare, RefreshPublish, RecoverOne
<1>11. CASE UNCHANGED vars
  BY <1>2, <1>11 DEF vars
<1> QED BY <1>3, <1>4, <1>5, <1>6, <1>7, <1>8, <1>9, <1>10, <1>11 DEF Next, Console

\* As long as no key is removed, no step of the worker makes a key that readers of
\* the store see as disabled active again, with the reports that requests really
\* make and whatever the console enables in between: FlushNeverResurrects holds
\* without any of its exceptions (asyncStatusStore.flushPending).
THEOREM FlushInSystemCorrect ==
  ASSUME NoRemoval
  PROVE  Spec => [][S!Worker => \A k \in Keys : S!ShownDisabled(k) => S!ShownDisabled(k)']_(S!storeVars)
<1> DEFINE Step == S!Worker => \A k \in Keys : S!ShownDisabled(k) => S!ShownDisabled(k)'
<1>1. HealthInv /\ S!FlushInv /\ NoneExcepted /\ [Next]_vars => Step
  <2>1. HealthInv /\ [Next]_vars => S!StoreInv'
    BY HealthInductive DEF HealthInv
  <2> QED BY <2>1, S!WorkerKeepsShown, StoreAssumptions DEF HealthInv, NoneExcepted
<1>2. Init => S!FlushInv /\ NoneExcepted
  <2> SUFFICES ASSUME NEW records \in [Keys -> {NewRecord, NoRecord}], Store!StoreInit(records)
               PROVE  S!FlushInv /\ NoneExcepted
    BY DEF Init
  <2>1. S!StoreInit(records)
    BY SameStore
  <2>2. S!Init
    <3>1. [Keys -> {NewRecord, NoRecord}] = [Keys -> {S!NewRecord, NoRecord}]
      BY DEF NewRecord, S!NewRecord
    <3> QED BY <2>1, <3>1 DEF S!Init
  <2> QED BY <2>1, <2>2, S!FlushInitOK, StoreAssumptions DEF S!StoreInit, NoneExcepted
<1> HIDE DEF Step
<1>3. Spec => [][Step]_(S!storeVars)
  BY <1>1, <1>2, HealthInitOK, HealthInductive, KeptInit, KeptInductive, FlushKept, NoExceptions, PTL DEF Spec
<1> QED BY <1>3 DEF Step
=============================================================================
