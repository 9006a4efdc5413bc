------------------------------ MODULE KeyHealth ------------------------------
(***************************************************************************)
(* Key health end to end: the pool that serves traffic (KeyPool), the      *)
(* asynchronous store behind it (AsyncStatusStore) and the console         *)
(* operations that change both (internal/admin/service.go).                *)
(*                                                                         *)
(* Three parties run concurrently: requests, which disable a key in memory *)
(* first and report it to the store afterwards; the store's worker, which  *)
(* writes the report later; and the console, one operation at a time       *)
(* (Service.changeMu), which writes the store first and rebuilds the       *)
(* router from it afterwards.  A version number is all that tells them     *)
(* whose word is newer.                                                    *)
(***************************************************************************)
EXTENDS KeyRecords, FiniteSets

CONSTANTS
  Requests, NoState, NoAttempt, MaxIncarnations, MaxFailures, MaxLevel,
  MaxDuration, BaseCooldowns,               \* see KeyPool
  NoUpdate, NoCall, MaxUpdates, Failing,    \* see AsyncStatusStore
  NoOp,        \* the console is idle
  AdminOps     \* the console operations that occur

ASSUME ConsoleConstants ==
  AdminOps \subseteq {"enable", "disable", "recover", "append", "delete", "replace",
                      "config", "aggregate"}

VARIABLES
  born, inflight, retired, dropped, health, lastErr, plan, phase, incoming, nextPlan,
  pc, view, tried, held,
  rec, pending, nextID, closed, foreign, wake, timer, wpc, final, batch, cur, synced,
  call, listed, carried,
  op,      \* the console operation that is running, or NoOp
  base,    \* the records ListAll has read from the base store
  plain,   \* the published vendor has a key pool, it is not an aggregate
  ahead    \* history: an operation has changed the store and ended with an
           \* error, and no router has been published since

CallKinds == {"set", "delete", "append", "replace"}

Pool  == INSTANCE KeyPool
Store == INSTANCE AsyncStatusStore

Ops == [name : AdminOps, keys : SUBSET Keys, todo : SUBSET Keys, changed : BOOLEAN,
        step : {"store", "wait", "read", "overlay", "share", "publish", "recover"}]

\* What the two components assume of their constants, and no operation is
\* mistaken for the lack of one.
ASSUME PartConstants ==
  /\ Pool!PoolConstants
  /\ Store!StoreConstants /\ Store!StoreMarkers
  /\ NoOp \notin Ops

poolVars  == <<born, inflight, retired, dropped, health, lastErr, plan, phase, incoming,
               nextPlan, pc, view, tried, held>>
storeVars == <<rec, pending, nextID, closed, foreign, wake, timer, wpc, final, batch, cur,
               synced, call, listed, carried>>
vars      == <<poolVars, storeVars, op, base, plain, ahead>>

NoRecords == [k \in Keys |-> NoRecord]

-----------------------------------------------------------------------------
(***************************************************************************)
(* Requests, the worker and the shutdown.                                  *)
(***************************************************************************)

\* Mutant of Request: each attempt loads the current router again.
RequestReloading(r) ==
  /\ \/ ~closed /\ Pool!StartRequest(r)
     \/ /\ pc[r] = "routing"
        /\ view' = [view EXCEPT ![r] = plan]
        /\ UNCHANGED <<born, inflight, retired, dropped, health, lastErr, plan, phase,
                      incoming, nextPlan, pc, tried, held>>
     \/ \E k \in Keys : Pool!AcquireVersioned(r, k)
     \/ Pool!EndRequest(r)
  /\ UNCHANGED <<storeVars, op, base, plain, ahead>>

\* main stops accepting requests before it closes the store.
Request(r) ==
  /\ \/ ~closed /\ Pool!StartRequest(r)
     \/ \E k \in Keys : Pool!AcquireVersioned(r, k)
     \/ Pool!ReleaseAttempt(r)
     \/ \E outcome \in Pool!Outcomes, duration \in BaseCooldowns :
          Pool!CompleteAttempt(r, outcome, duration)
     \/ Pool!EndRequest(r)
  /\ UNCHANGED <<storeVars, op, base, plain, ahead>>

\* The disable that CompleteAttempt has authorised, with the version that was
\* captured when the key was selected (bounded, so that the worker can write).
PersistDisabledKey(r) ==
  /\ pc[r] = "persist" /\ held[r].version < MaxVersion
  /\ Pool!PersistDisabledKeyAsync(r)
  /\ Store!SetStatusIfVersion(held[r].obj[1], held[r].version, "disabled_auto")
  /\ UNCHANGED <<op, base, plain, ahead>>

Worker == Store!Worker /\ UNCHANGED <<poolVars, op, base, plain, ahead>>

\* The handlers have been drained; the store is closed last.
Shutdown ==
  /\ op = NoOp
  /\ \A r \in Requests : pc[r] = "idle"
  /\ Store!CloseStore
  /\ UNCHANGED <<poolVars, op, base, plain, ahead>>

-----------------------------------------------------------------------------
(***************************************************************************)
(* Console operations.                                                     *)
(***************************************************************************)

\* The two kinds of configuration update: with the vendor as one that has a key
\* pool, and as an aggregate.
ConfigOps == {"config", "aggregate"}

BeginOp(name, keys) ==
  /\ op = NoOp /\ ~closed
  /\ name \in AdminOps
  /\ IF name \in ConfigOps THEN keys = {} ELSE name = "replace" \/ keys # {}
  /\ op' = [name |-> name, keys |-> keys, todo |-> keys, changed |-> FALSE,
            step |-> IF name \in ConfigOps THEN "read" ELSE "store"]
  /\ UNCHANGED <<poolVars, storeVars, base, plain, ahead>>

\* The store call of the operation; a change of status is one call per key.
CallStore ==
  /\ op # NoOp /\ op.step = "store"
  /\ \/ /\ op.name \in {"enable", "disable", "recover"}
        /\ \E k \in op.todo :
             /\ Store!BeginCall("set", {k},
                  IF op.name = "disable" THEN "disabled_manual" ELSE "active")
             /\ op' = [op EXCEPT !.step = "wait", !.todo = @ \ {k}]
     \/ /\ op.name \in {"append", "delete", "replace"}
        /\ Store!BeginCall(op.name, op.keys, "active")
        /\ op' = [op EXCEPT !.step = "wait", !.todo = {}]
  /\ UNCHANGED <<poolVars, base, plain, ahead>>

\* A step of the running call; the operation learns whether it changed a record.
StoreStep ==
  /\ Store!CallStep
  /\ op' = [op EXCEPT !.changed = @ \/ rec' # rec]
  /\ UNCHANGED <<poolVars, base, plain, ahead>>

\* An error ends the operation before the router is rebuilt, and so does an
\* append or a delete that found nothing to do.
StoreReturns ==
  /\ op # NoOp /\ op.step = "wait"
  /\ Store!EndCall
  /\ op' = IF call.step = "err" THEN NoOp
           ELSE IF op.todo # {} THEN [op EXCEPT !.step = "store"]
           ELSE IF op.name \in {"append", "delete"} /\ ~op.changed THEN NoOp
           ELSE [op EXCEPT !.step = "read"]
  /\ ahead' = (ahead \/ (call.step = "err" /\ op.changed))
  /\ UNCHANGED <<poolVars, base, plain>>

\* ListAll reads the base store ...
RefreshRead ==
  /\ op # NoOp /\ op.step = "read"
  /\ base' = rec
  /\ op' = [op EXCEPT !.step = "overlay"]
  /\ UNCHANGED <<poolVars, storeVars, plain, ahead>>

\* Whether the configuration of the running operation gives the vendor a key pool;
\* operations on keys take the published configuration.
BuildsPool == IF op.name \in ConfigOps THEN op.name = "config" ELSE plain

\* ... and then lays the updates that are pending by now over what it read.
\* The vendor gets a key pool unless the configuration makes it an aggregate.
RefreshBuild ==
  /\ op # NoOp /\ op.step = "overlay"
  /\ IF BuildsPool THEN Pool!BuildRouter(Store!Overlay(base, pending))
                   ELSE Pool!BuildAggregate
  /\ base' = NoRecords
  /\ op' = [op EXCEPT !.step = "share"]
  /\ UNCHANGED <<storeVars, plain, ahead>>

\* The base store cannot be read, or the new configuration cannot be saved.
RefreshFails ==
  /\ op # NoOp
  /\ (IF op.name \in ConfigOps THEN "config" ELSE "caller") \in Failing
  /\ \/ op.step = "read" /\ UNCHANGED poolVars
     \/ op.step = "share" /\ op.name \in ConfigOps /\ Pool!AbandonRouter
  /\ op' = NoOp
  /\ ahead' = (ahead \/ op.changed)
  /\ UNCHANGED <<storeVars, base, plain>>

RefreshShare ==
  /\ op # NoOp /\ op.step = "share"
  /\ Pool!ShareRuntimeStateFrom
  /\ op' = [op EXCEPT !.step = "publish"]
  /\ UNCHANGED <<storeVars, base, plain, ahead>>

RefreshPublish ==
  /\ op # NoOp /\ op.step = "publish"
  /\ Pool!PublishRouter
  /\ op' = IF op.name = "recover" THEN [op EXCEPT !.step = "recover", !.todo = op.keys]
           ELSE NoOp
  /\ plain' = BuildsPool
  /\ ahead' = FALSE
  /\ UNCHANGED <<storeVars, base>>

\* RecoverUpstreamKeys clears the health of each key once more at the end.
RecoverOne(k) ==
  /\ op # NoOp /\ op.step = "recover"
  /\ k \in op.todo
  /\ IF plan[k] = NoState THEN UNCHANGED poolVars ELSE Pool!RecoverKey(k)
  /\ op' = IF op.todo = {k} THEN NoOp ELSE [op EXCEPT !.todo = @ \ {k}]
  /\ UNCHANGED <<storeVars, base, plain, ahead>>

Console ==
  \/ \E name \in AdminOps, keys \in SUBSET Keys : BeginOp(name, keys)
  \/ CallStore \/ StoreStep \/ StoreReturns
  \/ RefreshRead \/ RefreshBuild \/ RefreshFails \/ RefreshShare \/ RefreshPublish
  \/ \E k \in Keys : RecoverOne(k)

-----------------------------------------------------------------------------
\* The process starts from the stored records; some keys are not stored yet.
Init ==
  \E records \in [Keys -> {NewRecord, NoRecord}] :
    /\ Pool!PoolInit(records)
    /\ Store!StoreInit(records)
    /\ op = NoOp
    /\ base = NoRecords
    /\ plain = TRUE
    /\ ahead = FALSE

Next ==
  \/ \E r \in Requests : Request(r) \/ PersistDisabledKey(r)
  \/ Worker
  \/ Console
  \/ Shutdown

Spec == Init /\ [][Next]_vars

-----------------------------------------------------------------------------
(***************************************************************************)
(* Properties.                                                             *)
(***************************************************************************)

\* The types of the variables, and where the console and the store call meet.
TypeOK ==
  /\ Pool!TypeOK
  /\ Store!TypeOK
  /\ op \in Ops \cup {NoOp}
  /\ op # NoOp => op.todo \subseteq op.keys
  /\ base \in Stores
  /\ plain \in BOOLEAN /\ ahead \in BOOLEAN
  /\ call # NoCall <=> op # NoOp /\ op.step = "wait"

ServedDisabled(k) == plan[k] # NoState /\ ~IsActiveStatus(health[plan[k]].status)

StoredDisabled(k) == rec[k] # NoRecord /\ ~IsActiveStatus(rec[k].status)

\* Nobody has anything left to do about the health of a key: no operation, no
\* update to write, no report on its way to the store, and no change of the store
\* that an operation has made and failed to publish.
Settled ==
  /\ op = NoOp /\ ~ahead
  /\ Store!Pending = {} /\ batch = {} /\ cur = NoUpdate
  /\ \A r \in Requests : pc[r] # "persist"

\* Once everything has settled, a key that takes no traffic is disabled in the
\* store too: an auto-disable is never lost on its way there, so a restart does
\* not bring the key back.
DisablesReachStore == Settled => \A k \in Keys : ServedDisabled(k) => StoredDisabled(k)

\* Once everything has settled, a key the store calls disabled takes no traffic:
\* the conditional write never disables a record whose memory is healthy again.
StoreDisablesServed ==
  Settled => \A k \in Keys : StoredDisabled(k) => plan[k] = NoState \/ ServedDisabled(k)

\* When the console reports a disable as done, none of its keys takes traffic,
\* whatever auto-disables, pending writes and earlier enables came between and
\* whichever version numbers they had; with OnlyAdminEnables it stays so until
\* an administrator enables the key.
ManualDisableEffective ==
  [][RefreshPublish /\ op.name = "disable"
     => \A k \in op.keys : plan'[k] = NoState \/ ServedDisabled(k)']_vars

\* A disabled key that stays in the pool becomes active only in an operation
\* that asks for it: no configuration update, append, delete or replace enables
\* a key, whatever the store and the pending updates said when it read them.  The
\* one exception: a batch that enabled some keys and then met an error has left the
\* store ahead of the router, and the next rebuild publishes what it did.
OnlyAdminEnables ==
  [][\A k \in Keys :
       ServedDisabled(k) /\ plan'[k] = plan[k] /\ IsActiveStatus(health'[plan[k]].status)
       => ahead \/ (op # NoOp /\ op.name \in {"enable", "recover"})]_vars

\* The pool inside the whole system behaves as KeyPool says: what the console
\* reads from the store is some set of records, no live state is touched before
\* the new configuration is saved, and rebuilds never overlap.
ImplementsPool == Pool!Spec
=============================================================================
