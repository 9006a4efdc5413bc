---------------------------- MODULE StatsPersister ----------------------------
(***************************************************************************)
(* Runtime statistics of one vendor's keys and their way to the store      *)
(* (internal/gateway/stats_persister.go, runtime_stats_registry.go,        *)
(* internal/balancer/stats_reset.go, internal/keystore).                   *)
(*                                                                         *)
(* Requests count into a handle per key.  The registry keeps the handles   *)
(* of removed keys, so counters survive a rebuild of the router.  A flush  *)
(* snapshots the handles of the published router, writes what they gained  *)
(* since the last snapshot and makes the snapshot the new baseline when    *)
(* the write succeeds.  The six counters of RuntimeStats move together and *)
(* are one number here; the recent window and the last error are left out. *)
(***************************************************************************)
EXTENDS Naturals, FiniteSets

CONSTANTS
  Keys,      \* the keys of the vendor
  None,      \* no record, no handle, no baseline, no flush
  MaxCount,  \* bound on the completions of a key between two resets
  MaxFaults, \* bound on failed writes and stops of the process
  Configs    \* the configurations that occur: with the vendor, without it

ASSUME StatsConstants ==
  /\ MaxCount \in Nat /\ MaxFaults \in Nat
  /\ Configs \subseteq BOOLEAN
  /\ None \notin Nat

VARIABLES
  mode,       \* the process is up, closing or down
  configured, \* the configuration lists the vendor
  stored,     \* TotalRequests of each stored record
  handle,     \* TotalRequests of each handle in the registry
  routed,     \* the keys of the published router
  served,     \* the keys some router of this process has listed
  last,       \* RuntimeStatsPersister.last
  flush,      \* the running flush: its snapshot, and whether it is the last
  op,         \* a key change whose router rebuild is still to come
  faults,     \* failures and stops so far
  total,      \* history: completions of each key since the last reset
  mine,       \* history: completions of each record that are not excused
  dup         \* history: what writes added that were committed and reported failed

vars == <<mode, configured, stored, handle, routed, served, last, flush, op,
          faults, total, mine, dup>>
history == <<total, mine, dup>>

Counters == [Keys -> Nat \cup {None}]

Stored == {k \in Keys : stored[k] # None}

Count(c) == IF c = None THEN 0 ELSE c

\* DeltaSince, with the cases of a missing baseline and of a counter that has
\* fallen, both of which count from zero.
DeltaSince(current, previous) ==
  IF previous = None \/ current < previous THEN current ELSE current - previous

\* buildRuntimeStatsDeltas: the deltas of a snapshot.
Deltas(snapshot) ==
  [k \in Keys |-> IF snapshot[k] = None THEN 0 ELSE DeltaSince(snapshot[k], last[k])]

\* Mutant of NextBaseline: the baselines of keys that are gone are dropped.
NextBaselineRouted(snapshot) == snapshot

\* buildRuntimeStatsDeltas: the next baseline keeps the keys that are gone.
NextBaseline(snapshot) == [k \in Keys |-> IF snapshot[k] = None THEN last[k] ELSE snapshot[k]]

\* ApplyRuntimeStatsDeltas: a key without a record is skipped.
ApplyRuntimeStatsDeltas(deltas) ==
  [k \in Keys |-> IF stored[k] = None THEN None ELSE stored[k] + deltas[k]]

-----------------------------------------------------------------------------
(***************************************************************************)
(* Requests, key changes and router rebuilds.                              *)
(***************************************************************************)

\* CompleteAttempt counts into the handle, also for a key that is gone.
Complete(k) ==
  /\ mode = "up"
  /\ k \in served
  /\ total[k] < MaxCount
  /\ handle' = [handle EXCEPT ![k] = @ + 1]
  /\ total' = [total EXCEPT ![k] = @ + 1]
  /\ mine' = [mine EXCEPT ![k] = IF stored[k] = None THEN 0 ELSE @ + 1]
  /\ UNCHANGED <<mode, configured, stored, routed, served, last, flush, op, faults, dup>>

\* Append, Delete, Replace and DeleteVendor of the file store: retained
\* records keep their statistics, added ones start at zero.  The rebuild follows
\* in the same console operation.
ChangeKeys(keys) ==
  /\ mode = "up" /\ op = "idle"
  /\ keys # Stored
  /\ stored' = [k \in Keys |-> IF k \in keys THEN Count(stored[k]) ELSE None]
  /\ mine' = [k \in Keys |-> IF k \in keys \cap Stored THEN mine[k] ELSE 0]
  /\ op' = "refresh"
  /\ UNCHANGED <<mode, configured, handle, routed, served, last, flush, faults, total, dup>>

\* The registry's handle of a listed key: the live one, or a new one that
\* starts at the stored statistics.
Handle(k) == IF handle[k] = None THEN stored[k] ELSE handle[k]

\* buildRouter asks for the handle of every stored key of a configured vendor.
BuiltHandles(config) ==
  [k \in Keys |-> IF config /\ stored[k] # None THEN Handle(k) ELSE handle[k]]

\* RefreshKeys, or a configuration update that may add or remove the vendor.
Refresh(config) ==
  /\ mode = "up"
  /\ op = "refresh" => config = configured
  /\ handle' = BuiltHandles(config)
  /\ routed' = IF config THEN Stored ELSE {}
  /\ served' = served \cup routed'
  /\ configured' = config
  /\ op' = "idle"
  /\ UNCHANGED <<mode, stored, last, flush, faults, history>>

\* The store cannot be read; or it can, and the configuration cannot be saved.
RefreshFails(config) ==
  /\ mode = "up" /\ faults < MaxFaults
  /\ faults' = faults + 1
  /\ \/ op = "refresh" /\ UNCHANGED handle
     \/ op = "idle" /\ handle' = BuiltHandles(config)
  /\ op' = "idle"
  /\ UNCHANGED <<mode, configured, stored, routed, served, last, flush, history>>

-----------------------------------------------------------------------------
(***************************************************************************)
(* The flush, under the persister's mutex.                                 *)
(***************************************************************************)

FlushBegin ==
  /\ mode \in {"up", "closing"}
  /\ flush = None
  /\ flush' = [snapshot |-> [k \in Keys |-> IF k \in routed THEN handle[k] ELSE None],
               final |-> mode = "closing"]
  /\ UNCHANGED <<mode, configured, stored, handle, routed, served, last, op, faults, history>>

\* Mutant of AfterFlush: a flush that was running when Close came is the last.
AfterAnyFlush == IF mode = "closing" THEN "down" ELSE mode

\* run ends after the flush that it starts when it sees the stop signal.
AfterFlush == IF flush.final THEN "down" ELSE mode

\* The write succeeds, or there was nothing to write.
FlushApply ==
  /\ flush # None
  /\ stored' = ApplyRuntimeStatsDeltas(Deltas(flush.snapshot))
  /\ last' = NextBaseline(flush.snapshot)
  /\ flush' = None
  /\ mode' = AfterFlush
  /\ UNCHANGED <<configured, handle, routed, served, op, faults, history>>

\* The write fails and the baseline stays.  With PostgreSQL the transaction may
\* have been committed although its answer was lost.
FlushFails(committed) ==
  LET deltas == Deltas(flush.snapshot) IN
  /\ flush # None /\ faults < MaxFaults
  /\ \E k \in Keys : deltas[k] > 0
  /\ faults' = faults + 1
  /\ stored' = IF committed THEN ApplyRuntimeStatsDeltas(deltas) ELSE stored
  /\ dup' = IF committed THEN [k \in Keys |-> dup[k] + deltas[k]] ELSE dup
  /\ flush' = None
  /\ mode' = AfterFlush
  /\ UNCHANGED <<configured, handle, routed, served, last, op, total, mine>>

-----------------------------------------------------------------------------
(***************************************************************************)
(* Resetting the statistics.                                               *)
(***************************************************************************)

ZeroRecords == [k \in Keys |-> IF stored[k] = None THEN None ELSE 0]

\* Mutants of Reset: only the handles of the published router are cleared; the
\* baselines stay.
ResetRouted ==
  /\ mode = "up" /\ op = "idle" /\ flush = None
  /\ stored' = ZeroRecords
  /\ handle' = [k \in Keys |-> IF k \in routed THEN 0 ELSE handle[k]]
  /\ last' = [k \in Keys |-> None]
  /\ total' = [k \in Keys |-> 0] /\ mine' = total' /\ dup' = total'
  /\ UNCHANGED <<mode, configured, routed, served, flush, op, faults>>

ResetKeepingBaseline ==
  /\ mode = "up" /\ op = "idle" /\ flush = None
  /\ stored' = ZeroRecords
  /\ handle' = [k \in Keys |-> IF handle[k] = None THEN None ELSE 0]
  /\ total' = [k \in Keys |-> 0] /\ mine' = total' /\ dup' = total'
  /\ UNCHANGED <<mode, configured, routed, served, last, flush, op, faults>>

\* Reset holds the persister, the router updates, the registry and every handle
\* while it clears the store, so that it is one step to everybody else: records,
\* all handles of the registry and all baselines.
Reset ==
  /\ mode = "up" /\ op = "idle" /\ flush = None
  /\ stored' = ZeroRecords
  /\ handle' = [k \in Keys |-> IF handle[k] = None THEN None ELSE 0]
  /\ last' = [k \in Keys |-> None]
  /\ total' = [k \in Keys |-> 0] /\ mine' = total' /\ dup' = total'
  /\ UNCHANGED <<mode, configured, routed, served, flush, op, faults>>

\* The store fails and nothing else is reset.  The PostgreSQL update may have
\* been committed; the records then start again without the counts they had.
ResetFails(committed) ==
  /\ mode = "up" /\ op = "idle" /\ flush = None /\ faults < MaxFaults
  /\ faults' = faults + 1
  /\ stored' = IF committed THEN ZeroRecords ELSE stored
  /\ mine' = IF committed THEN [k \in Keys |-> 0] ELSE mine
  /\ UNCHANGED <<mode, configured, handle, routed, served, last, flush, op, total, dup>>

-----------------------------------------------------------------------------
(***************************************************************************)
(* Stopping and starting the process.                                      *)
(***************************************************************************)

\* main closes the persister when the handlers have returned.
Close ==
  /\ mode = "up" /\ op = "idle" /\ faults < MaxFaults
  /\ faults' = faults + 1
  /\ mode' = "closing"
  /\ UNCHANGED <<configured, stored, handle, routed, served, last, flush, op, history>>

\* The process is killed.
Crash ==
  /\ mode # "down" /\ faults < MaxFaults
  /\ faults' = faults + 1
  /\ mode' = "down"
  /\ flush' = None
  /\ op' = "idle"
  /\ UNCHANGED <<configured, stored, handle, routed, served, last, history>>

\* NewRuntime builds a router with an empty registry, then the persister takes
\* it as its baseline.  What was not flushed when the process stopped is lost
\* and excused.
Start ==
  /\ mode = "down"
  /\ mode' = "up"
  /\ routed' = IF configured THEN Stored ELSE {}
  /\ served' = routed'
  /\ handle' = [k \in Keys |-> IF k \in routed' THEN stored[k] ELSE None]
  /\ last' = handle'
  /\ mine' = [k \in Keys |-> IF stored[k] = None THEN 0
                             ELSE IF stored[k] < mine[k] THEN stored[k] ELSE mine[k]]
  /\ UNCHANGED <<configured, stored, flush, op, faults, total, dup>>

-----------------------------------------------------------------------------
Init ==
  /\ mode = "down"
  /\ configured = TRUE
  /\ stored \in [Keys -> {None, 0, 1}]
  /\ handle = [k \in Keys |-> None]
  /\ routed = {} /\ served = {}
  /\ last = [k \in Keys |-> None]
  /\ flush = None
  /\ op = "idle"
  /\ faults = 0
  /\ total = [k \in Keys |-> Count(stored[k])]
  /\ mine = total
  /\ dup = [k \in Keys |-> 0]

Next ==
  \/ \E k \in Keys : Complete(k)
  \/ \E keys \in SUBSET Keys : ChangeKeys(keys)
  \/ \E config \in Configs : Refresh(config) \/ RefreshFails(config)
  \/ FlushBegin
  \/ FlushApply
  \/ \E committed \in BOOLEAN : FlushFails(committed) \/ ResetFails(committed)
  \/ Reset
  \/ Close
  \/ Crash
  \/ Start

Spec == Init /\ [][Next]_vars

-----------------------------------------------------------------------------
(***************************************************************************)
(* Properties.                                                             *)
(***************************************************************************)

\* The types of the variables.
TypeOK ==
  /\ mode \in {"up", "closing", "down"}
  /\ configured \in BOOLEAN
  /\ stored \in Counters /\ handle \in Counters /\ last \in Counters
  /\ routed \subseteq served /\ served \subseteq {k \in Keys : handle[k] # None}
  /\ flush \in [snapshot : Counters, final : BOOLEAN] \cup {None}
  /\ op \in {"idle", "refresh"}
  /\ faults \in 0..MaxFaults
  /\ total \in [Keys -> Nat] /\ mine \in [Keys -> Nat] /\ dup \in [Keys -> Nat]

\* What the next flush of a key would add.
Unflushed(k) == IF handle[k] = None THEN 0 ELSE DeltaSince(handle[k], last[k])

\* No completion is lost: while the process runs, what a record holds and what
\* is still to be flushed into it cover everything counted for it, through
\* failed flushes, resets, rebuilds, and keys that are removed and return.
NothingLost ==
  mode # "down" => \A k \in Stored : stored[k] + Unflushed(k) >= mine[k]

\* Nothing is counted that did not happen since the last reset, apart from
\* writes that were committed and reported as failed: neither a flush, a
\* rebuild, a key that returns nor a restart brings back counts that were reset
\* or adds a count twice.
NothingInvented ==
  \A k \in Keys : /\ Count(stored[k]) <= total[k] + dup[k]
                  /\ Count(handle[k]) <= total[k] + dup[k]

\* When the process stops in order and the last flush succeeds, the record
\* of a routed key holds everything counted for it, also when Close came in the
\* middle of an earlier flush.
FinalFlushComplete ==
  [][FlushApply /\ mode' = "down" => \A k \in Stored \cap routed : stored'[k] >= mine[k]]_vars
=============================================================================
