------------------------ MODULE StatsPersisterProofs ------------------------
(***************************************************************************)
(* Theorems about StatsPersister, for any number of keys, completions,     *)
(* failures and restarts: no completion is lost while the process runs or  *)
(* in an orderly stop, and none is counted twice as long as the            *)
(* configuration lists the vendor.                                         *)
(***************************************************************************)
EXTENDS StatsPersister, TLAPS

\* A baseline is a value its handle has had.
BaselineOK ==
  mode # "down" => \A k \in Keys : last[k] # None => handle[k] # None /\ last[k] <= handle[k]

\* So is the snapshot of a running flush, taken after the baseline.
SnapshotOK ==
  flush # None =>
    /\ mode # "down"
    /\ \A k \in Keys : flush.snapshot[k] # None =>
         /\ handle[k] # None /\ flush.snapshot[k] <= handle[k]
         /\ last[k] # None => last[k] <= flush.snapshot[k]

\* Nothing is counted after the snapshot of the last flush.
FinalOK ==
  flush # None /\ flush.final =>
    mode = "closing" /\ \A k \in routed : flush.snapshot[k] = handle[k]

IInv == TypeOK /\ BaselineOK /\ SnapshotOK /\ FinalOK /\ NothingLost

-----------------------------------------------------------------------------
(***************************************************************************)
(* What a flush writes.                                                    *)
(***************************************************************************)

\* A delta is what the counter gained; with it the baseline reaches the counter.
LEMMA DeltaFacts ==
  ASSUME NEW c \in Nat, NEW p \in Nat \cup {None}, p # None => p <= c
  PROVE  /\ DeltaSince(c, p) \in Nat
         /\ p # None => DeltaSince(c, p) = c - p
         /\ p = None => DeltaSince(c, p) = c
BY StatsConstants DEF DeltaSince

\* A flush moves counts from the handles to the records: what it writes and
\* what it leaves to the next flush add up to what there was to flush.
LEMMA FlushFacts ==
  ASSUME TypeOK, BaselineOK, SnapshotOK, flush # None, NEW k \in Keys
  PROVE  /\ Deltas(flush.snapshot)[k] \in Nat
         /\ Unflushed(k) \in Nat
         /\ Deltas(flush.snapshot)[k] <= Unflushed(k)
         /\ NextBaseline(flush.snapshot)[k] \in Nat \cup {None}
         /\ NextBaseline(flush.snapshot)[k] # None =>
              handle[k] # None /\ NextBaseline(flush.snapshot)[k] <= handle[k]
         /\ handle[k] # None =>
              Deltas(flush.snapshot)[k] + DeltaSince(handle[k], NextBaseline(flush.snapshot)[k])
                = Unflushed(k)
<1> DEFINE s == flush.snapshot[k]
<1>1. /\ handle[k] \in Nat \cup {None} /\ last[k] \in Nat \cup {None} /\ s \in Nat \cup {None}
      /\ last[k] # None => handle[k] # None /\ last[k] <= handle[k]
      /\ s # None => handle[k] # None /\ s <= handle[k] /\ (last[k] # None => last[k] <= s)
  BY StatsConstants DEF TypeOK, Counters, BaselineOK, SnapshotOK
<1>2. CASE s = None
  <2>1. Deltas(flush.snapshot)[k] = 0 /\ NextBaseline(flush.snapshot)[k] = last[k]
    BY <1>2 DEF Deltas, NextBaseline
  <2>2. handle[k] # None => DeltaSince(handle[k], last[k]) \in Nat
    BY <1>1, DeltaFacts
  <2> QED BY <1>1, <2>1, <2>2 DEF Unflushed
<1>3. CASE s # None
  <2>1. Deltas(flush.snapshot)[k] = DeltaSince(s, last[k]) /\ NextBaseline(flush.snapshot)[k] = s
    BY <1>3 DEF Deltas, NextBaseline
  <2>2. s \in Nat /\ handle[k] \in Nat /\ handle[k] # None
        /\ Unflushed(k) = DeltaSince(handle[k], last[k])
    BY <1>1, <1>3 DEF Unflushed
  <2>3. DeltaSince(handle[k], s) = handle[k] - s
    BY <1>1, <1>3, <2>2, DeltaFacts
  <2>4. CASE last[k] = None
    <3>1. DeltaSince(s, last[k]) = s /\ DeltaSince(handle[k], last[k]) = handle[k]
      BY <2>2, <2>4, DeltaFacts
    <3> QED BY <1>1, <1>3, <2>1, <2>2, <2>3, <3>1
  <2>5. CASE last[k] # None
    <3>1. DeltaSince(s, last[k]) = s - last[k] /\ DeltaSince(handle[k], last[k]) = handle[k] - last[k]
      BY <1>1, <1>3, <2>2, <2>5, DeltaFacts
    <3> QED BY <1>1, <1>3, <2>1, <2>2, <2>3, <2>5, <3>1
  <2> QED BY <2>4, <2>5
<1> QED BY <1>2, <1>3

\* A flush whose write was attempted, without and with an answer.
LEMMA DeltasType ==
  ASSUME TypeOK, flush # None
  PROVE  \A k \in Keys : Deltas(flush.snapshot)[k] \in Nat
<1> TAKE k \in Keys
<1>1. flush.snapshot[k] \in Nat \cup {None} /\ last[k] \in Nat \cup {None}
  BY DEF TypeOK, Counters
<1> QED BY <1>1 DEF Deltas, DeltaSince

-----------------------------------------------------------------------------
LEMMA TypeInductive ==
  /\ Init => TypeOK
  /\ TypeOK /\ [Next]_vars => TypeOK'
<1> USE StatsConstants
<1>1. Init => TypeOK
  <2> SUFFICES ASSUME Init PROVE TypeOK
    OBVIOUS
  <2>1. stored \in Counters /\ handle \in Counters /\ last \in Counters
    BY DEF Init, Counters
  <2>2. total \in [Keys -> Nat] /\ mine \in [Keys -> Nat] /\ dup \in [Keys -> Nat]
    BY DEF Init, Count
  <2> QED BY <2>1, <2>2 DEF Init, TypeOK
<1>2. SUFFICES ASSUME TypeOK, [Next]_vars PROVE TypeOK'
  BY <1>1
<1> USE DEF TypeOK, Counters, history
<1>3. ASSUME NEW k \in Keys, Complete(k) PROVE TypeOK'
  <2>1. handle[k] \in Nat
    BY <1>2, <1>3 DEF Complete
  <2>2. handle' \in Counters /\ total' \in [Keys -> Nat] /\ mine' \in [Keys -> Nat]
    BY <1>2, <1>3, <2>1 DEF Complete
  <2>3. served' \subseteq {j \in Keys : handle'[j] # None}
    BY <1>2, <1>3, <2>1 DEF Complete
  <2> QED BY <1>2, <1>3, <2>2, <2>3 DEF Complete
<1>4. ASSUME NEW keys \in SUBSET Keys, ChangeKeys(keys) PROVE TypeOK'
  <2>1. stored' \in Counters /\ mine' \in [Keys -> Nat]
    BY <1>2, <1>4 DEF ChangeKeys, Count
  <2> QED BY <1>2, <1>4, <2>1 DEF ChangeKeys
<1>5. ASSUME NEW config \in Configs
      PROVE  /\ BuiltHandles(config) \in Counters
             /\ \A k \in Keys : handle[k] # None => BuiltHandles(config)[k] # None
             /\ config => \A k \in Stored : BuiltHandles(config)[k] # None
  BY <1>2 DEF BuiltHandles, Handle, Stored
<1>6. ASSUME NEW config \in Configs, Refresh(config) PROVE TypeOK'
  <2>1. routed' \subseteq {k \in Keys : handle'[k] # None}
    BY <1>5, <1>6 DEF Refresh, Stored
  <2> QED BY <1>2, <1>5, <1>6, <2>1 DEF Refresh
<1>7. ASSUME NEW config \in Configs, RefreshFails(config) PROVE TypeOK'
  <2>1. handle' \in Counters /\ \A k \in Keys : handle[k] # None => handle'[k] # None
    BY <1>2, <1>5, <1>7 DEF RefreshFails
  <2> QED BY <1>2, <1>7, <2>1 DEF RefreshFails
<1>8. CASE FlushBegin
  <2>1. flush' \in [snapshot : Counters, final : BOOLEAN]
    BY <1>2, <1>8 DEF FlushBegin
  <2> QED BY <1>2, <1>8, <2>1 DEF FlushBegin
<1>9. CASE FlushApply
  <2>1. stored' \in Counters
    BY <1>2, <1>9, DeltasType DEF FlushApply, ApplyRuntimeStatsDeltas
  <2>2. last' \in Counters
    BY <1>2, <1>9 DEF FlushApply, NextBaseline
  <2> QED BY <1>2, <1>9, <2>1, <2>2 DEF FlushApply, AfterFlush
<1>10. ASSUME NEW committed \in BOOLEAN, FlushFails(committed) PROVE TypeOK'
  <2>1. stored' \in Counters
    BY <1>2, <1>10, DeltasType DEF FlushFails, ApplyRuntimeStatsDeltas
  <2>2. dup' \in [Keys -> Nat]
    BY <1>2, <1>10, DeltasType DEF FlushFails
  <2> QED BY <1>2, <1>10, <2>1, <2>2 DEF FlushFails, AfterFlush
<1>11. CASE Reset
  BY <1>2, <1>11 DEF Reset, ZeroRecords
<1>12. ASSUME NEW committed \in BOOLEAN, ResetFails(committed) PROVE TypeOK'
  BY <1>2, <1>12 DEF ResetFails, ZeroRecords
<1>13. CASE Close
  BY <1>2, <1>13 DEF Close
<1>14. CASE Crash
  BY <1>2, <1>14 DEF Crash
<1>15. CASE Start
  <2>1. routed' \subseteq Stored /\ served' = routed'
    BY <1>15 DEF Start
  <2>2. handle' \in Counters /\ last' \in Counters
    BY <1>2, <1>15 DEF Start
  <2>3. served' \subseteq {k \in Keys : handle'[k] # None}
    BY <1>2, <1>15, <2>1 DEF Start, Stored
  <2>4. mine' \in [Keys -> Nat]
    BY <1>2, <1>15 DEF Start
  <2> QED BY <1>2, <1>15, <2>1, <2>2, <2>3, <2>4 DEF Start
<1>16. CASE UNCHANGED vars
  BY <1>2, <1>16 DEF vars
<1> QED
  BY <1>2, <1>3, <1>4, <1>6, <1>7, <1>8, <1>9, <1>10, <1>11, <1>12, <1>13, <1>14, <1>15, <1>16
     DEF Next

-----------------------------------------------------------------------------
(***************************************************************************)
(* What the steps do to the handles.                                       *)
(***************************************************************************)

\* A rebuild creates the handles of listed keys and leaves the others alone.
LEMMA RebuildKeeps ==
  ASSUME IInv, TypeOK', NEW config \in Configs,
         \/ handle' = BuiltHandles(config)
         \/ handle' = handle,
         mode = "up", mode' = mode,
         UNCHANGED <<stored, last, flush, mine>>
  PROVE  BaselineOK' /\ SnapshotOK' /\ FinalOK' /\ NothingLost'
<1> USE StatsConstants
<1>1. \A k \in Keys : handle[k] # None => handle'[k] = handle[k]
  BY DEF BuiltHandles, Handle, IInv, TypeOK, Counters
<1>2. BaselineOK' /\ SnapshotOK'
  BY <1>1 DEF IInv, BaselineOK, SnapshotOK
<1>3. FinalOK'
  BY DEF IInv, FinalOK
<1>4. NothingLost'
  <2> SUFFICES ASSUME NEW k \in Stored PROVE stored[k] + Unflushed(k)' >= mine[k]
    BY DEF NothingLost, Stored
  <2>1. stored[k] + Unflushed(k) >= mine[k] /\ stored[k] \in Nat /\ mine[k] \in Nat /\ k \in Keys
    BY DEF IInv, NothingLost, TypeOK, Counters, Stored
  <2>2. CASE handle[k] # None
    BY <1>1, <2>1, <2>2 DEF Unflushed
  <2>3. CASE handle[k] = None
    <3>1. Unflushed(k) = 0
      BY <2>3 DEF Unflushed
    <3>2. handle'[k] # None => handle'[k] \in Nat /\ last'[k] = None
      BY <2>1, <2>3 DEF IInv, TypeOK, Counters, BaselineOK
    <3>3. Unflushed(k)' \in Nat
      BY <3>2, DeltaFacts DEF Unflushed, DeltaSince
    <3> QED BY <2>1, <3>1, <3>3
  <2> QED BY <2>2, <2>3
<1> QED BY <1>2, <1>3, <1>4

LEMMA CompleteKeeps ==
  ASSUME IInv, TypeOK', NEW k \in Keys, Complete(k)
  PROVE  BaselineOK' /\ SnapshotOK' /\ FinalOK' /\ NothingLost'
<1> USE StatsConstants
<1>1. /\ mode = "up" /\ handle[k] \in Nat
      /\ handle' = [handle EXCEPT ![k] = handle[k] + 1]
      /\ handle \in [Keys -> Nat \cup {None}] /\ last \in [Keys -> Nat \cup {None}]
      /\ UNCHANGED <<mode, stored, routed, last, flush>>
  BY DEF Complete, IInv, TypeOK, Counters
<1>2. BaselineOK'
  BY <1>1 DEF IInv, BaselineOK
<1>3. SnapshotOK'
  <2> SUFFICES ASSUME flush # None, NEW j \in Keys, flush.snapshot[j] # None
               PROVE  /\ handle'[j] # None /\ flush.snapshot[j] <= handle'[j]
                      /\ last[j] # None => last[j] <= flush.snapshot[j]
    BY <1>1 DEF SnapshotOK
  <2>1. flush.snapshot[j] \in Nat \cup {None}
    BY DEF IInv, TypeOK, Counters
  <2> QED BY <1>1, <2>1 DEF IInv, SnapshotOK
<1>4. FinalOK'
  BY <1>1 DEF IInv, FinalOK
<1>5. NothingLost'
  <2> SUFFICES ASSUME NEW j \in Stored PROVE stored[j] + Unflushed(j)' >= mine'[j]
    BY <1>1 DEF NothingLost, Stored
  <2>1. stored[j] + Unflushed(j) >= mine[j] /\ stored[j] \in Nat /\ mine[j] \in Nat /\ j \in Keys
    BY <1>1 DEF IInv, NothingLost, TypeOK, Counters, Stored
  <2>2. CASE j # k
    BY <1>1, <2>1, <2>2 DEF Unflushed, Complete, IInv, TypeOK
  <2>3. CASE j = k
    <3>1. mine'[k] = mine[k] + 1 /\ handle'[k] = handle[k] + 1 /\ handle'[k] # None
      BY <1>1, <2>1, <2>3 DEF Complete, IInv, TypeOK, Stored
    <3>2. last[k] \in Nat \cup {None} /\ (last[k] # None => last[k] <= handle[k])
      BY <1>1 DEF IInv, BaselineOK
    <3>3. DeltaSince(handle[k] + 1, last[k]) = DeltaSince(handle[k], last[k]) + 1
          /\ DeltaSince(handle[k], last[k]) \in Nat
      BY <1>1, <3>2 DEF DeltaSince
    <3> QED BY <1>1, <2>1, <2>3, <3>1, <3>3 DEF Unflushed
  <2> QED BY <2>2, <2>3
<1> QED BY <1>2, <1>3, <1>4, <1>5

\* A flush that succeeds.
LEMMA FlushApplyKeeps ==
  ASSUME IInv, TypeOK', FlushApply
  PROVE  BaselineOK' /\ SnapshotOK' /\ FinalOK' /\ NothingLost'
<1> USE StatsConstants
<1>1. /\ flush # None /\ mode # "down" /\ flush' = None
      /\ last' = NextBaseline(flush.snapshot)
      /\ UNCHANGED <<handle, routed, mine>>
  BY DEF FlushApply, IInv, SnapshotOK, history
<1>2. BaselineOK'
  BY <1>1, FlushFacts DEF IInv, BaselineOK
<1>3. SnapshotOK' /\ FinalOK'
  BY <1>1 DEF SnapshotOK, FinalOK
<1>4. NothingLost'
  <2> SUFFICES ASSUME NEW k \in Stored' PROVE stored'[k] + Unflushed(k)' >= mine[k]
    BY <1>1 DEF NothingLost
  <2>1. k \in Stored /\ stored'[k] = stored[k] + Deltas(flush.snapshot)[k]
    BY DEF FlushApply, ApplyRuntimeStatsDeltas, Stored
  <2>2. stored[k] + Unflushed(k) >= mine[k] /\ stored[k] \in Nat /\ mine[k] \in Nat /\ k \in Keys
    BY <1>1, <2>1 DEF IInv, NothingLost, TypeOK, Counters, Stored
  <2>3. Deltas(flush.snapshot)[k] \in Nat /\ Unflushed(k) \in Nat
        /\ Deltas(flush.snapshot)[k] + Unflushed(k)' >= Unflushed(k)
        /\ Unflushed(k)' \in Nat
    <3>1. CASE handle[k] = None
      BY <1>1, <2>2, <3>1, FlushFacts DEF Unflushed, IInv
    <3>2. CASE handle[k] # None
      <4>1. Unflushed(k)' = DeltaSince(handle[k], NextBaseline(flush.snapshot)[k])
        BY <1>1, <3>2 DEF Unflushed
      <4>2. handle[k] \in Nat
        BY <2>2, <3>2 DEF IInv, TypeOK, Counters
      <4>3. Unflushed(k)' \in Nat
        BY <1>1, <2>2, <4>1, <4>2, FlushFacts, DeltaFacts DEF IInv
      <4> QED BY <1>1, <2>2, <3>2, <4>1, <4>3, FlushFacts DEF IInv
    <3> QED BY <3>1, <3>2
  <2> QED BY <2>1, <2>2, <2>3
<1> QED BY <1>2, <1>3, <1>4

\* A flush that fails: the baseline stays, and a record loses nothing.
LEMMA FlushFailsKeeps ==
  ASSUME IInv, TypeOK', NEW committed \in BOOLEAN, FlushFails(committed)
  PROVE  BaselineOK' /\ SnapshotOK' /\ FinalOK' /\ NothingLost'
<1> USE StatsConstants
<1>1. flush # None /\ mode # "down" /\ flush' = None /\ UNCHANGED <<handle, routed, last, mine>>
  BY DEF FlushFails, IInv, SnapshotOK
<1>2. BaselineOK' /\ SnapshotOK' /\ FinalOK'
  BY <1>1 DEF IInv, BaselineOK, SnapshotOK, FinalOK
<1>3. NothingLost'
  <2> SUFFICES ASSUME NEW k \in Stored' PROVE stored'[k] + Unflushed(k)' >= mine[k]
    BY <1>1 DEF NothingLost
  <2>1. k \in Stored /\ k \in Keys
        /\ (stored'[k] = stored[k] \/ stored'[k] = stored[k] + Deltas(flush.snapshot)[k])
    BY DEF FlushFails, ApplyRuntimeStatsDeltas, Stored
  <2>2. stored[k] + Unflushed(k) >= mine[k] /\ stored[k] \in Nat /\ mine[k] \in Nat
    BY <1>1, <2>1 DEF IInv, NothingLost, TypeOK, Counters, Stored
  <2>3. Deltas(flush.snapshot)[k] \in Nat /\ Unflushed(k) \in Nat /\ Unflushed(k)' = Unflushed(k)
    BY <1>1, <2>1, FlushFacts DEF IInv, Unflushed
  <2> QED BY <2>1, <2>2, <2>3
<1> QED BY <1>2, <1>3

LEMMA StartKeeps ==
  ASSUME IInv, TypeOK', Start
  PROVE  BaselineOK' /\ SnapshotOK' /\ FinalOK' /\ NothingLost'
<1> USE StatsConstants
<1>1. mode = "down" /\ flush = None /\ flush' = None /\ last' = handle' /\ stored' = stored
  BY DEF Start, IInv, SnapshotOK
<1>2. BaselineOK' /\ SnapshotOK' /\ FinalOK'
  BY <1>1 DEF BaselineOK, SnapshotOK, FinalOK, TypeOK, Counters
<1>3. NothingLost'
  <2> SUFFICES ASSUME NEW k \in Stored PROVE stored[k] + Unflushed(k)' >= mine'[k]
    BY <1>1 DEF NothingLost, Stored
  <2>1. k \in Keys /\ stored[k] \in Nat /\ mine[k] \in Nat /\ mine'[k] \in Nat /\ mine'[k] <= stored[k]
    BY DEF Start, Stored, IInv, TypeOK, Counters
  <2>2. Unflushed(k)' \in Nat
    BY <1>1, <2>1 DEF Unflushed, DeltaSince, TypeOK, Counters
  <2> QED BY <2>1, <2>2
<1> QED BY <1>2, <1>3

\* Every step keeps the invariant.
LEMMA IInvInductive ==
  /\ Init => IInv
  /\ IInv /\ [Next]_vars => IInv'
<1> USE StatsConstants
<1>1. Init => IInv
  BY TypeInductive DEF Init, IInv, BaselineOK, SnapshotOK, FinalOK, NothingLost
<1>2. SUFFICES ASSUME IInv, [Next]_vars PROVE IInv'
  BY <1>1
<1>3. TypeOK'
  BY <1>2, TypeInductive DEF IInv
<1>4. SUFFICES BaselineOK' /\ SnapshotOK' /\ FinalOK' /\ NothingLost'
  BY <1>3 DEF IInv
<1>5. CASE \E k \in Keys : Complete(k)
  BY <1>2, <1>3, <1>5, CompleteKeeps
<1>6. ASSUME NEW keys \in SUBSET Keys, ChangeKeys(keys)
      PROVE  BaselineOK' /\ SnapshotOK' /\ FinalOK' /\ NothingLost'
  <2>1. mode = "up" /\ UNCHANGED <<mode, handle, routed, last, flush>>
    BY <1>6 DEF ChangeKeys
  <2>2. BaselineOK' /\ SnapshotOK' /\ FinalOK'
    BY <1>2, <2>1 DEF IInv, BaselineOK, SnapshotOK, FinalOK
  <2>3. NothingLost'
    <3> SUFFICES ASSUME NEW k \in Stored' PROVE stored'[k] + Unflushed(k)' >= mine'[k]
      BY DEF NothingLost
    <3>1. k \in keys /\ k \in Keys
      BY <1>6 DEF ChangeKeys, Stored
    <3>2. Unflushed(k)' = Unflushed(k) /\ Unflushed(k) \in Nat
      BY <1>2, <2>1, <3>1 DEF Unflushed, DeltaSince, IInv, TypeOK, Counters
    <3>3. CASE k \in Stored
      BY <1>2, <1>6, <2>1, <3>1, <3>2, <3>3 DEF ChangeKeys, Count, Stored, IInv, NothingLost
    <3>4. CASE k \notin Stored
      BY <1>6, <3>1, <3>2, <3>4 DEF ChangeKeys, Count, Stored
    <3> QED BY <3>3, <3>4
  <2> QED BY <2>2, <2>3
<1>7. CASE \E config \in Configs : Refresh(config) \/ RefreshFails(config)
  BY <1>2, <1>3, <1>7, RebuildKeeps DEF Refresh, RefreshFails, history
<1>8. CASE FlushBegin
  <2>1. /\ mode # "down" /\ UNCHANGED <<mode, stored, handle, routed, last, mine>>
        /\ flush' = [snapshot |-> [k \in Keys |-> IF k \in routed THEN handle[k] ELSE None],
                     final |-> mode = "closing"]
        /\ handle \in [Keys -> Nat \cup {None}] /\ routed \subseteq Keys
    BY <1>2, <1>8 DEF FlushBegin, IInv, TypeOK, Counters, history
  <2>2. BaselineOK' /\ NothingLost'
    BY <1>2, <2>1 DEF IInv, BaselineOK, NothingLost, Unflushed, Stored
  <2>3. SnapshotOK'
    BY <1>2, <2>1 DEF IInv, BaselineOK, SnapshotOK
  <2>4. FinalOK'
    BY <2>1 DEF FinalOK
  <2> QED BY <2>2, <2>3, <2>4
<1>9. CASE FlushApply
  BY <1>2, <1>3, <1>9, FlushApplyKeeps
<1>10. CASE \E committed \in BOOLEAN : FlushFails(committed)
  BY <1>2, <1>3, <1>10, FlushFailsKeeps
<1>11. CASE Reset
  <2>1. flush' = None /\ (\A k \in Keys : last'[k] = None /\ mine'[k] = 0)
    BY <1>11 DEF Reset
  <2>2. BaselineOK' /\ SnapshotOK' /\ FinalOK'
    BY <2>1 DEF BaselineOK, SnapshotOK, FinalOK
  <2>3. \A k \in Keys : Unflushed(k)' \in Nat
    BY <1>3 DEF Unflushed, DeltaSince, TypeOK, Counters
  <2>4. NothingLost'
    BY <1>3, <2>1, <2>3 DEF NothingLost, Stored, TypeOK, Counters
  <2> QED BY <2>2, <2>4
<1>12. ASSUME NEW committed \in BOOLEAN, ResetFails(committed)
       PROVE  BaselineOK' /\ SnapshotOK' /\ FinalOK' /\ NothingLost'
  <2>1. flush = None /\ mode = "up" /\ UNCHANGED <<mode, handle, routed, last, flush>>
    BY <1>12 DEF ResetFails
  <2>2. BaselineOK' /\ SnapshotOK' /\ FinalOK'
    BY <1>2, <2>1 DEF IInv, BaselineOK, SnapshotOK, FinalOK
  <2>3. \A k \in Keys : Unflushed(k)' = Unflushed(k) /\ Unflushed(k)' \in Nat
    BY <1>3, <2>1 DEF Unflushed, DeltaSince, TypeOK, Counters
  <2>4. CASE stored' = ZeroRecords /\ mine' = [k \in Keys |-> 0]
    <3>1. \A k \in Stored' : k \in Keys /\ stored'[k] \in Nat /\ mine'[k] = 0
      BY <1>3, <2>4 DEF Stored, TypeOK, Counters
    <3> QED BY <2>2, <2>3, <3>1 DEF NothingLost
  <2>5. CASE stored' = stored /\ mine' = mine
    BY <1>2, <2>1, <2>2, <2>3, <2>5 DEF NothingLost, Stored, IInv
  <2>6. \/ stored' = ZeroRecords /\ mine' = [k \in Keys |-> 0]
        \/ stored' = stored /\ mine' = mine
    BY <1>12 DEF ResetFails
  <2> QED BY <2>4, <2>5, <2>6
<1>13. CASE Close
  BY <1>2, <1>13 DEF Close, history, IInv, BaselineOK, SnapshotOK, FinalOK, NothingLost, Unflushed, Stored
<1>14. CASE Crash
  BY <1>14 DEF Crash, BaselineOK, SnapshotOK, FinalOK, NothingLost
<1>15. CASE Start
  BY <1>2, <1>3, <1>15, StartKeeps
<1>16. CASE UNCHANGED vars
  BY <1>2, <1>16 DEF vars, IInv, BaselineOK, SnapshotOK, FinalOK, NothingLost, Unflushed, Stored
<1> QED
  BY <1>2, <1>5, <1>6, <1>7, <1>8, <1>9, <1>10, <1>11, <1>12, <1>13, <1>14, <1>15, <1>16 DEF Next

\* While the process runs, record and unflushed counts cover every completion
\* (buildRuntimeStatsDeltas, the registry that keeps the handles of removed keys).
THEOREM NothingLostCorrect == Spec => []NothingLost
<1>1. IInv => NothingLost
  BY DEF IInv
<1> QED BY <1>1, IInvInductive, PTL DEF Spec

\* The last flush of an orderly stop leaves nothing behind (Close and run).
THEOREM FinalFlushCorrect == Spec => FinalFlushComplete
<1>1. ASSUME IInv, [Next]_vars
      PROVE  [FlushApply /\ mode' = "down" => \A k \in Stored \cap routed : stored'[k] >= mine[k]]_vars
  <2> SUFFICES ASSUME FlushApply, mode' = "down", NEW k \in Stored \cap routed
               PROVE  stored'[k] >= mine[k]
    OBVIOUS
  <2>1. flush # None /\ mode # "down" /\ flush.final
    BY <1>1 DEF FlushApply, AfterFlush, IInv, SnapshotOK
  <2>2. k \in Keys /\ flush.snapshot[k] = handle[k] /\ handle[k] # None
    BY <1>1, <2>1 DEF IInv, FinalOK, TypeOK, Stored
  <2>3. stored'[k] = stored[k] + Unflushed(k)
    BY <2>2 DEF FlushApply, ApplyRuntimeStatsDeltas, Deltas, Unflushed, Stored
  <2> QED BY <1>1, <2>1, <2>3 DEF IInv, NothingLost
<1> QED BY <1>1, IInvInductive, PTL DEF Spec, FinalFlushComplete

-----------------------------------------------------------------------------
(***************************************************************************)
(* Nothing is counted twice.  The configuration always lists the vendor: a *)
(* router without it leaves records without handles, and the handle that a *)
(* later router makes of one counts its record a second time (StatsOrphan).*)
(***************************************************************************)

Accounted(k) == total[k] + dup[k]

\* A key without a handle has no counts in its record: all stored keys got
\* theirs at the start, and a record that was added since has started at zero.
UnhandledOK == configured /\ (mode # "down" => \A k \in Keys : handle[k] = None => Count(stored[k]) = 0)

\* What a record holds and what is still to be flushed into it happened once.
OnceOK == mode # "down" => \A k \in Keys : Count(stored[k]) + Unflushed(k) <= Accounted(k)

OnceInv == IInv /\ UnhandledOK /\ OnceOK /\ NothingInvented

LEMMA CountTypes ==
  ASSUME TypeOK, NEW k \in Keys
  PROVE  /\ Count(stored[k]) \in Nat /\ Count(handle[k]) \in Nat /\ Unflushed(k) \in Nat
         /\ Accounted(k) \in Nat
BY StatsConstants DEF TypeOK, Counters, Count, Unflushed, DeltaSince, Accounted

\* A step of the store, of the router or of the process that lets no key gain
\* counts keeps what is accounted for.
LEMMA NoGainKeeps ==
  ASSUME OnceInv, IInv', UnhandledOK',
         \A k \in Keys : /\ Accounted(k)' = Accounted(k)
                         /\ Count(stored[k])' <= Count(stored[k])
                         /\ Count(handle[k])' <= Count(handle[k]) \/ Count(handle[k])' <= Count(stored[k]),
         mode' # "down" => \A k \in Keys : Unflushed(k)' = 0 \/ (mode # "down" /\ Unflushed(k)' <= Unflushed(k))
  PROVE  OnceInv'
<1>1. \A k \in Keys : /\ Count(stored[k]) \in Nat /\ Count(handle[k]) \in Nat /\ Unflushed(k) \in Nat
                      /\ Accounted(k) \in Nat
                      /\ Count(stored[k]) <= Accounted(k) /\ Count(handle[k]) <= Accounted(k)
  BY CountTypes DEF OnceInv, IInv, NothingInvented, Accounted
<1>2. \A k \in Keys : (Count(stored[k]) \in Nat)' /\ (Count(handle[k]) \in Nat)' /\ (Unflushed(k) \in Nat)'
  BY CountTypes, StatsConstants DEF IInv, TypeOK, Counters, Count, Unflushed, DeltaSince
<1>3. NothingInvented'
  BY <1>1, <1>2 DEF NothingInvented, Accounted
<1>4. OnceOK'
  BY <1>1, <1>2 DEF OnceOK, OnceInv
<1> QED BY <1>3, <1>4 DEF OnceInv

LEMMA OnceCompleteKeeps ==
  ASSUME OnceInv, IInv', NEW k \in Keys, Complete(k)
  PROVE  OnceInv'
<1> USE StatsConstants
<1>1. /\ mode = "up" /\ handle[k] \in Nat /\ handle' = [handle EXCEPT ![k] = handle[k] + 1]
      /\ total' = [total EXCEPT ![k] = total[k] + 1]
      /\ handle \in [Keys -> Nat \cup {None}] /\ last \in [Keys -> Nat \cup {None}]
      /\ total \in [Keys -> Nat] /\ dup \in [Keys -> Nat]
      /\ UNCHANGED <<mode, configured, stored, last, dup>>
  BY DEF Complete, OnceInv, IInv, TypeOK, Counters
<1>2. UnhandledOK'
  BY <1>1 DEF OnceInv, UnhandledOK
<1>3. ASSUME NEW j \in Keys
      PROVE  /\ Count(stored[j]) <= Accounted(j)' /\ Count(handle[j])' <= Accounted(j)'
             /\ Count(stored[j]) + Unflushed(j)' <= Accounted(j)'
  <2>1. /\ Count(stored[j]) <= Accounted(j) /\ Count(handle[j]) <= Accounted(j)
        /\ Count(stored[j]) + Unflushed(j) <= Accounted(j)
    BY <1>1 DEF OnceInv, NothingInvented, OnceOK, Accounted
  <2>2. Count(stored[j]) \in Nat /\ Unflushed(j) \in Nat /\ Accounted(j) \in Nat
    BY CountTypes DEF OnceInv, IInv
  <2>3. CASE j # k
    <3>1. handle'[j] = handle[j] /\ Accounted(j)' = Accounted(j) /\ Unflushed(j)' = Unflushed(j)
      BY <1>1, <2>3 DEF Accounted, Unflushed
    <3> QED BY <2>1, <3>1 DEF Count
  <2>4. CASE j = k
    <3>1. handle'[k] = handle[k] + 1 /\ handle'[k] # None /\ handle[k] # None
      BY <1>1
    <3>2. last[k] \in Nat \cup {None} /\ (last[k] # None => last[k] <= handle[k])
      BY <1>1 DEF OnceInv, IInv, BaselineOK
    <3>3. DeltaSince(handle[k] + 1, last[k]) = DeltaSince(handle[k], last[k]) + 1
      BY <1>1, <3>2 DEF DeltaSince
    <3>4. Unflushed(k)' = Unflushed(k) + 1 /\ Accounted(k)' = Accounted(k) + 1
      BY <1>1, <3>1, <3>3 DEF Unflushed, Accounted
    <3> QED BY <1>1, <2>1, <2>2, <2>4, <3>1, <3>4 DEF Count
  <2> QED BY <2>3, <2>4
<1> QED BY <1>1, <1>2, <1>3 DEF OnceInv, OnceOK, NothingInvented, Accounted

\* What a flush adds to a record it takes from what is unflushed, or charges
\* to the writes that were reported as failed.
LEMMA OnceFlushKeeps ==
  ASSUME OnceInv, IInv', FlushApply \/ \E committed \in BOOLEAN : FlushFails(committed)
  PROVE  OnceInv'
<1> USE StatsConstants
<1> DEFINE d(k) == Deltas(flush.snapshot)[k]
<1>1. /\ flush # None /\ mode # "down" /\ UNCHANGED <<configured, handle, total>>
      /\ total \in [Keys -> Nat] /\ dup \in [Keys -> Nat] /\ stored \in Counters
  BY DEF FlushApply, FlushFails, OnceInv, IInv, SnapshotOK, TypeOK, history
<1>2. ASSUME NEW k \in Keys
      PROVE  /\ Count(stored[k]) <= Accounted(k) /\ Count(handle[k]) <= Accounted(k)
             /\ Count(stored[k]) + Unflushed(k) <= Accounted(k)
             /\ Count(stored[k]) \in Nat /\ Count(handle[k]) \in Nat /\ Unflushed(k) \in Nat
             /\ Accounted(k) \in Nat
             /\ d(k) \in Nat /\ d(k) <= Unflushed(k)
             /\ handle[k] = None => d(k) = 0
  <2>1. handle[k] = None => d(k) = 0
    BY <1>1 DEF Deltas, OnceInv, IInv, SnapshotOK
  <2> QED BY <1>1, <2>1, CountTypes, FlushFacts DEF OnceInv, IInv, NothingInvented, OnceOK, Accounted
<1>3. CASE FlushApply
  <2>1. last' = NextBaseline(flush.snapshot) /\ dup' = dup
    BY <1>3 DEF FlushApply, history
  <2>2. ASSUME NEW k \in Keys
        PROVE  /\ Count(stored[k])' <= Accounted(k)' /\ Count(handle[k])' <= Accounted(k)'
               /\ Count(stored[k])' + Unflushed(k)' <= Accounted(k)'
               /\ handle[k] = None => Count(stored[k])' = Count(stored[k])
    <3>1. Count(stored[k])' = Count(stored[k]) \/ Count(stored[k])' = Count(stored[k]) + d(k)
      BY <1>1, <1>2, <1>3 DEF FlushApply, ApplyRuntimeStatsDeltas, Count, Counters
    <3>2. Unflushed(k)' \in Nat /\ d(k) + Unflushed(k)' = Unflushed(k)
      <4>1. CASE handle[k] = None
        BY <1>1, <1>2, <4>1 DEF Unflushed
      <4>2. CASE handle[k] # None
        <5>1. Unflushed(k)' = DeltaSince(handle[k], NextBaseline(flush.snapshot)[k])
          BY <1>1, <2>1, <4>2 DEF Unflushed
        <5>2. handle[k] \in Nat
          BY <4>2 DEF OnceInv, IInv, TypeOK, Counters
        <5>3. Unflushed(k)' \in Nat
          BY <1>1, <5>1, <5>2, FlushFacts, DeltaFacts DEF OnceInv, IInv
        <5> QED BY <1>1, <4>2, <5>1, <5>3, FlushFacts DEF OnceInv, IInv
      <4> QED BY <4>1, <4>2
    <3>3. Accounted(k)' = Accounted(k) /\ Count(handle[k])' = Count(handle[k])
      BY <1>1, <2>1 DEF Accounted, Count
    <3> QED BY <1>2, <3>1, <3>2, <3>3
  <2> QED BY <1>1, <2>2 DEF OnceInv, UnhandledOK, OnceOK, NothingInvented, Accounted
<1>4. ASSUME NEW committed \in BOOLEAN, FlushFails(committed) PROVE OnceInv'
  <2>1. last' = last
    BY <1>4 DEF FlushFails
  <2>2. ASSUME NEW k \in Keys
        PROVE  /\ Count(stored[k])' <= Accounted(k)' /\ Count(handle[k])' <= Accounted(k)'
               /\ Count(stored[k])' + Unflushed(k)' <= Accounted(k)'
               /\ handle[k] = None => Count(stored[k])' = Count(stored[k])
    <3>1. \/ Count(stored[k])' = Count(stored[k]) /\ Accounted(k)' = Accounted(k)
          \/ Count(stored[k])' = Count(stored[k]) /\ Accounted(k)' = Accounted(k) + d(k)
          \/ Count(stored[k])' = Count(stored[k]) + d(k) /\ Accounted(k)' = Accounted(k) + d(k)
      BY <1>1, <1>2, <1>4 DEF FlushFails, ApplyRuntimeStatsDeltas, Count, Counters, Accounted
    <3>2. Unflushed(k)' = Unflushed(k) /\ Count(handle[k])' = Count(handle[k])
      BY <1>1, <2>1 DEF Unflushed, Count
    <3> QED BY <1>2, <3>1, <3>2
  <2> QED BY <1>1, <2>2 DEF OnceInv, UnhandledOK, OnceOK, NothingInvented, Accounted
<1> QED BY <1>3, <1>4

LEMMA OnceInductive ==
  ASSUME Configs = {TRUE}
  PROVE  /\ Init => OnceInv
         /\ OnceInv /\ [Next]_vars => OnceInv'
<1> USE StatsConstants
<1>1. Init => OnceInv
  <2> SUFFICES ASSUME Init PROVE OnceInv
    OBVIOUS
  <2>1. \A k \in Keys : Count(stored[k]) = Accounted(k) /\ Count(stored[k]) \in Nat /\ Count(handle[k]) = 0
    BY DEF Init, Accounted, Count
  <2> QED BY <2>1, IInvInductive DEF Init, OnceInv, UnhandledOK, OnceOK, NothingInvented, Accounted
<1>2. SUFFICES ASSUME OnceInv, [Next]_vars PROVE OnceInv'
  BY <1>1
<1>3. IInv' /\ IInv /\ TypeOK /\ TypeOK' /\ configured
  BY <1>2, IInvInductive DEF OnceInv, IInv, UnhandledOK
<1>4. \A k \in Keys : /\ Count(stored[k]) \in Nat /\ Count(handle[k]) \in Nat /\ Unflushed(k) \in Nat
  BY <1>3, CountTypes
<1>5. CASE \E k \in Keys : Complete(k)
  BY <1>2, <1>3, <1>5, OnceCompleteKeeps
<1>6. CASE FlushApply \/ \E committed \in BOOLEAN : FlushFails(committed)
  BY <1>2, <1>3, <1>6, OnceFlushKeeps
<1>7. ASSUME NEW keys \in SUBSET Keys, ChangeKeys(keys) PROVE OnceInv'
  <2>1. \A k \in Keys : Count(stored[k])' = Count(stored[k]) \/ Count(stored[k])' = 0
    BY <1>7 DEF ChangeKeys, Count
  <2>2. UNCHANGED <<mode, configured, handle, last, total, dup>>
    BY <1>7 DEF ChangeKeys
  <2>3. UnhandledOK'
    BY <1>2, <2>1, <2>2 DEF OnceInv, UnhandledOK
  <2>4. \A k \in Keys : Count(handle[k])' = Count(handle[k]) /\ Unflushed(k)' = Unflushed(k)
                        /\ Accounted(k)' = Accounted(k)
    BY <2>2 DEF Count, Unflushed, Accounted
  <2>5. mode = "up"
    BY <1>7 DEF ChangeKeys
  <2> QED BY <1>2, <1>3, <1>4, <2>1, <2>3, <2>4, <2>5, NoGainKeeps
<1>8. ASSUME NEW config \in Configs, Refresh(config) \/ RefreshFails(config) PROVE OnceInv'
  <2>1. configured'
    <3>1. CASE Refresh(config)
      BY <3>1, Zenon DEF Refresh
    <3>2. CASE RefreshFails(config)
      BY <1>3, <3>2, Zenon DEF RefreshFails
    <3> QED BY <1>8, <3>1, <3>2
  <2>2. /\ mode = "up" /\ UNCHANGED <<mode, stored, last, total, dup>>
        /\ handle' = BuiltHandles(config) \/ handle' = handle
    BY <1>8 DEF Refresh, RefreshFails, history
  <2>3. ASSUME NEW k \in Keys
        PROVE  /\ handle'[k] = handle[k] \/ (handle[k] = None /\ handle'[k] = stored[k])
               /\ handle[k] = None => last[k] = None /\ Count(stored[k]) = 0
    BY <1>2, <1>3, <2>2 DEF BuiltHandles, Handle, OnceInv, UnhandledOK, IInv, BaselineOK, TypeOK, Counters
  <2>4. ASSUME NEW k \in Keys
        PROVE  /\ Count(stored[k])' = Count(stored[k]) /\ Accounted(k)' = Accounted(k)
               /\ Count(handle[k])' = Count(handle[k])
               /\ Unflushed(k)' = Unflushed(k)
    BY <2>2, <2>3 DEF Count, Unflushed, DeltaSince, Accounted
  <2>5. UnhandledOK'
    BY <2>1, <2>2, <2>3, <2>4 DEF UnhandledOK
  <2> QED BY <1>2, <1>3, <1>4, <2>2, <2>4, <2>5, NoGainKeeps
<1>9. CASE FlushBegin \/ Close \/ Crash \/ UNCHANGED vars
  <2>1. /\ UNCHANGED <<configured, stored, handle, last, total, dup>>
        /\ mode' # "down" => mode # "down"
    BY <1>9 DEF FlushBegin, Close, Crash, vars, history
  <2>2. \A k \in Keys : /\ Count(stored[k])' = Count(stored[k]) /\ Accounted(k)' = Accounted(k)
                        /\ Count(handle[k])' = Count(handle[k]) /\ Unflushed(k)' = Unflushed(k)
    BY <2>1 DEF Count, Unflushed, Accounted
  <2>3. UnhandledOK'
    BY <1>2, <2>1, <2>2 DEF OnceInv, UnhandledOK
  <2> QED BY <1>2, <1>3, <1>4, <2>1, <2>2, <2>3, NoGainKeeps
<1>10. CASE Reset
  <2>1. /\ configured'
        /\ \A k \in Keys : /\ stored'[k] \in {None, 0} /\ handle'[k] \in {None, 0}
                           /\ last'[k] = None /\ total'[k] = 0 /\ dup'[k] = 0
    BY <1>3, <1>10 DEF Reset, ZeroRecords
  <2>2. \A k \in Keys : /\ Count(stored[k])' = 0 /\ Count(handle[k])' = 0 /\ Unflushed(k)' = 0
                        /\ Accounted(k)' = 0
    BY <2>1 DEF Count, Unflushed, DeltaSince, Accounted
  <2> QED BY <1>3, <2>1, <2>2 DEF OnceInv, UnhandledOK, OnceOK, NothingInvented, Accounted
<1>11. ASSUME NEW committed \in BOOLEAN, ResetFails(committed) PROVE OnceInv'
  <2>1. /\ mode = "up" /\ UNCHANGED <<mode, configured, handle, last, total, dup>>
        /\ stored' = ZeroRecords \/ stored' = stored
    BY <1>11 DEF ResetFails
  <2>2. \A k \in Keys : /\ Count(stored[k])' = Count(stored[k]) \/ Count(stored[k])' = 0
                        /\ Accounted(k)' = Accounted(k)
                        /\ Count(handle[k])' = Count(handle[k]) /\ Unflushed(k)' = Unflushed(k)
    BY <2>1 DEF Count, Unflushed, Accounted, ZeroRecords
  <2>3. UnhandledOK'
    BY <1>2, <2>1, <2>2 DEF OnceInv, UnhandledOK
  <2> QED BY <1>2, <1>3, <1>4, <2>1, <2>2, <2>3, NoGainKeeps
<1>12. CASE Start
  <2>1. /\ configured' /\ last' = handle' /\ UNCHANGED <<stored, total, dup>>
        /\ \A k \in Keys : handle'[k] = stored[k]
    BY <1>3, <1>12 DEF Start, Stored, history
  <2>2. \A k \in Keys : /\ Count(stored[k])' = Count(stored[k]) /\ Accounted(k)' = Accounted(k)
                        /\ Count(handle[k])' = Count(stored[k])
    BY <2>1 DEF Count, Accounted
  <2>3. \A k \in Keys : Unflushed(k)' = 0
    BY <1>3, <2>1 DEF Unflushed, DeltaSince, TypeOK, Counters
  <2>4. UnhandledOK'
    BY <2>1, <2>2 DEF UnhandledOK, Count
  <2> QED BY <1>2, <1>3, <1>4, <2>2, <2>3, <2>4, NoGainKeeps
<1> QED BY <1>2, <1>5, <1>6, <1>7, <1>8, <1>9, <1>10, <1>11, <1>12 DEF Next

\* As long as the configuration lists the vendor, flushes, rebuilds, resets,
\* keys that return and restarts count nothing twice, apart from writes that
\* were committed and reported as failed (stats_persister.go,
\* runtime_stats_registry.go).
THEOREM NothingInventedCorrect ==
  ASSUME Configs = {TRUE}
  PROVE  Spec => []NothingInvented
<1>1. OnceInv => NothingInvented
  BY DEF OnceInv
<1> QED BY <1>1, OnceInductive, PTL DEF Spec
=============================================================================
