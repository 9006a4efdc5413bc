------------------------------ MODULE Selection ------------------------------
(***************************************************************************)
(* How one of several candidates is chosen: the children of an aggregate   *)
(* by smooth weighted round robin within the best priority tier            *)
(* (aggregatePool, internal/gateway/gateway.go), the keys of a vendor by   *)
(* round robin (internal/balancer/pool.go) or by performance, with real    *)
(* requests as probes of keys that have not shown lately how they do       *)
(* (performance.go).  A behaviour is the life of one such pool; `picker'   *)
(* says which.  What makes an entry a candidate (status, cooldown, the     *)
(* keys a request has tried, the allowlist of an aggregate's child) is     *)
(* decided elsewhere and may be different for every pick.                  *)
(*                                                                         *)
(* The cost of a key is a floating-point function of its last five         *)
(* samples.  Here any candidate may be the cheapest, so that what is shown *)
(* holds whatever the upstreams' timings are.  Time passes in minutes; the *)
(* monotonic clock tells any two picks apart.                              *)
(***************************************************************************)
EXTENDS Integers, FiniteSets, FiniteSetsExt

CONSTANTS
  Pickers,      \* the pools considered, among weighted, round_robin, performance
  Size,         \* the number of entries of each
  Weight, Priority,     \* of the entries of an aggregate, sorted by priority
  explorationInterval,  \* 10 in the code: picks that pay for one probe
  sampleFreshness,      \* 5 in the code: minutes for which a sample counts
  MaxFailed,            \* 4 in the code: cap of failedSamples
  MaxInflight,          \* bound on concurrent attempts with one key
  MaxChanges            \* bound on router rebuilds and resets of statistics

ASSUME SelectionConstants ==
  /\ Pickers \subseteq {"weighted", "round_robin", "performance"}
  /\ Size \in [Pickers -> Nat \ {0}]
  /\ {explorationInterval, sampleFreshness, MaxFailed, MaxInflight} \subseteq Nat \ {0}
  /\ MaxChanges \in Nat

\* newAggregatePool replaces a weight that is not positive by 1.
ASSUME AggregateConstants ==
  "weighted" \in Pickers => /\ Weight \in [1 .. Size["weighted"] -> Nat \ {0}]
                           /\ Priority \in [1 .. Size["weighted"] -> Int]

VARIABLES
  picker,
  rrIdx,          \* where round robin and ties start
  currentWeights, \* smooth weighted round robin
  credit,         \* explorationState, shared by router generations
  keys,           \* what a KeyState holds for scheduling
  lastAttempt,    \* of each key, 0 for MinInt64; only the order of times is kept
  changes,
  watched,        \* history: any one of the entries, and for it
  present,        \*   whether it was a candidate of the last pick
  taken,          \*   whether it was its result
  waits           \*   how many picks in a row have passed it over

vars == <<picker, rrIdx, currentWeights, credit, keys, lastAttempt, changes,
          watched, present, taken, waits>>
history == <<watched, present, taken, waits>>

Entries == 1 .. Size[picker]

\* expires and explore are minutes left until sampleExpires and nextExplore;
\* behind: statsGeneration is not the generation of the statistics any more.
KeyStates ==
  [inflight : 0..MaxInflight, live : 0..2, failed : 0..MaxFailed,
   expires : 0..sampleFreshness, explore : 0..sampleFreshness, behind : BOOLEAN]

NewKey == [inflight |-> 0, live |-> 0, failed |-> 0,
           expires |-> sampleFreshness, explore |-> 0, behind |-> FALSE]

Init ==
  /\ picker \in Pickers
  /\ rrIdx = 1
  /\ currentWeights = [i \in Entries |-> 0]
  /\ credit = 0
  /\ keys = [i \in Entries |-> NewKey]
  /\ lastAttempt = [i \in Entries |-> 0]
  /\ changes = 0
  /\ watched \in Entries
  /\ present = FALSE /\ taken = FALSE /\ waits = 0

\* The types of the variables.
TypeOK ==
  /\ picker \in Pickers /\ changes \in 0..MaxChanges
  /\ rrIdx \in Entries
  /\ currentWeights \in [Entries -> Int]
  /\ credit \in 0..explorationInterval
  /\ keys \in [Entries -> KeyStates]
  /\ lastAttempt \in [Entries -> 0..Size[picker]]
  /\ watched \in Entries /\ waits \in Nat
  /\ present \in BOOLEAN /\ taken \in BOOLEAN

-----------------------------------------------------------------------------
(***************************************************************************)
(* Picks.                                                                  *)
(***************************************************************************)

After(i) == IF i = Size[picker] THEN 1 ELSE i + 1
Distance(i) == (i - rrIdx + Size[picker]) % Size[picker]

\* A pick among `candidates', for which the watched entry counts if it is one of
\* those that could have claimed it.
Picked(i, candidates, claimants) ==
  /\ present' = (watched \in candidates)
  /\ taken' = (i = watched)
  /\ waits' = IF i # watched /\ watched \in claimants THEN waits + 1 ELSE 0
  /\ UNCHANGED <<picker, changes, watched>>

\* pickAvailableLocked: the candidates of the best tier.
Tier(S) == {i \in S : \A j \in S : Priority[i] <= Priority[j]}

WeightOf(S) == MapThenSumSet(LAMBDA i : Weight[i], S)

\* Every candidate gains its weight.
Credited(S) ==
  [i \in Entries |-> IF i \in S THEN currentWeights[i] + Weight[i] ELSE currentWeights[i]]

\* pickRoundRobinLocked of an aggregate.
PickWeighted(S) ==
  /\ picker = "weighted"
  /\ LET tier == Tier(S)
         raised == Credited(tier)
         best == Min({i \in tier : \A j \in tier : raised[j] <= raised[i]})
     IN  /\ currentWeights' = [raised EXCEPT ![best] = @ - WeightOf(tier)]
         /\ Picked(best, tier, tier)
  /\ UNCHANGED <<rrIdx, credit, keys, lastAttempt>>

\* What AcquireVersioned does to the key it has chosen, and where the next tie starts.
Acquire(i, states) ==
  /\ states[i].inflight < MaxInflight
  /\ keys' = [states EXCEPT ![i].inflight = @ + 1]
  /\ rrIdx' = After(i)

\* pickRoundRobinLocked of a pool.  Inflight plays no part.
PickRoundRobin(S) ==
  /\ picker = "round_robin"
  /\ LET best == CHOOSE i \in S : \A j \in S : Distance(i) <= Distance(j)
     IN  rrIdx' = After(best) /\ Picked(best, S, S)
  /\ UNCHANGED <<currentWeights, credit, keys, lastAttempt>>

\* syncStatsGeneration.
Synced(state) ==
  IF state.behind THEN [NewKey EXCEPT !.inflight = state.inflight] ELSE state

\* Mutant of Due: a key with enough good samples is never probed again.
DueOnce(states, S) ==
  {i \in S : /\ states[i].inflight = 0 /\ states[i].explore = 0
             /\ states[i].live < 2 \/ states[i].failed > 0}

\* Which candidates pickPerformanceLocked would probe, given credit.
Due(states, S) ==
  {i \in S : /\ states[i].inflight = 0 /\ states[i].explore = 0
             /\ states[i].live < 2 \/ states[i].failed > 0 \/ states[i].expires = 0}

\* The probe: the first of the due keys whose last attempt is longest ago.
Oldest(due, last) == Min({i \in due : \A j \in due : last[i] <= last[j]})

\* lastAttempt is set whatever becomes of the attempt, to a time after all others;
\* the times are then numbered again from 1.
Attempt(last, i) ==
  LET time == [last EXCEPT ![i] = Size[picker] + 1]
  IN  [j \in Entries |-> Cardinality({k \in 1..time[j] : \E e \in Entries : time[e] = k})]

\* A key whose statistics were reset has never been attempted.
Forget(last, S) == [i \in Entries |-> IF i \in S THEN 0 ELSE last[i]]

PickPerformance(S) ==
  /\ picker = "performance"
  /\ LET states == [i \in Entries |-> IF i \in S THEN Synced(keys[i]) ELSE keys[i]]
         last == Forget(lastAttempt, {i \in S : keys[i].behind})
         earned == IF credit < explorationInterval THEN credit + 1 ELSE credit
         due == Due(states, S)
         probing == earned = explorationInterval /\ due # {}
     IN  \E i \in IF probing THEN {Oldest(due, last)} ELSE S :
           /\ Acquire(i, states)
           /\ lastAttempt' = Attempt(last, i)
           /\ credit' = IF probing THEN 0 ELSE earned
           /\ Picked(i, S, due)
  /\ UNCHANGED currentWeights

Pick == \E S \in (SUBSET Entries) \ {{}} : PickWeighted(S) \/ PickRoundRobin(S) \/ PickPerformance(S)

-----------------------------------------------------------------------------
(***************************************************************************)
(* Completions, time, and what the console does to a pool.                 *)
(***************************************************************************)

Least(a, b) == IF a <= b THEN a ELSE b

\* A failure is probed again after 1, 2, 4, ... minutes, at most sampleFreshness.
Delay(failed) ==
  LET delay == 2 ^ (failed - 1) IN IF delay \in 1..sampleFreshness THEN delay ELSE sampleFreshness

\* noteSample.
NoteSample(state, success) ==
  LET s == Synced(state)
      failed == IF success THEN 0 ELSE Least(s.failed + 1, MaxFailed)
  IN  [s EXCEPT !.live = Least((IF s.expires = 0 THEN 0 ELSE s.live) + 1, 2),
                !.expires = sampleFreshness, !.failed = failed,
                !.explore = IF success THEN 0 ELSE Delay(failed)]

\* CompleteAttempt; without a sample when the client went away or the key has a
\* newer version.
CompleteAttempt(i, outcome) ==
  /\ keys[i].inflight > 0
  /\ LET s == [keys[i] EXCEPT !.inflight = @ - 1]
     IN  keys' = [keys EXCEPT ![i] = IF outcome = "interrupted" THEN s
                                     ELSE NoteSample(s, outcome = "success")]
  /\ lastAttempt' = IF outcome # "interrupted" /\ keys[i].behind
                      THEN Forget(lastAttempt, {i}) ELSE lastAttempt
  /\ UNCHANGED <<picker, rrIdx, currentWeights, credit, changes, history>>

Tick ==
  /\ keys' = [i \in Entries |-> [keys[i] EXCEPT !.expires = IF @ = 0 THEN 0 ELSE @ - 1,
                                                !.explore = IF @ = 0 THEN 0 ELSE @ - 1]]
  /\ UNCHANGED <<picker, rrIdx, currentWeights, credit, lastAttempt, changes, history>>

\* ResetRuntimeStats of the vendor: the pool finds out when it next looks.
ResetRuntimeStats ==
  /\ picker = "performance" /\ changes < MaxChanges
  /\ changes' = changes + 1
  /\ keys' = [i \in Entries |-> [keys[i] EXCEPT !.behind = TRUE]]
  /\ waits' = 0
  /\ UNCHANGED <<picker, rrIdx, currentWeights, credit, lastAttempt, watched, present, taken>>

\* Mutant of Rebuild: exploration starts over as well.
RebuildForgets ==
  /\ changes < MaxChanges
  /\ changes' = changes + 1
  /\ rrIdx' = 1 /\ credit' = 0
  /\ currentWeights' = [i \in Entries |-> 0]
  /\ waits' = IF picker = "performance" THEN waits ELSE 0
  /\ UNCHANGED <<picker, keys, lastAttempt, watched, present, taken>>

\* A new router: a new pool starts its rotation over; the state of its keys and
\* the credit are the old pool's (ShareRuntimeStateFrom).
Rebuild ==
  /\ changes < MaxChanges
  /\ changes' = changes + 1
  /\ rrIdx' = 1
  /\ currentWeights' = [i \in Entries |-> 0]
  /\ waits' = IF picker = "performance" THEN waits ELSE 0
  /\ UNCHANGED <<picker, credit, keys, lastAttempt, watched, present, taken>>

Ends(i) == i \in Entries /\ \E outcome \in {"success", "failure", "interrupted"} : CompleteAttempt(i, outcome)

Next ==
  \/ Pick
  \/ \E i \in Entries : Ends(i)
  \/ Tick \/ ResetRuntimeStats \/ Rebuild

\* Requests keep coming, every attempt ends (each of its waits has a timeout),
\* and time passes.
Fairness ==
  /\ WF_vars(Pick)
  /\ WF_vars(Tick)
  /\ \A i \in UNION {1..Size[p] : p \in Pickers} : WF_vars(Ends(i))

Spec == Init /\ [][Next]_vars /\ Fairness

-----------------------------------------------------------------------------
(***************************************************************************)
(* Properties.                                                             *)
(***************************************************************************)

MaxWeight == Max({Weight[i] : i \in Entries})

\* A bound on what a child of an aggregate can save up or owe.  Children of equal
\* weight reach it.
Imbalance == (Size[picker] - 1) * MaxWeight

\* However the candidates change from pick to pick (keys that cool down, requests
\* that have tried some, allowlists), an entry that could claim every pick gets
\* one within a bound: a child of the best tier, a key in round robin and, however
\* cheap the other keys look and also across a new router, a key that is due for a
\* probe (docs/performance-and-balancing.md: N keys take about 10 N picks).  And
\* what a child of an aggregate saves up while it is left out, or owes, is bounded
\* as well: one that comes back is not flooded with all it missed.
BoundedUnfairness ==
  CASE picker = "weighted" ->
         /\ waits * Weight[watched] <= 2 * Imbalance
         /\ \A i \in Entries : currentWeights[i] \in -Imbalance .. Imbalance
    [] picker = "round_robin" -> waits <= Size[picker] - 1
    [] picker = "performance" -> waits <= (Size[picker] - 1) * explorationInterval

\* A key or child that is a candidate of every pick from some time on is picked
\* again and again; under performance scheduling also one that has only failed,
\* costs 1e12 and backs off ("normal age-based exploration still allows them to
\* recover", updateCostsLocked), and one with good samples and a dearer cost.
KeptInRotation == (<>[]present) => []<>taken
=============================================================================
