---------------------------- MODULE KeyPoolProofs ----------------------------
(***************************************************************************)
(* Proofs about KeyPool, for every set of keys and requests and every      *)
(* bound.  The inductive invariant is TypeOK strengthened by what ties the *)
(* KeyState objects to the pools, views and attempts that name them.       *)
(***************************************************************************)
EXTENDS KeyPool, FiniteSetTheorems, TLAPS

\* A pool lists a key only with an object of that key that has been created.
Names(pool) ==
  \A k \in Keys : pool[k] # NoState => pool[k][1] = k /\ pool[k][2] <= born[k]

\* An attempt holds an object that exists, with a version it has had.
HeldOK ==
  \A r \in Requests : pc[r] \in {"attempt", "persist"} =>
    /\ held[r] \in Attempts
    /\ held[r].obj[2] <= born[held[r].obj[1]]
    /\ held[r].version <= health[held[r].obj].version

\* The rebuild has room for the objects it will create.
RoomOK ==
  phase = "built" =>
    \A k \in Keys : incoming[k] # NoRecord /\ plan[k] = NoState => born[k] < MaxIncarnations

\* Objects that do not exist yet are neither retired nor left behind.
UnbornOK == \A o \in Objects : retired[o] \/ o \in dropped => o[2] <= born[o[1]]

Inv ==
  /\ TypeOK
  /\ Names(plan)
  /\ phase = "shared" => Names(nextPlan)
  /\ \A r \in Requests : Names(view[r])
  /\ HeldOK
  /\ RoomOK
  /\ UnbornOK

-----------------------------------------------------------------------------
(***************************************************************************)
(* What the operators of the model return.                                 *)
(***************************************************************************)

\* A scaled cooldown is a duration, whatever the level and the base: the
\* product is cut off at the largest duration.
LEMMA ScaledType ==
  ASSUME NEW level, NEW b
  PROVE  scaledCooldownDuration(level, b) \in 0..MaxDuration
<1> DEFINE d == IF level <= 1 THEN b ELSE b * 2^(level - 1)
<1>1. MaxDuration \in 0..MaxDuration
  BY PoolConstants
<1>2. scaledCooldownDuration(level, b) = IF d \in 0..MaxDuration THEN d ELSE MaxDuration
  BY DEF scaledCooldownDuration
<1> HIDE DEF d
<1> QED
  BY <1>1, <1>2

\* The object a stored record is turned into is well formed.
LEMMA NewKeyStateType ==
  ASSUME NEW record \in Records
  PROVE  NewKeyState(record) \in Health
BY PoolConstants DEF NewKeyState, Records, Health

\* recordFailureLocked keeps the health well formed as long as the counter of
\* failures is below its bound.
LEMMA CooledType ==
  ASSUME NEW h \in Health, NEW b, h.failures < MaxFailures
  PROVE  /\ Cooled(h, b) \in Health
         /\ Cooled(h, b).version = h.version
<1> DEFINE level == IF h.level < MaxLevel THEN h.level + 1 ELSE h.level
           cool  == scaledCooldownDuration(level, b)
<1>1. cool \in 0..MaxDuration
  BY ScaledType
<1>2. level \in 0..MaxLevel
  BY PoolConstants DEF Health
<1>3. Cooled(h, b) = [status |-> h.status, version |-> h.version,
                      failures |-> h.failures + 1, level |-> level, cool |-> cool]
  BY DEF Cooled
<1> HIDE DEF level, cool
<1> QED
  BY <1>1, <1>2, <1>3, PoolConstants DEF Health

\* The result of an attempt keeps the health well formed and never changes the
\* version it speaks for.
LEMMA HealthAfterType ==
  ASSUME NEW h \in Health, NEW outcome \in Outcomes, NEW b,
         outcome = "cooldown" => h.failures < MaxFailures
  PROVE  /\ HealthAfter(h, outcome, b) \in Health
         /\ HealthAfter(h, outcome, b).version = h.version
<1>1. CASE outcome = "cooldown"
  BY <1>1, CooledType DEF HealthAfter
<1>2. CASE outcome = "success"
  BY <1>2, PoolConstants DEF HealthAfter, Health
<1>3. CASE outcome = "observe"
  BY <1>3, PoolConstants DEF HealthAfter, Health
<1>4. CASE outcome = "disable"
  BY <1>4, PoolConstants DEF HealthAfter, disableLocked, NewKeyState, Health, Statuses
<1>5. CASE outcome = "interrupted"
  BY <1>5 DEF HealthAfter
<1> QED
  BY <1>1, <1>2, <1>3, <1>4, <1>5 DEF Outcomes

LEMMA EnableType ==
  ASSUME NEW h \in Health
  PROVE  /\ enableLocked(h) \in Health
         /\ enableLocked(h).version = h.version
BY PoolConstants DEF enableLocked, NewKeyState, Health, Statuses

-----------------------------------------------------------------------------
(***************************************************************************)
(* The inductive invariant.                                                *)
(***************************************************************************)

LEMMA InitInv == Init => Inv
<1> SUFFICES ASSUME NEW records \in Stores, PoolInit(records)
             PROVE  Inv
  BY DEF Init
<1> USE DEF PoolInit
<1>1. \A k \in Keys : records[k] # NoRecord => records[k] \in Records
  BY DEF Stores
<1>2. BlankKeyState \in Health
  <2>1. [status |-> "active", version |-> 1] \in Records
    BY RecordConstants DEF Records, Statuses, Versions
  <2> QED
    BY <2>1, NewKeyStateType DEF BlankKeyState
<1>3. TypeOK
  <2>1. born \in [Keys -> 0..MaxIncarnations] /\ inflight \in [Objects -> Nat]
        /\ retired \in [Objects -> BOOLEAN] /\ dropped \subseteq Objects
    BY PoolConstants
  <2>2. health \in [Objects -> Health]
    BY <1>1, <1>2, NewKeyStateType DEF Objects
  <2>3. plan \in [Keys -> Objects \cup {NoState}]
    BY PoolConstants DEF Objects
  <2>4. incoming \in Stores
    BY DEF Stores
  <2> QED
    BY <2>1, <2>2, <2>3, <2>4 DEF TypeOK
<1>4. Names(plan)
  BY DEF Names
<1>5. \A r \in Requests : Names(view[r])
  BY DEF Names
<1>6. HeldOK /\ RoomOK /\ UnbornOK
  BY DEF HeldOK, RoomOK, UnbornOK
<1> QED
  BY <1>3, <1>4, <1>5, <1>6 DEF Inv

\* Leaving the router keeps the views well formed.
LEMMA LeaveRouterOK ==
  ASSUME Inv, NEW r \in Requests, LeaveRouter(r), UNCHANGED born
  PROVE  /\ pc' \in [Requests -> {"idle", "routing", "attempt", "persist"}]
         /\ view' \in [Requests -> [Keys -> Objects \cup {NoState}]]
         /\ tried' \in [Requests -> SUBSET Keys]
         /\ (\A q \in Requests : Names(view[q]))'
BY DEF Inv, TypeOK, LeaveRouter, Names

LEMMA StartRequestInv ==
  ASSUME Inv, NEW r \in Requests, StartRequest(r)
  PROVE  Inv'
<1> USE DEF StartRequest, stateVars, buildVars
<1>1. TypeOK'
  BY DEF Inv, TypeOK
<1>2. HeldOK'
  BY DEF Inv, TypeOK, HeldOK
<1>3. (\A q \in Requests : Names(view[q]))'
  BY DEF Inv, TypeOK, Names
<1> QED
  BY <1>1, <1>2, <1>3 DEF Inv, Names, RoomOK, UnbornOK

LEMMA AcquireInv ==
  ASSUME Inv, NEW r \in Requests, NEW k \in Keys, AcquireVersioned(r, k)
  PROVE  Inv'
<1> DEFINE o == view[r][k]
<1> USE DEF AcquireVersioned, buildVars
<1>1. o \in Objects /\ o[1] = k /\ o[2] <= born[k]
  BY DEF Inv, TypeOK, Names
<1>2. health[o] \in Health /\ health[o].version \in Versions
  BY <1>1 DEF Inv, TypeOK, Health
<1>3. TypeOK'
  <2>1. inflight' \in [Objects -> Nat]
    BY <1>1 DEF Inv, TypeOK
  <2>2. held' \in [Requests -> Attempts \cup {NoAttempt}]
    BY <1>1, <1>2 DEF Inv, TypeOK, Attempts
  <2> QED
    BY <2>1, <2>2 DEF Inv, TypeOK
<1>4. HeldOK'
  <2> SUFFICES ASSUME NEW q \in Requests, pc'[q] \in {"attempt", "persist"}
               PROVE  /\ held'[q] \in Attempts
                      /\ held'[q].obj[2] <= born[held'[q].obj[1]]
                      /\ held'[q].version <= health[held'[q].obj].version
    BY DEF HeldOK
  <2>1. CASE q = r
    <3>1. held'[q] = [obj |-> o, version |-> health[o].version]
      BY <2>1 DEF Inv, TypeOK
    <3>2. health[o].version <= health[o].version
      BY <1>2, RecordConstants DEF Versions
    <3> QED
      BY <3>1, <3>2, <1>1, <1>2 DEF Attempts
  <2>2. CASE q # r
    BY <2>2 DEF Inv, TypeOK, HeldOK
  <2> QED
    BY <2>1, <2>2
<1> QED
  BY <1>3, <1>4 DEF Inv, Names, RoomOK, UnbornOK

LEMMA ReleaseInv ==
  ASSUME Inv, NEW r \in Requests, ReleaseAttempt(r)
  PROVE  Inv'
<1> USE DEF ReleaseAttempt, buildVars
<1>1. held[r] \in Attempts /\ held[r].obj \in Objects
  BY DEF Inv, HeldOK, Attempts
<1>2. inflight' \in [Objects -> Nat]
  BY <1>1 DEF Inv, TypeOK, releaseInflightLocked
<1>3. TypeOK'
  BY <1>2, LeaveRouterOK DEF Inv, TypeOK
<1>4. HeldOK'
  BY DEF Inv, TypeOK, HeldOK, LeaveRouter
<1>5. (\A q \in Requests : Names(view[q]))'
  BY LeaveRouterOK
<1> QED
  BY <1>3, <1>4, <1>5 DEF Inv, Names, RoomOK, UnbornOK

LEMMA CompleteInv ==
  ASSUME Inv, NEW r \in Requests, NEW outcome \in Outcomes, NEW b \in BaseCooldowns,
         CompleteAttempt(r, outcome, b)
  PROVE  Inv'
<1> DEFINE a == held[r]
           current == currentVersionLocked(a)
<1>1. pc[r] = "attempt" /\ UNCHANGED <<born, retired, dropped, plan, phase, incoming, nextPlan>>
  BY DEF CompleteAttempt, buildVars
<1>2. a \in Attempts /\ a.obj \in Objects /\ a.obj[1] \in Keys
  BY <1>1 DEF Inv, HeldOK, Attempts, Objects
<1>3. /\ HealthAfter(health[a.obj], outcome, b) \in Health
      /\ HealthAfter(health[a.obj], outcome, b).version = health[a.obj].version
  BY <1>2, HealthAfterType DEF CompleteAttempt, Inv, TypeOK
<1>4. /\ health' \in [Objects -> Health]
      /\ \A o \in Objects : health'[o].version = health[o].version
  BY <1>2, <1>3 DEF CompleteAttempt, Inv, TypeOK
<1>5. inflight' \in [Objects -> Nat]
  BY <1>2 DEF CompleteAttempt, Inv, TypeOK, releaseInflightLocked
<1>6. lastErr' \in [Keys -> Attempts \cup {NoAttempt}]
  BY <1>2 DEF CompleteAttempt, Inv, TypeOK, LastErrAfter
<1>7. /\ held' \in [Requests -> Attempts \cup {NoAttempt}]
      /\ \A q \in Requests \ {r} : held'[q] = held[q] /\ pc'[q] = pc[q]
      /\ pc'[r] \in {"attempt", "persist"} => held'[r] = held[r]
  BY DEF CompleteAttempt, LeaveRouter, Inv, TypeOK
<1>8. /\ pc' \in [Requests -> {"idle", "routing", "attempt", "persist"}]
      /\ view' \in [Requests -> [Keys -> Objects \cup {NoState}]]
      /\ tried' \in [Requests -> SUBSET Keys]
      /\ (\A q \in Requests : Names(view[q]))'
  <2>1. CASE outcome \in {"success", "interrupted"}
    BY <1>1, <2>1, LeaveRouterOK DEF CompleteAttempt
  <2>2. CASE outcome \notin {"success", "interrupted"}
    <3>1. UNCHANGED <<view, tried>>
      BY <2>2 DEF CompleteAttempt
    <3>2. pc' \in [Requests -> {"idle", "routing", "attempt", "persist"}]
      BY <2>2 DEF CompleteAttempt, Inv, TypeOK
    <3> QED
      BY <1>1, <3>1, <3>2 DEF Inv, TypeOK, Names
  <2> QED
    BY <2>1, <2>2
<1>9. TypeOK'
  BY <1>1, <1>4, <1>5, <1>6, <1>7, <1>8 DEF Inv, TypeOK
<1>10. HeldOK'
  <2> SUFFICES ASSUME NEW q \in Requests, pc'[q] \in {"attempt", "persist"}
               PROVE  /\ held'[q] \in Attempts
                      /\ held'[q].obj[2] <= born'[held'[q].obj[1]]
                      /\ held'[q].version <= health'[held'[q].obj].version
    BY DEF HeldOK
  <2>1. held'[q] = held[q] /\ pc[q] \in {"attempt", "persist"}
    BY <1>1, <1>7
  <2>2. held[q] \in Attempts /\ held[q].obj \in Objects
    BY <2>1 DEF Inv, HeldOK, Attempts
  <2> QED
    BY <1>1, <1>4, <2>1, <2>2 DEF Inv, HeldOK
<1> QED
  BY <1>1, <1>8, <1>9, <1>10 DEF Inv, Names, RoomOK, UnbornOK

LEMMA PersistInv ==
  ASSUME Inv, NEW r \in Requests, PersistDisabledKeyAsync(r)
  PROVE  Inv'
<1> USE DEF PersistDisabledKeyAsync, stateVars, buildVars
<1>1. TypeOK'
  BY DEF Inv, TypeOK
<1>2. HeldOK'
  BY DEF Inv, TypeOK, HeldOK
<1> QED
  BY <1>1, <1>2 DEF Inv, Names, RoomOK, UnbornOK

LEMMA EndRequestInv ==
  ASSUME Inv, NEW r \in Requests, EndRequest(r)
  PROVE  Inv'
<1> USE DEF EndRequest, stateVars, buildVars
<1>1. TypeOK'
  BY LeaveRouterOK DEF Inv, TypeOK
<1>2. HeldOK'
  BY DEF Inv, TypeOK, HeldOK, LeaveRouter
<1>3. (\A q \in Requests : Names(view[q]))'
  BY LeaveRouterOK
<1> QED
  BY <1>1, <1>2, <1>3 DEF Inv, Names, RoomOK, UnbornOK

LEMMA TickInv ==
  ASSUME Inv, Tick
  PROVE  Inv'
<1> USE DEF Tick, buildVars, reqVars
<1>1. /\ health' \in [Objects -> Health]
      /\ \A o \in Objects : health'[o].version = health[o].version
  <2> SUFFICES ASSUME NEW o \in Objects
               PROVE  health'[o] \in Health /\ health'[o].version = health[o].version
    BY DEF Inv, TypeOK
  <2>1. health[o] \in Health
    BY DEF Inv, TypeOK
  <2> QED
    BY <2>1, PoolConstants DEF Health
<1>2. TypeOK'
  BY <1>1 DEF Inv, TypeOK
<1>3. HeldOK'
  BY <1>1 DEF Inv, HeldOK, Attempts
<1> QED
  BY <1>2, <1>3 DEF Inv, Names, RoomOK, UnbornOK

LEMMA BuildInv ==
  ASSUME Inv, NEW records \in Stores, BuildRouter(records)
  PROVE  Inv'
<1> USE DEF BuildRouter, stateVars, reqVars
<1>1. TypeOK'
  BY DEF Inv, TypeOK
<1>2. RoomOK'
  BY DEF RoomOK
<1> QED
  BY <1>1, <1>2 DEF Inv, Names, HeldOK, UnbornOK

LEMMA BuildAggregateInv ==
  ASSUME Inv, BuildAggregate
  PROVE  Inv'
<1> USE DEF BuildAggregate, stateVars, reqVars
<1>1. TypeOK'
  BY DEF Inv, TypeOK
<1> QED
  BY <1>1 DEF Inv, Names, HeldOK, UnbornOK, RoomOK

LEMMA AbandonInv ==
  ASSUME Inv, AbandonRouter
  PROVE  Inv'
<1> USE DEF AbandonRouter, stateVars, reqVars
<1>1. TypeOK'
  BY DEF Inv, TypeOK, Stores
<1> QED
  BY <1>1 DEF Inv, Names, HeldOK, UnbornOK, RoomOK

LEMMA PublishInv ==
  ASSUME Inv, PublishRouter
  PROVE  Inv'
<1> USE DEF PublishRouter, stateVars, reqVars
<1>1. TypeOK'
  BY DEF Inv, TypeOK, Stores
<1> QED
  BY <1>1 DEF Inv, Names, HeldOK, UnbornOK, RoomOK

LEMMA RecoverInv ==
  ASSUME Inv, NEW k \in Keys, RecoverKey(k)
  PROVE  Inv'
<1> USE DEF RecoverKey, buildVars, reqVars
<1>1. plan[k] \in Objects
  BY DEF Inv, TypeOK
<1>2. /\ health' \in [Objects -> Health]
      /\ \A o \in Objects : health'[o].version = health[o].version
  BY <1>1, EnableType DEF Inv, TypeOK
<1>3. TypeOK'
  BY <1>2 DEF Inv, TypeOK
<1>4. HeldOK'
  BY <1>2 DEF Inv, HeldOK, Attempts
<1> QED
  BY <1>3, <1>4 DEF Inv, Names, RoomOK, UnbornOK

\* What binding the new pool does to one object: it is created, overridden by a
\* newer version, or left as it is.
LEMMA SharePoolHealth ==
  ASSUME Inv, SharePool
  PROVE  /\ health' \in [Objects -> Health]
         /\ \A o \in Objects : o[2] <= born[o[1]] =>
              \/ health'[o] = health[o]
              \/ health'[o].version > health[o].version
<1> DEFINE added == {k \in Keys : incoming[k] # NoRecord /\ plan[k] = NoState}
           kept  == {k \in Keys : incoming[k] # NoRecord /\ plan[k] # NoState}
           newer == {k \in kept : Supersedes(incoming[k], health[plan[k]])}
<1>1. health' = [o \in Objects |->
        IF o[1] \in added /\ o = <<o[1], born[o[1]] + 1>> THEN NewKeyState(incoming[o[1]])
        ELSE IF o[1] \in newer /\ o = plan[o[1]] THEN NewKeyState(incoming[o[1]])
        ELSE health[o]]
  BY DEF SharePool
<1>2. \A k \in added \cup kept : incoming[k] \in Records
  BY DEF Inv, TypeOK, Stores
<1>3. \A k \in added \cup kept : NewKeyState(incoming[k]) \in Health
  BY <1>2, NewKeyStateType
<1>4. health' \in [Objects -> Health]
  BY <1>1, <1>3 DEF Inv, TypeOK
<1>5. ASSUME NEW o \in Objects, o[2] <= born[o[1]]
      PROVE  health'[o] = health[o] \/ health'[o].version > health[o].version
  <2>1. o[1] \in Keys /\ o[2] \in Nat /\ born[o[1]] \in Nat
    BY PoolConstants DEF Inv, TypeOK, Objects
  <2>2. o # <<o[1], born[o[1]] + 1>>
    <3> SUFFICES ASSUME o = <<o[1], born[o[1]] + 1>>
                 PROVE  FALSE
      OBVIOUS
    <3>1. o[2] = born[o[1]] + 1
      OBVIOUS
    <3> QED
      BY <1>5, <2>1, <3>1
  <2>3. CASE o[1] \in newer /\ o = plan[o[1]]
    <3>1. health'[o] = NewKeyState(incoming[o[1]])
      BY <1>1, <2>2, <2>3
    <3>2. incoming[o[1]].version > health[o].version
      BY <2>3 DEF Supersedes
    <3> QED
      BY <3>1, <3>2 DEF NewKeyState
  <2>4. CASE ~(o[1] \in newer /\ o = plan[o[1]])
    BY <1>1, <2>2, <2>4
  <2> QED
    BY <2>3, <2>4
<1> QED
  BY <1>4, <1>5

LEMMA SharePoolInv ==
  ASSUME Inv, SharePool
  PROVE  Inv'
<1> DEFINE added == {k \in Keys : incoming[k] # NoRecord /\ plan[k] = NoState}
           kept  == {k \in Keys : incoming[k] # NoRecord /\ plan[k] # NoState}
<1>1. /\ phase = "built" /\ phase' = "shared"
      /\ UNCHANGED <<inflight, dropped, plan, incoming, pc, view, tried, held>>
  BY DEF SharePool, reqVars
<1>2. nextPlan' = [k \in Keys |-> IF k \in added THEN <<k, born[k] + 1>>
                                  ELSE IF k \in kept THEN plan[k] ELSE NoState]
  BY DEF SharePool
<1>3. born' = [k \in Keys |-> IF k \in added THEN born[k] + 1 ELSE born[k]]
  BY DEF SharePool
<1>4. retired' = [o \in Objects |-> retired[o] \/ o \in RemovedObjects]
  BY DEF SharePool
<1>5. \A k \in added : born[k] \in 0..MaxIncarnations /\ born[k] < MaxIncarnations
  BY <1>1 DEF Inv, TypeOK, RoomOK
<1>6. /\ born' \in [Keys -> 0..MaxIncarnations]
      /\ \A k \in Keys : born[k] <= born'[k]
  BY <1>3, <1>5, PoolConstants DEF Inv, TypeOK
<1>7. nextPlan' \in [Keys -> Objects \cup {NoState}]
  <2>1. ASSUME NEW k \in added
        PROVE  <<k, born[k] + 1>> \in Objects
    <3>1. k \in Keys
      OBVIOUS
    <3>2. born[k] + 1 \in 1..MaxIncarnations
      BY <1>5, PoolConstants
    <3> QED
      BY <3>1, <3>2 DEF Objects
  <2> QED
    BY <1>2, <2>1 DEF Inv, TypeOK
<1>8. lastErr' \in [Keys -> Attempts \cup {NoAttempt}]
  BY DEF SharePool, Inv, TypeOK
<1>9. retired' \in [Objects -> BOOLEAN]
  BY <1>4 DEF Inv, TypeOK
<1>10. TypeOK'
  BY <1>1, <1>6, <1>7, <1>8, <1>9, SharePoolHealth DEF Inv, TypeOK
<1>11. \A pool \in [Keys -> Objects \cup {NoState}] :
         Names(pool) => \A k \in Keys : pool[k] # NoState => pool[k][1] = k /\ pool[k][2] <= born'[k]
  <2> SUFFICES ASSUME NEW pool \in [Keys -> Objects \cup {NoState}], Names(pool),
                      NEW k \in Keys, pool[k] # NoState
               PROVE  pool[k][1] = k /\ pool[k][2] <= born'[k]
    OBVIOUS
  <2>1. pool[k][2] \in Nat /\ born[k] \in Nat /\ born'[k] \in Nat
    BY <1>6, PoolConstants DEF Inv, TypeOK, Objects
  <2> QED
    BY <1>6, <2>1 DEF Names
<1>12. Names(plan)' /\ (\A r \in Requests : Names(view[r]))'
  BY <1>1, <1>11 DEF Inv, TypeOK, Names
<1>13. Names(nextPlan)'
  <2> SUFFICES ASSUME NEW k \in Keys, nextPlan'[k] # NoState
               PROVE  nextPlan'[k][1] = k /\ nextPlan'[k][2] <= born'[k]
    BY DEF Names
  <2>1. CASE k \in added
    <3>1. nextPlan'[k] = <<k, born[k] + 1>> /\ born'[k] = born[k] + 1
      BY <1>2, <1>3, <2>1
    <3>2. born[k] + 1 \in Nat
      BY <1>5, <2>1, PoolConstants
    <3> QED
      BY <3>1, <3>2
  <2>2. CASE k \notin added
    BY <1>2, <1>3, <2>2 DEF Inv, Names
  <2> QED
    BY <2>1, <2>2
<1>14. HeldOK'
  <2> SUFFICES ASSUME NEW r \in Requests, pc[r] \in {"attempt", "persist"}
               PROVE  /\ held[r] \in Attempts
                      /\ held[r].obj[2] <= born'[held[r].obj[1]]
                      /\ held[r].version <= health'[held[r].obj].version
    BY <1>1 DEF HeldOK
  <2> DEFINE o == held[r].obj
  <2>1. /\ held[r] \in Attempts /\ o \in Objects /\ o[1] \in Keys /\ o[2] \in Nat
        /\ o[2] <= born[o[1]] /\ held[r].version <= health[o].version
    BY PoolConstants DEF Inv, HeldOK, Attempts, Objects
  <2>2. born[o[1]] \in Nat /\ born'[o[1]] \in Nat /\ born[o[1]] <= born'[o[1]]
    BY <1>6, <2>1, PoolConstants DEF Inv, TypeOK
  <2>3. /\ held[r].version \in Nat /\ health[o].version \in Nat /\ health'[o].version \in Nat
    BY <2>1, <1>10, RecordConstants DEF Inv, TypeOK, Health, Attempts, Versions
  <2>4. health[o].version <= health'[o].version
    BY <2>1, <2>3, SharePoolHealth
  <2> QED
    BY <2>1, <2>2, <2>3, <2>4
<1>15. UnbornOK'
  <2> SUFFICES ASSUME NEW o \in Objects, retired'[o] \/ o \in dropped
               PROVE  o[2] <= born'[o[1]]
    BY <1>1 DEF UnbornOK
  <2>1. o[1] \in Keys /\ o[2] \in Nat
    BY PoolConstants DEF Objects
  <2>2. born[o[1]] \in Nat /\ born'[o[1]] \in Nat /\ born[o[1]] <= born'[o[1]]
    BY <1>6, <2>1, PoolConstants DEF Inv, TypeOK
  <2>3. o[2] <= born[o[1]]
    <3>1. CASE retired[o] \/ o \in dropped
      BY <3>1 DEF Inv, UnbornOK
    <3>2. CASE o \in RemovedObjects
      BY <3>2 DEF Inv, Names, RemovedObjects
    <3> QED
      BY <1>4, <3>1, <3>2
  <2> QED
    BY <2>1, <2>2, <2>3
<1> QED
  BY <1>1, <1>10, <1>12, <1>13, <1>14, <1>15 DEF Inv, RoomOK

\* A vendor that becomes an aggregate leaves its objects as they are.
LEMMA LeavePoolInv ==
  ASSUME Inv, LeavePool
  PROVE  Inv'
<1> USE DEF LeavePool, reqVars
<1>1. {plan[k] : k \in Keys} \ {NoState} \subseteq Objects
  BY DEF Inv, TypeOK
<1>2. TypeOK'
  BY <1>1 DEF Inv, TypeOK
<1>3. UnbornOK'
  <2> SUFFICES ASSUME NEW o \in Objects, retired[o] \/ o \in dropped'
               PROVE  o[2] <= born[o[1]]
    BY DEF UnbornOK
  <2>1. CASE retired[o] \/ o \in dropped
    BY <2>1 DEF Inv, UnbornOK
  <2>2. CASE o \in {plan[k] : k \in Keys} \ {NoState}
    BY <2>2 DEF Inv, Names
  <2> QED
    BY <2>1, <2>2
<1>4. Names(nextPlan)'
  BY DEF Names
<1> QED
  BY <1>2, <1>3, <1>4 DEF Inv, Names, HeldOK, RoomOK

LEMMA ShareHealth ==
  ASSUME Inv, ShareRuntimeStateFrom
  PROVE  /\ health' \in [Objects -> Health]
         /\ \A o \in Objects : o[2] <= born[o[1]] =>
              \/ health'[o] = health[o]
              \/ health'[o].version > health[o].version
<1>1. CASE SharePool
  BY <1>1, SharePoolHealth
<1>2. CASE LeavePool
  BY <1>2 DEF LeavePool, Inv, TypeOK
<1> QED
  BY <1>1, <1>2 DEF ShareRuntimeStateFrom

LEMMA ShareInv ==
  ASSUME Inv, ShareRuntimeStateFrom
  PROVE  Inv'
BY SharePoolInv, LeavePoolInv DEF ShareRuntimeStateFrom

\* Every step keeps the invariant.
LEMMA NextInv == Inv /\ [Next]_poolVars => Inv'
<1> SUFFICES ASSUME Inv, [Next]_poolVars
             PROVE  Inv'
  OBVIOUS
<1>1. CASE UNCHANGED poolVars
  BY <1>1 DEF poolVars, stateVars, buildVars, reqVars, Inv, TypeOK, Names, HeldOK, RoomOK, UnbornOK
<1>2. CASE Next
  BY <1>2, StartRequestInv, AcquireInv, ReleaseInv, CompleteInv, PersistInv, EndRequestInv,
     TickInv, BuildInv, BuildAggregateInv, AbandonInv, ShareInv, PublishInv, RecoverInv DEF Next
<1> QED
  BY <1>1, <1>2

\* The types of the pool's state are kept by every behaviour.
THEOREM PoolTypeCorrect == Spec => []TypeOK
<1>1. Inv => TypeOK
  BY DEF Inv
<1> QED
  BY <1>1, InitInv, NextInv, PTL DEF Spec

-----------------------------------------------------------------------------
(***************************************************************************)
(* The inflight counters.                                                  *)
(***************************************************************************)

\* A counter is a natural number of holders, each of them one request.
LEMMA HoldersFinite == \A o : IsFiniteSet(Holders(o)) /\ Cardinality(Holders(o)) \in Nat
<1> TAKE o
<1>1. Holders(o) \subseteq Requests
  BY DEF Holders
<1> QED
  BY <1>1, PoolConstants, FS_Subset, FS_CardinalityType

\* A step that neither takes nor gives back a key keeps every counter right.
LEMMA InflightUntouched ==
  ASSUME InflightConserved, UNCHANGED inflight,
         \A r \in Requests : /\ pc'[r] = "attempt" <=> pc[r] = "attempt"
                             /\ pc[r] = "attempt" => held'[r] = held[r]
  PROVE  InflightConserved'
<1>1. \A o : Holders(o)' = Holders(o)
  BY DEF Holders
<1> QED
  BY <1>1 DEF InflightConserved

\* Giving a key back takes one holder away and counts one down, from a counter
\* that is positive because the holder is counted.
LEMMA InflightReleased ==
  ASSUME Inv, InflightConserved, NEW r \in Requests, pc[r] = "attempt", pc'[r] # "attempt",
         inflight' = [inflight EXCEPT ![held[r].obj] = releaseInflightLocked(held[r].obj)],
         \A q \in Requests \ {r} : pc'[q] = pc[q] /\ held'[q] = held[q]
  PROVE  InflightConserved'
<1>1. PICK x \in Objects : x = held[r].obj
  BY DEF Inv, HeldOK, Attempts
<1>2. r \in Holders(x) /\ Holders(x)' = Holders(x) \ {r}
  BY <1>1 DEF Holders
<1>3. \A o \in Objects : o # x => Holders(o)' = Holders(o)
  BY <1>1 DEF Holders
<1>4. Cardinality(Holders(x)') = Cardinality(Holders(x)) - 1
  BY <1>2, HoldersFinite, FS_RemoveElement
<1>5. Cardinality(Holders(x)) > 0
  <2>1. Cardinality(Holders(x)) # 0
    BY <1>2, HoldersFinite, FS_EmptySet
  <2> QED
    BY <2>1, HoldersFinite
<1>6. inflight'[x] = inflight[x] - 1
  <2>1. inflight[x] = Cardinality(Holders(x)) /\ inflight[x] > 0
    BY <1>1, <1>5 DEF InflightConserved
  <2> QED
    BY <1>1, <2>1 DEF releaseInflightLocked, Inv, TypeOK
<1>7. \A o \in Objects : o # x => inflight'[o] = inflight[o]
  BY <1>1 DEF Inv, TypeOK
<1> QED
  BY <1>1, <1>3, <1>4, <1>6, <1>7 DEF InflightConserved

LEMMA InflightAcquired ==
  ASSUME Inv, InflightConserved, NEW r \in Requests, NEW k \in Keys, AcquireVersioned(r, k)
  PROVE  InflightConserved'
<1> DEFINE x == view[r][k]
<1> USE DEF AcquireVersioned
<1>1. x \in Objects
  BY DEF Inv, TypeOK
<1>2. pc'[r] = "attempt" /\ held'[r].obj = x
  BY DEF Inv, TypeOK
<1>3. \A q \in Requests \ {r} : pc'[q] = pc[q] /\ held'[q] = held[q]
  BY DEF Inv, TypeOK
<1>4. r \notin Holders(x) /\ Holders(x)' = Holders(x) \cup {r}
  BY <1>2, <1>3 DEF Holders
<1>5. \A o \in Objects : o # x => Holders(o)' = Holders(o)
  BY <1>2, <1>3 DEF Holders
<1>6. Cardinality(Holders(x)') = Cardinality(Holders(x)) + 1
  BY <1>4, HoldersFinite, FS_AddElement
<1>7. inflight'[x] = inflight[x] + 1
  BY <1>1 DEF Inv, TypeOK
<1>8. \A o \in Objects : o # x => inflight'[o] = inflight[o]
  BY DEF Inv, TypeOK
<1> QED
  BY <1>1, <1>5, <1>6, <1>7, <1>8 DEF InflightConserved

LEMMA InflightNext == Inv /\ InflightConserved /\ [Next]_poolVars => InflightConserved'
<1> SUFFICES ASSUME Inv, InflightConserved, [Next]_poolVars
             PROVE  InflightConserved'
  OBVIOUS
<1>1. ASSUME NEW r \in Requests, StartRequest(r)
      PROVE  InflightConserved'
  BY <1>1, InflightUntouched DEF StartRequest, stateVars, Inv, TypeOK
<1>2. ASSUME NEW r \in Requests, NEW k \in Keys, AcquireVersioned(r, k)
      PROVE  InflightConserved'
  BY <1>2, InflightAcquired
<1>3. ASSUME NEW r \in Requests, ReleaseAttempt(r)
      PROVE  InflightConserved'
  BY <1>3, InflightReleased DEF ReleaseAttempt, LeaveRouter, Inv, TypeOK
<1>4. ASSUME NEW r \in Requests, NEW outcome \in Outcomes, NEW b \in BaseCooldowns,
             CompleteAttempt(r, outcome, b)
      PROVE  InflightConserved'
  <2>1. /\ pc[r] = "attempt" /\ pc'[r] # "attempt"
        /\ \A q \in Requests \ {r} : pc'[q] = pc[q] /\ held'[q] = held[q]
    BY <1>4 DEF CompleteAttempt, LeaveRouter, Inv, TypeOK
  <2>2. inflight' = [inflight EXCEPT ![held[r].obj] = releaseInflightLocked(held[r].obj)]
    BY <1>4 DEF CompleteAttempt
  <2> QED
    BY <2>1, <2>2, InflightReleased
<1>5. ASSUME NEW r \in Requests, PersistDisabledKeyAsync(r) \/ EndRequest(r)
      PROVE  InflightConserved'
  BY <1>5, InflightUntouched
     DEF PersistDisabledKeyAsync, EndRequest, LeaveRouter, stateVars, Inv, TypeOK
<1>6. CASE UNCHANGED <<inflight, pc, held>>
  BY <1>6, InflightUntouched
<1>7. CASE Tick \/ AbandonRouter \/ BuildAggregate \/ ShareRuntimeStateFrom \/ PublishRouter
           \/ (\E records \in Stores : BuildRouter(records)) \/ \E k \in Keys : RecoverKey(k)
  BY <1>6, <1>7 DEF Tick, AbandonRouter, BuildAggregate, ShareRuntimeStateFrom, SharePool,
     LeavePool, PublishRouter, BuildRouter, RecoverKey, stateVars, reqVars
<1>8. CASE UNCHANGED poolVars
  BY <1>6, <1>8 DEF poolVars, stateVars, reqVars
<1> QED
  BY <1>1, <1>2, <1>3, <1>4, <1>5, <1>7, <1>8 DEF Next

\* In every behaviour the inflight counter of a KeyState is the number of
\* attempts that hold it, across router rebuilds, removals and re-additions.
THEOREM InflightCorrect == Spec => []InflightConserved
<1>1. Init => InflightConserved
  <2> SUFFICES ASSUME NEW records \in Stores, PoolInit(records), NEW o \in Objects
               PROVE  inflight[o] = Cardinality(Holders(o))
    BY DEF Init, InflightConserved
  <2>1. Holders(o) = {}
    BY DEF Holders, PoolInit
  <2> QED
    BY <2>1, FS_EmptySet DEF PoolInit
<1> QED
  BY <1>1, InitInv, NextInv, InflightNext, PTL DEF Spec

-----------------------------------------------------------------------------
(***************************************************************************)
(* Retired objects.                                                        *)
(***************************************************************************)

LEMMA RetiredSharePool ==
  ASSUME Inv, RetiredMatchesPlan, SharePool
  PROVE  RetiredMatchesPlan'
<1> DEFINE added == {k \in Keys : incoming[k] # NoRecord /\ plan[k] = NoState}
           kept  == {k \in Keys : incoming[k] # NoRecord /\ plan[k] # NoState}
<1>1. phase = "built" /\ phase' = "shared" /\ Live = plan /\ Live' = nextPlan'
  BY DEF SharePool, Live
<1>2. nextPlan' = [k \in Keys |-> IF k \in added THEN <<k, born[k] + 1>>
                                  ELSE IF k \in kept THEN plan[k] ELSE NoState]
  BY DEF SharePool
<1>3. born' = [k \in Keys |-> IF k \in added THEN born[k] + 1 ELSE born[k]]
  BY DEF SharePool
<1>4. /\ retired' = [o \in Objects |-> retired[o] \/ o \in RemovedObjects]
      /\ dropped' = dropped
  BY DEF SharePool
<1> SUFFICES ASSUME NEW o \in Objects, o[2] <= born'[o[1]]
             PROVE  /\ retired'[o] <=> nextPlan'[o[1]] # o /\ o \notin dropped
                    /\ o \in dropped => nextPlan'[o[1]] # o
  BY <1>1, <1>4 DEF RetiredMatchesPlan
<1>5. o[1] \in Keys /\ o[2] \in Nat /\ born[o[1]] \in Nat /\ o = <<o[1], o[2]>>
  BY PoolConstants DEF Objects, Inv, TypeOK
<1>6. o \in RemovedObjects => incoming[o[1]] = NoRecord /\ plan[o[1]] = o
  BY DEF Inv, Names, RemovedObjects
<1>7. o # NoState
  BY PoolConstants DEF Objects
<1>8. CASE o[1] \in added
  <2>1. o \notin RemovedObjects /\ nextPlan'[o[1]] = <<o[1], born[o[1]] + 1>>
    BY <1>2, <1>5, <1>6, <1>8
  <2>2. CASE o[2] = born[o[1]] + 1
    <3>1. ~retired[o] /\ o \notin dropped
      BY <1>5, <2>2 DEF Inv, UnbornOK
    <3>2. o = <<o[1], born[o[1]] + 1>>
      BY <1>5, <2>2
    <3> QED
      BY <1>4, <2>1, <3>1, <3>2
  <2>3. CASE o[2] # born[o[1]] + 1
    <3>1. o[2] <= born[o[1]]
      BY <1>3, <1>5, <1>8, <2>3
    <3>2. retired[o] <=> o \notin dropped
      BY <1>1, <1>7, <1>8, <3>1 DEF RetiredMatchesPlan
    <3>3. o # <<o[1], born[o[1]] + 1>>
      BY <2>3
    <3> QED
      BY <1>4, <2>1, <3>2, <3>3
  <2> QED
    BY <2>2, <2>3
<1>9. CASE o[1] \notin added
  <2>1. o[2] <= born[o[1]]
    BY <1>3, <1>5, <1>9
  <2>2. /\ retired[o] <=> plan[o[1]] # o /\ o \notin dropped
        /\ o \in dropped => plan[o[1]] # o
    BY <1>1, <2>1 DEF RetiredMatchesPlan
  <2>3. CASE o[1] \in kept
    BY <1>2, <1>4, <1>5, <1>6, <1>9, <2>2, <2>3
  <2>4. CASE o[1] \notin kept
    <3>1. incoming[o[1]] = NoRecord /\ nextPlan'[o[1]] = NoState
      BY <1>2, <1>5, <1>9, <2>4
    <3>2. plan[o[1]] = o => o \in RemovedObjects
      BY <1>5, <1>7, <3>1 DEF RemovedObjects
    <3> QED
      BY <1>4, <1>6, <1>7, <2>2, <3>1, <3>2
  <2> QED
    BY <2>3, <2>4
<1> QED
  BY <1>8, <1>9

LEMMA RetiredLeavePool ==
  ASSUME Inv, RetiredMatchesPlan, LeavePool
  PROVE  RetiredMatchesPlan'
<1>1. /\ Live = plan /\ Live' = [k \in Keys |-> NoState]
      /\ UNCHANGED <<born, retired>>
      /\ dropped' = dropped \cup ({plan[k] : k \in Keys} \ {NoState})
  BY DEF LeavePool, Live
<1> SUFFICES ASSUME NEW o \in Objects, o[2] <= born[o[1]]
             PROVE  /\ retired[o] <=> Live'[o[1]] # o /\ o \notin dropped'
                    /\ o \in dropped' => Live'[o[1]] # o
  BY <1>1 DEF RetiredMatchesPlan
<1>2. o[1] \in Keys /\ o # NoState
  BY PoolConstants DEF Objects
<1>3. /\ retired[o] <=> plan[o[1]] # o /\ o \notin dropped
      /\ o \in dropped => plan[o[1]] # o
  BY <1>1 DEF RetiredMatchesPlan
<1>4. o \in {plan[k] : k \in Keys} <=> plan[o[1]] = o
  BY <1>2 DEF Inv, Names
<1> QED
  BY <1>1, <1>2, <1>3, <1>4

\* In every behaviour an object that exists is in the latest bound pool, or
\* retired, or left behind by a pool that an aggregate replaced, and only one of
\* these, so overlapping router generations agree but for the last kind.
THEOREM RetiredCorrect == Spec => []RetiredMatchesPlan
<1>1. Init => RetiredMatchesPlan
  <2> SUFFICES ASSUME NEW records \in Stores, PoolInit(records),
                      NEW o \in Objects, o[2] <= born[o[1]]
               PROVE  ~retired[o] /\ plan[o[1]] = o /\ o \notin dropped
    BY DEF Init, PoolInit, RetiredMatchesPlan, Live
  <2>1. o[1] \in Keys /\ o[2] \in Nat /\ o[2] >= 1 /\ o = <<o[1], o[2]>>
    BY PoolConstants DEF Objects
  <2>2. records[o[1]] # NoRecord /\ o[2] = 1
    BY <2>1 DEF PoolInit
  <2> QED
    BY <2>1, <2>2 DEF PoolInit
<1>2. Inv /\ RetiredMatchesPlan /\ [Next]_poolVars => RetiredMatchesPlan'
  <2> SUFFICES ASSUME Inv, RetiredMatchesPlan, [Next]_poolVars
               PROVE  RetiredMatchesPlan'
    OBVIOUS
  <2>1. CASE ShareRuntimeStateFrom
    BY <2>1, RetiredSharePool, RetiredLeavePool DEF ShareRuntimeStateFrom
  <2>2. CASE UNCHANGED <<born, retired, dropped>> /\ Live' = Live
    BY <2>2 DEF RetiredMatchesPlan
  <2>3. CASE PublishRouter
    BY <2>2, <2>3 DEF PublishRouter, Live, stateVars
  <2>4. CASE AbandonRouter \/ BuildAggregate \/ \E records \in Stores : BuildRouter(records)
    BY <2>2, <2>4 DEF AbandonRouter, BuildAggregate, BuildRouter, Live, stateVars
  <2>5. CASE UNCHANGED <<born, retired, dropped, plan, phase, nextPlan>>
    BY <2>2, <2>5 DEF Live
  <2>6. CASE Tick \/ \E k \in Keys : RecoverKey(k)
    BY <2>5, <2>6 DEF Tick, RecoverKey, buildVars
  <2>7. ASSUME NEW r \in Requests,
               \/ StartRequest(r) \/ ReleaseAttempt(r) \/ PersistDisabledKeyAsync(r)
               \/ EndRequest(r) \/ \E k \in Keys : AcquireVersioned(r, k)
               \/ \E outcome \in Outcomes, b \in BaseCooldowns : CompleteAttempt(r, outcome, b)
        PROVE  RetiredMatchesPlan'
    BY <2>5, <2>7 DEF StartRequest, ReleaseAttempt, PersistDisabledKeyAsync, EndRequest,
       AcquireVersioned, CompleteAttempt, stateVars, buildVars
  <2>8. CASE UNCHANGED poolVars
    BY <2>5, <2>8 DEF poolVars, stateVars, buildVars
  <2> QED
    BY <2>1, <2>3, <2>4, <2>6, <2>7, <2>8 DEF Next
<1> QED
  BY <1>1, <1>2, InitInv, NextInv, PTL DEF Spec

\* In every behaviour the object a request picks a key from, in whichever router
\* generation, is the one of the latest bound pool, unless an aggregate took over
\* the vendor's id in between: the finding on OldRoutersAgree has no other cause.
THEOREM OldPicksCorrect ==
  Spec => [][\A r \in Requests, k \in Keys :
               AcquireVersioned(r, k) => Live[k] = view[r][k] \/ view[r][k] \in dropped]_poolVars
<1> DEFINE Picks == \A r \in Requests, k \in Keys :
             AcquireVersioned(r, k) => Live[k] = view[r][k] \/ view[r][k] \in dropped
<1>1. Inv /\ RetiredMatchesPlan => Picks
  <2> SUFFICES ASSUME Inv, RetiredMatchesPlan, NEW r \in Requests, NEW k \in Keys,
                      AcquireVersioned(r, k), view[r][k] \notin dropped
               PROVE  Live[k] = view[r][k]
    OBVIOUS
  <2>1. view[r][k] # NoState /\ ~retired[view[r][k]]
    BY DEF AcquireVersioned, isAvailableLocked
  <2>2. /\ view[r][k] \in Objects /\ view[r][k][1] = k
        /\ view[r][k][2] <= born[k]
    BY <2>1 DEF Inv, TypeOK, Names
  <2> QED
    BY <2>1, <2>2 DEF RetiredMatchesPlan
<1>2. Inv /\ RetiredMatchesPlan => [Picks]_poolVars
  BY <1>1
<1> QED
  BY <1>2, InitInv, NextInv, RetiredCorrect, PTL DEF Spec

-----------------------------------------------------------------------------
(***************************************************************************)
(* Obsolete results.                                                       *)
(***************************************************************************)

\* No step undoes a retirement or takes the version of an existing object back.
LEMMA VersionsGrow ==
  ASSUME Inv, [Next]_poolVars, NEW o \in Objects, o[2] <= born[o[1]]
  PROVE  /\ retired[o] => retired'[o]
         /\ health'[o].version >= health[o].version
<1>1. health[o].version \in Nat
  BY RecordConstants DEF Inv, TypeOK, Health, Versions
<1>2. CASE UNCHANGED <<retired, health>>
  BY <1>1, <1>2
<1>3. CASE ShareRuntimeStateFrom
  <2>1. retired[o] => retired'[o]
    BY <1>3 DEF ShareRuntimeStateFrom, SharePool, LeavePool
  <2>2. health'[o] = health[o] \/ health'[o].version > health[o].version
    BY <1>3, ShareHealth
  <2>3. health'[o].version \in Nat
    BY <1>3, ShareHealth, RecordConstants DEF Health, Versions
  <2> QED
    BY <1>1, <2>1, <2>2, <2>3
<1>4. CASE Tick
  BY <1>1, <1>4, RecordConstants, PoolConstants DEF Tick, Inv, TypeOK, Health
<1>5. ASSUME NEW k \in Keys, RecoverKey(k)
      PROVE  UNCHANGED retired /\ health'[o].version = health[o].version
  BY <1>5, EnableType DEF RecoverKey, Inv, TypeOK
<1>6. ASSUME NEW r \in Requests, NEW outcome \in Outcomes, NEW b \in BaseCooldowns,
             CompleteAttempt(r, outcome, b)
      PROVE  UNCHANGED retired /\ health'[o].version = health[o].version
  <2>1. pc[r] = "attempt" /\ UNCHANGED retired
    BY <1>6 DEF CompleteAttempt
  <2>2. held[r].obj \in Objects
    BY <2>1 DEF Inv, HeldOK, Attempts
  <2>3. HealthAfter(health[held[r].obj], outcome, b).version = health[held[r].obj].version
    BY <1>6, <2>2, HealthAfterType DEF CompleteAttempt, Inv, TypeOK
  <2> QED
    BY <1>6, <2>1, <2>2, <2>3 DEF CompleteAttempt, Inv, TypeOK
<1>7. ASSUME NEW r \in Requests,
             \/ StartRequest(r) \/ ReleaseAttempt(r) \/ PersistDisabledKeyAsync(r)
             \/ EndRequest(r) \/ \E k \in Keys : AcquireVersioned(r, k)
      PROVE  UNCHANGED <<retired, health>>
  BY <1>7 DEF StartRequest, ReleaseAttempt, PersistDisabledKeyAsync, EndRequest,
     AcquireVersioned, stateVars
<1>8. ASSUME \/ AbandonRouter \/ BuildAggregate \/ PublishRouter \/ UNCHANGED poolVars
             \/ \E records \in Stores : BuildRouter(records)
      PROVE  UNCHANGED <<retired, health>>
  BY <1>8 DEF AbandonRouter, BuildAggregate, PublishRouter, BuildRouter, poolVars, stateVars
<1> QED
  BY <1>1, <1>2, <1>3, <1>4, <1>5, <1>6, <1>7, <1>8 DEF Next

\* In every behaviour a result that has become obsolete stays obsolete while
\* its request holds the key.
THEOREM StaleCorrect == Spec => StaleStaysStale
<1>1. Inv /\ [Next]_poolVars =>
        [\A r \in Requests :
           pc[r] = "attempt" /\ held'[r] = held[r] /\ ~currentVersionLocked(held[r])
           => ~currentVersionLocked(held[r])']_poolVars
  <2> SUFFICES ASSUME Inv, [Next]_poolVars, NEW r \in Requests, pc[r] = "attempt",
                      held'[r] = held[r], ~currentVersionLocked(held[r])
               PROVE  ~currentVersionLocked(held[r])'
    OBVIOUS
  <2> DEFINE a == held[r]
  <2>1. /\ a \in Attempts /\ a.obj \in Objects /\ a.obj[2] <= born[a.obj[1]]
        /\ a.version <= health[a.obj].version
    BY DEF Inv, HeldOK, Attempts
  <2>2. Inv'
    BY NextInv
  <2>3. a.version \in Nat /\ health[a.obj].version \in Nat /\ health'[a.obj].version \in Nat
    BY <2>1, <2>2, RecordConstants DEF Inv, TypeOK, Health, Attempts, Versions
  <2>4. /\ retired[a.obj] => retired'[a.obj]
        /\ health'[a.obj].version >= health[a.obj].version
    BY <2>1, VersionsGrow
  <2> QED
    BY <2>1, <2>3, <2>4 DEF currentVersionLocked
<1> QED
  BY <1>1, InitInv, NextInv, PTL DEF Spec, StaleStaysStale

-----------------------------------------------------------------------------
(***************************************************************************)
(* Disabled keys.                                                          *)
(***************************************************************************)

\* The result of an attempt never makes a disabled key active.
LEMMA HealthAfterStatus ==
  ASSUME NEW h \in Health, NEW outcome \in Outcomes, NEW b,
         IsActiveStatus(HealthAfter(h, outcome, b).status)
  PROVE  IsActiveStatus(h.status)
<1>1. CASE outcome = "cooldown"
  BY <1>1 DEF HealthAfter, Cooled, IsActiveStatus
<1>2. CASE outcome = "disable"
  BY <1>2 DEF HealthAfter, disableLocked, NewKeyState, IsActiveStatus
<1>3. CASE outcome \in {"success", "observe", "interrupted"}
  BY <1>3 DEF HealthAfter, Health, IsActiveStatus
<1> QED
  BY <1>1, <1>2, <1>3 DEF Outcomes

\* In every behaviour a disabled key becomes active only through a newer
\* persisted version or an administrator's recovery.
THEOREM NoResurrectionCorrect == Spec => NoResurrection
<1> DEFINE Step(o) ==
             ~IsActiveStatus(health[o].status) /\ IsActiveStatus(health'[o].status)
             /\ o[2] <= born[o[1]]
             => health'[o].version > health[o].version \/ \E k \in Keys : RecoverKey(k)
<1>1. Inv /\ [Next]_poolVars => [\A o \in Objects : Step(o)]_poolVars
  <2> SUFFICES ASSUME Inv, [Next]_poolVars, NEW o \in Objects,
                      ~IsActiveStatus(health[o].status), IsActiveStatus(health'[o].status),
                      o[2] <= born[o[1]]
               PROVE  health'[o].version > health[o].version \/ \E k \in Keys : RecoverKey(k)
    OBVIOUS
  <2>1. health'[o] # health[o]
    BY DEF IsActiveStatus
  <2>2. CASE ShareRuntimeStateFrom
    BY <2>1, <2>2, ShareHealth
  <2>3. ASSUME Tick
        PROVE  FALSE
    BY <2>3 DEF Tick, Inv, TypeOK, Health, IsActiveStatus
  <2>4. ASSUME NEW r \in Requests, NEW outcome \in Outcomes, NEW b \in BaseCooldowns,
               CompleteAttempt(r, outcome, b)
        PROVE  FALSE
    <3>1. health'[o] = health[o] \/ health'[o] = HealthAfter(health[o], outcome, b)
      BY <2>4 DEF CompleteAttempt, Inv, TypeOK
    <3> QED
      BY <2>1, <3>1, HealthAfterStatus DEF Inv, TypeOK
  <2>5. ASSUME NEW r \in Requests,
               \/ StartRequest(r) \/ ReleaseAttempt(r) \/ PersistDisabledKeyAsync(r)
               \/ EndRequest(r) \/ \E k \in Keys : AcquireVersioned(r, k)
        PROVE  FALSE
    BY <2>1, <2>5 DEF StartRequest, ReleaseAttempt, PersistDisabledKeyAsync, EndRequest,
       AcquireVersioned, stateVars
  <2>6. ASSUME \/ AbandonRouter \/ BuildAggregate \/ PublishRouter \/ UNCHANGED poolVars
               \/ \E records \in Stores : BuildRouter(records)
        PROVE  FALSE
    BY <2>1, <2>6 DEF AbandonRouter, BuildAggregate, PublishRouter, BuildRouter, poolVars, stateVars
  <2> QED
    BY <2>2, <2>3, <2>4, <2>5, <2>6 DEF Next
<1> QED
  BY <1>1, InitInv, NextInv, PTL DEF Spec, NoResurrection

-----------------------------------------------------------------------------
(***************************************************************************)
(* Cooldowns.                                                              *)
(***************************************************************************)

\* An object that does not exist yet is not cooling.
UnbornUncooled == \A o \in Objects : o[2] > born[o[1]] => health[o].cool = 0

\* What the result of an attempt does to a cooldown: a success, an observation
\* and an interruption keep it, another error starts a new one, a disable ends it.
LEMMA HealthAfterCool ==
  ASSUME NEW h \in Health, NEW outcome \in Outcomes, NEW b
  PROVE  \/ HealthAfter(h, outcome, b).cool = h.cool
         \/ HealthAfter(h, outcome, b).failures = h.failures + 1
         \/ HealthAfter(h, outcome, b).status = "disabled_auto"
<1>1. CASE outcome = "cooldown"
  BY <1>1 DEF HealthAfter, Cooled
<1>2. CASE outcome = "disable"
  BY <1>2 DEF HealthAfter, disableLocked, NewKeyState
<1>3. CASE outcome \in {"success", "observe", "interrupted"}
  BY <1>3 DEF HealthAfter, Health
<1> QED
  BY <1>1, <1>2, <1>3 DEF Outcomes

\* What a step may do to the health of one object.
LEMMA HealthStep ==
  ASSUME Inv, [Next]_poolVars, NEW o \in Objects
  PROVE  \/ health'[o] = health[o]
         \/ /\ health'[o].cool = 0
            /\ \/ health'[o].version > health[o].version
               \/ o[2] > born[o[1]]
               \/ \E k \in Keys : RecoverKey(k)
         \/ Tick
         \/ /\ o[2] <= born[o[1]]
            /\ \/ health'[o].cool = health[o].cool
               \/ health'[o].failures = health[o].failures + 1
               \/ health'[o].status = "disabled_auto"
<1>1. o[2] \in Nat /\ o[1] \in Keys /\ born[o[1]] \in Nat /\ health[o] \in Health
  BY PoolConstants DEF Objects, Inv, TypeOK
<1>2. CASE ShareRuntimeStateFrom
  <2>1. health'[o] = health[o] \/ health'[o] = NewKeyState(incoming[o[1]])
    BY <1>2 DEF ShareRuntimeStateFrom, SharePool, LeavePool
  <2>2. o[2] <= born[o[1]] => health'[o] = health[o] \/ health'[o].version > health[o].version
    BY <1>2, ShareHealth
  <2>3. NewKeyState(incoming[o[1]]).cool = 0
    BY DEF NewKeyState
  <2> QED BY <1>1, <2>1, <2>2, <2>3
<1>3. ASSUME NEW k \in Keys, RecoverKey(k)
      PROVE  health'[o] = health[o] \/ health'[o].cool = 0
  BY <1>3 DEF RecoverKey, enableLocked, NewKeyState, Inv, TypeOK
<1>4. ASSUME NEW r \in Requests, NEW outcome \in Outcomes, NEW b \in BaseCooldowns,
             CompleteAttempt(r, outcome, b)
      PROVE  \/ health'[o] = health[o]
             \/ o[2] <= born[o[1]] /\ health'[o] = HealthAfter(health[o], outcome, b)
  <2>1. pc[r] = "attempt"
    BY <1>4 DEF CompleteAttempt
  <2>2. held[r].obj \in Objects /\ held[r].obj[2] <= born[held[r].obj[1]]
    BY <2>1 DEF Inv, HeldOK, Attempts
  <2>3. CASE o = held[r].obj
    BY <1>4, <2>2, <2>3 DEF CompleteAttempt, Inv, TypeOK
  <2>4. CASE o # held[r].obj
    BY <1>4, <2>4 DEF CompleteAttempt, Inv, TypeOK
  <2> QED BY <2>3, <2>4
<1>5. ASSUME NEW r \in Requests,
             \/ StartRequest(r) \/ ReleaseAttempt(r) \/ PersistDisabledKeyAsync(r)
             \/ EndRequest(r) \/ \E k \in Keys : AcquireVersioned(r, k)
      PROVE  health' = health
  BY <1>5 DEF StartRequest, ReleaseAttempt, PersistDisabledKeyAsync, EndRequest,
     AcquireVersioned, stateVars
<1>6. ASSUME \/ AbandonRouter \/ BuildAggregate \/ PublishRouter \/ UNCHANGED poolVars
             \/ \E records \in Stores : BuildRouter(records)
      PROVE  health' = health
  BY <1>6 DEF AbandonRouter, BuildAggregate, PublishRouter, BuildRouter, poolVars, stateVars
<1>7. ASSUME NEW r \in Requests, NEW outcome \in Outcomes, NEW b \in BaseCooldowns,
             CompleteAttempt(r, outcome, b)
      PROVE  \/ health'[o] = health[o]
             \/ /\ o[2] <= born[o[1]]
                /\ \/ health'[o].cool = health[o].cool
                   \/ health'[o].failures = health[o].failures + 1
                   \/ health'[o].status = "disabled_auto"
  BY <1>1, <1>4, <1>7, HealthAfterCool
<1> QED
  BY <1>2, <1>3, <1>5, <1>6, <1>7 DEF Next

\* No step takes back the creation of an object.
LEMMA BornGrows ==
  ASSUME Inv, [Next]_poolVars, NEW k \in Keys
  PROVE  born[k] \in Nat /\ born'[k] \in Nat /\ born'[k] >= born[k]
<1>1. born[k] \in Nat
  BY PoolConstants DEF Inv, TypeOK
<1>2. CASE ShareRuntimeStateFrom
  BY <1>1, <1>2 DEF ShareRuntimeStateFrom, SharePool, LeavePool
<1>3. CASE UNCHANGED born
  BY <1>1, <1>3
<1>4. ShareRuntimeStateFrom \/ UNCHANGED born
  BY DEF Next, StartRequest, ReleaseAttempt, PersistDisabledKeyAsync, EndRequest, AcquireVersioned,
         CompleteAttempt, Tick, RecoverKey, AbandonRouter, BuildAggregate, PublishRouter, BuildRouter,
         poolVars, stateVars
<1> QED BY <1>2, <1>3, <1>4

LEMMA UnbornUncooledInductive ==
  /\ Init => UnbornUncooled
  /\ Inv /\ UnbornUncooled /\ [Next]_poolVars => UnbornUncooled'
<1>1. Init => UnbornUncooled
  BY DEF Init, PoolInit, NewKeyState, BlankKeyState, UnbornUncooled
<1>2. ASSUME Inv, UnbornUncooled, [Next]_poolVars, NEW o \in Objects, o[2] > born'[o[1]]
      PROVE  health'[o].cool = 0
  <2>1. o[2] \in Nat /\ o[1] \in Keys /\ health[o] \in Health
    BY <1>2, PoolConstants DEF Objects, Inv, TypeOK
  <2>2. o[2] > born[o[1]] /\ ~(o[2] <= born[o[1]])
    BY <1>2, <2>1, BornGrows
  <2>3. health[o].cool = 0
    BY <1>2, <2>2 DEF UnbornUncooled
  <2>4. Tick => health'[o] = health[o]
    BY <2>1, <2>3, PoolConstants DEF Tick
  <2> QED BY <1>2, <2>2, <2>3, <2>4, HealthStep
<1> QED BY <1>1, <1>2 DEF UnbornUncooled

\* In every behaviour a cooldown in force ends early only by an administrator, by
\* the disable of the key, or by a later cooldown of it: not by the success of
\* another request in flight and not by a rebuild of the router.
THEOREM CooldownCorrect == Spec => CooldownHonoured
<1> DEFINE Step(o) ==
             /\ health'[o].cool < health[o].cool
             /\ health'[o].version = health[o].version
             /\ ~\E k \in Keys : RecoverKey(k)
             => \/ Tick
                \/ health'[o].status = "disabled_auto"
                \/ health'[o].failures = health[o].failures + 1
<1>1. Inv /\ UnbornUncooled /\ [Next]_poolVars => [\A o \in Objects : Step(o)]_poolVars
  <2> SUFFICES ASSUME Inv, UnbornUncooled, [Next]_poolVars, NEW o \in Objects,
                      health'[o].cool < health[o].cool, health'[o].version = health[o].version,
                      ~\E k \in Keys : RecoverKey(k)
               PROVE  \/ Tick
                      \/ health'[o].status = "disabled_auto"
                      \/ health'[o].failures = health[o].failures + 1
    OBVIOUS
  <2>1. Inv'
    BY NextInv
  <2>2. /\ health[o].cool \in Nat /\ health'[o].cool \in Nat /\ health[o].version \in Nat
    BY <2>1, PoolConstants, RecordConstants DEF Inv, TypeOK, Health, Versions
  <2>3. health'[o].cool # health[o].cool /\ health[o].cool # 0
        /\ ~(health'[o].version > health[o].version)
    BY <2>2
  <2>4. ~(o[2] > born[o[1]])
    BY <2>3 DEF UnbornUncooled
  <2> QED
    BY <2>3, <2>4, HealthStep
<1> QED
  BY <1>1, InitInv, NextInv, UnbornUncooledInductive, PTL DEF Spec, CooldownHonoured
=============================================================================
