------------------------------- MODULE KeyPool -------------------------------
(***************************************************************************)
(* The upstream-key pool of one vendor (internal/balancer/pool.go) across  *)
(* overlapping router generations (internal/gateway/runtime.go).           *)
(*                                                                         *)
(* A router generation is immutable once published; a request keeps the    *)
(* generation it loaded until it ends, so several generations serve at the *)
(* same time.  What they share is the KeyState objects: a rebuild binds    *)
(* every retained key to the object of the previous generation and retires *)
(* the objects of the removed keys; a rebuild that turns the vendor into   *)
(* an aggregate, which has no key pool, does neither.  A KeyState object   *)
(* is named by its key and the number of its incarnation, because a key    *)
(* that is removed and added again gets a new object while requests may    *)
(* still hold the old one.                                                 *)
(*                                                                         *)
(* The pool mutex makes every pool method one step.  CooldownUntil is kept *)
(* as the time that is left of it, which is all the code ever compares.    *)
(* Which of the available keys a strategy prefers is left open here.       *)
(***************************************************************************)
EXTENDS KeyRecords, FiniteSets

CONSTANTS
  Requests,         \* the concurrent client requests
  NoState,          \* a key that is not in a pool
  NoAttempt,        \* a request without an acquired key
  MaxIncarnations,  \* bound on the KeyState objects created for one key
  MaxFailures,      \* bound on the counter of consecutive failures
  MaxLevel,         \* the cap on CooldownLevel, 10 in recordFailureLocked
  MaxDuration,      \* the largest duration, math.MaxInt64 in the code
  BaseCooldowns     \* the cooldowns an error decision can ask for

ASSUME PoolConstants ==
  /\ IsFiniteSet(Requests)
  /\ MaxIncarnations \in Nat \ {0}
  /\ MaxFailures \in Nat /\ MaxLevel \in Nat /\ MaxDuration \in Nat
  /\ BaseCooldowns \subseteq Nat
  /\ NoState \notin Keys \X (1..MaxIncarnations)

VARIABLES
  born,      \* born[k]: KeyState objects created for key k so far
  inflight,  \* KeyState.Inflight of each object
  retired,   \* KeyState.retired of each object
  dropped,   \* history: the objects of the pools an aggregate has replaced
  health,    \* status, version, failures, level and remaining cooldown
  lastErr,   \* RuntimeStats.LastError of each key: the attempt that wrote it
  plan,      \* the published pool: the object of each key, or NoState
  phase,     \* the router rebuild, serialised by Runtime.updateMu
  incoming,  \* the records the rebuild has read
  nextPlan,  \* the pool of the rebuilt, not yet published router
  pc,        \* what each request is doing
  view,      \* the pool of the router generation each request loaded
  tried,     \* the keys a request has tried (the excluded indexes)
  held       \* the attempt a request holds: object and selected version

reqVars   == <<pc, view, tried, held>>
buildVars == <<phase, incoming, nextPlan>>
stateVars == <<born, inflight, retired, dropped, health, lastErr>>
poolVars  == <<stateVars, plan, buildVars, reqVars>>

Objects  == Keys \X (1..MaxIncarnations)
Attempts == [obj : Objects, version : Versions]
Health   == [status : Statuses, version : Versions, failures : 0..MaxFailures,
             level : 0..MaxLevel, cool : 0..MaxDuration]
Outcomes == {"interrupted", "success", "observe", "cooldown", "disable"}

\* A new KeyState, as NewPoolWithConfigs makes it from a stored record.
NewKeyState(record) ==
  [status |-> record.status, version |-> record.version,
   failures |-> 0, level |-> 0, cool |-> 0]

BlankKeyState == NewKeyState([status |-> "active", version |-> 1])

\* The objects new picks read: those of the latest pool that has been bound.
Live == IF phase = "shared" THEN nextPlan ELSE plan

-----------------------------------------------------------------------------
(***************************************************************************)
(* Picking a key.                                                          *)
(***************************************************************************)

isAvailableLocked(o) ==
  /\ ~retired[o]
  /\ IsActiveStatus(health[o].status)
  /\ health[o].cool = 0

\* Whether a result of this attempt still speaks for the object it was taken
\* from: the object is in use and no newer version has been bound to it.
currentVersionLocked(a) == ~retired[a.obj] /\ health[a.obj].version = a.version

\* ServeHTTP loads the current router once; the request keeps that pool.
StartRequest(r) ==
  /\ pc[r] = "idle"
  /\ pc' = [pc EXCEPT ![r] = "routing"]
  /\ view' = [view EXCEPT ![r] = plan]
  /\ tried' = [tried EXCEPT ![r] = {}]
  /\ UNCHANGED <<stateVars, plan, buildVars, held>>

\* The handler returns and drops its router generation.
LeaveRouter(r) ==
  /\ pc' = [pc EXCEPT ![r] = "idle"]
  /\ view' = [view EXCEPT ![r] = [k \in Keys |-> NoState]]
  /\ tried' = [tried EXCEPT ![r] = {}]

\* Some available key of the request's own pool; selection, the inflight
\* increment and the capture of the version are one critical section.
AcquireVersioned(r, k) ==
  LET o == view[r][k] IN
  /\ pc[r] = "routing"
  /\ o # NoState
  /\ k \notin tried[r]
  /\ isAvailableLocked(o)
  /\ pc' = [pc EXCEPT ![r] = "attempt"]
  /\ held' = [held EXCEPT ![r] = [obj |-> o, version |-> health[o].version]]
  /\ tried' = [tried EXCEPT ![r] = @ \cup {k}]
  /\ inflight' = [inflight EXCEPT ![o] = @ + 1]
  /\ UNCHANGED <<born, retired, dropped, health, lastErr, plan, buildVars, view>>

\* Mutant of releaseInflightLocked: a retired object is not counted down.
releaseUnlessRetired(o) == IF retired[o] THEN inflight[o] ELSE inflight[o] - 1

\* Inflight after releaseInflightLocked, which never goes below zero.
releaseInflightLocked(o) == IF inflight[o] > 0 THEN inflight[o] - 1 ELSE inflight[o]

\* newAttempt cannot build the upstream request: the key is given back
\* without a result and the request is answered with an error.
ReleaseAttempt(r) ==
  /\ pc[r] = "attempt"
  /\ inflight' = [inflight EXCEPT ![held[r].obj] = releaseInflightLocked(held[r].obj)]
  /\ held' = [held EXCEPT ![r] = NoAttempt]
  /\ LeaveRouter(r)
  /\ UNCHANGED <<born, retired, dropped, health, lastErr, plan, buildVars>>

-----------------------------------------------------------------------------
(***************************************************************************)
(* Completing an attempt.                                                  *)
(***************************************************************************)

\* Mutant of scaledCooldownDuration: the product does not saturate.
unboundedCooldownDuration(level, base) == IF level <= 1 THEN base ELSE base * 2^(level - 1)

\* base * 2^(level-1), saturating at the largest duration.
scaledCooldownDuration(level, base) ==
  LET d == IF level <= 1 THEN base ELSE base * 2^(level - 1)
  IN  IF d \in 0..MaxDuration THEN d ELSE MaxDuration

\* recordFailureLocked followed by the assignment of CooldownUntil.
Cooled(h, base) ==
  LET level == IF h.level < MaxLevel THEN h.level + 1 ELSE h.level
  IN  [status |-> h.status, version |-> h.version, failures |-> h.failures + 1,
       level |-> level, cool |-> scaledCooldownDuration(level, base)]

\* Both clear the cooldown, the level and the failures, as a new object has them.
disableLocked(h) == NewKeyState([status |-> "disabled_auto", version |-> h.version])

enableLocked(h) == NewKeyState([status |-> "active", version |-> h.version])

\* Mutant of HealthAfter: a success also ends the cooldown.
HealthAfterUncooled(h, outcome, base) ==
  CASE outcome = "success"  -> [h EXCEPT !.failures = 0, !.level = 0, !.cool = 0]
    [] outcome = "observe"  -> [h EXCEPT !.failures = 0]
    [] outcome = "cooldown" -> Cooled(h, base)
    [] outcome = "disable"  -> disableLocked(h)
    [] OTHER                -> h

\* The health a current result leaves behind.
HealthAfter(h, outcome, base) ==
  CASE outcome = "success"  -> [status |-> h.status, version |-> h.version,
                               failures |-> 0, level |-> 0, cool |-> h.cool]
    [] outcome = "observe"  -> [h EXCEPT !.failures = 0]
    [] outcome = "cooldown" -> Cooled(h, base)
    [] outcome = "disable"  -> disableLocked(h)
    [] OTHER                -> h

\* The last error after a current result: recordSuccessLocked clears it,
\* recordErrorLocked replaces it, an interruption leaves it alone.
LastErrAfter(k, a, outcome) ==
  CASE outcome = "success"     -> NoAttempt
    [] outcome = "interrupted" -> lastErr[k]
    [] OTHER                   -> a

\* CompleteAttempt: release, then apply the result if it is still current.
\* Only a current auto-disable is handed on for persistence.  A success or an
\* interruption ends the request; after an error it may fail over.
CompleteAttempt(r, outcome, base) ==
  LET a == held[r]
      o == a.obj
      current == currentVersionLocked(a)
  IN
  /\ pc[r] = "attempt"
  /\ outcome = "cooldown" => health[o].failures < MaxFailures
  /\ inflight' = [inflight EXCEPT ![o] = releaseInflightLocked(o)]
  /\ health' = IF current THEN [health EXCEPT ![o] = HealthAfter(@, outcome, base)]
                          ELSE health
  /\ lastErr' = IF current THEN [lastErr EXCEPT ![o[1]] = LastErrAfter(o[1], a, outcome)]
                           ELSE lastErr
  /\ held' = IF current /\ outcome = "disable" THEN held
             ELSE [held EXCEPT ![r] = NoAttempt]
  /\ IF outcome \in {"success", "interrupted"}
       THEN LeaveRouter(r)
       ELSE /\ pc' = [pc EXCEPT ![r] = IF current /\ outcome = "disable"
                                        THEN "persist" ELSE "routing"]
            /\ UNCHANGED <<view, tried>>
  /\ UNCHANGED <<born, retired, dropped, plan, buildVars>>

\* finish calls persistDisabledKeyAsync after the pool lock is released.
PersistDisabledKeyAsync(r) ==
  /\ pc[r] = "persist"
  /\ pc' = [pc EXCEPT ![r] = "routing"]
  /\ held' = [held EXCEPT ![r] = NoAttempt]
  /\ UNCHANGED <<stateVars, plan, buildVars, view, tried>>

EndRequest(r) ==
  /\ pc[r] = "routing"
  /\ LeaveRouter(r)
  /\ UNCHANGED <<stateVars, plan, buildVars, held>>

\* One unit of time passes.
Tick ==
  /\ \E o \in Objects : health[o].cool > 0
  /\ health' = [o \in Objects |->
       IF health[o].cool > 0 THEN [health[o] EXCEPT !.cool = @ - 1] ELSE health[o]]
  /\ UNCHANGED <<born, inflight, retired, dropped, lastErr, plan, buildVars, reqVars>>

-----------------------------------------------------------------------------
(***************************************************************************)
(* Rebuilding the router (Runtime.updateLocked): read the records, persist *)
(* the configuration, bind the new pool to the live objects, publish it.   *)
(***************************************************************************)

\* buildRouter has read these records; the objects it makes are unbound.
BuildRouter(records) ==
  /\ phase = "idle"
  /\ \A k \in Keys : records[k] # NoRecord /\ plan[k] = NoState => born[k] < MaxIncarnations
  /\ phase' = "built"
  /\ incoming' = records
  /\ UNCHANGED <<stateVars, plan, nextPlan, reqVars>>

\* buildRouter has made an aggregate of the vendor, which keeps its id and has
\* no pool, whatever keys are stored under that id.
BuildAggregate ==
  /\ phase = "idle"
  /\ phase' = "aggregate"
  /\ UNCHANGED <<stateVars, plan, incoming, nextPlan, reqVars>>

\* The configuration cannot be persisted: the previous router stays.
AbandonRouter ==
  /\ phase \in {"built", "aggregate"}
  /\ phase' = "idle"
  /\ incoming' = [k \in Keys |-> NoRecord]
  /\ UNCHANGED <<stateVars, plan, nextPlan, reqVars>>

\* Mutants of Supersedes: an equal version overrides too, any other version
\* does, only an enabling one does.
SupersedesOrEqual(record, h) == record.version >= h.version
SupersedesOther(record, h) == record.version # h.version
SupersedesToEnable(record, h) == record.version > h.version /\ IsActiveStatus(record.status)

\* Only a newer persisted version may override live health.
Supersedes(record, h) == record.version > h.version

\* Mutant of RemovedObjects: nothing is retired.
RemovedNone == {}

\* The objects of the keys that the new pool does not list.  A vendor that is
\* gone is a pool that lists none: Retire takes every object it had.
RemovedObjects == {plan[k] : k \in {j \in Keys : incoming[j] = NoRecord}} \ {NoState}

\* A vendor with a key pool: a retained key keeps its object, a new key gets a
\* new one, and the objects of removed keys are retired.  When the published
\* vendor is an aggregate there is nothing to share and every key is new.
SharePool ==
  LET added   == {k \in Keys : incoming[k] # NoRecord /\ plan[k] = NoState}
      kept    == {k \in Keys : incoming[k] # NoRecord /\ plan[k] # NoState}
      fresh(k) == <<k, born[k] + 1>>
      newer   == {k \in kept : Supersedes(incoming[k], health[plan[k]])}
  IN
  /\ phase = "built"
  /\ phase' = "shared"
  /\ nextPlan' = [k \in Keys |-> IF k \in added THEN fresh(k)
                                 ELSE IF k \in kept THEN plan[k] ELSE NoState]
  /\ born' = [k \in Keys |-> IF k \in added THEN born[k] + 1 ELSE born[k]]
  /\ health' = [o \in Objects |->
       IF o[1] \in added /\ o = fresh(o[1]) THEN NewKeyState(incoming[o[1]])
       ELSE IF o[1] \in newer /\ o = plan[o[1]] THEN NewKeyState(incoming[o[1]])
       ELSE health[o]]
  /\ lastErr' = [k \in Keys |->
       IF k \in newer /\ IsActiveStatus(incoming[k].status) THEN NoAttempt ELSE lastErr[k]]
  /\ retired' = [o \in Objects |-> retired[o] \/ o \in RemovedObjects]
  /\ UNCHANGED <<inflight, dropped, plan, incoming, reqVars>>

\* A vendor without a key pool is skipped, and because its id is still there the
\* pool it had is not retired either.
LeavePool ==
  /\ phase = "aggregate"
  /\ phase' = "shared"
  /\ nextPlan' = [k \in Keys |-> NoState]
  /\ dropped' = dropped \cup ({plan[k] : k \in Keys} \ {NoState})
  /\ UNCHANGED <<born, inflight, retired, health, lastErr, plan, incoming, reqVars>>

\* ShareRuntimeStateFrom of the router, as it treats this vendor.
ShareRuntimeStateFrom == SharePool \/ LeavePool

\* The router pointer is stored: requests that start now see the new pool.
PublishRouter ==
  /\ phase = "shared"
  /\ phase' = "idle"
  /\ plan' = nextPlan
  /\ nextPlan' = [k \in Keys |-> NoState]
  /\ incoming' = [k \in Keys |-> NoRecord]
  /\ UNCHANGED <<stateVars, reqVars>>

\* An administrator recovers a key of the published router; Service.changeMu
\* keeps this apart from every rebuild.
RecoverKey(k) ==
  /\ phase = "idle"
  /\ plan[k] # NoState
  /\ health' = [health EXCEPT ![plan[k]] = enableLocked(@)]
  /\ lastErr' = [lastErr EXCEPT ![k] = NoAttempt]
  /\ UNCHANGED <<born, inflight, retired, dropped, plan, buildVars, reqVars>>

-----------------------------------------------------------------------------
\* The first router binds nothing: every stored key gets its first object.
PoolInit(records) ==
  /\ born = [k \in Keys |-> IF records[k] = NoRecord THEN 0 ELSE 1]
  /\ inflight = [o \in Objects |-> 0]
  /\ retired = [o \in Objects |-> FALSE]
  /\ dropped = {}
  /\ health = [o \in Objects |->
       IF o[2] = 1 /\ records[o[1]] # NoRecord THEN NewKeyState(records[o[1]])
                                               ELSE BlankKeyState]
  /\ lastErr = [k \in Keys |-> NoAttempt]
  /\ plan = [k \in Keys |-> IF records[k] = NoRecord THEN NoState ELSE <<k, 1>>]
  /\ phase = "idle"
  /\ incoming = [k \in Keys |-> NoRecord]
  /\ nextPlan = [k \in Keys |-> NoState]
  /\ pc = [r \in Requests |-> "idle"]
  /\ view = [r \in Requests |-> [k \in Keys |-> NoState]]
  /\ tried = [r \in Requests |-> {}]
  /\ held = [r \in Requests |-> NoAttempt]

\* In this module the store is the environment: a rebuild may read any records.
Init == \E records \in Stores : PoolInit(records)

Next ==
  \/ \E r \in Requests : \/ StartRequest(r)
                         \/ \E k \in Keys : AcquireVersioned(r, k)
                         \/ ReleaseAttempt(r)
                         \/ \E outcome \in Outcomes, base \in BaseCooldowns :
                              CompleteAttempt(r, outcome, base)
                         \/ PersistDisabledKeyAsync(r)
                         \/ EndRequest(r)
  \/ Tick
  \/ \E records \in Stores : BuildRouter(records)
  \/ BuildAggregate
  \/ AbandonRouter
  \/ ShareRuntimeStateFrom
  \/ PublishRouter
  \/ \E k \in Keys : RecoverKey(k)

Spec == Init /\ [][Next]_poolVars

-----------------------------------------------------------------------------
(***************************************************************************)
(* Properties.                                                             *)
(***************************************************************************)

\* The types of the variables.
TypeOK ==
  /\ born \in [Keys -> 0..MaxIncarnations]
  /\ inflight \in [Objects -> Nat]
  /\ retired \in [Objects -> BOOLEAN]
  /\ dropped \subseteq Objects
  /\ health \in [Objects -> Health]
  /\ lastErr \in [Keys -> Attempts \cup {NoAttempt}]
  /\ plan \in [Keys -> Objects \cup {NoState}]
  /\ phase \in {"idle", "built", "aggregate", "shared"}
  /\ incoming \in Stores
  /\ nextPlan \in [Keys -> Objects \cup {NoState}]
  /\ pc \in [Requests -> {"idle", "routing", "attempt", "persist"}]
  /\ view \in [Requests -> [Keys -> Objects \cup {NoState}]]
  /\ tried \in [Requests -> SUBSET Keys]
  /\ held \in [Requests -> Attempts \cup {NoAttempt}]

Holders(o) == {r \in Requests : pc[r] = "attempt" /\ held[r].obj = o}

\* The inflight counter of a KeyState is the number of attempts that hold it,
\* whichever router generation they started in: an old request's end is
\* subtracted from the object new picks read, and nothing is lost or leaked
\* when the key is retired, kept or added again meanwhile.
InflightConserved == \A o \in Objects : inflight[o] = Cardinality(Holders(o))

\* Every object that was created is in exactly one place: in the latest bound
\* pool, retired, or left behind by a pool that an aggregate has replaced.  So an
\* old router generation picks a key either from the object the current one has,
\* or from one of the last kind, and those never come back into a pool.
RetiredMatchesPlan ==
  \A o \in Objects : o[2] <= born[o[1]] =>
    /\ retired[o] <=> Live[o[1]] # o /\ o \notin dropped
    /\ o \in dropped => Live[o[1]] # o

\* Whatever router generation a request has, the object it picks a key from is the
\* one the latest bound pool has for that key: what pool.go says of retired, "old
\* routers must not reuse it".  An aggregate that takes over the vendor's id breaks
\* it, because it retires nothing.
OldRoutersAgree ==
  [][\A r \in Requests, k \in Keys :
       AcquireVersioned(r, k) => Live[k] = view[r][k]]_poolVars

\* A result that has become obsolete stays obsolete: no retirement is undone
\* and no version comes back while an attempt holds the object.
StaleStaysStale ==
  [][\A r \in Requests :
       pc[r] = "attempt" /\ held'[r] = held[r] /\ ~currentVersionLocked(held[r])
       => ~currentVersionLocked(held[r])']_poolVars

\* A disabled key becomes active only through a newer persisted version or an
\* administrator's recovery: neither a stale snapshot read before the disable
\* nor the success of another request in flight resurrects it.
NoResurrection ==
  [][\A o \in Objects :
       ~IsActiveStatus(health[o].status) /\ IsActiveStatus(health'[o].status)
       /\ o[2] <= born[o[1]]
       => health'[o].version > health[o].version \/ \E k \in Keys : RecoverKey(k)]_poolVars

\* A cooldown in force ends early only by an administrator (newer version,
\* recovery), by the disable of the key, or by a later cooldown of the key.
CooldownHonoured ==
  [][\A o \in Objects :
       /\ health'[o].cool < health[o].cool
       /\ health'[o].version = health[o].version
       /\ ~\E k \in Keys : RecoverKey(k)
       => \/ Tick
          \/ health'[o].status = "disabled_auto"
          \/ health'[o].failures = health[o].failures + 1]_poolVars
=============================================================================
