------------------------------- MODULE Console -------------------------------
(***************************************************************************)
(* The console's operations on vendors and their keys                      *)
(* (internal/admin/service.go), the configuration they save                *)
(* (internal/admin/store.go, store_pgsql.go), the checks of                *)
(* internal/config, and the router the runtime publishes for them          *)
(* (internal/gateway/runtime.go, gateway.go).  Operations are serialized   *)
(* by changeMu but are not transactions: each is a sequence of writes to   *)
(* the configuration, the key store and the router, any of which can fail  *)
(* or be the last before a crash.                                          *)
(*                                                                         *)
(* A vendor is its name and the vendors it aggregates (none for a plain    *)
(* one).  Key health and automatic disables are the subject of KeyHealth;  *)
(* administrators and their sessions are left out.                         *)
(***************************************************************************)
EXTENDS Naturals, FiniteSets

CONSTANTS
  Ids,           \* vendor ids: NewVendorID never returns one of them twice
  Names, Keys,
  UnknownKey,    \* a key no vendor has been given
  NotConfigured, \* the configuration has no vendor of that id
  NoVendor,      \* nothing to purge
  MaxFaults      \* bound on failed writes, failed reads and crashes

ASSUME ConsoleConstants == MaxFaults \in Nat /\ NoVendor \notin Ids /\ UnknownKey \notin Keys

VARIABLES
  up,      \* the process runs
  saved,   \* the configuration in the file or in the database
  cfg,     \* Store.cfg, and Runtime.cfg: they change together
  records, \* status of every key in every partition of the key store
  router,  \* the published router: its configuration and its keys
  draft,   \* a configuration an administrator has read and may send back
  op,      \* the operation in progress, by its next step
  result,  \* how the last one ended: saved, refreshed, failed
  minted,  \* ids that have been used
  faults,
  given    \* history: the vendors operators have given keys since they were created

vars == <<up, saved, cfg, records, router, draft, op, result, minted, faults, given>>

Entry == [name : Names, children : SUBSET Ids]
Config == [Ids -> Entry \cup {NotConfigured}]
Configured(c) == {v \in Ids : c[v] # NotConfigured}
Aggregates(c) == {v \in Configured(c) : c[v].children # {}}

\* Mutant of Valid: what an aggregate refers to is not looked at.
ValidNames(c) ==
  /\ Configured(c) # {}
  /\ \A v, w \in Configured(c) : v # w => c[v].name # c[w].name

\* Config.validate, as far as vendors refer to each other.
Valid(c) ==
  /\ Configured(c) # {}
  /\ \A v, w \in Configured(c) : v # w => c[v].name # c[w].name
  /\ \A v \in Configured(c) : c[v].children \subseteq (Configured(c) \ {v}) \ Aggregates(c)

NoRecords == [k \in Keys |-> "none"]

\* buildRouter: the vendors of a configuration, the plain ones with the records
\* of their partition.
Build(c, recs) ==
  [config |-> c,
   keys |-> [v \in Ids |-> IF v \in Configured(c) \ Aggregates(c) THEN recs[v] ELSE NoRecords]]

Idle == [step |-> "idle"]

Init ==
  /\ up = TRUE
  /\ \E v \in Ids, n \in Names :
       /\ cfg = [w \in Ids |-> IF w = v THEN [name |-> n, children |-> {}]
                                        ELSE NotConfigured]
       /\ minted = {v}
  /\ saved = cfg
  /\ records = [v \in Ids |-> NoRecords]
  /\ router = Build(cfg, records)
  /\ draft = cfg
  /\ op = Idle /\ result = "none" /\ faults = 0
  /\ given = {}

\* The types of the variables.
TypeOK ==
  /\ {saved, cfg, draft, router.config} \subseteq Config
  /\ records \in [Ids -> [Keys -> {"none", "active", "disabled"}]]
  /\ router.keys \in [Ids -> [Keys -> {"none", "active", "disabled"}]]
  /\ op.step \in {"idle", "persist", "publish", "purge", "refresh", "batch"}
  /\ result \in {"none", "saved", "refreshed", "failed"}
  /\ minted \subseteq Ids /\ given \subseteq Ids /\ faults \in 0..MaxFaults

-----------------------------------------------------------------------------
(***************************************************************************)
(* Operations on the configuration.                                        *)
(***************************************************************************)

\* updateConfigLocked and updateLocked up to the router that would be published.
UpdateConfigLocked(next, purge) ==
  /\ IF Valid(next)
       THEN /\ op' = [step |-> "persist", next |-> next, purge |-> purge,
                      built |-> Build(next, records)]
            /\ UNCHANGED result
       ELSE result' = "failed" /\ UNCHANGED op
  /\ UNCHANGED <<up, saved, cfg, records, router, faults>>

Ready == up /\ op = Idle

\* Mutant of CreateVendor: the id of an earlier vendor of that name is reused.
CreateVendorAgain(name, children) ==
  /\ Ready
  /\ \A w \in Configured(cfg) : cfg[w].name # name
  /\ \E v \in Ids \ Configured(cfg) :
       /\ minted' = minted \cup {v}
       /\ given' = given \ {v}
       /\ UpdateConfigLocked([cfg EXCEPT ![v] =
            [name |-> name, children |-> children]], NoVendor)
  /\ UNCHANGED draft

CreateVendor(name, children) ==
  /\ Ready
  /\ \A w \in Configured(cfg) : cfg[w].name # name
  /\ \E v \in Ids \ minted :
       /\ minted' = minted \cup {v}
       /\ given' = given \ {v}
       /\ UpdateConfigLocked([cfg EXCEPT ![v] =
            [name |-> name, children |-> children]], NoVendor)
  /\ UNCHANGED draft

UpdateVendor(v, children) ==
  /\ Ready /\ v \in Configured(cfg)
  /\ UpdateConfigLocked([cfg EXCEPT ![v].children = children], NoVendor)
  /\ UNCHANGED <<draft, minted, given>>

RenameVendor(v, name) ==
  /\ Ready /\ v \in Configured(cfg)
  /\ \A w \in Configured(cfg) : cfg[w].name # name
  /\ UpdateConfigLocked([cfg EXCEPT ![v].name = name], NoVendor)
  /\ UNCHANGED <<draft, minted, given>>

DeleteVendor(v) ==
  /\ Ready /\ v \in Configured(cfg)
  /\ \A w \in Configured(cfg) \ {v} : v \notin cfg[w].children
  /\ UpdateConfigLocked([cfg EXCEPT ![v] = NotConfigured], v)
  /\ UNCHANGED <<draft, minted, given>>

\* AddClientKey, DeleteClientKey and every other change of a vendor that no other
\* vendor, and nothing here, depends on: it is saved like the rest.
UpdateClientKeys(v) ==
  /\ Ready /\ v \in Configured(cfg)
  /\ UpdateConfigLocked(cfg, NoVendor)
  /\ UNCHANGED <<draft, minted, given>>

\* GET of the raw configuration, and PUT of what was read, however old it is.
GetConfigRaw ==
  /\ Ready /\ draft # cfg /\ draft' = cfg
  /\ UNCHANGED <<up, saved, cfg, records, router, op, result, minted, faults, given>>

UpdateConfig ==
  /\ Ready /\ draft # cfg
  /\ UpdateConfigLocked(draft, NoVendor)
  /\ UNCHANGED <<draft, minted, given>>

\* Store.UpdateConfig: rename of the file, or the row in the database.
Persist ==
  /\ up /\ op.step = "persist"
  /\ saved' = op.next
  /\ op' = [op EXCEPT !.step = "publish"]
  /\ UNCHANGED <<up, cfg, records, router, draft, result, minted, faults, given>>

\* Mutant of Publish: the runtime goes on with its old configuration.
PublishStale ==
  /\ up /\ op.step = "publish"
  /\ cfg' = IF op.purge = NoVendor THEN op.next ELSE cfg
  /\ router' = op.built
  /\ IF op.purge = NoVendor
       THEN op' = Idle /\ result' = "saved"
       ELSE op' = [step |-> "purge", purge |-> op.purge] /\ UNCHANGED result
  /\ UNCHANGED <<up, saved, records, draft, minted, faults, given>>

\* The end of updateLocked; DeleteVendor goes on with the vendor's keys.
Publish ==
  /\ up /\ op.step = "publish"
  /\ cfg' = op.next
  /\ router' = op.built
  /\ IF op.purge = NoVendor
       THEN op' = Idle /\ result' = "saved"
       ELSE op' = [step |-> "purge", purge |-> op.purge] /\ UNCHANGED result
  /\ UNCHANGED <<up, saved, records, draft, minted, faults, given>>

\* The key store's DeleteVendor.
Purge ==
  /\ up /\ op.step = "purge"
  /\ records' = [records EXCEPT ![op.purge] = NoRecords]
  /\ op' = [step |-> "refresh", ok |-> "saved"]
  /\ UNCHANGED <<up, saved, cfg, router, draft, result, minted, faults, given>>

\* Runtime.RefreshKeys.
RefreshKeys ==
  /\ up /\ op.step = "refresh"
  /\ router' = Build(cfg, records)
  /\ op' = Idle /\ result' = op.ok
  /\ UNCHANGED <<up, saved, cfg, records, draft, minted, faults, given>>

-----------------------------------------------------------------------------
(***************************************************************************)
(* Operations on the keys of a vendor.                                     *)
(***************************************************************************)

Stored(v) == {k \in Keys : records[v][k] # "none"}

\* requireVendor: the partition of a vendor that is not configured is not served.
RequireVendor(v) == v \in Configured(cfg)

\* The one write of the key store, and what is left of the operation.
WriteKeys(v, partition) ==
  /\ records' = [records EXCEPT ![v] = partition]
  /\ op' = [step |-> "refresh", ok |-> "refreshed"]
  /\ UNCHANGED <<up, saved, cfg, router, draft, result, minted, faults>>

\* Keys that are all there already are refused as duplicates.
AddUpstreamKeys(v, keys) ==
  /\ Ready /\ RequireVendor(v) /\ ~(keys \subseteq Stored(v))
  /\ WriteKeys(v, [k \in Keys |-> IF k \in keys \ Stored(v) THEN "active" ELSE records[v][k]])
  /\ given' = given \cup {v}

DeleteUpstreamKeys(v, keys) ==
  /\ Ready /\ RequireVendor(v) /\ keys \cap Stored(v) # {}
  /\ WriteKeys(v, [k \in Keys |-> IF k \in keys THEN "none" ELSE records[v][k]])
  /\ UNCHANGED given

\* Keys that are kept keep their status, disabled ones are kept in any case.
ReplaceUpstreamKeys(v, keys) ==
  /\ Ready /\ RequireVendor(v)
  /\ WriteKeys(v, [k \in Keys |->
       IF k \in keys \ Stored(v) THEN "active"
       ELSE IF k \in keys \/ records[v][k] = "disabled" THEN records[v][k] ELSE "none"])
  /\ given' = IF keys = {} THEN given ELSE given \cup {v}

\* SetUpstreamKeyStatus and RecoverUpstreamKeys: key by key, in the order given.
SetStatus(v, keys, status) ==
  /\ Ready /\ RequireVendor(v) /\ keys # {}
  /\ op' = [step |-> "batch", vendor |-> v, todo |-> keys, status |-> status]
  /\ UNCHANGED <<up, saved, cfg, records, router, draft, result, minted, faults, given>>

\* A key that is not stored ends the batch with an error and no rebuild.
SetStatusOf(k) ==
  /\ up /\ op.step = "batch" /\ k \in op.todo
  /\ IF k \notin Stored(op.vendor)
       THEN op' = Idle /\ result' = "failed" /\ UNCHANGED records
       ELSE /\ records' = [records EXCEPT ![op.vendor][k] = op.status]
            /\ op' = IF op.todo = {k} THEN [step |-> "refresh", ok |-> "refreshed"]
                                      ELSE [op EXCEPT !.todo = @ \ {k}]
            /\ UNCHANGED result
  /\ UNCHANGED <<up, saved, cfg, router, draft, minted, faults, given>>

-----------------------------------------------------------------------------
(***************************************************************************)
(* Failures.                                                               *)
(***************************************************************************)

\* A write or a read of an operation fails: the operation ends where it is.  A
\* failed write of the configuration row may have been committed.
Fail ==
  /\ up /\ op.step \in {"persist", "purge", "refresh", "batch"} /\ faults < MaxFaults
  /\ faults' = faults + 1
  /\ saved' \in {saved} \cup (IF op.step = "persist" THEN {op.next} ELSE {})
  /\ op' = Idle /\ result' = "failed"
  /\ UNCHANGED <<up, cfg, records, router, draft, minted, given>>

Crash ==
  /\ up /\ faults < MaxFaults
  /\ faults' = faults + 1
  /\ up' = FALSE /\ op' = Idle /\ result' = "none"
  /\ UNCHANGED <<saved, cfg, records, router, draft, minted, given>>

\* NewStore and NewRuntime.
Restart ==
  /\ ~up /\ up' = TRUE
  /\ cfg' = saved
  /\ router' = Build(saved, records)
  /\ UNCHANGED <<saved, records, draft, op, result, minted, faults, given>>

Next ==
  \/ \E n \in Names, children \in SUBSET Ids : CreateVendor(n, children)
  \/ \E v \in Ids, children \in SUBSET Ids : UpdateVendor(v, children)
  \/ \E v \in Ids, n \in Names : RenameVendor(v, n)
  \/ \E v \in Ids : DeleteVendor(v)
  \/ \E v \in Ids : UpdateClientKeys(v)
  \/ GetConfigRaw \/ UpdateConfig
  \/ Persist \/ Publish \/ Purge \/ RefreshKeys
  \/ \E v \in Ids, keys \in SUBSET Keys :
       AddUpstreamKeys(v, keys) \/ DeleteUpstreamKeys(v, keys) \/ ReplaceUpstreamKeys(v, keys)
  \/ \E v \in Ids, keys \in SUBSET (Keys \cup {UnknownKey}), s \in {"active", "disabled"} :
       SetStatus(v, keys, s)
  \/ \E k \in Keys \cup {UnknownKey} : SetStatusOf(k)
  \/ Fail \/ Crash \/ Restart

\* Operations that have begun go on, and the process is started again.  The last
\* conjunct is the operator who sees a partition without a vendor in the console
\* and keeps asking for its keys to be deleted.
Fairness ==
  /\ WF_vars(Persist \/ Publish \/ Purge \/ RefreshKeys \/ \E k \in Keys \cup {UnknownKey} : SetStatusOf(k))
  /\ WF_vars(Restart)
  /\ \A v \in Ids : SF_vars(DeleteUpstreamKeys(v, Keys)) /\ SF_vars(DeleteVendor(v))

Spec == Init /\ [][Next]_vars

FairSpec == Spec /\ Fairness

-----------------------------------------------------------------------------
(***************************************************************************)
(* Properties.                                                             *)
(***************************************************************************)

\* An operation that reports success leaves the router, the stored keys and, if
\* it changed the configuration, the saved configuration in agreement, whatever
\* earlier operations left behind when they failed half-way: the keys a broken
\* batch has changed, an unpurged vendor, a write that was committed and
\* reported as failed.
SuccessConverges ==
  up /\ op = Idle =>
    /\ result \in {"saved", "refreshed"} => router = Build(cfg, records)
    /\ result = "saved" => saved = cfg

\* A vendor nobody has given keys to serves none: neither the name nor the place
\* of a deleted vendor brings its keys back (NewVendorID: "deliberately not
\* derived from the name"), even where their deletion failed or a stale
\* configuration was sent back.
NoForeignKeys ==
  \A v \in Configured(router.config) \ given : router.keys[v] = NoRecords

\* Every aggregate of the saved configuration and of the published router
\* refers to plain vendors that exist, also after a stale configuration was sent
\* back and after a restart: newRouterWithUpstreamKeyRecords would refuse the
\* saved configuration and the process would not start.
ChildrenExist ==
  \A c \in {saved, router.config} : \A v \in Configured(c) :
    c[v].children \subseteq (Configured(c) \ {v}) \ Aggregates(c)

\* "Orphans left behind by a failed delete; surface them so an operator can clean
\* them up" (ListUpstreamKeys): the operator who keeps trying gets rid of them.
OrphansCleaned ==
  \A v \in Ids : (v \notin Configured(cfg) /\ Stored(v) # {}) ~> Stored(v) = {}
=============================================================================
