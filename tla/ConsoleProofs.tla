---------------------------- MODULE ConsoleProofs ----------------------------
(***************************************************************************)
(* Theorems about Console, for any number of vendors, names and keys and   *)
(* any number of failures and crashes: an operation that reports success   *)
(* leaves router and store in agreement, no vendor serves keys it was not  *)
(* given, and no aggregate refers to a vendor that does not exist.         *)
(***************************************************************************)
EXTENDS Console, TLAPS

Partition == [Keys -> {"none", "active", "disabled"}]
Partitions == [Ids -> Partition]
Routers == [config : Config, keys : Partitions]

\* The operation in progress, by its next step.
Ops ==
  {Idle}
  \cup [step : {"persist", "publish"}, next : Config, purge : Ids \cup {NoVendor}, built : Routers]
  \cup [step : {"purge"}, purge : Ids]
  \cup [step : {"refresh"}, ok : {"saved", "refreshed"}]
  \cup [step : {"batch"}, vendor : Ids, todo : SUBSET (Keys \cup {UnknownKey}),
        status : {"active", "disabled"}]

\* The types, with the shape of op that TypeOK leaves open.
Types ==
  /\ up \in BOOLEAN
  /\ saved \in Config /\ cfg \in Config /\ draft \in Config
  /\ records \in Partitions
  /\ router \in Routers
  /\ op \in Ops
  /\ minted \in SUBSET Ids /\ given \in SUBSET Ids

\* A process that is down has no operation in progress and no result.
DownOK == ~up => op = Idle /\ result = "none"

Saving == op.step \in {"persist", "publish"}

\* What an operation still has to do is what makes up for the difference there
\* is: the router it will publish fits the records, the configuration is saved
\* before it is published, and a deletion goes on only from there.
PendingOK ==
  /\ Saving => op.built = Build(op.next, records)
  /\ op.step = "publish" => saved = op.next
  /\ op.step = "purge" => saved = cfg
  /\ op.step = "refresh" /\ op.ok = "saved" => saved = cfg

\* The part of Valid that ChildrenExist states.
Sound(c) == \A v \in Configured(c) : c[v].children \subseteq (Configured(c) \ {v}) \ Aggregates(c)

\* Only configurations that passed validation are saved, loaded or published.
SoundOK ==
  /\ Sound(saved) /\ Sound(cfg) /\ Sound(router.config)
  /\ Saving => Sound(op.next)

\* Every id in any configuration there is has been minted, and only vendors
\* that have been configured are given keys.
MintedOK ==
  /\ Configured(saved) \cup Configured(cfg) \cup Configured(draft) \subseteq minted
  /\ Saving => Configured(op.next) \subseteq minted
  /\ given \subseteq minted

\* A vendor that was given no keys has no records, and no router has keys for it.
UngivenOK ==
  \A v \in Ids \ given :
    /\ records[v] = NoRecords
    /\ router.keys[v] = NoRecords
    /\ Saving => op.built.keys[v] = NoRecords

IInv ==
  Types /\ DownOK /\ PendingOK /\ SoundOK /\ MintedOK /\ UngivenOK /\ SuccessConverges

-----------------------------------------------------------------------------
(***************************************************************************)
(* Facts about the operators.                                              *)
(***************************************************************************)

LEMMA BuildType ==
  ASSUME NEW c \in Config, NEW recs \in Partitions
  PROVE  Build(c, recs) \in Routers
BY DEF Build, Routers, Partitions, Partition, NoRecords

\* The keys of a vendor in a router are its records or none.
LEMMA BuildKeys ==
  ASSUME NEW c, NEW recs, NEW v \in Ids, recs[v] = NoRecords
  PROVE  Build(c, recs).keys[v] = NoRecords
BY DEF Build

LEMMA ValidSound == \A c : Valid(c) => Sound(c)
BY DEF Valid, Sound

LEMMA IdleOp == Idle \in Ops /\ Idle.step = "idle" /\ Idle.step \notin {"persist", "publish", "purge", "refresh", "batch"}
BY DEF Idle, Ops

-----------------------------------------------------------------------------
LEMMA Initially == Init => IInv
<1> SUFFICES ASSUME Init PROVE IInv
  OBVIOUS
<1>1. PICK v \in Ids, n \in Names :
        /\ cfg = [w \in Ids |-> IF w = v THEN [name |-> n, children |-> {}] ELSE NotConfigured]
        /\ minted = {v}
  BY DEF Init
<1>2. cfg \in Config /\ Configured(cfg) \subseteq {v} /\ Sound(cfg)
  BY <1>1 DEF Config, Entry, Configured, Sound
<1>3. records \in Partitions
  BY DEF Init, Partitions, Partition, NoRecords
<1>4. Types
  BY <1>1, <1>2, <1>3, BuildType, IdleOp DEF Init, Types
<1>5. router.config = cfg
  BY DEF Init, Build
<1>6. \A w \in Ids : router.keys[w] = NoRecords
  BY BuildKeys DEF Init
<1> QED
  BY <1>1, <1>2, <1>4, <1>5, <1>6, IdleOp
     DEF Init, IInv, DownOK, PendingOK, Saving, SoundOK, MintedOK, UngivenOK, SuccessConverges

\* An operation on the configuration up to its first write.
LEMMA UpdateConfigKeeps ==
  ASSUME IInv, Ready, NEW next \in Config, NEW purge \in Ids \cup {NoVendor},
         UpdateConfigLocked(next, purge),
         minted' \in SUBSET Ids, minted \subseteq minted', Configured(next) \subseteq minted',
         given' = given, draft' = draft
  PROVE  IInv'
<1> DEFINE saving == [step |-> "persist", next |-> next, purge |-> purge, built |-> Build(next, records)]
<1>1. Build(next, records) \in Routers
  BY BuildType DEF IInv, Types
<1>2. saving \in Ops
  BY <1>1 DEF Ops
<1>3. UNCHANGED <<up, saved, cfg, records, router, draft, given>>
  BY DEF UpdateConfigLocked
<1>4. CASE ~Valid(next)
  <2>1. op' = op /\ result' = "failed"
    BY <1>4 DEF UpdateConfigLocked
  <2> QED
    BY <1>3, <2>1 DEF IInv, Ready, Types, DownOK, PendingOK, Saving, SoundOK, MintedOK, UngivenOK,
                     SuccessConverges, Configured, Sound, Aggregates
<1>5. CASE Valid(next)
  <2>1. op' = saving /\ result' = result
    BY <1>5 DEF UpdateConfigLocked
  <2>2. op'.step = "persist" /\ op'.next = next /\ op'.built = Build(next, records) /\ op' # Idle
    BY <2>1 DEF Idle
  <2>3. Types'
    BY <1>2, <1>3, <2>1 DEF IInv, Types
  <2>4. DownOK' /\ SuccessConverges'
    BY <1>3, <2>2 DEF Ready, DownOK, SuccessConverges
  <2>5. PendingOK'
    BY <1>3, <2>2 DEF PendingOK, Saving
  <2>6. SoundOK'
    BY <1>3, <1>5, <2>2, ValidSound DEF IInv, SoundOK, Saving, Sound, Configured, Aggregates
  <2>7. MintedOK'
    BY <1>3, <2>2 DEF IInv, MintedOK, Saving, Configured
  <2>8. UngivenOK'
    BY <1>3, <2>2, BuildKeys DEF IInv, UngivenOK, Saving
  <2> QED
    BY <2>3, <2>4, <2>5, <2>6, <2>7, <2>8 DEF IInv
<1> QED BY <1>4, <1>5

\* What an operation that is in progress is made of.
LEMMA OpShape ==
  ASSUME op \in Ops
  PROVE  /\ Saving => op \in [step : {"persist", "publish"}, next : Config,
                              purge : Ids \cup {NoVendor}, built : Routers]
         /\ op.step = "purge" => op.purge \in Ids
         /\ op.step = "refresh" => op.ok \in {"saved", "refreshed"}
         /\ op.step = "batch" => op \in [step : {"batch"}, vendor : Ids,
                                         todo : SUBSET (Keys \cup {UnknownKey}),
                                         status : {"active", "disabled"}]
BY IdleOp DEF Ops, Saving

\* The operations on the configuration.
LEMMA ConfigStepsKeep ==
  ASSUME IInv,
         \/ \E n \in Names, children \in SUBSET Ids : CreateVendor(n, children)
         \/ \E v \in Ids, children \in SUBSET Ids : UpdateVendor(v, children)
         \/ \E v \in Ids, n \in Names : RenameVendor(v, n)
         \/ \E v \in Ids : DeleteVendor(v)
         \/ \E v \in Ids : UpdateClientKeys(v)
         \/ UpdateConfig
  PROVE  IInv'
<1>1. /\ cfg \in Config /\ draft \in Config /\ minted \in SUBSET Ids /\ given \subseteq minted
      /\ Configured(cfg) \subseteq minted /\ Configured(draft) \subseteq minted
  BY DEF IInv, Types, MintedOK
<1>2. ASSUME NEW v \in Ids, NEW e \in Entry, NEW mint \in SUBSET Ids, v \in mint, minted \subseteq mint
      PROVE  [cfg EXCEPT ![v] = e] \in Config /\ Configured([cfg EXCEPT ![v] = e]) \subseteq mint
  BY <1>1, <1>2 DEF Config, Configured
<1>3. ASSUME NEW n \in Names, NEW children \in SUBSET Ids, CreateVendor(n, children) PROVE IInv'
  <2>1. PICK v \in Ids \ minted :
          /\ minted' = minted \cup {v} /\ given' = given \ {v}
          /\ UpdateConfigLocked([cfg EXCEPT ![v] = [name |-> n, children |-> children]], NoVendor)
    BY <1>3 DEF CreateVendor
  <2>2. [name |-> n, children |-> children] \in Entry
    BY DEF Entry
  <2>3. given' = given /\ minted' \in SUBSET Ids /\ minted \subseteq minted' /\ v \in minted'
    BY <1>1, <2>1
  <2> QED BY <1>2, <1>3, <2>1, <2>2, <2>3, UpdateConfigKeeps DEF CreateVendor
<1>4. ASSUME NEW v \in Ids, NEW children \in SUBSET Ids, UpdateVendor(v, children) PROVE IInv'
  <2>1. v \in minted /\ cfg[v] \in Entry
    BY <1>1, <1>4 DEF UpdateVendor, Configured, Config
  <2>2. [cfg[v] EXCEPT !.children = children] \in Entry
    BY <2>1 DEF Entry
  <2> QED BY <1>1, <1>2, <1>4, <2>1, <2>2, UpdateConfigKeeps DEF UpdateVendor
<1>5. ASSUME NEW v \in Ids, NEW n \in Names, RenameVendor(v, n) PROVE IInv'
  <2>1. v \in minted /\ cfg[v] \in Entry
    BY <1>1, <1>5 DEF RenameVendor, Configured, Config
  <2>2. [cfg[v] EXCEPT !.name = n] \in Entry
    BY <2>1 DEF Entry
  <2> QED BY <1>1, <1>2, <1>5, <2>1, <2>2, UpdateConfigKeeps DEF RenameVendor
<1>6. ASSUME NEW v \in Ids, DeleteVendor(v) PROVE IInv'
  <2>1. [cfg EXCEPT ![v] = NotConfigured] \in Config
        /\ Configured([cfg EXCEPT ![v] = NotConfigured]) \subseteq minted
    BY <1>1 DEF Config, Configured
  <2> QED BY <1>1, <1>6, <2>1, UpdateConfigKeeps DEF DeleteVendor
<1>7. ASSUME NEW v \in Ids, UpdateClientKeys(v) PROVE IInv'
  BY <1>1, <1>7, UpdateConfigKeeps DEF UpdateClientKeys
<1>8. ASSUME UpdateConfig PROVE IInv'
  BY <1>1, <1>8, UpdateConfigKeeps DEF UpdateConfig
<1> QED BY <1>3, <1>4, <1>5, <1>6, <1>7, <1>8

LEMMA GetConfigRawKeeps == ASSUME IInv, GetConfigRaw PROVE IInv'
BY DEF IInv, GetConfigRaw, Ready, Types, DownOK, PendingOK, Saving, SoundOK, MintedOK, UngivenOK,
       SuccessConverges, Configured, Sound, Aggregates

LEMMA PersistKeeps == ASSUME IInv, Persist PROVE IInv'
<1>1. /\ op \in [step : {"persist", "publish"}, next : Config,
                 purge : Ids \cup {NoVendor}, built : Routers]
      /\ Saving
  BY OpShape DEF IInv, Types, Persist, Saving
<1>2. /\ op' \in [step : {"persist", "publish"}, next : Config,
                  purge : Ids \cup {NoVendor}, built : Routers]
      /\ op'.step = "publish" /\ op'.next = op.next /\ op'.built = op.built
  BY <1>1 DEF Persist
<1>3. op' \in Ops /\ op' # Idle
  BY <1>2, IdleOp DEF Ops
<1>4. saved' = op.next /\ UNCHANGED <<up, cfg, records, router, draft, result, minted, given>> /\ up
  BY DEF Persist
<1>5. Types' /\ DownOK' /\ SuccessConverges'
  BY <1>1, <1>3, <1>4 DEF IInv, Types, DownOK, SuccessConverges
<1>6. PendingOK'
  BY <1>1, <1>2, <1>4 DEF IInv, PendingOK, Saving
<1>7. SoundOK'
  BY <1>1, <1>2, <1>4 DEF IInv, SoundOK, Saving, Sound, Configured, Aggregates
<1>8. MintedOK' /\ UngivenOK'
  BY <1>1, <1>2, <1>4 DEF IInv, MintedOK, UngivenOK, Saving, Configured
<1> QED BY <1>5, <1>6, <1>7, <1>8 DEF IInv

LEMMA PublishKeeps == ASSUME IInv, Publish PROVE IInv'
<1>1. /\ op \in [step : {"persist", "publish"}, next : Config,
                 purge : Ids \cup {NoVendor}, built : Routers]
      /\ Saving /\ op.built = Build(op.next, records) /\ saved = op.next
  BY OpShape DEF IInv, Types, PendingOK, Publish, Saving
<1>2. /\ cfg' = op.next /\ router' = op.built /\ router' = Build(cfg', records') /\ saved' = cfg'
      /\ UNCHANGED <<up, saved, records, draft, minted, given>> /\ up
  BY <1>1 DEF Publish
<1>3. router'.config = op.next
  BY <1>1, <1>2 DEF Build
<1>4. /\ op' \in Ops /\ op'.step \in {"idle", "purge"}
      /\ op'.step \notin {"persist", "publish", "refresh"}
  BY <1>1, IdleOp DEF Publish, Ops
<1>5. Types' /\ DownOK'
  BY <1>1, <1>2, <1>4 DEF IInv, Types, DownOK
<1>6. SuccessConverges' /\ PendingOK'
  BY <1>2, <1>4 DEF SuccessConverges, PendingOK, Saving
<1>7. SoundOK'
  BY <1>1, <1>2, <1>3, <1>4 DEF IInv, SoundOK, Saving, Sound, Configured, Aggregates
<1>8. MintedOK'
  BY <1>1, <1>2, <1>4 DEF IInv, MintedOK, Saving, Configured
<1>9. UngivenOK'
  BY <1>1, <1>2, <1>4 DEF IInv, UngivenOK, Saving
<1> QED BY <1>5, <1>6, <1>7, <1>8, <1>9 DEF IInv

LEMMA RefreshKeysKeeps == ASSUME IInv, RefreshKeys PROVE IInv'
<1>1. /\ router' = Build(cfg, records) /\ op' = Idle /\ result' = op.ok /\ up /\ op.step = "refresh"
      /\ UNCHANGED <<up, saved, cfg, records, draft, minted, given>>
  BY DEF RefreshKeys
<1>2. router'.config = cfg /\ router' \in Routers
  BY <1>1, BuildType DEF Build, IInv, Types
<1>3. Types' /\ DownOK' /\ PendingOK'
  BY <1>1, <1>2, IdleOp DEF IInv, Types, DownOK, PendingOK, Saving
<1>4. SuccessConverges'
  BY <1>1 DEF IInv, SuccessConverges, PendingOK
<1>5. SoundOK' /\ MintedOK'
  BY <1>1, <1>2, IdleOp DEF IInv, SoundOK, MintedOK, Saving, Sound, Configured, Aggregates
<1>6. UngivenOK'
  BY <1>1, BuildKeys, IdleOp DEF IInv, UngivenOK, Saving
<1> QED BY <1>3, <1>4, <1>5, <1>6 DEF IInv

\* A write of the key store outside a save: it is followed by a rebuild, or
\* ends in one.
LEMMA WriteKeeps ==
  ASSUME IInv, up, ~Saving, NEW v \in Ids, NEW p \in Partition,
         records' = [records EXCEPT ![v] = p],
         op' \in Ops, op'.step \in {"refresh", "batch"},
         op'.step = "refresh" /\ op'.ok = "saved" => saved = cfg,
         UNCHANGED <<up, saved, cfg, router, draft, minted>>,
         given' \in SUBSET minted, given \subseteq given',
         v \in given' \/ p = NoRecords
  PROVE  IInv'
<1>1. Types' /\ DownOK'
  BY DEF IInv, Types, DownOK, MintedOK, Partitions
<1>2. PendingOK' /\ SuccessConverges'
  BY IdleOp DEF PendingOK, Saving, SuccessConverges
<1>3. SoundOK' /\ MintedOK'
  BY DEF IInv, SoundOK, MintedOK, Saving, Sound, Configured, Aggregates
<1>4. UngivenOK'
  BY DEF IInv, Types, UngivenOK, Partitions, Saving
<1> QED BY <1>1, <1>2, <1>3, <1>4 DEF IInv

LEMMA PurgeKeeps == ASSUME IInv, Purge PROVE IInv'
<1>1. op.purge \in Ids /\ saved = cfg /\ ~Saving
  BY OpShape DEF IInv, Types, PendingOK, Purge, Saving
<1>2. NoRecords \in Partition
  BY DEF NoRecords, Partition
<1>3. op' \in Ops /\ op'.step = "refresh"
  BY DEF Purge, Ops
<1> QED BY <1>1, <1>2, <1>3, WriteKeeps DEF Purge, IInv, MintedOK

LEMMA KeyStepsKeep ==
  ASSUME IInv, NEW v \in Ids, NEW keys \in SUBSET Keys,
         AddUpstreamKeys(v, keys) \/ DeleteUpstreamKeys(v, keys) \/ ReplaceUpstreamKeys(v, keys)
  PROVE  IInv'
<1>1. /\ up /\ ~Saving /\ v \in minted /\ given \subseteq minted
      /\ records[v] \in Partition /\ records \in Partitions
  BY IdleOp DEF IInv, Types, MintedOK, Partitions, AddUpstreamKeys, DeleteUpstreamKeys,
                ReplaceUpstreamKeys, Ready, RequireVendor, Saving
<1>2. ASSUME NEW p \in Partition, WriteKeys(v, p), given' \in SUBSET minted, given \subseteq given',
             v \in given' \/ p = NoRecords
      PROVE  IInv'
  <2>1. op' \in Ops /\ op'.step = "refresh" /\ op'.ok = "refreshed"
    BY <1>2 DEF WriteKeys, Ops
  <2> QED BY <1>1, <1>2, <2>1, WriteKeeps DEF WriteKeys
<1>3. CASE AddUpstreamKeys(v, keys)
  <2> DEFINE p == [k \in Keys |-> IF k \in keys \ Stored(v) THEN "active" ELSE records[v][k]]
  <2>1. p \in Partition
    BY <1>1 DEF Partition
  <2> QED BY <1>1, <1>2, <1>3, <2>1 DEF AddUpstreamKeys
<1>4. CASE DeleteUpstreamKeys(v, keys)
  <2> DEFINE p == [k \in Keys |-> IF k \in keys THEN "none" ELSE records[v][k]]
  <2>1. p \in Partition
    BY <1>1 DEF Partition
  <2>2. v \notin given => p = NoRecords
    BY DEF IInv, UngivenOK, NoRecords
  <2> QED BY <1>1, <1>2, <1>4, <2>1, <2>2 DEF DeleteUpstreamKeys
<1>5. CASE ReplaceUpstreamKeys(v, keys)
  <2> DEFINE p == [k \in Keys |->
       IF k \in keys \ Stored(v) THEN "active"
       ELSE IF k \in keys \/ records[v][k] = "disabled" THEN records[v][k] ELSE "none"]
  <2>1. p \in Partition
    BY <1>1 DEF Partition
  <2>2. v \notin given /\ keys = {} => p = NoRecords
    BY DEF IInv, UngivenOK, NoRecords
  <2> QED BY <1>1, <1>2, <1>5, <2>1, <2>2 DEF ReplaceUpstreamKeys
<1> QED BY <1>3, <1>4, <1>5

\* The batch: a vendor with a stored key has been given keys.
LEMMA SetStatusKeeps ==
  ASSUME IInv, NEW v \in Ids, NEW keys \in SUBSET (Keys \cup {UnknownKey}),
         NEW s \in {"active", "disabled"}, SetStatus(v, keys, s)
  PROVE  IInv'
<1>1. op' \in Ops /\ op'.step = "batch"
  BY DEF SetStatus, Ops
<1>2. up /\ UNCHANGED <<up, saved, cfg, records, router, draft, minted, given>>
  BY DEF SetStatus, Ready
<1>3. Types' /\ DownOK' /\ PendingOK' /\ SuccessConverges'
  BY <1>1, <1>2, IdleOp DEF IInv, Types, DownOK, PendingOK, SuccessConverges, Saving
<1>4. SoundOK' /\ MintedOK' /\ UngivenOK'
  BY <1>1, <1>2 DEF IInv, SoundOK, MintedOK, UngivenOK, Saving, Sound, Configured, Aggregates
<1> QED BY <1>3, <1>4 DEF IInv

\* An operation that ends where it is, with an error.
LEMMA GivingUpKeeps ==
  ASSUME IInv, op' = Idle, result' \in {"failed", "none"}, up' => up,
         ~up' => result' = "none", up' \in BOOLEAN,
         saved' = saved \/ (op.step = "persist" /\ saved' = op.next),
         UNCHANGED <<cfg, records, router, draft, minted, given>>
  PROVE  IInv'
<1>1. saved' \in Config
  BY OpShape DEF IInv, Types, Saving
<1>2. Types' /\ DownOK' /\ PendingOK' /\ SuccessConverges'
  BY <1>1, IdleOp DEF IInv, Types, DownOK, PendingOK, SuccessConverges, Saving
<1>3. SoundOK'
  BY IdleOp DEF IInv, SoundOK, Saving, Sound, Configured, Aggregates
<1>4. MintedOK' /\ UngivenOK'
  BY IdleOp DEF IInv, MintedOK, UngivenOK, Saving, Configured
<1> QED BY <1>2, <1>3, <1>4 DEF IInv

LEMMA SetStatusOfKeeps ==
  ASSUME IInv, NEW k \in Keys \cup {UnknownKey}, SetStatusOf(k)
  PROVE  IInv'
<1>1. /\ op \in [step : {"batch"}, vendor : Ids, todo : SUBSET (Keys \cup {UnknownKey}),
                 status : {"active", "disabled"}]
      /\ up /\ ~Saving
  BY OpShape DEF IInv, Types, SetStatusOf, Saving
<1>2. CASE k \notin Stored(op.vendor)
  BY <1>1, <1>2, GivingUpKeeps DEF SetStatusOf, IInv, Types
<1>3. CASE k \in Stored(op.vendor)
  <2> DEFINE p == [records[op.vendor] EXCEPT ![k] = op.status]
  <2>1. k \in Keys /\ records[op.vendor][k] # "none" /\ records[op.vendor] \in Partition
    BY <1>1, <1>3 DEF Stored, IInv, Types, Partitions
  <2>2. p \in Partition /\ records' = [records EXCEPT ![op.vendor] = p]
    BY <1>1, <1>3, <2>1 DEF SetStatusOf, Partition
  <2>3. op.vendor \in given
    BY <1>1, <2>1 DEF IInv, UngivenOK, NoRecords
  <2>4. CASE op.todo = {k}
    <3>1. op' \in Ops /\ op'.step = "refresh" /\ op'.ok = "refreshed"
      BY <1>3, <2>4 DEF SetStatusOf, Ops
    <3> QED BY <1>1, <1>3, <2>2, <2>3, <3>1, WriteKeeps DEF SetStatusOf, IInv, MintedOK
  <2>5. CASE op.todo # {k}
    <3>1. op' \in Ops /\ op'.step = "batch"
      BY <1>1, <1>3, <2>5 DEF SetStatusOf, Ops
    <3> QED BY <1>1, <1>3, <2>2, <2>3, <3>1, WriteKeeps DEF SetStatusOf, IInv, MintedOK
  <2> QED BY <2>4, <2>5
<1> QED BY <1>2, <1>3

LEMMA RestartKeeps == ASSUME IInv, Restart PROVE IInv'
<1>1. op = Idle /\ result = "none"
  BY DEF IInv, DownOK, Restart
<1>2. /\ cfg' = saved /\ router' = Build(saved, records) /\ up' = TRUE
      /\ UNCHANGED <<saved, records, draft, op, result, minted, given>>
  BY DEF Restart
<1>3. router'.config = saved /\ router' \in Routers
  BY <1>2, BuildType DEF Build, IInv, Types
<1>4. Types' /\ DownOK' /\ PendingOK' /\ SuccessConverges'
  BY <1>1, <1>2, <1>3, IdleOp DEF IInv, Types, DownOK, PendingOK, SuccessConverges, Saving
<1>5. SoundOK' /\ MintedOK'
  BY <1>1, <1>2, <1>3, IdleOp DEF IInv, SoundOK, MintedOK, Saving, Sound, Configured, Aggregates
<1>6. UngivenOK'
  BY <1>1, <1>2, BuildKeys, IdleOp DEF IInv, UngivenOK, Saving
<1> QED BY <1>4, <1>5, <1>6 DEF IInv

-----------------------------------------------------------------------------
\* Every step of every operation, failure and restart keeps the invariant.
LEMMA IInvInductive == IInv /\ [Next]_vars => IInv'
<1> SUFFICES ASSUME IInv, [Next]_vars PROVE IInv'
  OBVIOUS
<1>1. CASE Fail
  BY <1>1, GivingUpKeeps DEF Fail, IInv, Types
<1>2. CASE Crash
  BY <1>2, GivingUpKeeps DEF Crash
<1>3. CASE UNCHANGED vars
  BY <1>3 DEF vars, IInv, Types, DownOK, PendingOK, Saving, SoundOK, MintedOK, UngivenOK,
              SuccessConverges, Configured, Sound, Aggregates
<1> QED
  BY <1>1, <1>2, <1>3, ConfigStepsKeep, GetConfigRawKeeps, PersistKeeps, PublishKeeps, PurgeKeeps,
     RefreshKeysKeeps, KeyStepsKeep, SetStatusKeeps, SetStatusOfKeeps, RestartKeeps DEF Next

\* A console operation that reports success leaves the router, the key store
\* and the saved configuration in agreement, whatever failed before it
\* (updateConfigLocked, DeleteVendor and the key operations of service.go).
THEOREM SuccessCorrect == Spec => []SuccessConverges
<1>1. IInv => SuccessConverges
  BY DEF IInv
<1> QED BY <1>1, Initially, IInvInductive, PTL DEF Spec

\* A vendor that operators have given no keys serves none: ids are minted once
\* and a partition is written only for its own vendor (NewVendorID, requireVendor).
THEOREM NoForeignCorrect == Spec => []NoForeignKeys
<1>1. IInv => NoForeignKeys
  BY DEF IInv, UngivenOK, NoForeignKeys, Configured
<1> QED BY <1>1, Initially, IInvInductive, PTL DEF Spec

\* Aggregates refer to plain vendors that exist, in the saved configuration and
\* in the published router (Config.validate before every save).
THEOREM ChildrenCorrect == Spec => []ChildrenExist
<1>1. IInv => ChildrenExist
  BY DEF IInv, SoundOK, Sound, ChildrenExist
<1> QED BY <1>1, Initially, IInvInductive, PTL DEF Spec
=============================================================================
