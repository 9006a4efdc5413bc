---------------------------- MODULE SchemaUpgrade ----------------------------
(***************************************************************************)
(* The upgrade tool (cmd/jc_proxy_upgrade) and the start of the server on  *)
(* what it leaves behind (internal/admin/store.go, internal/config,        *)
(* internal/keystore).  The configuration exists in up to two copies, the  *)
(* file and the database row; the key store is a file or a table.  Schema  *)
(* v1 names vendors and key partitions by the mutable vendor name, v2 and  *)
(* v3 by an id.  The tool mints an id for every name that has none, writes *)
(* the copies one after the other and then renames the partitions; every   *)
(* step may fail or be the last one, and the operator runs it again.  The  *)
(* server refuses anything that is not at the current version, and a       *)
(* configuration it cannot serve from.                                     *)
(*                                                                         *)
(* A vendor id is a pair of the run that minted it and the name it was     *)
(* minted for: NewVendorID draws 64 random bits.  One partition holds the  *)
(* keys that vendor n had before the upgrade.                              *)
(***************************************************************************)
EXTENDS Naturals, FiniteSets

CONSTANTS
  Names,      \* vendor names
  NotListed,  \* the copy has no vendor of that name
  NoId,       \* it has one without an id
  NoKeys,     \* there is no partition for that name
  ByName,     \* the partition is labelled with the name itself
  Remotes,    \* whether storage.config.driver is pgsql
  KeyDrivers, \* storage.upstream_keys.driver: file, pgsql
  FileIds,    \* the ids of a file with a vendor array: same as the database's,
              \* other (the name has been reused since), missing (hand-written)
  MaxRuns,    \* bound on the runs of the tool, besides one for every fault
  MaxFaults   \* bound on failed steps and crashes

ASSUME UpgradeConstants ==
  /\ Remotes \subseteq BOOLEAN /\ KeyDrivers \subseteq {"file", "pgsql"}
  /\ FileIds \subseteq {"same", "other", "missing"}
  /\ MaxRuns \in Nat /\ MaxFaults \in Nat

VARIABLES
  remote, driver, \* the storage configuration
  file, db,       \* the copies of the configuration
  secured,        \* the configuration in force has the credentials of the
                  \* administrator, or needs none
  keys,           \* the key store: version, layout, label of each partition
  pc,             \* the tool's next step
  read,           \* the payloads it has read
  mapping,        \* the ids it uses
  server,         \* down, saved (row written), configured (NewStore done),
                  \* created, up
  epoch,          \* runs and starts that minted ids so far
  faults

vars == <<remote, driver, file, db, secured, keys, pc, read, mapping, server, epoch, faults>>

CurrentSchemaVersion == 3
Versions == 0..CurrentSchemaVersion + 1  \* 0: nothing stored; the last: too new

Id(e, n) == <<e, n>>
Ids == {Id(e, n) : e \in 0..(MaxRuns + MaxFaults + 3), n \in Names}

\* No id is mistaken for the lack of one.
ASSUME MarkersDistinct ==
  /\ NotListed # NoId /\ NoKeys # ByName
  /\ {NotListed, NoId, NoKeys, ByName} \cap Ids = {}

Listed(copy) == {n \in Names : copy.id[n] # NotListed}
Empty == [version |-> 0, id |-> [n \in Names |-> NotListed]]
Copy(version, listed, how) ==
  [version |-> version,
   id |-> [n \in Names |->
            IF n \notin listed THEN NotListed
            ELSE IF version = 1 \/ how = "missing" THEN NoId
            ELSE Id(IF how = "other" THEN 1 ELSE 0, n)]]

\* What earlier servers and earlier runs leave: partitions are labelled with
\* ids only where every copy of the configuration has ids, a name is reused only
\* by a server that runs on them, and a hand-written file is met by no key of
\* its vendors except under their names.
Init ==
  /\ remote \in Remotes /\ driver \in KeyDrivers
  /\ \E how \in FileIds, listed \in SUBSET Names, v \in 1..4 :
       file \in {Empty, Copy(v, listed, how)}
  /\ \E listed \in SUBSET Names, v \in 1..4 : db \in {Empty, Copy(v, listed, "same")}
  /\ ~remote => db = Empty
  /\ secured \in BOOLEAN
  /\ keys \in [version : Versions, named : BOOLEAN,
               label : [Names -> {NoKeys, ByName} \cup {Id(0, n) : n \in Names}]]
  /\ \A n \in Names :
       keys.label[n] \in IF keys.named THEN {NoKeys, ByName} ELSE {NoKeys, Id(0, n)}
  /\ keys.version = 0 => ~keys.named /\ \A n \in Names : keys.label[n] = NoKeys
  /\ keys.named => keys.version = 1
  /\ driver = "file" /\ keys.version = 1 => keys.named
  /\ ~keys.named /\ (\E n \in Names : keys.label[n] # NoKeys)
       => file.version # 1 /\ db.version # 1
  /\ (\E n \in Names : file.id[n] = Id(1, n)) => db.version > 1 /\ ~keys.named
  /\ (\E n \in Names : file.version > 1 /\ file.id[n] = NoId)
       => \A n \in Names : keys.label[n] \in {NoKeys, ByName}
  /\ pc = "idle" /\ read = <<Empty, Empty>>
  /\ mapping = [n \in Names |-> NoId]
  /\ server = "down" /\ epoch = 2 /\ faults = 0

\* The types of the variables.
TypeOK ==
  /\ {file.version, db.version, keys.version} \subseteq Versions
  /\ \A copy \in {file, db} : copy.id \in [Names -> Ids \cup {NotListed, NoId}]
  /\ keys.label \in [Names -> Ids \cup {NoKeys, ByName}]
  /\ mapping \in [Names -> Ids \cup {NoId}]
  /\ pc \in {"idle", "file", "filewrite", "db", "dbwrite", "keys", "keyswrite", "stamp"}
  /\ server \in {"down", "saved", "configured", "created", "up"} /\ secured \in BOOLEAN

-----------------------------------------------------------------------------
(***************************************************************************)
(* The upgrade tool.                                                       *)
(***************************************************************************)

\* collect over the file, then over the row: the first copy that lists a name
\* decides, with its id or with a new one.
Resolved(f, d) ==
  [n \in Names |->
    LET first == IF n \in Listed(f) THEN f ELSE d
    IN IF n \notin Listed(f) \cup Listed(d) THEN NoId
       ELSE IF first.id[n] = NoId THEN Id(epoch, n) ELSE first.id[n]]

\* The row carries an id for a name that is mapped to another one.
Conflict(f, d) ==
  \E n \in Listed(f) \cap Listed(d) : d.id[n] \notin {NoId, Resolved(f, d)[n]}

\* Mutant of ResolveVendorIDs: every run mints its own ids.
MintVendorIDs ==
  /\ pc = "idle" /\ server = "down" /\ epoch < MaxRuns + faults + 2
  /\ ~Conflict(file, db)
  /\ epoch' = epoch + 1
  /\ read' = <<file, db>>
  /\ mapping' = [n \in Names |->
       IF n \in Listed(file) \cup Listed(db) THEN Id(epoch, n) ELSE NoId]
  /\ pc' = "file"
  /\ UNCHANGED <<remote, driver, file, db, secured, keys, server, faults>>

\* readConfigFile, openPGConfigStore and resolveVendorIDs.  A run that meets a
\* conflict ends here: it has written nothing and its ids are gone.
ResolveVendorIDs ==
  /\ pc = "idle" /\ server = "down" /\ epoch < MaxRuns + faults + 2
  /\ ~Conflict(file, db)
  /\ epoch' = epoch + 1
  /\ read' = <<file, db>>
  /\ mapping' = Resolved(file, db)
  /\ pc' = "file"
  /\ UNCHANGED <<remote, driver, file, db, secured, keys, server, faults>>

\* migrateConfigPayload: the vendors of a map get their ids, an array of vendors
\* is left as it is.
Migrated(copy) ==
  [version |-> CurrentSchemaVersion,
   id |-> [n \in Names |-> IF copy.version = 1 /\ copy.id[n] # NotListed
                             THEN mapping[n] ELSE copy.id[n]]]

\* Where the tool goes after looking at the version of a payload: too new ends
\* the run, nothing stored or current is skipped, an old one is rewritten.
AfterVersion(version, write, skip) ==
  IF version > CurrentSchemaVersion THEN "idle"
  ELSE IF version \in {0, CurrentSchemaVersion} THEN skip ELSE write

\* upgradeConfigFile: the checks and the backup, then tmp file and rename.
CheckConfigFile ==
  /\ pc = "file"
  /\ pc' = AfterVersion(read[1].version, "filewrite", "db")
  /\ UNCHANGED <<remote, driver, file, db, secured, keys, read, mapping, server, epoch, faults>>

WriteConfigFile ==
  /\ pc = "filewrite" /\ pc' = "db"
  /\ file' = Migrated(read[1])
  /\ UNCHANGED <<remote, driver, db, secured, keys, read, mapping, server, epoch, faults>>

\* pgConfigStore.Upgrade: the checks and the backup row, then the row itself.
CheckConfigRow ==
  /\ pc = "db"
  /\ pc' = AfterVersion(read[2].version, "dbwrite", "keys")
  /\ UNCHANGED <<remote, driver, file, db, secured, keys, read, mapping, server, epoch, faults>>

WriteConfigRow ==
  /\ pc = "dbwrite" /\ pc' = "keys"
  /\ db' = Migrated(read[2])
  /\ UNCHANGED <<remote, driver, file, secured, keys, read, mapping, server, epoch, faults>>

\* Mutant of CheckKeys: the renamed column of an earlier run is not recognised.
CheckKeysOnce ==
  /\ pc = "keys"
  /\ pc' = IF driver = "pgsql" /\ ~keys.named
             THEN "idle" ELSE AfterVersion(keys.version, "keyswrite", "idle")
  /\ mapping' = [n \in Names |->
       IF keys.named /\ keys.label[n] # NoKeys /\ mapping[n] = NoId
         THEN Id(epoch - 1, n) ELSE mapping[n]]
  /\ UNCHANGED <<remote, driver, file, db, secured, keys, read, server, epoch, faults>>

\* upgradeKeysPG and upgradeKeysFile up to their first write: the version, the
\* layout of the table, and ids for the partitions of no vendor.
CheckKeys ==
  /\ pc = "keys"
  /\ pc' = IF driver = "pgsql" /\ ~keys.named
             THEN AfterVersion(keys.version, "stamp", "idle")
             ELSE AfterVersion(keys.version, "keyswrite", "idle")
  /\ mapping' = [n \in Names |->
       IF keys.named /\ keys.label[n] # NoKeys /\ mapping[n] = NoId
         THEN Id(epoch - 1, n) ELSE mapping[n]]
  /\ UNCHANGED <<remote, driver, file, db, secured, keys, read, server, epoch, faults>>

\* Mutant of Relabelled: partitions of vendors that are not configured go.
RelabelledConfigured ==
  [n \in Names |->
    IF keys.label[n] = ByName
      THEN IF n \in Listed(read[1]) \cup Listed(read[2]) THEN mapping[n] ELSE NoKeys
      ELSE keys.label[n]]

\* The partitions under their new labels.
Relabelled == [n \in Names |-> IF keys.label[n] = ByName THEN mapping[n] ELSE keys.label[n]]

\* The rename of the key file, with its version; or the transaction that
\* relabels the rows and renames the column, which leaves the version alone.
\* Two partitions under one id would end the run.
WriteKeys ==
  /\ pc = "keyswrite"
  /\ IF \E m, n \in Names : m # n /\ Relabelled[m] # NoKeys /\ Relabelled[m] = Relabelled[n]
       THEN pc' = "idle" /\ UNCHANGED keys
       ELSE /\ keys' = [version |-> IF driver = "file" THEN CurrentSchemaVersion
                                                       ELSE keys.version,
                        named |-> FALSE, label |-> Relabelled]
            /\ pc' = IF driver = "file" THEN "idle" ELSE "stamp"
  /\ UNCHANGED <<remote, driver, file, db, secured, read, mapping, server, epoch, faults>>

\* stampKeyStoreVersion, a transaction of its own.
StampKeys ==
  /\ pc = "stamp" /\ pc' = "idle"
  /\ keys' = [keys EXCEPT !.version = CurrentSchemaVersion]
  /\ UNCHANGED <<remote, driver, file, db, secured, read, mapping, server, epoch, faults>>

-----------------------------------------------------------------------------
(***************************************************************************)
(* The start of the server.                                                *)
(***************************************************************************)

\* The copy the server runs on, before ids are minted.
Effective == IF remote /\ db.version # 0 THEN db ELSE file

\* ensureVendorIDs.
WithIds(copy) ==
  [copy EXCEPT !.id = [n \in Names |-> IF @[n] = NoId THEN Id(epoch, n) ELSE @[n]]]

\* config.Load refuses a file that lists no vendor, LoadBootstrap the lack of a
\* file unless the configuration is in the database.  A row may list no vendor.
Startable == IF file.version = 0 THEN remote ELSE Listed(file) # {}

\* config.Load and NewStore: every copy that is read must be current; a missing
\* row is seeded, and minted ids and a generated password of the administrator are
\* saved, to the row when there is one and to the file otherwise.
ServerConfig ==
  /\ server = "down" /\ pc = "idle"
  /\ file.version \in {0, CurrentSchemaVersion} /\ Startable
  /\ remote => db.version \in {0, CurrentSchemaVersion}
  /\ LET saved == [WithIds(Effective) EXCEPT !.version = CurrentSchemaVersion]
         minted == WithIds(Effective) # Effective
     IN /\ minted => epoch < MaxRuns + MaxFaults + 3
        /\ epoch' = IF minted THEN epoch + 1 ELSE epoch
        /\ db' = IF remote /\ (db.version = 0 \/ minted \/ ~secured) THEN saved ELSE db
        /\ file' = IF ~remote /\ (minted \/ ~secured) THEN saved ELSE file
  /\ secured' = TRUE
  /\ server' = IF remote /\ ~secured /\ file.version # 0 THEN "saved" ELSE "configured"
  /\ UNCHANGED <<remote, driver, keys, pc, read, mapping, faults>>

\* A generated password also goes to the file, and the vendors of the row with it.
ServerLocal ==
  /\ server = "saved" /\ server' = "configured"
  /\ file' = db
  /\ UNCHANGED <<remote, driver, db, secured, keys, pc, read, mapping, epoch, faults>>

\* A key file without partitions is adopted at any version, a table is not.
Readable ==
  \/ keys.version = CurrentSchemaVersion
  \/ driver = "file" /\ \A n \in Names : keys.label[n] = NoKeys

\* FileStore.load, or PGStore.init, which creates a missing table.
ServerKeys ==
  /\ server = "configured"
  /\ \/ Readable /\ server' = "up" /\ UNCHANGED keys
     \/ /\ ~Readable /\ keys.version = 0
        /\ keys' = [keys EXCEPT !.version = 1]
        /\ server' = "created"
     \/ ~Readable /\ keys.version # 0 /\ server' = "down" /\ UNCHANGED keys
  /\ UNCHANGED <<remote, driver, file, db, secured, pc, read, mapping, epoch, faults>>

\* The end of createSchema: the version of the new table.
ServerStamp ==
  /\ server = "created" /\ server' = "up"
  /\ keys' = [keys EXCEPT !.version = CurrentSchemaVersion]
  /\ UNCHANGED <<remote, driver, file, db, secured, pc, read, mapping, epoch, faults>>

-----------------------------------------------------------------------------
\* A step of the tool fails, or the tool or the starting server is killed.
Fault ==
  /\ faults < MaxFaults
  /\ pc # "idle" \/ server \in {"saved", "configured", "created"}
  /\ pc' = "idle" /\ server' = "down"
  /\ faults' = faults + 1
  /\ UNCHANGED <<remote, driver, file, db, secured, keys, read, mapping, epoch>>

ToolStep ==
  \/ CheckConfigFile \/ WriteConfigFile \/ CheckConfigRow \/ WriteConfigRow
  \/ CheckKeys \/ WriteKeys \/ StampKeys

Next ==
  \/ ResolveVendorIDs \/ ToolStep
  \/ ServerConfig \/ ServerLocal \/ ServerKeys \/ ServerStamp
  \/ Fault

\* The operator keeps trying: runs the tool again and starts the server again.
Fairness ==
  /\ WF_vars(ToolStep)
  /\ SF_vars(ResolveVendorIDs) /\ SF_vars(ServerConfig)
  /\ WF_vars(ServerLocal) /\ WF_vars(ServerKeys) /\ WF_vars(ServerStamp)

Spec == Init /\ [][Next]_vars /\ Fairness

-----------------------------------------------------------------------------
(***************************************************************************)
(* Properties.                                                             *)
(***************************************************************************)

\* A server that is up finds the keys of each of its vendors under the vendor's
\* id, and no vendor finds the keys of another one, whatever run, failure or
\* crash came before (resolveVendorIDs: "reuse it everywhere, so a partially
\* completed run can be resumed without ids shifting").
KeysFollowVendor ==
  server = "up" =>
    \A n \in Names : keys.label[n] # NoKeys =>
      IF n \in Listed(Effective)
        THEN keys.label[n] = Effective.id[n]
        ELSE \A m \in Listed(Effective) : Effective.id[m] # keys.label[n]

\* No step loses a partition or moves one that has its id, changes an id that a
\* copy of the configuration carries, or writes to a store of a newer schema
\* (keyStoreSchemaVersion: "never stamp a future schema with this binary's older
\* version").  The one exception: where the row is in force, NewStore may replace
\* the vendors of the file, and then by those of the row.
NothingMoved ==
  [][/\ \A n \in Names :
          /\ keys.label[n] = NoKeys <=> keys'.label[n] = NoKeys
          /\ keys.label[n] \in Ids => keys'.label[n] = keys.label[n]
          /\ file.id[n] \in Ids => file'.id[n] = file.id[n] \/ (remote /\ file' = db)
          /\ db.id[n] \in Ids => db'.id[n] = db.id[n]
     /\ file.version > CurrentSchemaVersion => file' = file
     /\ db.version > CurrentSchemaVersion => db' = db
     /\ keys.version > CurrentSchemaVersion => keys' = keys]_vars

\* NewStore leaves a file that the next start refuses when it has generated a
\* password next to a row without vendors.
FileAtRisk ==
  /\ remote /\ file.version # 0
  /\ db.version # 0 /\ Listed(db) = {}
  /\ ~secured \/ server = "saved"

\* Run after run, the tool brings every deployment that this binary can read, that
\* has something to serve from and whose copies agree to a state in which the server
\* starts, wherever earlier runs and starts broke off.
UpgradeCompletes ==
  /\ \A version \in {file.version, db.version, keys.version} : version <= CurrentSchemaVersion
  /\ Startable /\ ~FileAtRisk /\ ~Conflict(file, db)
  ~> server = "up"
=============================================================================
