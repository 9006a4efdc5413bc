------------------------ MODULE SchemaUpgradeProofs ------------------------
(***************************************************************************)
(* Theorems about SchemaUpgrade, for any vendor names, storage drivers and *)
(* numbers of runs and faults: no step of the tool or of a starting server *)
(* moves keys or changes an id, and a server that is up finds the keys of  *)
(* each of its vendors, unless a hand-written file has vendors without     *)
(* ids.                                                                    *)
(***************************************************************************)
EXTENDS SchemaUpgrade, TLAPS

Top == MaxRuns + MaxFaults + 3
IdsOf(n) == {Id(e, n) : e \in 0..Top}

Copies == [version : Versions, id : [Names -> Ids \cup {NotListed, NoId}]]

\* An id is used only for the name it was minted for.
Own(copy) == \A n \in Names : copy.id[n] \in {NotListed, NoId} \cup IdsOf(n)

Types ==
  /\ remote \in BOOLEAN /\ driver \in {"file", "pgsql"}
  /\ file \in Copies /\ db \in Copies
  /\ keys \in [version : Versions, named : BOOLEAN, label : [Names -> Ids \cup {NoKeys, ByName}]]
  /\ mapping \in [Names -> Ids \cup {NoId}]
  /\ epoch \in 2..Top /\ faults \in 0..MaxFaults
  /\ pc \in {"idle", "file", "filewrite", "db", "dbwrite", "keys", "keyswrite", "stamp"}
  /\ server \in {"down", "saved", "configured", "created", "up"}

OwnOK == Own(file) /\ Own(db) /\ \A n \in Names : mapping[n] \in {NoId} \cup IdsOf(n)

\* While the tool runs nobody else writes, and it rewrites only old payloads; a
\* server that rewrites the file has brought the row up to date.
ToolOK ==
  /\ pc # "idle" => server = "down" /\ epoch > 2
  /\ pc \in {"file", "filewrite"} => read[1] = file
  /\ pc \in {"file", "filewrite", "db", "dbwrite"} => read[2] = db
  /\ pc = "filewrite" => file.version \in {1, 2}
  /\ pc = "dbwrite" => db.version \in {1, 2}
  /\ pc \in {"keyswrite", "stamp"} => keys.version \in {1, 2}
  /\ pc = "stamp" => ~keys.named
  /\ server = "saved" => remote /\ db.version = 3 /\ file.version = 3

\* The ids of a run agree with those both copies carry already.
MappingOK ==
  pc # "idle" =>
    \A n \in Names :
      /\ file.id[n] \in {NotListed, NoId, mapping[n]} /\ db.id[n] \in {NotListed, NoId, mapping[n]}
      /\ n \in Listed(file) \cup Listed(db) => mapping[n] # NoId
      /\ pc = "keyswrite" /\ keys.label[n] = ByName => mapping[n] # NoId

\* The copies come first, the keys last.
OrderOK ==
  /\ pc \in {"db", "dbwrite", "keys", "keyswrite", "stamp"} => file.version # 1
  /\ pc \in {"keys", "keyswrite", "stamp"} => db.version # 1

\* Schema v1 has no ids, and neither has a copy that does not exist.
VersionOK ==
  \A copy \in {file, db} : copy.version \in {0, 1} => \A n \in Names : copy.id[n] \in {NotListed, NoId}

KeysOK ==
  /\ \A n \in Names : keys.label[n] \in IF keys.named THEN {NoKeys, ByName} ELSE {NoKeys} \cup IdsOf(n)
  /\ keys.named => keys.version = 1
  /\ keys.version = 0 => \A n \in Names : keys.label[n] = NoKeys
  /\ server = "created" => keys.version = 1 /\ ~keys.named

IInv == Types /\ OwnOK /\ ToolOK /\ MappingOK /\ OrderOK /\ VersionOK /\ KeysOK

-----------------------------------------------------------------------------
\* Without hand-written files, only vendors of schema v1 lack an id.
IdsOK ==
  \A copy \in {file, db} : copy.version # 1 => \A n \in Names : copy.id[n] # NoId

\* Partitions under ids are those of the copy a server would run on.
LabelsOK ==
  ~keys.named =>
    \A n \in Names : keys.label[n] # NoKeys =>
      /\ file.version # 1 /\ db.version # 1
      /\ n \in Listed(Effective) => keys.label[n] = Effective.id[n]

UpOK == server = "up" => ~keys.named \/ \A n \in Names : keys.label[n] = NoKeys

FollowInv == IdsOK /\ LabelsOK /\ UpOK

-----------------------------------------------------------------------------
(***************************************************************************)
(* Facts about the operators.                                              *)
(***************************************************************************)

LEMMA TopBound == Top \in Nat /\ Top >= 3 /\ Top = MaxRuns + MaxFaults + 3
BY UpgradeConstants DEF Top

LEMMA IdFacts ==
  ASSUME NEW n \in Names
  PROVE  /\ IdsOf(n) \subseteq Ids /\ \A e \in 0..Top : Id(e, n) \in IdsOf(n)
         /\ NotListed \notin IdsOf(n) /\ NoId \notin IdsOf(n)
         /\ NoKeys \notin IdsOf(n) /\ ByName \notin IdsOf(n)
         /\ \A m \in Names : m # n => IdsOf(m) \cap IdsOf(n) = {}
<1>1. IdsOf(n) \subseteq Ids
  BY DEF IdsOf, Ids, Top
<1>2. NotListed \notin Ids /\ NoId \notin Ids /\ NoKeys \notin Ids /\ ByName \notin Ids
  BY MarkersDistinct
<1>3. \A e \in 0..Top : Id(e, n) \in IdsOf(n)
  BY DEF IdsOf
<1>4. \A m \in Names : m # n => IdsOf(m) \cap IdsOf(n) = {}
  BY DEF IdsOf, Id
<1> QED BY <1>1, <1>2, <1>3, <1>4

\* migrateConfigPayload adds ids and takes none away.
LEMMA MigratedFacts ==
  ASSUME Types, OwnOK, NEW copy \in Copies, Own(copy)
  PROVE  /\ Migrated(copy) \in Copies /\ Own(Migrated(copy)) /\ Migrated(copy).version = 3
         /\ Listed(Migrated(copy)) = Listed(copy)
         /\ copy.version # 1 => Migrated(copy).id = copy.id
         /\ copy.version = 1 => \A n \in Listed(copy) : Migrated(copy).id[n] = mapping[n]
<1> DEFINE ids == [n \in Names |-> IF copy.version = 1 /\ copy.id[n] # NotListed
                                     THEN mapping[n] ELSE copy.id[n]]
<1>1. Migrated(copy) = [version |-> 3, id |-> ids] /\ 3 \in Versions
  BY DEF Migrated, CurrentSchemaVersion, Versions
<1>2. ids \in [Names -> Ids \cup {NotListed, NoId}]
  BY DEF Types, Copies
<1>3. \A n \in Names : ids[n] = IF copy.version = 1 /\ copy.id[n] # NotListed
                                  THEN mapping[n] ELSE copy.id[n]
  OBVIOUS
<1>4. \A n \in Names : ids[n] \in {NotListed, NoId} \cup IdsOf(n)
  BY DEF OwnOK, Own
<1>5. copy.version # 1 => ids = copy.id
  BY DEF Copies
<1>6. \A n \in Names : ids[n] = NotListed <=> copy.id[n] = NotListed
  BY IdFacts, MarkersDistinct DEF OwnOK
<1> HIDE DEF ids
<1>7. Migrated(copy) \in Copies /\ Migrated(copy).id = ids /\ Migrated(copy).version = 3
  BY <1>1, <1>2 DEF Copies
<1> QED BY <1>3, <1>4, <1>5, <1>6, <1>7 DEF Own, Listed

\* resolveVendorIDs keeps the ids there are and mints the others.
LEMMA ResolvedFacts ==
  ASSUME Types, OwnOK
  PROVE  /\ Resolved(file, db) \in [Names -> Ids \cup {NoId}]
         /\ \A n \in Names :
              /\ Resolved(file, db)[n] \in {NoId} \cup IdsOf(n)
              /\ n \in Listed(file) \cup Listed(db) => Resolved(file, db)[n] # NoId
              /\ file.id[n] \in {NotListed, NoId, Resolved(file, db)[n]}
              /\ ~Conflict(file, db) => db.id[n] \in {NotListed, NoId, Resolved(file, db)[n]}
<1>1. \A n \in Names : Resolved(file, db)[n] =
        LET first == IF n \in Listed(file) THEN file ELSE db
        IN IF n \notin Listed(file) \cup Listed(db) THEN NoId
           ELSE IF first.id[n] = NoId THEN Id(epoch, n) ELSE first.id[n]
  BY DEF Resolved
<1>2. \A n \in Names : Id(epoch, n) \in IdsOf(n)
  BY IdFacts, TopBound DEF Types
<1>3. \A n \in Names : /\ n \in Listed(file) => file.id[n] \in {NoId} \cup IdsOf(n)
                       /\ n \in Listed(db) => db.id[n] \in {NoId} \cup IdsOf(n)
                       /\ n \notin Listed(file) => file.id[n] = NotListed
                       /\ n \notin Listed(db) => db.id[n] = NotListed
  BY DEF OwnOK, Own, Listed
<1>4. ASSUME NEW n \in Names
      PROVE  /\ Resolved(file, db)[n] \in {NoId} \cup IdsOf(n)
             /\ n \in Listed(file) \cup Listed(db) => Resolved(file, db)[n] # NoId
             /\ file.id[n] \in {NotListed, NoId, Resolved(file, db)[n]}
             /\ ~Conflict(file, db) => db.id[n] \in {NotListed, NoId, Resolved(file, db)[n]}
  <2>1. NoId \notin IdsOf(n)
    BY IdFacts
  <2>2. ~Conflict(file, db) => db.id[n] \in {NotListed, NoId, Resolved(file, db)[n]}
    <3>1. CASE n \in Listed(file) \cap Listed(db)
      BY <3>1 DEF Conflict
    <3>2. CASE n \notin Listed(file) \cap Listed(db)
      BY <1>1, <1>3, <3>2
    <3> QED BY <3>1, <3>2
  <2> QED BY <1>1, <1>2, <1>3, <2>1, <2>2
<1>5. Resolved(file, db) \in [Names -> Ids \cup {NoId}]
  <2>1. \A n \in Names : Resolved(file, db)[n] \in Ids \cup {NoId}
    BY <1>4, IdFacts
  <2> QED BY <2>1 DEF Resolved
<1> QED BY <1>4, <1>5

\* ensureVendorIDs mints what is missing.
LEMMA WithIdsFacts ==
  ASSUME Types, NEW copy \in Copies, Own(copy)
  PROVE  /\ WithIds(copy) \in Copies /\ Own(WithIds(copy)) /\ WithIds(copy).version = copy.version
         /\ \A n \in Names : /\ WithIds(copy).id[n] # NoId
                             /\ copy.id[n] # NoId => WithIds(copy).id[n] = copy.id[n]
         /\ (\A n \in Names : copy.id[n] # NoId) => WithIds(copy) = copy
<1> DEFINE ids == [n \in Names |-> IF copy.id[n] = NoId THEN Id(epoch, n) ELSE copy.id[n]]
<1>1. WithIds(copy) = [copy EXCEPT !.id = ids]
  BY DEF WithIds
<1>2. \A n \in Names : Id(epoch, n) \in IdsOf(n) /\ Id(epoch, n) \in Ids /\ Id(epoch, n) # NoId
  BY IdFacts, TopBound DEF Types
<1>3. ids \in [Names -> Ids \cup {NotListed, NoId}] /\ copy.id \in [Names -> Ids \cup {NotListed, NoId}]
  BY <1>2 DEF Copies
<1>4. \A n \in Names : ids[n] = IF copy.id[n] = NoId THEN Id(epoch, n) ELSE copy.id[n]
  OBVIOUS
<1>5. (\A n \in Names : copy.id[n] # NoId) => ids = copy.id
  BY <1>3, <1>4
<1> HIDE DEF ids
<1>6. WithIds(copy) \in Copies /\ WithIds(copy).id = ids /\ WithIds(copy).version = copy.version
      /\ (ids = copy.id => WithIds(copy) = copy)
  BY <1>1, <1>3 DEF Copies
<1> QED BY <1>2, <1>4, <1>5, <1>6 DEF Own

-----------------------------------------------------------------------------
(***************************************************************************)
(* The invariant.                                                          *)
(***************************************************************************)

LEMMA UpgradeInit == Init => IInv
<1> SUFFICES ASSUME Init PROVE IInv
  OBVIOUS
<1>1. Empty \in Copies /\ Own(Empty) /\ \A n \in Names : Empty.id[n] = NotListed
  BY DEF Empty, Copies, Own, Versions, CurrentSchemaVersion
<1>2. ASSUME NEW v \in 1..4, NEW listed \in SUBSET Names, NEW how
      PROVE  /\ Copy(v, listed, how) \in Copies /\ Own(Copy(v, listed, how))
             /\ Copy(v, listed, how).version \in {0, 1} =>
                  \A n \in Names : Copy(v, listed, how).id[n] \in {NotListed, NoId}
  <2> DEFINE ids == [n \in Names |->
                       IF n \notin listed THEN NotListed
                       ELSE IF v = 1 \/ how = "missing" THEN NoId
                       ELSE Id(IF how = "other" THEN 1 ELSE 0, n)]
  <2>1. \A n \in Names : ids[n] \in {NotListed, NoId} \cup IdsOf(n)
    BY IdFacts, TopBound
  <2>2. ids \in [Names -> Ids \cup {NotListed, NoId}]
    BY <2>1, IdFacts
  <2>3. v = 1 => \A n \in Names : ids[n] \in {NotListed, NoId}
    OBVIOUS
  <2>4. Copy(v, listed, how) = [version |-> v, id |-> ids] /\ v \in Versions
    BY DEF Copy, Versions, CurrentSchemaVersion
  <2> HIDE DEF ids
  <2> QED BY <2>1, <2>2, <2>3, <2>4 DEF Copies, Own
<1>3. /\ file \in Copies /\ Own(file) /\ db \in Copies /\ Own(db) /\ VersionOK
  <2>1. /\ \E how \in FileIds, listed \in SUBSET Names, v \in 1..4 :
             file = Empty \/ file = Copy(v, listed, how)
        /\ \E listed \in SUBSET Names, v \in 1..4 : db = Empty \/ db = Copy(v, listed, "same")
    BY DEF Init
  <2> DEFINE Fine(copy) == /\ copy \in Copies /\ Own(copy)
                           /\ copy.version \in {0, 1} => \A n \in Names : copy.id[n] \in {NotListed, NoId}
  <2>2. Fine(Empty)
    BY <1>1
  <2>3. \A v \in 1..4, listed \in SUBSET Names : \A how : Fine(Copy(v, listed, how))
    BY <1>2
  <2> HIDE DEF Fine
  <2>4. Fine(file) /\ Fine(db)
    BY <2>1, <2>2, <2>3
  <2> QED BY <2>4 DEF Fine, VersionOK
<1>4. \A n \in Names : Id(0, n) \in IdsOf(n) /\ Id(0, n) \in Ids
  BY IdFacts, TopBound
<1>5. keys \in [version : Versions, named : BOOLEAN, label : [Names -> Ids \cup {NoKeys, ByName}]]
  BY <1>4 DEF Init
<1>6. Types
  BY <1>3, <1>5, TopBound, UpgradeConstants DEF Init, Types
<1>7. OwnOK
  BY <1>3 DEF Init, OwnOK
<1>8. KeysOK
  BY <1>4 DEF Init, KeysOK
<1>9. ToolOK /\ MappingOK /\ OrderOK
  BY DEF Init, ToolOK, MappingOK, OrderOK
<1> QED BY <1>3, <1>6, <1>7, <1>8, <1>9 DEF IInv

\* The tool starts: the mapping takes over every id there is.
LEMMA ResolveKeeps ==
  ASSUME IInv, ResolveVendorIDs
  PROVE  IInv'
<1>1. /\ pc = "idle" /\ server = "down" /\ epoch' = epoch + 1 /\ epoch < MaxRuns + faults + 2
      /\ read' = <<file, db>> /\ UNCHANGED <<remote, driver, file, db, keys, server, faults>>
  BY DEF ResolveVendorIDs
<1>2. epoch' \in 2..Top /\ epoch' > 2
  BY <1>1, TopBound, UpgradeConstants DEF IInv, Types
<1>3. mapping' = Resolved(file, db) /\ pc' = "file" /\ ~Conflict(file, db)
  BY DEF ResolveVendorIDs
<1>4. Types' /\ OwnOK'
  BY <1>1, <1>2, <1>3, ResolvedFacts DEF IInv, Types, OwnOK, Own
<1>5. MappingOK'
  BY <1>1, <1>3, ResolvedFacts DEF IInv, MappingOK, Listed
<1>6. ToolOK' /\ OrderOK' /\ VersionOK' /\ KeysOK'
  BY <1>1, <1>2, <1>3 DEF IInv, ToolOK, OrderOK, VersionOK, KeysOK
<1> QED BY <1>4, <1>5, <1>6 DEF IInv

LEMMA AfterVersionCases ==
  ASSUME NEW v \in Versions, NEW write, NEW skip
  PROVE  /\ AfterVersion(v, write, skip) \in {"idle", write, skip}
         /\ AfterVersion(v, write, skip) = IF v = 4 THEN "idle" ELSE IF v \in {1, 2} THEN write ELSE skip
BY DEF AfterVersion, Versions, CurrentSchemaVersion

LEMMA ChecksKeep ==
  ASSUME IInv, CheckConfigFile \/ CheckConfigRow
  PROVE  IInv'
<1>1. UNCHANGED <<remote, driver, file, db, keys, read, mapping, server, epoch, faults>>
  BY DEF CheckConfigFile, CheckConfigRow
<1>2. /\ file.version \in Versions /\ db.version \in Versions
  BY DEF IInv, Types, Copies
<1>3. \/ pc = "file" /\ pc' = IF file.version = 4 THEN "idle" ELSE IF file.version \in {1, 2} THEN "filewrite" ELSE "db"
      \/ pc = "db" /\ pc' = IF db.version = 4 THEN "idle" ELSE IF db.version \in {1, 2} THEN "dbwrite" ELSE "keys"
  BY <1>2, AfterVersionCases DEF CheckConfigFile, CheckConfigRow, IInv, ToolOK
<1>4. Types' /\ OwnOK' /\ VersionOK' /\ KeysOK'
  BY <1>1, <1>3 DEF IInv, Types, OwnOK, VersionOK, KeysOK, Own
<1>5. ToolOK' /\ OrderOK'
  BY <1>1, <1>3 DEF IInv, ToolOK, OrderOK
<1>6. MappingOK'
  BY <1>1, <1>3 DEF IInv, MappingOK, Listed
<1> QED BY <1>4, <1>5, <1>6 DEF IInv

LEMMA WriteConfigFileKeeps ==
  ASSUME IInv, WriteConfigFile
  PROVE  IInv'
<1>1. /\ pc = "filewrite" /\ pc' = "db" /\ file' = Migrated(file)
      /\ UNCHANGED <<remote, driver, db, keys, read, mapping, server, epoch, faults>>
  BY DEF WriteConfigFile, IInv, ToolOK
<1>2. /\ file' \in Copies /\ Own(file)' /\ file'.version = 3 /\ Listed(file)' = Listed(file)
      /\ file.version # 1 => file'.id = file.id
      /\ file.version = 1 => \A n \in Listed(file) : file'.id[n] = mapping[n]
  <2>1. PICK f : f = Migrated(file)
    OBVIOUS
  <2>2. /\ f \in Copies /\ Own(f) /\ f.version = 3 /\ Listed(f) = Listed(file)
        /\ file.version # 1 => f.id = file.id
        /\ file.version = 1 => \A n \in Listed(file) : f.id[n] = mapping[n]
    BY <2>1, MigratedFacts DEF IInv, Types, OwnOK
  <2>3. file' = f
    BY <1>1, <2>1
  <2> QED BY <2>2, <2>3 DEF Own, Listed
<1>3. Types' /\ OwnOK'
  BY <1>1, <1>2 DEF IInv, Types, OwnOK, Own
<1>4. ToolOK' /\ OrderOK' /\ VersionOK' /\ KeysOK'
  BY <1>1, <1>2 DEF IInv, ToolOK, OrderOK, VersionOK, KeysOK
<1>5. MappingOK'
  <2>1. \A n \in Names : file'.id[n] \in {NotListed, NoId, mapping[n]}
    BY <1>1, <1>2 DEF IInv, MappingOK, Listed
  <2> QED BY <1>1, <1>2, <2>1 DEF IInv, MappingOK, Listed
<1> QED BY <1>3, <1>4, <1>5 DEF IInv

LEMMA WriteConfigRowKeeps ==
  ASSUME IInv, WriteConfigRow
  PROVE  IInv'
<1>1. /\ pc = "dbwrite" /\ pc' = "keys" /\ db' = Migrated(db)
      /\ UNCHANGED <<remote, driver, file, keys, read, mapping, server, epoch, faults>>
  BY DEF WriteConfigRow, IInv, ToolOK
<1>2. /\ db' \in Copies /\ Own(db)' /\ db'.version = 3 /\ Listed(db)' = Listed(db)
      /\ db.version # 1 => db'.id = db.id
      /\ db.version = 1 => \A n \in Listed(db) : db'.id[n] = mapping[n]
  <2>1. PICK f : f = Migrated(db)
    OBVIOUS
  <2>2. /\ f \in Copies /\ Own(f) /\ f.version = 3 /\ Listed(f) = Listed(db)
        /\ db.version # 1 => f.id = db.id
        /\ db.version = 1 => \A n \in Listed(db) : f.id[n] = mapping[n]
    BY <2>1, MigratedFacts DEF IInv, Types, OwnOK
  <2>3. db' = f
    BY <1>1, <2>1
  <2> QED BY <2>2, <2>3 DEF Own, Listed
<1>3. Types' /\ OwnOK'
  BY <1>1, <1>2 DEF IInv, Types, OwnOK, Own
<1>4. ToolOK' /\ OrderOK' /\ VersionOK' /\ KeysOK'
  BY <1>1, <1>2 DEF IInv, ToolOK, OrderOK, VersionOK, KeysOK
<1>5. MappingOK'
  <2>1. \A n \in Names : db'.id[n] \in {NotListed, NoId, mapping[n]}
    BY <1>1, <1>2 DEF IInv, MappingOK, Listed
  <2> QED BY <1>1, <1>2, <2>1 DEF IInv, MappingOK, Listed
<1> QED BY <1>3, <1>4, <1>5 DEF IInv

\* The keys are looked at: partitions of no vendor get ids of their own.
LEMMA CheckKeysKeeps ==
  ASSUME IInv, CheckKeys
  PROVE  IInv'
<1>1. /\ pc = "keys" /\ UNCHANGED <<remote, driver, file, db, keys, read, server, epoch, faults>>
      /\ mapping' = [n \in Names |-> IF keys.named /\ keys.label[n] # NoKeys /\ mapping[n] = NoId
                                       THEN Id(epoch - 1, n) ELSE mapping[n]]
  BY DEF CheckKeys
<1>2. /\ pc' \in {"idle", "keyswrite", "stamp"} /\ (pc' # "idle" => keys.version \in {1, 2})
      /\ pc' = "stamp" => ~keys.named
  <2>1. keys.version \in Versions
    BY DEF IInv, Types
  <2> QED BY <2>1, AfterVersionCases DEF CheckKeys
<1>3. \A n \in Names : Id(epoch - 1, n) \in IdsOf(n) /\ Id(epoch - 1, n) \in Ids /\ Id(epoch - 1, n) # NoId
  BY IdFacts, TopBound DEF IInv, Types
<1>4. \A n \in Names : mapping'[n] = IF keys.named /\ keys.label[n] # NoKeys /\ mapping[n] = NoId
                                      THEN Id(epoch - 1, n) ELSE mapping[n]
  BY <1>1
<1>5. Types'
  BY <1>1, <1>2, <1>3 DEF IInv, Types
<1>6. OwnOK'
  BY <1>1, <1>3, <1>4 DEF IInv, OwnOK, Own
<1>7. ToolOK' /\ OrderOK' /\ VersionOK' /\ KeysOK'
  BY <1>1, <1>2 DEF IInv, ToolOK, OrderOK, VersionOK, KeysOK
<1>8. MappingOK'
  <2> SUFFICES ASSUME NEW n \in Names
               PROVE  /\ file.id[n] \in {NotListed, NoId, mapping'[n]}
                      /\ db.id[n] \in {NotListed, NoId, mapping'[n]}
                      /\ n \in Listed(file) \cup Listed(db) => mapping'[n] # NoId
                      /\ keys.label[n] = ByName => mapping'[n] # NoId
    BY <1>1 DEF MappingOK, Listed
  <2>1. /\ file.id[n] \in {NotListed, NoId, mapping[n]} /\ db.id[n] \in {NotListed, NoId, mapping[n]}
        /\ n \in Listed(file) \cup Listed(db) => mapping[n] # NoId
    BY <1>1 DEF IInv, MappingOK
  <2>2. mapping[n] # NoId => mapping'[n] = mapping[n]
    BY <1>4
  <2>3. keys.label[n] = ByName => keys.named /\ keys.label[n] # NoKeys
    BY IdFacts, MarkersDistinct DEF IInv, KeysOK
  <2>4. keys.label[n] = ByName => mapping'[n] # NoId
    BY <1>3, <1>4, <2>3
  <2> QED BY <2>1, <2>2, <2>4
<1> QED BY <1>5, <1>6, <1>7, <1>8 DEF IInv

\* The new labels: every partition is kept, under an id of its own name.
LEMMA RelabelledFacts ==
  ASSUME IInv, pc = "keyswrite"
  PROVE  /\ Relabelled \in [Names -> Ids \cup {NoKeys, ByName}]
         /\ \A n \in Names :
              /\ Relabelled[n] \in {NoKeys} \cup IdsOf(n)
              /\ Relabelled[n] = NoKeys <=> keys.label[n] = NoKeys
              /\ keys.label[n] = ByName => Relabelled[n] = mapping[n]
              /\ keys.label[n] # ByName => Relabelled[n] = keys.label[n]
<1>1. \A n \in Names : Relabelled[n] = IF keys.label[n] = ByName THEN mapping[n] ELSE keys.label[n]
  BY DEF Relabelled
<1>2. ASSUME NEW n \in Names
      PROVE  /\ Relabelled[n] \in {NoKeys} \cup IdsOf(n)
             /\ Relabelled[n] = NoKeys <=> keys.label[n] = NoKeys
  <2>1. keys.label[n] = ByName => mapping[n] \in IdsOf(n)
    BY DEF IInv, MappingOK, OwnOK
  <2>2. keys.label[n] # ByName => keys.label[n] \in {NoKeys} \cup IdsOf(n)
    BY DEF IInv, KeysOK
  <2>3. NoKeys \notin IdsOf(n) /\ NoKeys # ByName
    BY IdFacts, MarkersDistinct
  <2> QED BY <1>1, <2>1, <2>2, <2>3
<1>3. Relabelled \in [Names -> Ids \cup {NoKeys, ByName}]
  <2>1. \A n \in Names : Relabelled[n] \in Ids \cup {NoKeys, ByName}
    BY <1>2, IdFacts
  <2> QED BY <2>1 DEF Relabelled
<1> QED BY <1>1, <1>2, <1>3

LEMMA WriteKeysKeeps ==
  ASSUME IInv, WriteKeys
  PROVE  IInv'
<1>1. pc = "keyswrite" /\ UNCHANGED <<remote, driver, file, db, read, mapping, server, epoch, faults>>
  BY DEF WriteKeys
<1>2. CASE pc' = "idle" /\ UNCHANGED keys
  BY <1>1, <1>2 DEF IInv, Types, OwnOK, ToolOK, MappingOK, OrderOK, VersionOK, KeysOK, Own
<1>3. CASE /\ keys' = [version |-> IF driver = "file" THEN CurrentSchemaVersion ELSE keys.version,
                       named |-> FALSE, label |-> Relabelled]
           /\ pc' = IF driver = "file" THEN "idle" ELSE "stamp"
  <2>1. PICK v : v = IF driver = "file" THEN 3 ELSE keys.version
    OBVIOUS
  <2>2. PICK l : l = Relabelled
    OBVIOUS
  <2>3. keys' = [version |-> v, named |-> FALSE, label |-> l]
    BY <1>3, <2>1, <2>2 DEF CurrentSchemaVersion
  <2>4. /\ keys'.version = v /\ keys'.named = FALSE /\ keys'.label = l
        /\ l \in [Names -> Ids \cup {NoKeys, ByName}] /\ v \in Versions
    BY <1>1, <2>1, <2>2, <2>3, RelabelledFacts DEF IInv, Types, Versions, CurrentSchemaVersion
  <2>5. keys.version \in {1, 2} /\ server = "down"
    BY <1>1 DEF IInv, ToolOK
  <2>6. Types'
    BY <1>1, <1>3, <2>3, <2>4 DEF IInv, Types
  <2>7. KeysOK'
    BY <1>1, <2>1, <2>2, <2>4, <2>5, RelabelledFacts DEF IInv, KeysOK
  <2>8. ToolOK' /\ OrderOK' /\ VersionOK' /\ OwnOK'
    BY <1>1, <1>3, <2>1, <2>4, <2>5 DEF IInv, ToolOK, OrderOK, VersionOK, OwnOK, Own
  <2>9. MappingOK'
    BY <1>1, <1>3 DEF IInv, MappingOK, Listed
  <2> QED BY <2>6, <2>7, <2>8, <2>9 DEF IInv
<1> QED BY <1>2, <1>3 DEF WriteKeys

\* Stamping changes the version only.
LEMMA StampsKeep ==
  ASSUME IInv, StampKeys \/ ServerStamp
  PROVE  IInv'
<1>1. /\ keys' = [keys EXCEPT !.version = 3] /\ keys.version \in {1, 2} /\ ~keys.named
      /\ UNCHANGED <<remote, driver, file, db, read, mapping, epoch, faults>>
      /\ pc' = "idle" /\ server' \in {"down", "up"}
  BY DEF StampKeys, ServerStamp, CurrentSchemaVersion, IInv, ToolOK, KeysOK, Types
<1>2. /\ keys' \in [version : Versions, named : BOOLEAN, label : [Names -> Ids \cup {NoKeys, ByName}]]
      /\ keys'.version = 3 /\ keys'.named = keys.named /\ keys'.label = keys.label
  BY <1>1 DEF IInv, Types, Versions, CurrentSchemaVersion
<1>3. Types' /\ OwnOK' /\ VersionOK'
  BY <1>1, <1>2 DEF IInv, Types, OwnOK, VersionOK, Own
<1>4. KeysOK' /\ ToolOK' /\ OrderOK' /\ MappingOK'
  BY <1>1, <1>2 DEF IInv, KeysOK, ToolOK, OrderOK, MappingOK
<1> QED BY <1>3, <1>4 DEF IInv

\* The server takes the keys as they are, or creates an empty table.
LEMMA ServerKeysKeeps ==
  ASSUME IInv, ServerKeys
  PROVE  IInv'
<1>1. /\ server = "configured" /\ pc = "idle"
      /\ UNCHANGED <<remote, driver, file, db, pc, read, mapping, epoch, faults>>
  BY DEF ServerKeys, IInv, ToolOK
<1>2. CASE UNCHANGED keys /\ server' \in {"up", "down"}
  BY <1>1, <1>2 DEF IInv, Types, OwnOK, ToolOK, MappingOK, OrderOK, VersionOK, KeysOK, Own
<1>3. CASE keys.version = 0 /\ keys' = [keys EXCEPT !.version = 1] /\ server' = "created"
  <2>1. /\ keys' \in [version : Versions, named : BOOLEAN, label : [Names -> Ids \cup {NoKeys, ByName}]]
        /\ keys'.version = 1 /\ keys'.named = keys.named /\ keys'.label = keys.label
    BY <1>3 DEF IInv, Types, Versions, CurrentSchemaVersion
  <2>2. Types' /\ OwnOK' /\ VersionOK'
    BY <1>1, <1>3, <2>1 DEF IInv, Types, OwnOK, VersionOK, Own
  <2>3. KeysOK' /\ ToolOK' /\ OrderOK' /\ MappingOK'
    BY <1>1, <1>3, <2>1 DEF IInv, KeysOK, ToolOK, OrderOK, MappingOK
  <2> QED BY <2>2, <2>3 DEF IInv
<1> QED BY <1>2, <1>3 DEF ServerKeys

\* What the start of the server may write: the copy it runs on, at the current
\* version and with the ids it has.
LEMMA ServerConfigEffect ==
  ASSUME IInv, ServerConfig
  PROVE  /\ pc = "idle" /\ server = "down" /\ server' \in {"saved", "configured"}
         /\ server' = "saved" => remote /\ file' = file /\ file.version = 3 /\ db'.version = 3
         /\ UNCHANGED <<remote, driver, keys, pc, read, mapping, faults>>
         /\ epoch' \in 2..Top
         /\ file.version \in {0, 3} /\ (remote => db.version \in {0, 3})
         /\ file' \in Copies /\ Own(file)' /\ db' \in Copies /\ Own(db)'
         /\ file' = file \/ (~remote /\ file'.version = 3
                               /\ \A n \in Names : file.id[n] # NoId => file'.id[n] = file.id[n])
         /\ db' = db \/ (remote /\ db'.version = 3 /\ db'.id = WithIds(Effective).id)
         /\ WithIds(Effective) = Effective => /\ file'.id = file.id
                                              /\ db' = db \/ db'.id = Effective.id
         /\ remote /\ db.version = 0 => db'.version = 3 /\ db'.id = WithIds(Effective).id
<1>1. Effective \in Copies /\ Own(Effective) /\ Effective \in {file, db}
  BY DEF Effective, IInv, Types, OwnOK
<1>2. /\ WithIds(Effective) \in Copies /\ Own(WithIds(Effective))
      /\ \A n \in Names : Effective.id[n] # NoId => WithIds(Effective).id[n] = Effective.id[n]
  BY <1>1, WithIdsFacts DEF IInv
<1>3. PICK w \in Copies : w = WithIds(Effective)
  BY <1>2
<1>4. PICK saved \in Copies : saved = [w EXCEPT !.version = 3] /\ saved.version = 3 /\ saved.id = w.id
  <2> DEFINE s == [w EXCEPT !.version = 3]
  <2>1. s \in Copies /\ s.version = 3 /\ s.id = w.id
    BY DEF Copies, Versions, CurrentSchemaVersion
  <2> HIDE DEF s
  <2>2. s = [w EXCEPT !.version = 3]
    BY DEF s
  <2> QED BY <2>1, <2>2
<1>5. Own(saved)
  BY <1>2, <1>3, <1>4 DEF Own
<1>6. /\ pc = "idle" /\ server = "down" /\ server' \in {"saved", "configured"}
      /\ server' = "saved" => remote /\ ~secured /\ file.version = 3
      /\ UNCHANGED <<remote, driver, keys, pc, read, mapping, faults>>
      /\ file.version \in {0, 3} /\ (remote => db.version \in {0, 3})
  BY DEF ServerConfig, CurrentSchemaVersion
<1>7. /\ w # Effective => epoch < Top
      /\ epoch' = IF w # Effective THEN epoch + 1 ELSE epoch
      /\ db' = IF remote /\ (db.version = 0 \/ w # Effective \/ ~secured) THEN saved ELSE db
      /\ file' = IF ~remote /\ (w # Effective \/ ~secured) THEN saved ELSE file
  BY <1>3, <1>4 DEF ServerConfig, CurrentSchemaVersion, Top
<1>8. epoch' \in 2..Top
  BY <1>7, TopBound DEF IInv, Types
<1>9. file' \in Copies /\ db' \in Copies
  BY <1>7 DEF IInv, Types
<1>10. Own(file)' /\ Own(db)'
  BY <1>5, <1>7 DEF IInv, OwnOK, Own
<1>11. ~remote => Effective = file
  BY DEF Effective
<1> QED BY <1>2, <1>3, <1>4, <1>6, <1>7, <1>8, <1>9, <1>10, <1>11

LEMMA ServerConfigKeeps ==
  ASSUME IInv, ServerConfig
  PROVE  IInv'
<1>1. /\ pc = "idle" /\ server' \in {"saved", "configured"}
      /\ server' = "saved" => remote /\ file'.version = 3 /\ db'.version = 3
      /\ UNCHANGED <<remote, driver, keys, pc, read, mapping, faults>>
      /\ epoch' \in 2..Top /\ file' \in Copies /\ Own(file)' /\ db' \in Copies /\ Own(db)'
      /\ file' = file \/ file'.version = 3
      /\ db' = db \/ db'.version = 3
  BY ServerConfigEffect
<1>2. Types' /\ OwnOK'
  BY <1>1 DEF IInv, Types, OwnOK
<1>3. VersionOK'
  BY <1>1 DEF IInv, VersionOK
<1>4. KeysOK' /\ ToolOK' /\ OrderOK' /\ MappingOK'
  BY <1>1 DEF IInv, KeysOK, ToolOK, OrderOK, MappingOK
<1> QED BY <1>2, <1>3, <1>4 DEF IInv

\* The file takes the vendors of the row.
LEMMA ServerLocalKeeps ==
  ASSUME IInv, ServerLocal
  PROVE  IInv'
<1>1. /\ file' = db /\ server = "saved" /\ server' = "configured" /\ pc = "idle" /\ db.version = 3
      /\ UNCHANGED <<remote, driver, db, keys, pc, read, mapping, epoch, faults>>
  BY DEF ServerLocal, IInv, ToolOK
<1>2. Types' /\ OwnOK' /\ VersionOK'
  BY <1>1 DEF IInv, Types, OwnOK, VersionOK, Own
<1>3. KeysOK' /\ ToolOK' /\ OrderOK' /\ MappingOK'
  BY <1>1 DEF IInv, KeysOK, ToolOK, OrderOK, MappingOK
<1> QED BY <1>2, <1>3 DEF IInv

LEMMA UpgradeInductive == IInv /\ [Next]_vars => IInv'
<1> SUFFICES ASSUME IInv, [Next]_vars PROVE IInv'
  OBVIOUS
<1>1. CASE Fault
  <2>1. /\ pc' = "idle" /\ server' = "down" /\ faults' = faults + 1 /\ faults < MaxFaults
        /\ UNCHANGED <<remote, driver, file, db, keys, read, mapping, epoch>>
    BY <1>1 DEF Fault
  <2>2. Types' /\ OwnOK' /\ VersionOK'
    BY <2>1, UpgradeConstants DEF IInv, Types, OwnOK, VersionOK, Own
  <2>3. ToolOK' /\ MappingOK' /\ OrderOK' /\ KeysOK'
    BY <2>1 DEF IInv, ToolOK, MappingOK, OrderOK, KeysOK
  <2> QED BY <2>2, <2>3 DEF IInv
<1>2. CASE UNCHANGED vars
  BY <1>2 DEF vars, IInv, Types, OwnOK, ToolOK, MappingOK, OrderOK, VersionOK, KeysOK, Own, Listed
<1> QED
  BY <1>1, <1>2, ResolveKeeps, ChecksKeep, WriteConfigFileKeeps, WriteConfigRowKeeps, CheckKeysKeeps,
     WriteKeysKeeps, StampsKeep, ServerKeysKeeps, ServerConfigKeeps, ServerLocalKeeps DEF Next, ToolStep

-----------------------------------------------------------------------------
\* No step loses or moves a partition that has its id, changes an id, or writes to
\* a newer schema (upgradeConfigFile, upgradeKeysFile, upgradeKeysPG, NewStore); only
\* the file of a deployment that runs on the row may be replaced, and then by the row.
THEOREM NothingMovedCorrect == Spec => NothingMoved
<1> DEFINE KeysStay == /\ \A n \in Names : /\ keys.label[n] = NoKeys <=> keys'.label[n] = NoKeys
                                           /\ keys.label[n] \in Ids => keys'.label[n] = keys.label[n]
                       /\ keys.version > CurrentSchemaVersion => keys' = keys
           FileStays == /\ \A n \in Names :
                             file.id[n] \in Ids => file'.id[n] = file.id[n] \/ (remote /\ file' = db)
                        /\ file.version > CurrentSchemaVersion => file' = file
           RowStays == /\ \A n \in Names : db.id[n] \in Ids => db'.id[n] = db.id[n]
                       /\ db.version > CurrentSchemaVersion => db' = db
           Moved == KeysStay /\ FileStays /\ RowStays
<1>1. IInv /\ [Next]_vars => Moved
  <2> SUFFICES ASSUME IInv, [Next]_vars PROVE Moved
    OBVIOUS
  <2>1. KeysStay
    <3>1. CASE UNCHANGED keys
      BY <3>1
    <3>2. CASE WriteKeys
      <4>1. pc = "keyswrite" /\ keys.version \in {1, 2}
        BY <3>2 DEF WriteKeys, IInv, ToolOK
      <4>2. ASSUME keys'.label = Relabelled PROVE KeysStay
        <5>1. ByName \notin Ids
          BY MarkersDistinct
        <5> QED BY <4>1, <4>2, <5>1, RelabelledFacts DEF CurrentSchemaVersion
      <4>3. UNCHANGED keys \/ keys'.label = Relabelled
        BY <3>2 DEF WriteKeys
      <4> QED BY <3>1, <4>2, <4>3
    <3>3. CASE /\ keys' = [keys EXCEPT !.version = 3] \/ keys' = [keys EXCEPT !.version = 1]
               /\ keys.version \in {0, 1, 2}
      <4>1. keys'.label = keys.label
        BY <3>3 DEF IInv, Types
      <4> QED BY <3>3, <4>1 DEF CurrentSchemaVersion
    <3>4. StampKeys \/ ServerStamp =>
            keys' = [keys EXCEPT !.version = 3] /\ keys.version \in {0, 1, 2}
      BY DEF StampKeys, ServerStamp, CurrentSchemaVersion, IInv, ToolOK, KeysOK
    <3>5. ServerKeys => UNCHANGED keys
                        \/ (keys' = [keys EXCEPT !.version = 1] /\ keys.version \in {0, 1, 2})
      BY DEF ServerKeys
    <3>6. \/ UNCHANGED keys \/ WriteKeys \/ StampKeys \/ ServerStamp \/ ServerKeys
      BY DEF Next, ToolStep, ResolveVendorIDs, CheckConfigFile, WriteConfigFile, CheckConfigRow,
             WriteConfigRow, CheckKeys, ServerConfig, ServerLocal, Fault, vars
    <3> HIDE DEF KeysStay
    <3> QED BY <3>1, <3>2, <3>3, <3>4, <3>5, <3>6
  <2>2. FileStays
    <3>1. CASE UNCHANGED file
      BY <3>1
    <3>2. CASE WriteConfigFile
      <4>1. file.version \in {1, 2} /\ file' = Migrated(file) /\ file \in Copies /\ Own(file)
        BY <3>2 DEF WriteConfigFile, IInv, ToolOK, Types, OwnOK
      <4>2. CASE file.version # 1
        BY <4>1, <4>2, MigratedFacts DEF IInv, CurrentSchemaVersion
      <4>3. CASE file.version = 1
        <5>1. \A n \in Names : file.id[n] \notin Ids
          BY <4>3, MarkersDistinct DEF IInv, VersionOK
        <5> QED BY <4>3, <5>1 DEF CurrentSchemaVersion
      <4> QED BY <4>2, <4>3
    <3>3. CASE ServerConfig
      <4>1. NoId \notin Ids
        BY MarkersDistinct
      <4> QED BY <3>3, <4>1, ServerConfigEffect DEF CurrentSchemaVersion
    <3>4. CASE ServerLocal
      BY <3>4 DEF ServerLocal, IInv, ToolOK, CurrentSchemaVersion
    <3>5. UNCHANGED file \/ WriteConfigFile \/ ServerConfig \/ ServerLocal
      BY DEF Next, ToolStep, ResolveVendorIDs, CheckConfigFile, CheckConfigRow, WriteConfigRow,
             CheckKeys, WriteKeys, StampKeys, ServerKeys, ServerStamp, Fault, vars
    <3> QED BY <3>1, <3>2, <3>3, <3>4, <3>5
  <2>3. RowStays
    <3>1. CASE UNCHANGED db
      BY <3>1
    <3>2. CASE WriteConfigRow
      <4>1. db.version \in {1, 2} /\ db' = Migrated(db) /\ db \in Copies /\ Own(db)
        BY <3>2 DEF WriteConfigRow, IInv, ToolOK, Types, OwnOK
      <4>2. CASE db.version # 1
        BY <4>1, <4>2, MigratedFacts DEF IInv, CurrentSchemaVersion
      <4>3. CASE db.version = 1
        <5>1. \A n \in Names : db.id[n] \notin Ids
          BY <4>3, MarkersDistinct DEF IInv, VersionOK
        <5> QED BY <4>3, <5>1 DEF CurrentSchemaVersion
      <4> QED BY <4>2, <4>3
    <3>3. CASE ServerConfig /\ db' # db
      <4>1. NoId \notin Ids /\ remote /\ db.version \in {0, 3} /\ db'.id = WithIds(Effective).id
        BY <3>3, MarkersDistinct, ServerConfigEffect
      <4>2. CASE db.version = 3
        <5>1. Effective = db /\ db \in Copies /\ Own(db)
          BY <4>1, <4>2 DEF Effective, IInv, Types, OwnOK
        <5> QED BY <4>1, <4>2, <5>1, WithIdsFacts DEF IInv, CurrentSchemaVersion
      <4>3. CASE db.version = 0
        <5>1. \A n \in Names : db.id[n] \notin Ids
          BY <4>3, MarkersDistinct DEF IInv, VersionOK
        <5> QED BY <4>3, <5>1 DEF CurrentSchemaVersion
      <4> QED BY <4>1, <4>2, <4>3
    <3>4. UNCHANGED db \/ WriteConfigRow \/ ServerConfig
      BY DEF Next, ToolStep, ResolveVendorIDs, CheckConfigFile, CheckConfigRow, WriteConfigFile,
             CheckKeys, WriteKeys, StampKeys, ServerLocal, ServerKeys, ServerStamp, Fault, vars
    <3> QED BY <3>1, <3>2, <3>3, <3>4
  <2> QED BY <2>1, <2>2, <2>3
<1>2. Spec => []IInv
  BY UpgradeInit, UpgradeInductive, PTL DEF Spec
<1> DEFINE Step == /\ \A n \in Names :
                        /\ keys.label[n] = NoKeys <=> keys'.label[n] = NoKeys
                        /\ keys.label[n] \in Ids => keys'.label[n] = keys.label[n]
                        /\ file.id[n] \in Ids => file'.id[n] = file.id[n] \/ (remote /\ file' = db)
                        /\ db.id[n] \in Ids => db'.id[n] = db.id[n]
                   /\ file.version > CurrentSchemaVersion => file' = file
                   /\ db.version > CurrentSchemaVersion => db' = db
                   /\ keys.version > CurrentSchemaVersion => keys' = keys
<1>3. IInv /\ [Next]_vars => Step
  BY <1>1
<1> HIDE DEF Moved, Step
<1>4. Spec => [][Step]_vars
  BY <1>2, <1>3, PTL DEF Spec
<1> QED BY <1>4 DEF NothingMoved, Step

-----------------------------------------------------------------------------
(***************************************************************************)
(* Keys follow their vendors.                                              *)
(***************************************************************************)

\* The first states: partitions under ids belong to copies that have ids.
LEMMA FollowInit ==
  ASSUME FileIds \subseteq {"same", "other"}, Init
  PROVE  FollowInv
<1>1. ASSUME NEW v \in 1..4, NEW listed \in SUBSET Names, NEW how, NEW n \in Names
      PROVE
        /\ Copy(v, listed, how).version = v
        /\ Copy(v, listed, how).id[n] = IF n \notin listed THEN NotListed
                                        ELSE IF v = 1 \/ how = "missing" THEN NoId
                                        ELSE Id(IF how = "other" THEN 1 ELSE 0, n)
  BY DEF Copy
<1>2. \A n \in Names : Empty.id[n] = NotListed /\ Empty.version = 0
  BY DEF Empty
<1>3. \A n \in Names : Id(0, n) # NoId /\ Id(1, n) # NoId /\ Id(0, n) # NotListed /\ Id(1, n) # NotListed
                       /\ Id(0, n) # ByName
  <2>1. \A n \in Names : Id(0, n) \in IdsOf(n) /\ Id(1, n) \in IdsOf(n)
    BY IdFacts, TopBound
  <2> QED BY <2>1, IdFacts
<1>4. \A n \in Names : /\ file.version = 1 => file.id[n] \in {NotListed, NoId}
                       /\ file.version # 1 => file.id[n] \in {NotListed, Id(0, n), Id(1, n)}
  <2>1. PICK how \in FileIds, listed \in SUBSET Names, v \in 1..4 :
          file = Empty \/ file = Copy(v, listed, how)
    BY DEF Init
  <2>2. how # "missing"
    OBVIOUS
  <2>3. CASE file = Empty
    BY <1>2, <2>3
  <2>4. CASE file = Copy(v, listed, how)
    <3> TAKE n \in Names
    <3>1. file.version = v /\ file.id[n] = Copy(v, listed, how).id[n]
      BY <1>1, <2>4
    <3> QED BY <1>1, <2>2, <3>1
  <2> QED BY <2>1, <2>3, <2>4
<1>5. \A n \in Names : /\ db.version = 1 => db.id[n] \in {NotListed, NoId}
                       /\ db.version # 1 => db.id[n] \in {NotListed, Id(0, n)}
  <2>1. PICK listed \in SUBSET Names, v \in 1..4 : db = Empty \/ db = Copy(v, listed, "same")
    BY DEF Init
  <2>2. CASE db = Empty
    BY <1>2, <2>2
  <2>3. CASE db = Copy(v, listed, "same")
    <3> TAKE n \in Names
    <3>1. db.version = v /\ db.id[n] = Copy(v, listed, "same").id[n]
      BY <1>1, <2>3
    <3> QED BY <1>1, <3>1
  <2> QED BY <2>1, <2>2, <2>3
<1>6. IdsOK
  BY <1>3, <1>4, <1>5, MarkersDistinct DEF IdsOK
<1>7. LabelsOK
  <2> SUFFICES ASSUME ~keys.named, NEW n \in Names, keys.label[n] # NoKeys
               PROVE  /\ file.version # 1 /\ db.version # 1
                      /\ n \in Listed(Effective) => keys.label[n] = Effective.id[n]
    BY DEF LabelsOK
  <2>1. file.version # 1 /\ db.version # 1 /\ keys.label[n] = Id(0, n)
    BY DEF Init
  <2>2. (\E m \in Names : file.id[m] = Id(1, m)) => db.version > 1 /\ remote
    BY <1>2 DEF Init, Empty
  <2>3. CASE remote /\ db.version # 0
    BY <1>5, <2>1, <2>3 DEF Effective, Listed
  <2>4. CASE ~(remote /\ db.version # 0)
    <3>1. file.id[n] # Id(1, n)
      BY <2>2, <2>4
    <3> QED BY <1>4, <2>1, <2>4, <3>1 DEF Effective, Listed
  <2> QED BY <2>1, <2>3, <2>4
<1>8. UpOK
  BY DEF Init, UpOK
<1> QED BY <1>6, <1>7, <1>8 DEF FollowInv

\* A copy is brought to the current version.
LEMMA WritesFollow ==
  ASSUME IInv, FollowInv, WriteConfigFile \/ WriteConfigRow
  PROVE  FollowInv'
<1>1. /\ pc \in {"filewrite", "dbwrite"} /\ server = "down" /\ server' = "down"
      /\ UNCHANGED <<remote, driver, keys>>
      /\ \/ file' = Migrated(file) /\ db' = db
         \/ db' = Migrated(db) /\ file' = file /\ db.version # 0
  BY DEF WriteConfigFile, WriteConfigRow, IInv, ToolOK
<1>2. \A copy \in {file, db} : /\ Migrated(copy).version = 3 /\ Listed(Migrated(copy)) = Listed(copy)
                               /\ copy.version # 1 => Migrated(copy).id = copy.id
                               /\ copy.version = 1 => \A n \in Listed(copy) : Migrated(copy).id[n] = mapping[n]
  BY MigratedFacts DEF IInv, Types, OwnOK
<1>3. \A copy \in {file, db} : \A n \in Names : Migrated(copy).id[n] # NoId
  <2> SUFFICES ASSUME NEW copy \in {file, db}, NEW n \in Names PROVE Migrated(copy).id[n] # NoId
    OBVIOUS
  <2>1. CASE n \in Listed(copy) /\ copy.version = 1
    BY <1>1, <1>2, <2>1 DEF IInv, MappingOK
  <2>2. CASE n \notin Listed(copy)
    <3>1. Migrated(copy).id[n] = NotListed
      BY <1>2, <2>2 DEF Listed
    <3> QED BY <3>1, MarkersDistinct
  <2>3. CASE copy.version # 1
    BY <1>2, <2>3 DEF FollowInv, IdsOK
  <2> QED BY <2>1, <2>2, <2>3
<1>4. IdsOK'
  BY <1>1, <1>3 DEF FollowInv, IdsOK
<1>5. LabelsOK'
  <2> SUFFICES ASSUME ~keys.named, NEW n \in Names, keys.label[n] # NoKeys
               PROVE  /\ file'.version # 1 /\ db'.version # 1
                      /\ n \in Listed(Effective)' => keys.label[n] = Effective'.id[n]
    BY <1>1 DEF LabelsOK
  <2>1. /\ file.version # 1 /\ db.version # 1
        /\ n \in Listed(Effective) => keys.label[n] = Effective.id[n]
    BY DEF FollowInv, LabelsOK
  <2>2. /\ file'.version # 1 /\ db'.version # 1 /\ file'.id = file.id /\ db'.id = db.id
        /\ (db'.version = 0 <=> db.version = 0)
    BY <1>1, <1>2, <2>1
  <2>3. Effective'.id = Effective.id
    BY <1>1, <2>2 DEF Effective
  <2> QED BY <2>1, <2>2, <2>3 DEF Listed
<1>6. UpOK'
  BY <1>1 DEF UpOK
<1> QED BY <1>4, <1>5, <1>6 DEF FollowInv

\* The partitions get the ids both copies carry by now.
LEMMA WriteKeysFollows ==
  ASSUME IInv, FollowInv, WriteKeys
  PROVE  FollowInv'
<1>1. /\ pc = "keyswrite" /\ server = "down" /\ UNCHANGED <<remote, file, db, mapping, server>>
      /\ file.version # 1 /\ db.version # 1
  BY DEF WriteKeys, IInv, ToolOK, OrderOK
<1>2. IdsOK' /\ UpOK'
  BY <1>1 DEF FollowInv, IdsOK, UpOK
<1>3. CASE UNCHANGED keys
  BY <1>1, <1>2, <1>3 DEF FollowInv, LabelsOK, Effective, Listed
<1>4. CASE keys'.label = Relabelled
  <2>1. Effective' = Effective /\ Effective \in {file, db}
    BY <1>1 DEF Effective
  <2>2. ASSUME NEW n \in Names, keys'.label[n] # NoKeys, n \in Listed(Effective)
        PROVE  keys'.label[n] = Effective.id[n]
    <3>1. CASE keys.label[n] = ByName
      <4>1. Effective.id[n] \in {NotListed, NoId, mapping[n]}
        BY <1>1, <2>1 DEF IInv, MappingOK
      <4>2. Effective.id[n] # NoId
        BY <1>1, <2>1 DEF FollowInv, IdsOK
      <4> QED BY <1>1, <1>4, <2>2, <3>1, <4>1, <4>2, RelabelledFacts DEF Listed
    <3>2. CASE keys.label[n] # ByName
      <4>1. keys'.label[n] = keys.label[n]
        BY <1>1, <1>4, <3>2, RelabelledFacts
      <4>2. ~keys.named
        BY <2>2, <3>2, <4>1 DEF IInv, KeysOK
      <4> QED BY <2>2, <4>1, <4>2 DEF FollowInv, LabelsOK
    <3> QED BY <3>1, <3>2
  <2>3. LabelsOK'
    BY <1>1, <2>1, <2>2 DEF LabelsOK, Listed
  <2> QED BY <1>2, <2>3 DEF FollowInv
<1> QED BY <1>3, <1>4 DEF WriteKeys

\* The server runs on the ids it finds.
LEMMA ServerConfigFollows ==
  ASSUME IInv, FollowInv, ServerConfig
  PROVE  FollowInv'
<1>1. Effective \in Copies /\ Own(Effective) /\ Effective.version # 1 /\ file.version # 1
  <2>1. Effective \in {file, db} /\ (Effective = file \/ remote)
    BY DEF Effective
  <2>2. Effective \in Copies /\ Own(Effective)
    BY <2>1 DEF IInv, Types, OwnOK
  <2>3. file.version # 1 /\ (remote => db.version # 1)
    BY ServerConfigEffect
  <2> QED BY <2>1, <2>2, <2>3
<1>2. \A n \in Names : Effective.id[n] # NoId
  BY <1>1 DEF FollowInv, IdsOK, Effective
<1>3. WithIds(Effective) = Effective
  BY <1>1, <1>2, WithIdsFacts DEF IInv
<1>4. /\ UNCHANGED <<remote, keys>> /\ server' \in {"saved", "configured"}
      /\ file'.id = file.id /\ file'.version # 1
      /\ db' = db \/ (remote /\ db'.version = 3 /\ db'.id = Effective.id)
      /\ remote /\ db.version = 0 => db'.version = 3 /\ db'.id = Effective.id
  BY <1>1, <1>3, ServerConfigEffect
<1>5. IdsOK'
  BY <1>1, <1>2, <1>4 DEF FollowInv, IdsOK
<1>6. Effective'.id = Effective.id
  <2>1. CASE remote /\ db'.version # 0
    BY <1>4, <2>1 DEF Effective
  <2>2. CASE ~(remote /\ db'.version # 0)
    BY <1>4, <2>2 DEF Effective
  <2> QED BY <2>1, <2>2
<1>7. LabelsOK'
  BY <1>4, <1>6 DEF FollowInv, LabelsOK, Listed
<1>8. UpOK'
  BY <1>4 DEF UpOK
<1> QED BY <1>5, <1>7, <1>8 DEF FollowInv

\* The file is rewritten where the row is in force.
LEMMA ServerLocalFollows ==
  ASSUME IInv, FollowInv, ServerLocal
  PROVE  FollowInv'
<1>1. /\ file' = db /\ server' = "configured" /\ UNCHANGED <<remote, db, keys>>
      /\ remote /\ db.version = 3
  BY DEF ServerLocal, IInv, ToolOK
<1>2. Effective = db /\ Effective' = db
  BY <1>1 DEF Effective
<1> QED BY <1>1, <1>2 DEF FollowInv, IdsOK, LabelsOK, UpOK, Listed

LEMMA FollowInductive == IInv /\ FollowInv /\ [Next]_vars => FollowInv'
<1> SUFFICES ASSUME IInv, FollowInv, [Next]_vars PROVE FollowInv'
  OBVIOUS
<1>1. CASE UNCHANGED <<remote, file, db, keys>> /\ (server' = "up" => server = "up")
  BY <1>1 DEF FollowInv, IdsOK, LabelsOK, UpOK, Effective, Listed
<1>2. ASSUME UNCHANGED <<remote, file, db>>, keys'.label = keys.label, ~keys.named, ~keys'.named
      PROVE  FollowInv'
  BY <1>2 DEF FollowInv, IdsOK, LabelsOK, UpOK, Effective, Listed
<1>3. CASE StampKeys \/ ServerStamp
  <2>1. keys'.label = keys.label /\ keys'.named = keys.named
    BY <1>3 DEF StampKeys, ServerStamp, IInv, Types
  <2> QED BY <1>2, <1>3, <2>1 DEF StampKeys, ServerStamp, IInv, ToolOK, KeysOK
<1>4. CASE ServerKeys
  <2>1. CASE UNCHANGED keys /\ server' = "up" /\ Readable
    <3>1. ~keys.named \/ \A n \in Names : keys.label[n] = NoKeys
      BY <2>1 DEF Readable, IInv, KeysOK, CurrentSchemaVersion
    <3> QED BY <1>4, <2>1, <3>1 DEF ServerKeys, FollowInv, IdsOK, LabelsOK, UpOK, Effective, Listed
  <2>2. CASE keys.version = 0 /\ keys' = [keys EXCEPT !.version = 1]
    <3>1. keys'.label = keys.label /\ keys'.named = keys.named /\ ~keys.named
      BY <2>2 DEF IInv, Types, KeysOK
    <3> QED BY <1>2, <1>4, <3>1 DEF ServerKeys
  <2>3. CASE UNCHANGED keys /\ server' = "down"
    BY <1>1, <1>4, <2>3 DEF ServerKeys
  <2> QED BY <1>4, <2>1, <2>2, <2>3 DEF ServerKeys
<1>5. CASE ResolveVendorIDs \/ CheckConfigFile \/ CheckConfigRow \/ CheckKeys \/ Fault \/ UNCHANGED vars
  BY <1>1, <1>5 DEF ResolveVendorIDs, CheckConfigFile, CheckConfigRow, CheckKeys, Fault, vars
<1> QED
  BY <1>3, <1>4, <1>5, WritesFollow, WriteKeysFollows, ServerConfigFollows, ServerLocalFollows DEF Next, ToolStep

\* A server that is up finds the keys of each of its vendors under the vendor's id
\* and no vendor finds another's, whatever broke off before (resolveVendorIDs),
\* unless a hand-written file lists vendors without ids: the run
\* upgrade_handwritten shows what happens then.
THEOREM KeysFollowCorrect ==
  ASSUME FileIds \subseteq {"same", "other"}
  PROVE  Spec => []KeysFollowVendor
<1>1. IInv /\ FollowInv => KeysFollowVendor
  <2> SUFFICES ASSUME IInv, FollowInv, server = "up", NEW n \in Names, keys.label[n] # NoKeys
               PROVE  IF n \in Listed(Effective) THEN keys.label[n] = Effective.id[n]
                      ELSE \A m \in Listed(Effective) : Effective.id[m] # keys.label[n]
    BY DEF KeysFollowVendor
  <2>1. ~keys.named
    BY DEF FollowInv, UpOK
  <2>2. keys.label[n] \in IdsOf(n)
    BY <2>1 DEF IInv, KeysOK
  <2>3. CASE n \in Listed(Effective)
    BY <2>1, <2>3 DEF FollowInv, LabelsOK
  <2>4. ASSUME n \notin Listed(Effective), NEW m \in Listed(Effective)
        PROVE  Effective.id[m] # keys.label[n]
    <3>1. m \in Names /\ m # n
      BY <2>4 DEF Listed
    <3>2. Effective.id[m] \in {NotListed, NoId} \cup IdsOf(m)
      BY <3>1 DEF Effective, IInv, OwnOK, Own
    <3> QED BY <2>2, <3>1, <3>2, IdFacts
  <2> QED BY <2>3, <2>4
<1>2. Init => FollowInv
  BY FollowInit
<1> QED BY <1>1, <1>2, UpgradeInit, UpgradeInductive, FollowInductive, PTL DEF Spec
=============================================================================
