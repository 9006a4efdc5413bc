------------------------------ MODULE KeyRecords ------------------------------
(***************************************************************************)
(* The stored upstream-key records of one vendor and what the operations   *)
(* of the base store (internal/keystore/file_store.go, pgsql_store.go) do  *)
(* to them.  A store is a function from keys to records.  Every operation  *)
(* of the file store runs under its mutex and publishes the new records    *)
(* only after they are on disk, so it is one step that happens or does     *)
(* not.  A record's reason, actor, remark, time stamps and statistics are  *)
(* left out; versions and statuses decide everything here.                 *)
(***************************************************************************)
EXTENDS Naturals

CONSTANTS
  Keys,        \* the upstream keys of the vendor
  NoRecord,    \* a key the store has no record of
  MaxVersion   \* bound on the version of a record

Statuses == {"active", "disabled_manual", "disabled_auto"}
Versions == 1..MaxVersion
Records  == [version : Versions, status : Statuses]
Stores   == [Keys -> Records \cup {NoRecord}]

ASSUME RecordConstants ==
  /\ MaxVersion \in Nat \ {0}
  /\ NoRecord \notin Records

IsActiveStatus(status) == status = "active"

nextRecordVersion(version) == version + 1

NewRecord == [version |-> 1, status |-> "active"]

Bumped(record) == [record EXCEPT !.version = nextRecordVersion(@)]

Kept(record) == record # NoRecord /\ ~IsActiveStatus(record.status)

\* Replace: a selected key is kept with its status and a new version or added,
\* a disabled key that is not selected stays as it is, any other key goes.  An
\* empty selection selects nothing.
ReplaceRecords(store, keys) ==
  [k \in Keys |->
     IF k \in keys THEN IF store[k] = NoRecord THEN NewRecord ELSE Bumped(store[k])
     ELSE IF Kept(store[k]) THEN store[k] ELSE NoRecord]

\* Append adds the keys that are missing and leaves the others alone.
AppendRecords(store, keys) ==
  [k \in Keys |-> IF k \in keys /\ store[k] = NoRecord THEN NewRecord ELSE store[k]]

\* Delete and DeleteVendor.
DeleteRecords(store, keys) ==
  [k \in Keys |-> IF k \in keys THEN NoRecord ELSE store[k]]

\* setStatus on a record that exists.
SetRecordStatus(store, k, status) ==
  [store EXCEPT ![k] = [version |-> nextRecordVersion(@.version), status |-> status]]

\* The condition of SetStatusIfVersion.
VersionMatches(store, k, expected) ==
  store[k] # NoRecord /\ store[k].version = expected
=============================================================================
