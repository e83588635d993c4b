------------------------------ MODULE KeyCustody ------------------------------
(***************************************************************************)
(* The keys that encrypt the stored credentials, and the commands that     *)
(* change them (auth/teslamate_credentials.rs, auth/fleet_credentials.rs,  *)
(* application/main/control.rs).                                           *)
(*                                                                         *)
(* A credential row lives in the catalogue, its key in the secrets         *)
(* directory; the two cannot change in one transaction.  The legacy key    *)
(* has a current and a previous file, the Fleet key a pending file and a   *)
(* marker that says a re-encryption is under way.                          *)
(*                                                                         *)
(*   dir    the secrets directory as the processes see it                  *)
(*   disk   the directories a power loss may leave: every file operation   *)
(*          adds one, a sync of the directory leaves only the present one  *)
(*   lrow   the key the stored legacy pair is encrypted under, or NoKey    *)
(*   frow   the same for the stored Fleet pair                             *)
(*   procs  one command that holds the data directory's lock, and one      *)
(*          preflight, which does not take it                              *)
(*   last   how the last locked command ended                              *)
(*                                                                         *)
(* One step is one file operation, one directory sync or one transaction.  *)
(***************************************************************************)
EXTENDS Naturals, FiniteSets

CONSTANTS
    Keys,        \* encryption keys
    NoKey,       \* no file, no row
    CursorKey,   \* the key derived from the cursor key, which old Fleet rows use
    Partial,     \* a key file that was created and not completely written
    Beside,      \* the commands beside which a preflight may run
    MaxUnsynced  \* how many directories a power loss may leave when a command
                 \* begins: 1 when the system has written back what a killed
                 \* command had not synced

ASSUME KeyAssumption ==
    /\ NoKey \notin Keys /\ CursorKey \notin Keys /\ Partial \notin Keys
    /\ NoKey # CursorKey /\ NoKey # Partial /\ CursorKey # Partial
ASSUME MaxUnsyncedAssumption == MaxUnsynced \in Nat \ {0}

VARIABLES dir, disk, lrow, frow, procs, last

vars == <<dir, disk, lrow, frow, procs, last>>
files == <<dir, disk>>
rows == <<lrow, frow>>

-----------------------------------------------------------------------------
Procs == {"locked", "preflight"}
Kinds == {"setup", "migrate", "setup-fleet", "sign-out", "bootstrap", "serve"}
ASSUME BesideAssumption == Beside \subseteq Kinds
Dirs == [cur : Keys \cup {NoKey}, prev : Keys \cup {NoKey},
         fleet : Keys \cup {NoKey}, pending : Keys \cup {NoKey, Partial},
         marker : BOOLEAN]
EmptyDir == [cur |-> NoKey, prev |-> NoKey, fleet |-> NoKey, pending |-> NoKey,
             marker |-> FALSE]

(* The steps of the routines, by what they are about to do. *)
ReplaceSteps == {"recover", "setAside", "setAsideSync", "publish", "publishSync",
                 "store", "rollback", "restore", "restoreSync", "commit", "commitSync"}
SettleSteps == {"settle", "settleCommit", "settleDelete", "settleRestore", "settleSync"}
PersistSteps == {"persistFleet", "migrateFleet", "markSync", "fleetKey", "fleetWrite",
                 "fleetRename", "fleetSync", "storeFleet", "unmark", "unmarkSync"}
DropSteps == {"dropFleet", "dropFleetKey", "dropPending", "dropMarker", "dropFleetSync",
              "dropLegacy", "dropCurrent", "dropPrevious", "dropLegacySync"}
Steps == {"idle"} \cup ReplaceSteps \cup SettleSteps \cup PersistSteps \cup DropSteps

(* A process: what it does next, the routine that follows (then), the key   *)
(* it brings (key), the row it read to settle for (row), what its routine   *)
(* has noted (had: had_previous, replacing_legacy, removed), whether a      *)
(* routine failed, and whether it met a fault or a preflight beside it.     *)
Idle == [kind |-> "none", at |-> "idle", then |-> "idle", key |-> NoKey, row |-> NoKey,
         had |-> FALSE, failed |-> FALSE, disturbed |-> FALSE]
Processes == [kind : Kinds \cup {"none", "preflight"}, at : Steps,
              then : {"idle", "dropFleet", "dropLegacy"},
              key : Keys \cup {NoKey}, row : Keys \cup {NoKey},
              had : BOOLEAN, failed : BOOLEAN, disturbed : BOOLEAN]

TypeOK ==
    /\ dir \in Dirs
    /\ disk \in SUBSET Dirs /\ dir \in disk
    /\ lrow \in Keys \cup {NoKey}
    /\ frow \in Keys \cup {NoKey, CursorKey}
    /\ procs \in [Procs -> Processes]
    /\ last \in [kind : Kinds \cup {"none"}, ok : BOOLEAN, disturbed : BOOLEAN, key : Keys \cup {NoKey}]

(* A Hub before its first setup, or one of the release whose Fleet pair was *)
(* encrypted under the derived key.                                         *)
Init ==
    /\ dir = EmptyDir
    /\ disk = {EmptyDir}
    /\ lrow = NoKey
    /\ frow \in {NoKey, CursorKey}
    /\ procs = [p \in Procs |-> Idle]
    /\ last = [kind |-> "none", ok |-> FALSE, disturbed |-> FALSE, key |-> NoKey]

-----------------------------------------------------------------------------
(* How a process goes on. *)
At(p, step) == procs[p].at = step
Goto(p, step) == procs' = [procs EXCEPT ![p].at = step] /\ UNCHANGED last
GotoNoting(p, step, had) ==
    procs' = [procs EXCEPT ![p].at = step, ![p].had = had] /\ UNCHANGED last

(* The routine of p is over: the next one of its command, or the end. *)
LeaveWith(p, failed, disturbed) ==
    IF procs[p].then # "idle" /\ (~failed \/ procs[p].kind = "sign-out")
    THEN /\ procs' = [procs EXCEPT ![p].at = procs[p].then, ![p].then = "idle",
                                   ![p].had = FALSE,
                                   ![p].failed = @ \/ failed, ![p].disturbed = @ \/ disturbed]
         /\ UNCHANGED last
    ELSE /\ procs' = [procs EXCEPT ![p] = Idle]
         /\ last' = IF p = "locked"
                    THEN [kind |-> procs[p].kind, ok |-> ~(failed \/ procs[p].failed),
                          disturbed |-> disturbed \/ procs[p].disturbed, key |-> procs[p].key]
                    ELSE last

Return(p) == LeaveWith(p, FALSE, FALSE)

(* An error of the routine ends the command, except that a sign-out goes on *)
(* to the other provider.                                                   *)
Refuse(p) == LeaveWith(p, TRUE, FALSE)

Mutate(d) == dir' = d /\ disk' = disk \cup {d}
Sync == dir' = dir /\ disk' = {dir}

(* The keys no file and no row uses. *)
UsedKeys == {lrow, frow} \cup UNION {{d.cur, d.prev, d.fleet, d.pending} : d \in disk}
                         \cup {procs[p].key : p \in Procs} \cup {procs[p].row : p \in Procs}
FreshKeys == Keys \ UsedKeys

-----------------------------------------------------------------------------
(* The commands under the lock.  setup and migrate encrypt under their key  *)
(* before anything is written: setup under a random one, migrate under the  *)
(* one of the TeslaMate installation, which may be the one in use.          *)
FirstStep(kind) ==
    CASE kind \in {"setup", "migrate"} -> "recover"
      [] kind = "setup-fleet"          -> "persistFleet"
      [] kind = "bootstrap"            -> "migrateFleet"
      [] kind = "serve"                -> "settle"
      [] kind = "sign-out"             -> "dropFleet"

Follows(kind) ==
    CASE kind = "setup"                       -> "dropFleet"
      [] kind \in {"setup-fleet", "sign-out"} -> "dropLegacy"
      [] OTHER                                -> "idle"

KeysFor(kind) ==
    CASE kind = "setup"   -> FreshKeys
      [] kind = "migrate" -> FreshKeys \cup ({lrow} \cap Keys)
      [] OTHER            -> {NoKey}

Command(kind) ==
    /\ At("locked", "idle")
    /\ At("preflight", "idle") \/ kind \in Beside
    /\ kind = "serve" => lrow # NoKey
    /\ Cardinality(disk) <= MaxUnsynced
    /\ \E k \in KeysFor(kind) :
          procs' = [procs EXCEPT !["locked"] =
              [Idle EXCEPT !.kind = kind, !.at = FirstStep(kind),
                           !.then = Follows(kind), !.key = k,
                           !.row = IF kind = "serve" THEN lrow ELSE NoKey,
                           !.disturbed = procs["preflight"].at # "idle"]]
    /\ last' = [last EXCEPT !.kind = "none", !.ok = FALSE, !.disturbed = FALSE, !.key = NoKey]
    /\ UNCHANGED <<files, rows>>

(* preflight reads the pair from a snapshot of the catalogue and settles    *)
(* the key files for it.                                                    *)
PreflightBegins ==
    /\ At("preflight", "idle")
    /\ At("locked", "idle") \/ procs["locked"].kind \in Beside
    /\ lrow # NoKey
    /\ procs' = [procs EXCEPT
           !["preflight"] = [Idle EXCEPT !.kind = "preflight", !.at = "settle", !.row = lrow],
           !["locked"].disturbed = ~At("locked", "idle")]
    /\ UNCHANGED <<files, rows, last>>

-----------------------------------------------------------------------------
(* load_key_for_tokens_with: keep the key that opens the pair that was      *)
(* read, and remove the other.  The current key is tried first.             *)
Settled(p) ==
    IF procs[p].kind \in {"setup", "migrate"} THEN Goto(p, "setAside") ELSE Return(p)

Settle(p) ==
    /\ At(p, "settle")
    /\ LET row == procs[p].row IN
       \/ dir.cur = row /\ dir.prev = NoKey /\ Settled(p)
       \/ dir.cur = row /\ dir.prev # NoKey /\ Goto(p, "settleCommit")
       \/ /\ dir.cur # row /\ dir.prev = row
          /\ Goto(p, IF dir.cur = NoKey THEN "settleRestore" ELSE "settleDelete")
       \/ row \notin {dir.cur, dir.prev} /\ Refuse(p)
    /\ UNCHANGED <<files, rows>>

(* remove_checked_key_file fails when the file is not there. *)
Unlink(p, file, next) ==
    /\ IF dir[file] = NoKey
       THEN Refuse(p) /\ UNCHANGED files
       ELSE Mutate([dir EXCEPT ![file] = NoKey]) /\ Goto(p, next)
    /\ UNCHANGED rows

SettleCommit(p) == At(p, "settleCommit") /\ Unlink(p, "prev", "settleSync")
SettleDelete(p) == At(p, "settleDelete") /\ Unlink(p, "cur", "settleRestore")

(* restore_previous_key, after the current key is gone *)
SettleRestore(p) ==
    /\ At(p, "settleRestore")
    /\ \/ /\ dir.prev # NoKey
          /\ Mutate([dir EXCEPT !.cur = dir.prev, !.prev = NoKey]) /\ Goto(p, "settleSync")
       \/ dir.prev = NoKey /\ Refuse(p) /\ UNCHANGED files
    /\ UNCHANGED rows

SettleSync(p) == At(p, "settleSync") /\ Sync /\ Settled(p) /\ UNCHANGED rows

-----------------------------------------------------------------------------
(* replace_key_and_tokens: settle what an earlier replacement left, move    *)
(* the current key aside, publish the new one, store the pair, drop the old *)
(* key.                                                                     *)
Recover(p) ==
    /\ At(p, "recover")
    /\ \/ dir.prev = NoKey /\ Goto(p, "setAside")
       \/ dir.prev # NoKey /\ lrow = NoKey /\ Refuse(p)
       \/ /\ dir.prev # NoKey /\ lrow # NoKey
          /\ procs' = [procs EXCEPT ![p].at = "settle", ![p].row = lrow]
          /\ UNCHANGED last
    /\ UNCHANGED <<files, rows>>

(* begin_key_replacement *)
SetAside(p) ==
    /\ At(p, "setAside")
    /\ \/ /\ dir.prev # NoKey
          /\ Refuse(p) /\ UNCHANGED files
       \/ /\ dir.prev = NoKey /\ dir.cur = NoKey
          /\ GotoNoting(p, "publish", FALSE) /\ UNCHANGED files
       \/ /\ dir.prev = NoKey /\ dir.cur # NoKey
          /\ Mutate([dir EXCEPT !.prev = dir.cur, !.cur = NoKey])
          /\ GotoNoting(p, "setAsideSync", TRUE)
    /\ UNCHANGED rows

SetAsideSync(p) == At(p, "setAsideSync") /\ Sync /\ Goto(p, "publish") /\ UNCHANGED rows

Publish(p) ==
    /\ At(p, "publish")
    /\ Mutate([dir EXCEPT !.cur = procs[p].key])
    /\ Goto(p, "publishSync")
    /\ UNCHANGED rows

(* The rename of the new key failed: the old one is put back, if that works. *)
PublishFails(p) ==
    /\ At(p, "publish")
    /\ \/ procs[p].had /\ Mutate([dir EXCEPT !.cur = dir.prev, !.prev = NoKey])
       \/ procs[p].had /\ dir' = [dir EXCEPT !.cur = dir.prev, !.prev = NoKey] /\ disk' = {dir'}
       \/ UNCHANGED files
    /\ LeaveWith(p, TRUE, TRUE)
    /\ UNCHANGED rows

(* Faulty variant: the pair is stored before the new key is durable. *)
PublishSyncMissing(p) ==
    /\ At(p, "publishSync") /\ Goto(p, "store") /\ UNCHANGED <<files, rows>>

PublishSync(p) == At(p, "publishSync") /\ Sync /\ Goto(p, "store") /\ UNCHANGED rows

(* replace_teslamate_legacy_tokens commits or refuses; see                  *)
(* LegacyCredentialStore for its conditions.                                *)
Store(p) ==
    /\ At(p, "store")
    /\ \/ lrow' = procs[p].key /\ Goto(p, "commit")
       \/ lrow' = lrow /\ Goto(p, "rollback")
    /\ UNCHANGED <<files, frow>>

(* KeyReplacement::rollback *)
Rollback(p) ==
    /\ At(p, "rollback")
    /\ Mutate([dir EXCEPT !.cur = NoKey])
    /\ Goto(p, IF procs[p].had THEN "restore" ELSE "restoreSync")
    /\ UNCHANGED rows

RestorePrevious(p) ==
    /\ At(p, "restore")
    /\ dir.prev # NoKey
    /\ Mutate([dir EXCEPT !.cur = dir.prev, !.prev = NoKey])
    /\ Goto(p, "restoreSync")
    /\ UNCHANGED rows

RestoreSync(p) == At(p, "restoreSync") /\ Sync /\ Refuse(p) /\ UNCHANGED rows

(* KeyReplacement::commit *)
Commit(p) ==
    /\ At(p, "commit")
    /\ IF procs[p].had
       THEN Unlink(p, "prev", "commitSync")
       ELSE Return(p) /\ UNCHANGED <<files, rows>>

CommitSync(p) == At(p, "commitSync") /\ Sync /\ Return(p) /\ UNCHANGED rows

-----------------------------------------------------------------------------
(* persist_fleet_setup_credentials.  A stored pair without a key file is    *)
(* one of the old release: the marker announces its re-encryption.          *)
CreateMarker(p) == Mutate([dir EXCEPT !.marker = TRUE]) /\ GotoNoting(p, "markSync", TRUE)

PersistFleet(p) ==
    /\ At(p, "persistFleet")
    /\ \/ dir.marker /\ Refuse(p) /\ UNCHANGED files
       \/ ~dir.marker /\ frow # NoKey /\ dir.fleet = NoKey /\ CreateMarker(p)
       \/ /\ ~dir.marker /\ (frow = NoKey \/ dir.fleet # NoKey)
          /\ GotoNoting(p, "fleetKey", FALSE) /\ UNCHANGED files
    /\ UNCHANGED rows

(* migrate_legacy_fleet_credentials, which bootstrap runs, and the same     *)
(* re-encryption at the start of the Fleet collector.                       *)
MigrateFleet(p) ==
    /\ At(p, "migrateFleet")
    /\ \/ frow = NoKey /\ Return(p) /\ UNCHANGED files
       \/ /\ frow # NoKey /\ ~dir.marker /\ dir.fleet # NoKey
          /\ (IF frow = dir.fleet THEN Return(p) ELSE Refuse(p)) /\ UNCHANGED files
       \/ /\ frow \notin {NoKey, CursorKey} /\ ~dir.marker /\ dir.fleet = NoKey
          /\ Refuse(p) /\ UNCHANGED files
       \/ frow = CursorKey /\ ~dir.marker /\ dir.fleet = NoKey /\ CreateMarker(p)
       \/ /\ frow # NoKey /\ dir.marker
          /\ GotoNoting(p, "fleetKey", TRUE) /\ UNCHANGED files
    /\ UNCHANGED rows

MarkSync(p) == At(p, "markSync") /\ Sync /\ Goto(p, "fleetKey") /\ UNCHANGED rows

(* load_or_create_fleet_key *)
FleetKey(p) ==
    /\ At(p, "fleetKey")
    /\ \/ dir.fleet # NoKey /\ Goto(p, "storeFleet") /\ UNCHANGED files
       \/ dir.fleet = NoKey /\ dir.pending = Partial /\ Refuse(p) /\ UNCHANGED files
       \/ /\ dir.fleet = NoKey /\ dir.pending \in Keys
          /\ Mutate([dir EXCEPT !.fleet = dir.pending, !.pending = NoKey])
          /\ Goto(p, "fleetSync")
       \/ /\ dir.fleet = NoKey /\ dir.pending = NoKey
          /\ Mutate([dir EXCEPT !.pending = Partial])
          /\ Goto(p, "fleetWrite")
    /\ UNCHANGED rows

(* The bytes are written and synced; the name of the file may still be lost. *)
FleetWrite(p) ==
    /\ At(p, "fleetWrite")
    /\ \E k \in FreshKeys :
          /\ dir' = [dir EXCEPT !.pending = k]
          /\ disk' = {IF d.pending = Partial THEN [d EXCEPT !.pending = k] ELSE d : d \in disk}
    /\ Goto(p, "fleetRename")
    /\ UNCHANGED rows

FleetRename(p) ==
    /\ At(p, "fleetRename")
    /\ Mutate([dir EXCEPT !.fleet = dir.pending, !.pending = NoKey])
    /\ Goto(p, "fleetSync")
    /\ UNCHANGED rows

(* The publication of a new key failed: the pending file is removed, if     *)
(* that works.                                                              *)
FleetKeyFails(p) ==
    /\ At(p, "fleetWrite") \/ At(p, "fleetRename")
    /\ Mutate([dir EXCEPT !.pending = NoKey]) \/ UNCHANGED files
    /\ LeaveWith(p, TRUE, TRUE)
    /\ UNCHANGED rows

FleetSync(p) == At(p, "fleetSync") /\ Sync /\ Goto(p, "storeFleet") /\ UNCHANGED rows

(* replace_fleet_tokens and replace_fleet_tokens_and_scrub; the scrub may   *)
(* fail after the commit.  A migration needs the plaintext of the old pair. *)
StoreFleet(p) ==
    /\ At(p, "storeFleet")
    /\ IF procs[p].kind = "bootstrap" /\ frow \notin {dir.fleet, CursorKey}
       THEN frow' = frow /\ Refuse(p)
       ELSE \/ /\ frow' = dir.fleet
               /\ IF procs[p].had THEN Goto(p, "unmark") ELSE Return(p)
            \/ frow' \in {frow, dir.fleet} /\ LeaveWith(p, TRUE, TRUE)
    /\ UNCHANGED <<files, lrow>>

(* finish_key_migration *)
Unmark(p) ==
    /\ At(p, "unmark")
    /\ Mutate([dir EXCEPT !.marker = FALSE])
    /\ Goto(p, "unmarkSync")
    /\ UNCHANGED rows

UnmarkSync(p) == At(p, "unmarkSync") /\ Sync /\ Return(p) /\ UNCHANGED rows

-----------------------------------------------------------------------------
(* remove_fleet_key_and_tokens and remove_key_and_tokens: the row first.    *)
Remove(p, file, empty, next) ==
    /\ IF dir[file] = empty
       THEN Goto(p, next) /\ UNCHANGED files
       ELSE Mutate([dir EXCEPT ![file] = empty]) /\ GotoNoting(p, next, TRUE)
    /\ UNCHANGED rows


DropSync(p) ==
    /\ IF procs[p].had THEN Sync ELSE UNCHANGED files
    /\ Return(p)
    /\ UNCHANGED rows

DropFleet(p) ==
    /\ At(p, "dropFleet")
    /\ frow' = NoKey
    /\ GotoNoting(p, "dropFleetKey", FALSE)
    /\ UNCHANGED <<files, lrow>>

DropFleetKey(p) == At(p, "dropFleetKey") /\ Remove(p, "fleet", NoKey, "dropPending")

DropPending(p) ==
    /\ At(p, "dropPending")
    /\ IF dir.pending = Partial
       THEN Refuse(p) /\ UNCHANGED <<files, rows>>
       ELSE Remove(p, "pending", NoKey, "dropMarker")

DropMarker(p) == At(p, "dropMarker") /\ Remove(p, "marker", FALSE, "dropFleetSync")
DropFleetSync(p) == At(p, "dropFleetSync") /\ DropSync(p)

DropLegacy(p) ==
    /\ At(p, "dropLegacy")
    /\ lrow' = NoKey
    /\ GotoNoting(p, "dropCurrent", FALSE)
    /\ UNCHANGED <<files, frow>>

(* remove_key_and_tokens looks for both files before it removes one. *)
DropCurrent(p) ==
    /\ At(p, "dropCurrent")
    /\ Remove(p, "cur", NoKey, IF dir.prev = NoKey THEN "dropLegacySync" ELSE "dropPrevious")

DropPrevious(p) ==
    /\ At(p, "dropPrevious")
    /\ \/ dir.prev = NoKey /\ Refuse(p) /\ UNCHANGED files
       \/ /\ dir.prev # NoKey
          /\ Mutate([dir EXCEPT !.prev = NoKey]) /\ GotoNoting(p, "dropLegacySync", TRUE)
    /\ UNCHANGED rows

DropLegacySync(p) == At(p, "dropLegacySync") /\ DropSync(p)

-----------------------------------------------------------------------------
(* A file operation, a sync or a transaction fails, or the guard of the run *)
(* refuses the settlement: nothing changes and the routine ends.  The steps *)
(* of IfNoted do something only if the routine noted a file.                *)
Faultless == {"idle", "publish", "fleetWrite", "fleetRename", "store", "storeFleet"}
IfNoted == {"commit", "dropFleetSync", "dropLegacySync"}
Fails(p) ==
    /\ procs[p].at \notin Faultless
    /\ procs[p].at \in IfNoted => procs[p].had
    /\ LeaveWith(p, TRUE, TRUE)
    /\ UNCHANGED <<files, rows>>

(* Both processes die.  A power loss leaves one of the directories that may *)
(* be on disk; a killed process leaves the present one.                     *)
Die == /\ procs' = [p \in Procs |-> Idle]
       /\ last' = [last EXCEPT !.kind = IF At("locked", "idle") THEN @ ELSE "none"]
       /\ UNCHANGED rows
Killed == (\E p \in Procs : ~At(p, "idle")) /\ Die /\ UNCHANGED files
PowerLoss ==
    /\ dir' \in disk
    /\ disk' = {dir'}
    /\ Die

(* The operating system writes the directory back on its own. *)
WriteBack == Sync /\ disk # {dir} /\ UNCHANGED <<rows, procs, last>>

Step(p) ==
    \/ Settle(p) \/ SettleCommit(p) \/ SettleDelete(p) \/ SettleRestore(p) \/ SettleSync(p)
    \/ Recover(p) \/ SetAside(p) \/ SetAsideSync(p) \/ Publish(p) \/ PublishFails(p)
    \/ PublishSync(p) \/ Store(p) \/ Rollback(p) \/ RestorePrevious(p) \/ RestoreSync(p)
    \/ Commit(p) \/ CommitSync(p)
    \/ PersistFleet(p) \/ MigrateFleet(p) \/ MarkSync(p) \/ FleetKey(p) \/ FleetWrite(p)
    \/ FleetRename(p) \/ FleetKeyFails(p) \/ FleetSync(p) \/ StoreFleet(p)
    \/ Unmark(p) \/ UnmarkSync(p)
    \/ DropFleet(p) \/ DropFleetKey(p) \/ DropPending(p) \/ DropMarker(p) \/ DropFleetSync(p)
    \/ DropLegacy(p) \/ DropCurrent(p) \/ DropPrevious(p) \/ DropLegacySync(p)
    \/ Fails(p)

Next ==
    \/ \E kind \in Kinds : Command(kind)
    \/ PreflightBegins
    \/ \E p \in Procs : Step(p)
    \/ Killed
    \/ PowerLoss
    \/ WriteBack

Spec == Init /\ [][Next]_vars

-----------------------------------------------------------------------------
(* At every instant of every command, and in whatever directory a power     *)
(* loss may leave, the key of the stored legacy pair is the current or the  *)
(* previous one: replace_key_and_tokens keeps the old key until the new     *)
(* pair is committed, and settlement removes only a key that is not needed. *)
LegacyKeyKept ==
    \A d \in disk : lrow # NoKey => lrow \in {d.cur, d.prev}

LegacyDone(d) == lrow = d.cur /\ d.prev = NoKey
FleetGone(d) == frow = NoKey /\ d.fleet = NoKey /\ d.pending = NoKey /\ ~d.marker
LegacyGone(d) == lrow = NoKey /\ d.cur = NoKey /\ d.prev = NoKey


=============================================================================
