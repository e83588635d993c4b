-------------------------- MODULE KeyCustodyProofs --------------------------
(***************************************************************************)
(* The key of the stored legacy pair is never lost, for every set of keys  *)
(* and every number of unsynced directories, when a preflight runs only    *)
(* beside commands that leave the legacy key alone.                        *)
(***************************************************************************)
EXTENDS KeyCustody, TLAPS

USE KeyAssumption

-----------------------------------------------------------------------------
(* The type of what the building blocks of the actions leave. *)
FilesOK == dir \in Dirs /\ disk \in SUBSET Dirs /\ dir \in disk
LastOK == last \in [kind : Kinds \cup {"none"}, ok : BOOLEAN, disturbed : BOOLEAN,
                    key : Keys \cup {NoKey}]
ProcsOK == procs \in [Procs -> Processes]

(* A file operation that leaves a well-formed directory. *)
LEMMA MutateType ==
    ASSUME FilesOK, NEW d \in Dirs, Mutate(d)
    PROVE  FilesOK'
BY DEF FilesOK, Mutate

(* A sync of the directory. *)
LEMMA SyncType ==
    ASSUME FilesOK, Sync
    PROVE  FilesOK'
BY DEF FilesOK, Sync

(* A process goes on to another step. *)
LEMMA GotoType ==
    ASSUME ProcsOK, LastOK, NEW p \in Procs, NEW step \in Steps, Goto(p, step)
    PROVE  ProcsOK' /\ LastOK'
BY DEF ProcsOK, LastOK, Goto, Processes

(* A process notes what its routine did and goes on. *)
LEMMA GotoNotingType ==
    ASSUME ProcsOK, LastOK, NEW p \in Procs, NEW step \in Steps, NEW had \in BOOLEAN,
           GotoNoting(p, step, had)
    PROVE  ProcsOK' /\ LastOK'
<1>1. [procs[p] EXCEPT !.at = step, !.had = had] \in Processes
  BY Zenon DEF ProcsOK, Processes
<1>2. procs' = [procs EXCEPT ![p] = [procs[p] EXCEPT !.at = step, !.had = had]]
  BY Zenon DEF GotoNoting, ProcsOK
<1> QED BY <1>1, <1>2 DEF GotoNoting, ProcsOK, LastOK

(* The idle process is well-formed. *)
LEMMA IdleType == Idle \in Processes
BY DEF Idle, Processes, Steps

(* A routine ends. *)
LEMMA LeaveType ==
    ASSUME ProcsOK, LastOK, NEW p \in Procs, NEW failed \in BOOLEAN, NEW disturbed \in BOOLEAN,
           \A q \in Procs : procs[q].kind = "preflight" => q = "preflight",
           LeaveWith(p, failed, disturbed)
    PROVE  ProcsOK' /\ LastOK'
<1>1. CASE procs[p].then # "idle" /\ (~failed \/ procs[p].kind = "sign-out")
  BY <1>1 DEF ProcsOK, LastOK, LeaveWith, Processes, Steps, DropSteps
<1>2. CASE ~(procs[p].then # "idle" /\ (~failed \/ procs[p].kind = "sign-out"))
  <2>1. procs' = [procs EXCEPT ![p] = Idle]
    BY <1>2 DEF LeaveWith
  <2>2. ProcsOK'
    BY <2>1, IdleType DEF ProcsOK
  <2>3. LastOK'
    <3>1. CASE p = "locked"
      <4>1. last' = [kind |-> procs[p].kind, ok |-> ~(failed \/ procs[p].failed),
                     disturbed |-> disturbed \/ procs[p].disturbed, key |-> procs[p].key]
        BY <1>2, <3>1 DEF LeaveWith
      <4>2. procs[p] \in Processes /\ procs[p].kind # "preflight"
        BY <3>1 DEF ProcsOK, Procs
      <4>3. /\ procs[p].kind \in Kinds \cup {"none"}
            /\ procs[p].key \in Keys \cup {NoKey}
            /\ (~(failed \/ procs[p].failed)) \in BOOLEAN
            /\ (disturbed \/ procs[p].disturbed) \in BOOLEAN
        BY <4>2 DEF Processes
      <4> QED BY <4>1, <4>3 DEF LastOK
    <3>2. CASE p # "locked"
      BY SMTT(20), <1>2, <3>2 DEF LeaveWith, LastOK
    <3> QED BY <3>1, <3>2
  <2> QED BY <2>2, <2>3
<1> QED BY <1>1, <1>2
-----------------------------------------------------------------------------
(* The facts that make LegacyKeyKept inductive.  A preflight only settles,  *)
(* a legacy routine belongs to a command that touches the legacy key, and   *)
(* no preflight runs beside it.                                             *)
LegacyKinds == {"setup", "migrate", "serve"}

Control ==
    /\ procs["preflight"].kind \in {"none", "preflight"}
    /\ procs["preflight"].at \in {"idle"} \cup SettleSteps
    /\ procs["preflight"].then = "idle"
    /\ procs["locked"].kind # "preflight"
    /\ procs["locked"].at \in ReplaceSteps => procs["locked"].kind \in {"setup", "migrate"}
    /\ procs["locked"].at \in SettleSteps => procs["locked"].kind \in LegacyKinds
    /\ procs["locked"].at = "fleetWrite" => dir.pending = Partial
    /\ procs["locked"].at = "fleetRename" => dir.pending \in Keys
    /\ \/ procs["preflight"].at = "idle"
       \/ procs["locked"].at = "idle"
       \/ procs["locked"].kind \notin LegacyKinds

(* The stored pair is the previous key's: what the steps rely on that       *)
(* remove or replace the current key.                                       *)
OnPrevious == {"settleDelete", "settleRestore", "setAsideSync", "publish", "publishSync",
               "store", "rollback", "restore"}

Facts(p) ==
    /\ procs[p].at \in SettleSteps => lrow \in {NoKey, procs[p].row}
    /\ procs[p].at = "settleCommit" => lrow \in {NoKey, dir.cur}
    /\ procs[p].at \in OnPrevious => lrow \in {NoKey, dir.prev}
    /\ procs[p].at = "publishSync" => dir.cur = procs[p].key
    /\ procs[p].at = "store" => \A d \in disk : d.cur = procs[p].key
    /\ procs[p].at = "commit" => lrow = dir.cur
    /\ procs[p].at \in {"dropCurrent", "dropPrevious"} => lrow = NoKey

IInv ==
    /\ TypeOK
    /\ Control
    /\ LegacyKeyKept
    /\ \A p \in Procs : Facts(p)

-----------------------------------------------------------------------------
(* The process that steps goes on or ends its routine. *)
LEMMA ProcsStep ==
    ASSUME TypeOK, Control, NEW p \in Procs, Step(p)
    PROVE  ProcsOK' /\ LastOK'
<1>0. ProcsOK /\ LastOK
  BY DEF TypeOK, ProcsOK, LastOK
<1>1. ASSUME NEW failed \in BOOLEAN, NEW disturbed \in BOOLEAN, LeaveWith(p, failed, disturbed)
      PROVE  ProcsOK' /\ LastOK'
  BY <1>0, <1>1, LeaveType DEF Control, Procs
<1>2. CASE Settle(p)
  BY Zenon, <1>0, <1>2, GotoType, <1>1 DEF Settle, Settled, Return, Refuse, Steps, ReplaceSteps,
     SettleSteps, PersistSteps, DropSteps
<1>3. CASE SettleCommit(p)
  BY Zenon, <1>0, <1>3, GotoType, <1>1 DEF SettleCommit, Return, Refuse, Unlink, Steps,
     ReplaceSteps, SettleSteps, PersistSteps, DropSteps
<1>4. CASE SettleDelete(p)
  BY Zenon, <1>0, <1>4, GotoType, <1>1 DEF SettleDelete, Return, Refuse, Unlink, Steps,
     ReplaceSteps, SettleSteps, PersistSteps, DropSteps
<1>5. CASE SettleRestore(p)
  BY Zenon, <1>0, <1>5, GotoType, <1>1 DEF SettleRestore, Return, Refuse, Steps, ReplaceSteps,
     SettleSteps, PersistSteps, DropSteps
<1>6. CASE SettleSync(p)
  BY Zenon, <1>0, <1>6, GotoType, <1>1 DEF SettleSync, Settled, Return, Refuse, Steps, ReplaceSteps,
     SettleSteps, PersistSteps, DropSteps
<1>7. CASE Recover(p)
  <2>1. CASE Goto(p, "setAside") \/ Refuse(p)
    BY Zenon, <1>0, <1>1, <2>1, GotoType DEF Refuse, Steps, ReplaceSteps, SettleSteps, PersistSteps,
       DropSteps
  <2>2. CASE procs' = [procs EXCEPT ![p].at = "settle", ![p].row = lrow] /\ UNCHANGED last
    <3>0. "settle" \in Steps
      BY DEF Steps, ReplaceSteps, SettleSteps, PersistSteps, DropSteps
    <3>1. [procs[p] EXCEPT !.at = "settle", !.row = lrow] \in Processes
      <4>1. lrow \in Keys \cup {NoKey}
        BY DEF TypeOK
      <4> QED BY Zenon, <1>0, <3>0, <4>1 DEF ProcsOK, Processes
    <3>2. procs' = [procs EXCEPT ![p] = [procs[p] EXCEPT !.at = "settle", !.row = lrow]]
      BY Zenon, <1>0, <2>2 DEF ProcsOK
    <3> QED BY <1>0, <2>2, <3>1, <3>2 DEF ProcsOK, LastOK
  <2> QED BY <1>7, <2>1, <2>2 DEF Recover
<1>8. CASE SetAside(p)
  BY Zenon, <1>0, <1>8, GotoNotingType, <1>1 DEF SetAside, Return, Refuse, Steps, ReplaceSteps,
     SettleSteps, PersistSteps, DropSteps
<1>9. CASE SetAsideSync(p)
  BY <1>0, <1>9, GotoType DEF SetAsideSync, Steps, ReplaceSteps, SettleSteps, PersistSteps,
     DropSteps
<1>10. CASE Publish(p)
  BY <1>0, <1>10, GotoType DEF Publish, Steps, ReplaceSteps, SettleSteps, PersistSteps, DropSteps
<1>11. CASE PublishFails(p)
  BY Zenon, <1>0, <1>11, <1>1 DEF PublishFails
<1>12. CASE PublishSync(p)
  BY <1>0, <1>12, GotoType DEF PublishSync, Steps, ReplaceSteps, SettleSteps, PersistSteps,
     DropSteps
<1>13. CASE Store(p)
  BY <1>0, <1>13, GotoType DEF Store, Steps, ReplaceSteps, SettleSteps, PersistSteps, DropSteps
<1>14. CASE Rollback(p)
  BY <1>0, <1>14, GotoType DEF Rollback, Steps, ReplaceSteps, SettleSteps, PersistSteps, DropSteps
<1>15. CASE RestorePrevious(p)
  BY <1>0, <1>15, GotoType DEF RestorePrevious, Steps, ReplaceSteps, SettleSteps, PersistSteps,
     DropSteps
<1>16. CASE RestoreSync(p)
  BY Zenon, <1>0, <1>16, <1>1 DEF RestoreSync, Return, Refuse
<1>17. CASE Commit(p)
  BY Zenon, <1>0, <1>17, GotoType, <1>1 DEF Commit, Return, Refuse, Unlink, Steps, ReplaceSteps,
     SettleSteps, PersistSteps, DropSteps
<1>18. CASE CommitSync(p)
  BY Zenon, <1>0, <1>18, <1>1 DEF CommitSync, Return, Refuse
<1>19. CASE PersistFleet(p)
  BY Zenon, <1>0, <1>19, GotoNotingType, <1>1 DEF PersistFleet, Return, Refuse, CreateMarker, Steps,
     ReplaceSteps, SettleSteps, PersistSteps, DropSteps
<1>20. CASE MigrateFleet(p)
  BY Zenon, <1>0, <1>20, GotoNotingType, <1>1 DEF MigrateFleet, Return, Refuse, CreateMarker, Steps,
     ReplaceSteps, SettleSteps, PersistSteps, DropSteps
<1>21. CASE MarkSync(p)
  BY <1>0, <1>21, GotoType DEF MarkSync, Steps, ReplaceSteps, SettleSteps, PersistSteps, DropSteps
<1>22. CASE FleetKey(p)
  BY Zenon, <1>0, <1>22, GotoType, <1>1 DEF FleetKey, Return, Refuse, Steps, ReplaceSteps,
     SettleSteps, PersistSteps, DropSteps
<1>23. CASE FleetWrite(p)
  BY <1>0, <1>23, GotoType DEF FleetWrite, Steps, ReplaceSteps, SettleSteps, PersistSteps, DropSteps
<1>24. CASE FleetRename(p)
  BY <1>0, <1>24, GotoType DEF FleetRename, Steps, ReplaceSteps, SettleSteps, PersistSteps,
     DropSteps
<1>25. CASE FleetKeyFails(p)
  BY Zenon, <1>0, <1>25, <1>1 DEF FleetKeyFails
<1>26. CASE FleetSync(p)
  BY <1>0, <1>26, GotoType DEF FleetSync, Steps, ReplaceSteps, SettleSteps, PersistSteps, DropSteps
<1>27. CASE StoreFleet(p)
  BY Zenon, <1>0, <1>27, GotoType, <1>1 DEF StoreFleet, Return, Refuse, Steps, ReplaceSteps,
     SettleSteps, PersistSteps, DropSteps
<1>28. CASE Unmark(p)
  BY <1>0, <1>28, GotoType DEF Unmark, Steps, ReplaceSteps, SettleSteps, PersistSteps, DropSteps
<1>29. CASE UnmarkSync(p)
  BY Zenon, <1>0, <1>29, <1>1 DEF UnmarkSync, Return, Refuse
<1>30. CASE DropFleet(p)
  BY Zenon, <1>0, <1>30, GotoNotingType DEF DropFleet, Steps, ReplaceSteps, SettleSteps,
     PersistSteps, DropSteps
<1>31. CASE DropFleetKey(p)
  BY Zenon, <1>0, <1>31, GotoType, GotoNotingType DEF DropFleetKey, Remove, Steps, ReplaceSteps,
     SettleSteps, PersistSteps, DropSteps
<1>32. CASE DropPending(p)
  BY Zenon, <1>0, <1>32, GotoType, GotoNotingType, <1>1 DEF DropPending, Return, Refuse, Remove,
     Steps, ReplaceSteps, SettleSteps, PersistSteps, DropSteps
<1>33. CASE DropMarker(p)
  BY Zenon, <1>0, <1>33, GotoType, GotoNotingType DEF DropMarker, Remove, Steps, ReplaceSteps,
     SettleSteps, PersistSteps, DropSteps
<1>34. CASE DropFleetSync(p)
  BY Zenon, <1>0, <1>34, <1>1 DEF DropFleetSync, Return, Refuse, DropSync
<1>35. CASE DropLegacy(p)
  BY Zenon, <1>0, <1>35, GotoNotingType DEF DropLegacy, Steps, ReplaceSteps, SettleSteps,
     PersistSteps, DropSteps
<1>36. CASE DropCurrent(p)
  BY Zenon, <1>0, <1>36, GotoType, GotoNotingType DEF DropCurrent, Remove, Steps, ReplaceSteps,
     SettleSteps, PersistSteps, DropSteps
<1>37. CASE DropPrevious(p)
  BY Zenon, <1>0, <1>37, GotoNotingType, <1>1 DEF DropPrevious, Refuse, Steps, ReplaceSteps,
     SettleSteps, PersistSteps, DropSteps
<1>38. CASE DropLegacySync(p)
  BY Zenon, <1>0, <1>38, <1>1 DEF DropLegacySync, Return, Refuse, DropSync
<1>39. CASE Fails(p)
  BY Zenon, <1>0, <1>39, <1>1 DEF Fails
<1> QED BY <1>2, <1>3, <1>4, <1>5, <1>6, <1>7, <1>8, <1>9, <1>10, <1>11, <1>12, <1>13, <1>14, <1>15, <1>16, <1>17, <1>18, <1>19, <1>20, <1>21, <1>22, <1>23, <1>24, <1>25, <1>26, <1>27, <1>28, <1>29, <1>30, <1>31, <1>32, <1>33, <1>34, <1>35, <1>36, <1>37, <1>38, <1>39 DEF Step

(* The directory stays well-formed. *)
LEMMA FilesStep ==
    ASSUME TypeOK, Control, NEW p \in Procs, Step(p)
    PROVE  FilesOK'
<1>0. FilesOK /\ dir \in Dirs
  BY DEF TypeOK, FilesOK
<1>1. (UNCHANGED files) => FilesOK'
  BY <1>0 DEF FilesOK, files
<1>2. CASE Settle(p)
  BY <1>0, <1>1, <1>2 DEF Settle
<1>3. CASE SettleCommit(p)
  BY Zenon, <1>0, <1>1, <1>3, MutateType DEF SettleCommit, Unlink, Dirs
<1>4. CASE SettleDelete(p)
  BY Zenon, <1>0, <1>1, <1>4, MutateType DEF SettleDelete, Unlink, Dirs
<1>5. CASE SettleRestore(p)
  BY Zenon, <1>0, <1>1, <1>5, MutateType DEF SettleRestore, Dirs
<1>6. CASE SettleSync(p)
  BY <1>0, <1>1, <1>6, SyncType DEF SettleSync
<1>7. CASE Recover(p)
  BY <1>0, <1>1, <1>7 DEF Recover
<1>8. CASE SetAside(p)
  BY Zenon, <1>0, <1>1, <1>8, MutateType DEF SetAside, Dirs
<1>9. CASE SetAsideSync(p)
  BY <1>0, <1>1, <1>9, SyncType DEF SetAsideSync
<1>10. CASE Publish(p)
  <2>1. procs[p].key \in Keys \cup {NoKey}
    BY DEF TypeOK, Processes
  <2>2. [dir EXCEPT !.cur = procs[p].key] \in Dirs
    BY <1>0, <2>1 DEF Dirs
  <2> QED BY <1>0, <1>10, <2>2, MutateType DEF Publish
<1>11. CASE PublishFails(p)
  <2>1. [dir EXCEPT !.cur = dir.prev, !.prev = NoKey] \in Dirs
    BY Zenon, <1>0 DEF Dirs
  <2>2. CASE Mutate([dir EXCEPT !.cur = dir.prev, !.prev = NoKey])
    BY <1>0, <2>1, <2>2, MutateType
  <2>3. CASE dir' = [dir EXCEPT !.cur = dir.prev, !.prev = NoKey] /\ disk' = {dir'}
    BY <2>1, <2>3, Zenon DEF FilesOK
  <2> QED BY <1>1, <1>11, <2>2, <2>3 DEF PublishFails
<1>12. CASE PublishSync(p)
  BY <1>0, <1>1, <1>12, SyncType DEF PublishSync
<1>13. CASE Store(p)
  BY <1>0, <1>1, <1>13 DEF Store
<1>14. CASE Rollback(p)
  BY <1>0, <1>1, <1>14, MutateType DEF Rollback, Dirs
<1>15. CASE RestorePrevious(p)
  BY Zenon, <1>0, <1>1, <1>15, MutateType DEF RestorePrevious, Dirs
<1>16. CASE RestoreSync(p)
  BY <1>0, <1>1, <1>16, SyncType DEF RestoreSync
<1>17. CASE Commit(p)
  BY Zenon, <1>0, <1>1, <1>17, MutateType DEF Commit, Unlink, Dirs
<1>18. CASE CommitSync(p)
  BY <1>0, <1>1, <1>18, SyncType DEF CommitSync
<1>19. CASE PersistFleet(p)
  BY Zenon, <1>0, <1>1, <1>19, MutateType DEF PersistFleet, CreateMarker, Dirs
<1>20. CASE MigrateFleet(p)
  BY Zenon, <1>0, <1>1, <1>20, MutateType DEF MigrateFleet, CreateMarker, Dirs
<1>21. CASE MarkSync(p)
  BY <1>0, <1>1, <1>21, SyncType DEF MarkSync
<1>22. CASE FleetKey(p)
  <2>1. [dir EXCEPT !.pending = Partial] \in Dirs
    BY <1>0 DEF Dirs
  <2>2. dir.pending \in Keys => [dir EXCEPT !.fleet = dir.pending, !.pending = NoKey] \in Dirs
    BY Zenon, <1>0 DEF Dirs
  <2> QED BY <1>0, <1>1, <1>22, <2>1, <2>2, MutateType DEF FleetKey
<1>23. CASE FleetWrite(p)
  <2>1. PICK k \in FreshKeys :
           /\ dir' = [dir EXCEPT !.pending = k]
           /\ disk' = {IF d.pending = Partial THEN [d EXCEPT !.pending = k] ELSE d : d \in disk}
    BY <1>23 DEF FleetWrite
  <2>2. \A d \in Dirs : [d EXCEPT !.pending = k] \in Dirs
    BY DEF FreshKeys, Dirs
  <2>3. dir.pending = Partial
    BY <1>23 DEF FleetWrite, Control, At, Procs, SettleSteps
  <2> QED BY Zenon, <1>0, <2>1, <2>2, <2>3 DEF FilesOK
<1>24. CASE FleetRename(p)
  <2>1. dir.pending \in Keys
    BY <1>24 DEF FleetRename, Control, At, Procs, SettleSteps
  <2>2. [dir EXCEPT !.fleet = dir.pending, !.pending = NoKey] \in Dirs
    BY Zenon, <1>0, <2>1 DEF Dirs
  <2> QED BY <1>0, <1>24, <2>2, MutateType DEF FleetRename
<1>25. CASE FleetKeyFails(p)
  BY <1>0, <1>1, <1>25, MutateType DEF FleetKeyFails, Dirs
<1>26. CASE FleetSync(p)
  BY <1>0, <1>1, <1>26, SyncType DEF FleetSync
<1>27. CASE StoreFleet(p)
  BY <1>0, <1>1, <1>27 DEF StoreFleet
<1>28. CASE Unmark(p)
  BY Zenon, <1>0, <1>1, <1>28, MutateType DEF Unmark, Dirs
<1>29. CASE UnmarkSync(p)
  BY <1>0, <1>1, <1>29, SyncType DEF UnmarkSync
<1>30. CASE DropFleet(p)
  BY <1>0, <1>1, <1>30 DEF DropFleet
<1>31. CASE DropFleetKey(p)
  BY Zenon, <1>0, <1>1, <1>31, MutateType DEF DropFleetKey, Remove, Dirs
<1>32. CASE DropPending(p)
  BY Zenon, <1>0, <1>1, <1>32, MutateType DEF DropPending, Remove, Dirs
<1>33. CASE DropMarker(p)
  BY Zenon, <1>0, <1>1, <1>33, MutateType DEF DropMarker, Remove, Dirs
<1>34. CASE DropFleetSync(p)
  BY <1>0, <1>1, <1>34, SyncType DEF DropFleetSync, DropSync
<1>35. CASE DropLegacy(p)
  BY <1>0, <1>1, <1>35 DEF DropLegacy
<1>36. CASE DropCurrent(p)
  BY Zenon, <1>0, <1>1, <1>36, MutateType DEF DropCurrent, Remove, Dirs
<1>37. CASE DropPrevious(p)
  BY Zenon, <1>0, <1>1, <1>37, MutateType DEF DropPrevious, Dirs
<1>38. CASE DropLegacySync(p)
  BY <1>0, <1>1, <1>38, SyncType DEF DropLegacySync, DropSync
<1>39. CASE Fails(p)
  BY <1>0, <1>1, <1>39 DEF Fails
<1> QED BY <1>2, <1>3, <1>4, <1>5, <1>6, <1>7, <1>8, <1>9, <1>10, <1>11, <1>12, <1>13, <1>14, <1>15, <1>16, <1>17, <1>18, <1>19, <1>20, <1>21, <1>22, <1>23, <1>24, <1>25, <1>26, <1>27, <1>28, <1>29, <1>30, <1>31, <1>32, <1>33, <1>34, <1>35, <1>36, <1>37, <1>38, <1>39 DEF Step

(* The rows stay keys. *)
LEMMA RowsStep ==
    ASSUME TypeOK, NEW p \in Procs, Step(p)
    PROVE  lrow' \in Keys \cup {NoKey} /\ frow' \in Keys \cup {NoKey, CursorKey}
<1>1. (UNCHANGED rows) => lrow' = lrow /\ frow' = frow
  BY DEF rows
<1>2. lrow \in Keys \cup {NoKey} /\ frow \in Keys \cup {NoKey, CursorKey}
  BY DEF TypeOK
<1>3. dir.fleet \in Keys \cup {NoKey} /\ procs[p].key \in Keys \cup {NoKey}
  BY DEF TypeOK, Dirs, Processes
<1>4. CASE UNCHANGED rows
  BY <1>1, <1>2, <1>4
<1>5. CASE Store(p)
  BY <1>2, <1>3, <1>5 DEF Store
<1>6. CASE StoreFleet(p)
  BY <1>2, <1>3, <1>6, Zenon DEF StoreFleet
<1>7. CASE DropFleet(p) \/ DropLegacy(p)
  BY Zenon, <1>2, <1>7 DEF DropFleet, DropLegacy
<1>8. Step(p) => (UNCHANGED rows) \/ Store(p) \/ StoreFleet(p) \/ DropFleet(p) \/ DropLegacy(p)
  BY Zenon DEF Step, Settle, SettleCommit, SettleDelete, SettleRestore, SettleSync, Recover,
     SetAside, SetAsideSync, Publish, PublishFails, PublishSync, Rollback, RestorePrevious,
     RestoreSync, Commit, CommitSync, PersistFleet, MigrateFleet, MarkSync, FleetKey, FleetWrite,
     FleetRename, FleetKeyFails, FleetSync, Unmark, UnmarkSync, DropFleetKey, DropPending,
     DropMarker, DropFleetSync, DropCurrent, DropPrevious, DropLegacySync, Fails, Unlink, Remove,
     DropSync
<1> QED BY <1>4, <1>5, <1>6, <1>7, <1>8

(* A step of a process preserves the types. *)
LEMMA TypeStep ==
    ASSUME TypeOK, Control, NEW p \in Procs, Step(p)
    PROVE  TypeOK'
BY ProcsStep, FilesStep, RowsStep DEF TypeOK, ProcsOK, LastOK, FilesOK

-----------------------------------------------------------------------------
(* What a step does to the processes: p goes to one of the steps in S, or   *)
(* its routine ends; the other process stands still.                        *)
Moves(p, S) ==
    /\ procs'[p].at \in S
    /\ procs'[p].then \in {procs[p].then, "idle"}
    /\ procs'[p].kind = procs[p].kind /\ procs'[p].key = procs[p].key
    /\ procs'[p].row = procs[p].row
    /\ \A q \in Procs : q # p => procs'[q] = procs[q]

Ends(p) ==
    /\ \/ procs'[p] = Idle
       \/ procs[p].then # "idle" /\ Moves(p, {procs[p].then}) /\ procs'[p].then = "idle"
    /\ \A q \in Procs : q # p => procs'[q] = procs[q]

(* Goto moves the process to the one step. *)
LEMMA GotoMoves ==
    ASSUME ProcsOK, NEW p \in Procs, NEW step, Goto(p, step)
    PROVE  Moves(p, {step})
BY DEF ProcsOK, Goto, Moves, Processes

(* So does GotoNoting. *)
LEMMA GotoNotingMoves ==
    ASSUME ProcsOK, NEW p \in Procs, NEW step, NEW had, GotoNoting(p, step, had)
    PROVE  Moves(p, {step})
BY DEF ProcsOK, GotoNoting, Moves, Processes

(* LeaveWith ends the routine. *)
LEMMA LeaveEnds ==
    ASSUME ProcsOK, NEW p \in Procs, NEW failed, NEW disturbed, LeaveWith(p, failed, disturbed)
    PROVE  Ends(p)
<1>1. CASE procs[p].then # "idle" /\ (~failed \/ procs[p].kind = "sign-out")
  <2>1. procs' = [procs EXCEPT ![p].at = procs[p].then, ![p].then = "idle", ![p].had = FALSE,
                               ![p].failed = @ \/ failed, ![p].disturbed = @ \/ disturbed]
    BY <1>1 DEF LeaveWith
  <2> QED BY <1>1, <2>1 DEF ProcsOK, Ends, Moves, Processes
<1>2. CASE ~(procs[p].then # "idle" /\ (~failed \/ procs[p].kind = "sign-out"))
  BY <1>2 DEF LeaveWith, Ends, ProcsOK
<1> QED BY <1>1, <1>2

(* The part of the directories that holds the legacy keys is as before. *)
Quiet ==
    /\ lrow' = lrow
    /\ dir'.cur = dir.cur /\ dir'.prev = dir.prev
    /\ \A e \in disk' : \E d \in disk : e.cur = d.cur /\ e.prev = d.prev

(* The steps of Control are those of the process that moved. *)
LEMMA ControlMoves ==
    ASSUME TypeOK, Control, NEW p \in Procs, NEW S, Moves(p, S),
           S \subseteq SettleSteps \/ p = "locked",
           S \cap ReplaceSteps = {} \/ procs[p].kind \in {"setup", "migrate"},
           S \cap SettleSteps = {} \/ procs[p].at \in SettleSteps
                                   \/ procs[p].kind \in LegacyKinds,
           procs[p].at # "idle",
           p = "locked" => (procs'[p].at = "fleetWrite" => dir'.pending = Partial),
           p = "locked" => (procs'[p].at = "fleetRename" => dir'.pending \in Keys),
           p = "preflight" => dir'.pending = dir.pending
    PROVE  Control'
<1>1. CASE p = "locked"
  BY <1>1 DEF Control, Moves, Procs, LegacyKinds
<1>2. CASE p = "preflight"
  BY <1>2 DEF Control, Moves, Procs, LegacyKinds
<1> QED BY <1>1, <1>2 DEF Procs

(* The end of a routine keeps Control: the next routine removes the other   *)
(* provider.                                                                *)
LEMMA ControlEnds ==
    ASSUME TypeOK, Control, NEW p \in Procs, Ends(p), procs[p].at # "idle",
           p = "preflight" => dir'.pending = dir.pending
    PROVE  Control'
<1>1. CASE procs'[p] = Idle
  BY <1>1 DEF Control, Ends, Procs, Idle, ReplaceSteps, SettleSteps
<1>2. CASE procs[p].then # "idle" /\ Moves(p, {procs[p].then}) /\ procs'[p].then = "idle"
  <2>1. p = "locked" /\ procs[p].then \in {"dropFleet", "dropLegacy"}
    BY <1>2 DEF Control, Procs, TypeOK, Processes
  <2> QED BY <1>2, <2>1 DEF Control, Moves, Procs, ReplaceSteps, SettleSteps
<1> QED BY <1>1, <1>2 DEF Ends

-----------------------------------------------------------------------------
(* A step that leaves the legacy keys alone keeps the pair readable and     *)
(* what the other process relies on.                                        *)
LEMMA QuietKept ==
    ASSUME LegacyKeyKept, Quiet
    PROVE  LegacyKeyKept'
BY DEF LegacyKeyKept, Quiet

(* What a process relies on survives a quiet step of the other. *)
LEMMA QuietFacts ==
    ASSUME NEW q \in Procs, Facts(q), Quiet, procs'[q] = procs[q]
    PROVE  Facts(q)'
BY DEF Facts, Quiet

(* A step of a legacy routine: the other process is idle or away from the   *)
(* legacy key.                                                              *)
LEMMA LoudFacts ==
    ASSUME Control, NEW p \in Procs, NEW q \in Procs, q # p, Facts(q),
           procs[p].at \in ReplaceSteps \cup SettleSteps,
           p = "preflight" => lrow' = lrow,
           procs'[q] = procs[q]
    PROVE  Facts(q)'
<1>1. CASE p = "locked"
  <2>1. q = "preflight" /\ procs[q].at = "idle"
    BY <1>1 DEF Control, Procs, LegacyKinds, ReplaceSteps, SettleSteps
  <2> QED BY <2>1 DEF Facts, SettleSteps, OnPrevious
<1>2. CASE p = "preflight"
  <2>1. q = "locked" /\ procs[q].at \notin ReplaceSteps \cup SettleSteps
    BY <1>2 DEF Control, Procs, LegacyKinds, ReplaceSteps, SettleSteps
  <2> QED BY <1>2, <2>1 DEF Facts, ReplaceSteps, SettleSteps, OnPrevious
<1> QED BY <1>1, <1>2 DEF Procs

(* Without a stored pair a preflight relies on nothing. *)
LEMMA ClearedFacts ==
    ASSUME Control, lrow' = NoKey, procs'["preflight"] = procs["preflight"]
    PROVE  Facts("preflight")'
BY DEF Control, Facts, SettleSteps, OnPrevious

(* What holds when a routine has ended, and at the steps that rely on       *)
(* nothing.                                                                 *)
Relying == SettleSteps \cup OnPrevious \cup {"commit", "dropCurrent", "dropPrevious"}

(* A step outside Relying relies on nothing. *)
LEMMA PlainFacts ==
    ASSUME NEW p \in Procs, NEW S, Moves(p, S), S \cap Relying = {}
    PROVE  Facts(p)'
BY DEF Moves, Facts, Relying, OnPrevious, SettleSteps

(* Nor does a process whose routine has ended. *)
LEMMA EndFacts ==
    ASSUME TypeOK, NEW p \in Procs, Ends(p)
    PROVE  Facts(p)'
<1>1. procs'[p].at \in {"idle", "dropFleet", "dropLegacy"}
  BY DEF Ends, Moves, Idle, TypeOK, Processes
<1> QED BY <1>1 DEF Facts, SettleSteps, OnPrevious

(* The conclusion of every case below. *)
LEMMA Assemble ==
    ASSUME IInv, NEW p \in Procs, Step(p), Control', LegacyKeyKept', Facts(p)',
           \A q \in Procs : q # p => Facts(q)'
    PROVE  IInv'
BY TypeStep DEF IInv

(* A step that leaves the legacy keys alone. *)
LEMMA QuietStep ==
    ASSUME IInv, NEW p \in Procs, Step(p), Quiet, Control', Facts(p)',
           \A q \in Procs : q # p => procs'[q] = procs[q]
    PROVE  IInv'
<1>1. LegacyKeyKept'
  BY QuietKept DEF IInv
<1>2. \A q \in Procs : q # p => Facts(q)'
  BY QuietFacts DEF IInv
<1> QED BY <1>1, <1>2, Assemble

(* A step of a legacy routine. *)
LEMMA LoudStep ==
    ASSUME IInv, NEW p \in Procs, Step(p), procs[p].at \in ReplaceSteps \cup SettleSteps,
           p = "preflight" => lrow' = lrow, Control', LegacyKeyKept', Facts(p)',
           \A q \in Procs : q # p => procs'[q] = procs[q]
    PROVE  IInv'
<1>1. \A q \in Procs : q # p => Facts(q)'
  BY LoudFacts DEF IInv
<1> QED BY <1>1, Assemble

(* Steps that leave the directory, or only sync it. *)
LEMMA SyncQuiet ==
    ASSUME TypeOK, Sync \/ UNCHANGED files, UNCHANGED rows
    PROVE  Quiet /\ dir' = dir
BY DEF Sync, Quiet, files, rows, TypeOK

(* An operation on a file of the other provider. *)
LEMMA MutateQuiet ==
    ASSUME TypeOK, NEW d, d.cur = dir.cur, d.prev = dir.prev, Mutate(d), UNCHANGED rows
    PROVE  Quiet /\ dir' = d
BY DEF Mutate, Quiet, rows, TypeOK

(* The two ways in which a quiet step of a command ends. *)
LEMMA QuietMove ==
    ASSUME IInv, NEW p \in Procs, Step(p), Quiet, NEW S, Moves(p, S),
           procs[p].at \notin {"idle"} \cup SettleSteps,
           S \cap (Relying \cup ReplaceSteps) = {},
           procs'[p].at = "fleetWrite" => dir'.pending = Partial,
           procs'[p].at = "fleetRename" => dir'.pending \in Keys
    PROVE  IInv'
<1>1. TypeOK /\ Control
  BY DEF IInv
<1>2. p = "locked"
  BY <1>1 DEF Control, Procs
<1>3. Control'
  <2>1. S \cap ReplaceSteps = {} /\ S \cap SettleSteps = {}
    BY DEF Relying
  <2> QED BY <1>1, <1>2, <2>1, ControlMoves
<1>4. Facts(p)'
  <2>1. S \cap Relying = {}
    OBVIOUS
  <2> QED BY <2>1, PlainFacts
<1> QED BY <1>3, <1>4, QuietStep DEF Moves

(* A quiet step that ends the routine. *)
LEMMA QuietEnd ==
    ASSUME IInv, NEW p \in Procs, Step(p), Quiet, Ends(p), procs[p].at # "idle",
           p = "preflight" => dir'.pending = dir.pending
    PROVE  IInv'
<1>1. Control'
  BY ControlEnds DEF IInv
<1>2. Facts(p)'
  BY SMTT(20), EndFacts DEF IInv
<1> QED BY <1>1, <1>2, QuietStep DEF Ends

-----------------------------------------------------------------------------
(* The routines of the Fleet key, and the removal of its row and files. *)
LEMMA FleetStep ==
    ASSUME IInv, NEW p \in Procs, Step(p),
           procs[p].at \in PersistSteps \cup {"dropFleet", "dropFleetKey", "dropPending",
                                              "dropMarker", "dropFleetSync"}
    PROVE  IInv'
<1> USE DEF At
<1>0. /\ TypeOK /\ ProcsOK /\ dir \in Dirs /\ p = "locked"
      /\ procs[p].at \notin {"idle"} \cup SettleSteps \cup ReplaceSteps
  BY DEF IInv, TypeOK, ProcsOK, Control, Procs, SettleSteps, PersistSteps, ReplaceSteps
<1>1. \A failed, disturbed : LeaveWith(p, failed, disturbed) => Ends(p)
  BY <1>0, LeaveEnds
<1>2. ASSUME NEW S, Quiet, Moves(p, S) \/ Ends(p), S \cap (Relying \cup ReplaceSteps) = {},
             procs'[p].at = "fleetWrite" => dir'.pending = Partial,
             procs'[p].at = "fleetRename" => dir'.pending \in Keys
      PROVE  IInv'
  BY <1>0, <1>2, QuietMove, QuietEnd
<1>3. CASE PersistFleet(p)
  <2>1. Quiet
    BY Zenon, <1>0, <1>3, MutateQuiet, SyncQuiet DEF PersistFleet, CreateMarker, Dirs
  <2>2. Moves(p, {"markSync", "fleetKey"}) \/ Ends(p)
    BY Zenon, <1>0, <1>3, GotoNotingMoves, <1>1 DEF PersistFleet, CreateMarker, Moves, Return,
       Refuse
  <2>3. {"markSync", "fleetKey"} \cap (Relying \cup ReplaceSteps) = {}
    BY DEF Relying, SettleSteps, OnPrevious, ReplaceSteps
  <2>4. procs'[p].at \notin {"fleetWrite", "fleetRename"}
    BY <1>0, <2>2 DEF Moves, Ends, Idle, TypeOK, Processes
  <2> QED BY <1>2, <2>1, <2>2, <2>3, <2>4
<1>4. CASE MigrateFleet(p)
  <2>1. Quiet
    BY Zenon, <1>0, <1>4, MutateQuiet, SyncQuiet DEF MigrateFleet, CreateMarker, Dirs
  <2>2. Moves(p, {"markSync", "fleetKey"}) \/ Ends(p)
    BY ZenonT(60), <1>0, <1>4, GotoNotingMoves, <1>1 DEF MigrateFleet, CreateMarker, Moves, Return,
       Refuse
  <2>3. {"markSync", "fleetKey"} \cap (Relying \cup ReplaceSteps) = {}
    BY DEF Relying, SettleSteps, OnPrevious, ReplaceSteps
  <2>4. procs'[p].at \notin {"fleetWrite", "fleetRename"}
    BY <1>0, <2>2 DEF Moves, Ends, Idle, TypeOK, Processes
  <2> QED BY <1>2, <2>1, <2>2, <2>3, <2>4
<1>5. CASE MarkSync(p)
  <2>1. Quiet
    BY <1>0, <1>5, SyncQuiet DEF MarkSync
  <2>2. Moves(p, {"fleetKey"}) \/ Ends(p)
    BY <1>0, <1>5, GotoMoves DEF MarkSync, Moves
  <2>3. {"fleetKey"} \cap (Relying \cup ReplaceSteps) = {}
    BY DEF Relying, SettleSteps, OnPrevious, ReplaceSteps
  <2>4. procs'[p].at \notin {"fleetWrite", "fleetRename"}
    BY <1>0, <2>2 DEF Moves, Ends, Idle, TypeOK, Processes
  <2> QED BY <1>2, <2>1, <2>2, <2>3, <2>4
<1>6. CASE FleetKey(p)
  <2>1. CASE dir.fleet # NoKey /\ Goto(p, "storeFleet") /\ UNCHANGED files
    <3>1. Quiet /\ Moves(p, {"storeFleet"})
      BY <1>0, <1>6, <2>1, SyncQuiet, GotoMoves DEF FleetKey
    <3>2. {"storeFleet"} \cap (Relying \cup ReplaceSteps) = {}
      BY DEF Relying, SettleSteps, OnPrevious, ReplaceSteps
    <3> QED BY Zenon, <1>2, <3>1, <3>2 DEF Moves
  <2>2. CASE dir.fleet = NoKey /\ dir.pending = Partial /\ Refuse(p) /\ UNCHANGED files
    BY Zenon, <1>0, <1>1, <1>6, <2>2, SyncQuiet, QuietEnd DEF FleetKey, Refuse
  <2>3. CASE /\ Mutate([dir EXCEPT !.fleet = dir.pending, !.pending = NoKey])
             /\ Goto(p, "fleetSync")
    <3>1. Quiet /\ Moves(p, {"fleetSync"})
      BY Zenon, <1>0, <1>6, <2>3, MutateQuiet, GotoMoves DEF FleetKey, Dirs
    <3>2. {"fleetSync"} \cap (Relying \cup ReplaceSteps) = {}
      BY DEF Relying, SettleSteps, OnPrevious, ReplaceSteps
    <3> QED BY Zenon, <1>2, <3>1, <3>2 DEF Moves
  <2>4. CASE Mutate([dir EXCEPT !.pending = Partial]) /\ Goto(p, "fleetWrite")
    <3>1. Quiet /\ Moves(p, {"fleetWrite"}) /\ dir'.pending = Partial
      BY <1>0, <1>6, <2>4, MutateQuiet, GotoMoves DEF FleetKey, Dirs
    <3>2. {"fleetWrite"} \cap (Relying \cup ReplaceSteps) = {}
      BY DEF Relying, SettleSteps, OnPrevious, ReplaceSteps
    <3> QED BY Zenon, <1>2, <3>1, <3>2 DEF Moves
  <2> QED BY <1>6, <2>1, <2>2, <2>3, <2>4 DEF FleetKey
<1>7. CASE FleetWrite(p)
  <2>1. PICK n \in FreshKeys :
           /\ dir' = [dir EXCEPT !.pending = n]
           /\ disk' = {IF d.pending = Partial THEN [d EXCEPT !.pending = n] ELSE d : d \in disk}
    BY SMTT(20), <1>7 DEF FleetWrite
  <2>2. Quiet /\ dir'.pending \in Keys
    BY <1>0, <1>7, <2>1 DEF FleetWrite, Quiet, rows, FreshKeys, TypeOK, Dirs
  <2>3. Moves(p, {"fleetRename"})
    BY <1>0, <1>7, GotoMoves DEF FleetWrite
  <2>4. {"fleetRename"} \cap (Relying \cup ReplaceSteps) = {}
    BY DEF Relying, SettleSteps, OnPrevious, ReplaceSteps
  <2> QED BY Zenon, <1>2, <2>2, <2>3, <2>4 DEF Moves
<1>8. CASE FleetRename(p)
  <2>1. Quiet
    BY Zenon, <1>0, <1>8, MutateQuiet DEF FleetRename, Dirs
  <2>2. Moves(p, {"fleetSync"}) \/ Ends(p)
    BY <1>0, <1>8, GotoMoves DEF FleetRename, Moves
  <2>3. {"fleetSync"} \cap (Relying \cup ReplaceSteps) = {}
    BY DEF Relying, SettleSteps, OnPrevious, ReplaceSteps
  <2>4. procs'[p].at \notin {"fleetWrite", "fleetRename"}
    BY <1>0, <2>2 DEF Moves, Ends, Idle, TypeOK, Processes
  <2> QED BY <1>2, <2>1, <2>2, <2>3, <2>4
<1>9. CASE FleetKeyFails(p)
  <2>1. Quiet
    BY <1>0, <1>9, MutateQuiet, SyncQuiet DEF FleetKeyFails, Dirs
  <2>2. Moves(p, {"idle"}) \/ Ends(p)
    BY Zenon, <1>0, <1>9, <1>1 DEF FleetKeyFails, Moves
  <2>3. {"idle"} \cap (Relying \cup ReplaceSteps) = {}
    BY DEF Relying, SettleSteps, OnPrevious, ReplaceSteps
  <2>4. procs'[p].at \notin {"fleetWrite", "fleetRename"}
    BY <1>0, <2>2 DEF Moves, Ends, Idle, TypeOK, Processes
  <2> QED BY <1>2, <2>1, <2>2, <2>3, <2>4
<1>10. CASE FleetSync(p)
  <2>1. Quiet
    BY <1>0, <1>10, SyncQuiet DEF FleetSync
  <2>2. Moves(p, {"storeFleet"}) \/ Ends(p)
    BY <1>0, <1>10, GotoMoves DEF FleetSync, Moves
  <2>3. {"storeFleet"} \cap (Relying \cup ReplaceSteps) = {}
    BY DEF Relying, SettleSteps, OnPrevious, ReplaceSteps
  <2>4. procs'[p].at \notin {"fleetWrite", "fleetRename"}
    BY <1>0, <2>2 DEF Moves, Ends, Idle, TypeOK, Processes
  <2> QED BY <1>2, <2>1, <2>2, <2>3, <2>4
<1>11. CASE StoreFleet(p)
  <2>1. Quiet
    BY <1>0, <1>11 DEF StoreFleet, Quiet, files, TypeOK
  <2>2. Moves(p, {"unmark"}) \/ Ends(p)
    BY Zenon, <1>0, <1>11, GotoMoves, <1>1 DEF StoreFleet, Moves, Return, Refuse
  <2>3. {"unmark"} \cap (Relying \cup ReplaceSteps) = {}
    BY DEF Relying, SettleSteps, OnPrevious, ReplaceSteps
  <2>4. procs'[p].at \notin {"fleetWrite", "fleetRename"}
    BY <1>0, <2>2 DEF Moves, Ends, Idle, TypeOK, Processes
  <2> QED BY <1>2, <2>1, <2>2, <2>3, <2>4
<1>12. CASE Unmark(p)
  <2>1. Quiet
    BY <1>0, <1>12, MutateQuiet DEF Unmark, Dirs
  <2>2. Moves(p, {"unmarkSync"}) \/ Ends(p)
    BY <1>0, <1>12, GotoMoves DEF Unmark, Moves
  <2>3. {"unmarkSync"} \cap (Relying \cup ReplaceSteps) = {}
    BY DEF Relying, SettleSteps, OnPrevious, ReplaceSteps
  <2>4. procs'[p].at \notin {"fleetWrite", "fleetRename"}
    BY <1>0, <2>2 DEF Moves, Ends, Idle, TypeOK, Processes
  <2> QED BY <1>2, <2>1, <2>2, <2>3, <2>4
<1>13. CASE UnmarkSync(p)
  <2>1. Quiet
    BY <1>0, <1>13, SyncQuiet DEF UnmarkSync
  <2>2. Moves(p, {"idle"}) \/ Ends(p)
    BY Zenon, <1>0, <1>13, <1>1 DEF UnmarkSync, Moves, Return, Refuse
  <2>3. {"idle"} \cap (Relying \cup ReplaceSteps) = {}
    BY DEF Relying, SettleSteps, OnPrevious, ReplaceSteps
  <2>4. procs'[p].at \notin {"fleetWrite", "fleetRename"}
    BY <1>0, <2>2 DEF Moves, Ends, Idle, TypeOK, Processes
  <2> QED BY <1>2, <2>1, <2>2, <2>3, <2>4
<1>14. CASE DropFleet(p)
  <2>1. Quiet
    BY <1>0, <1>14 DEF DropFleet, Quiet, files, TypeOK
  <2>2. Moves(p, {"dropFleetKey"}) \/ Ends(p)
    BY Zenon, <1>0, <1>14, GotoNotingMoves DEF DropFleet, Moves
  <2>3. {"dropFleetKey"} \cap (Relying \cup ReplaceSteps) = {}
    BY DEF Relying, SettleSteps, OnPrevious, ReplaceSteps
  <2>4. procs'[p].at \notin {"fleetWrite", "fleetRename"}
    BY <1>0, <2>2 DEF Moves, Ends, Idle, TypeOK, Processes
  <2> QED BY <1>2, <2>1, <2>2, <2>3, <2>4
<1>15. CASE DropFleetKey(p)
  <2>1. Quiet
    BY Zenon, <1>0, <1>15, MutateQuiet, SyncQuiet DEF DropFleetKey, Remove, Dirs
  <2>2. Moves(p, {"dropPending"}) \/ Ends(p)
    BY Zenon, <1>0, <1>15, GotoMoves, GotoNotingMoves DEF DropFleetKey, Remove, Moves
  <2>3. {"dropPending"} \cap (Relying \cup ReplaceSteps) = {}
    BY DEF Relying, SettleSteps, OnPrevious, ReplaceSteps
  <2>4. procs'[p].at \notin {"fleetWrite", "fleetRename"}
    BY <1>0, <2>2 DEF Moves, Ends, Idle, TypeOK, Processes
  <2> QED BY <1>2, <2>1, <2>2, <2>3, <2>4
<1>16. CASE DropPending(p)
  <2>1. Quiet
    BY Zenon, <1>0, <1>16, MutateQuiet, SyncQuiet DEF DropPending, Remove, Dirs
  <2>2. Moves(p, {"dropMarker"}) \/ Ends(p)
    BY Zenon, <1>0, <1>16, GotoMoves, GotoNotingMoves, <1>1 DEF DropPending, Remove, Moves, Return,
       Refuse
  <2>3. {"dropMarker"} \cap (Relying \cup ReplaceSteps) = {}
    BY DEF Relying, SettleSteps, OnPrevious, ReplaceSteps
  <2>4. procs'[p].at \notin {"fleetWrite", "fleetRename"}
    BY <1>0, <2>2 DEF Moves, Ends, Idle, TypeOK, Processes
  <2> QED BY <1>2, <2>1, <2>2, <2>3, <2>4
<1>17. CASE DropMarker(p)
  <2>1. Quiet
    BY Zenon, <1>0, <1>17, MutateQuiet, SyncQuiet DEF DropMarker, Remove, Dirs
  <2>2. Moves(p, {"dropFleetSync"}) \/ Ends(p)
    BY Zenon, <1>0, <1>17, GotoMoves, GotoNotingMoves DEF DropMarker, Remove, Moves
  <2>3. {"dropFleetSync"} \cap (Relying \cup ReplaceSteps) = {}
    BY DEF Relying, SettleSteps, OnPrevious, ReplaceSteps
  <2>4. procs'[p].at \notin {"fleetWrite", "fleetRename"}
    BY <1>0, <2>2 DEF Moves, Ends, Idle, TypeOK, Processes
  <2> QED BY <1>2, <2>1, <2>2, <2>3, <2>4
<1>18. CASE DropFleetSync(p)
  <2>1. Quiet
    BY <1>0, <1>18, SyncQuiet DEF DropFleetSync, DropSync
  <2>2. Moves(p, {"idle"}) \/ Ends(p)
    BY Zenon, <1>0, <1>18, <1>1 DEF DropFleetSync, DropSync, Moves, Return, Refuse
  <2>3. {"idle"} \cap (Relying \cup ReplaceSteps) = {}
    BY DEF Relying, SettleSteps, OnPrevious, ReplaceSteps
  <2>4. procs'[p].at \notin {"fleetWrite", "fleetRename"}
    BY <1>0, <2>2 DEF Moves, Ends, Idle, TypeOK, Processes
  <2> QED BY <1>2, <2>1, <2>2, <2>3, <2>4
<1>19. CASE Fails(p)
  BY Zenon, <1>0, <1>1, <1>19, SyncQuiet, QuietEnd DEF Fails
<1> QED
  BY Zenon, <1>3, <1>4, <1>5, <1>6, <1>7, <1>8, <1>9, <1>10, <1>11, <1>12, <1>13, <1>14, <1>15,
     <1>16, <1>17, <1>18, <1>19
     DEF Step, PersistSteps, Settle, SettleCommit, SettleDelete, SettleRestore, SettleSync, Recover, SetAside, SetAsideSync, Publish, PublishFails, PublishSync, Store, Rollback, RestorePrevious, RestoreSync, Commit, CommitSync, DropLegacy, DropCurrent, DropPrevious, DropLegacySync

-----------------------------------------------------------------------------
(* A step of a legacy routine that goes on inside it, or ends it. *)
LEMMA LegacyMove ==
    ASSUME IInv, NEW p \in Procs, Step(p), NEW S, Moves(p, S),
           \/ procs[p].at \in ReplaceSteps /\ S \subseteq ReplaceSteps \cup SettleSteps
           \/ procs[p].at \in SettleSteps /\ S \subseteq SettleSteps
           \/ /\ procs[p].at \in SettleSteps /\ S \subseteq ReplaceSteps
              /\ procs[p].kind \in {"setup", "migrate"},
           p = "preflight" => lrow' = lrow,
           dir'.pending = dir.pending, LegacyKeyKept', Facts(p)'
    PROVE  IInv'
<1>1. TypeOK /\ Control
  BY DEF IInv
<1>2. procs[p].at # "idle" /\ procs[p].at \in ReplaceSteps \cup SettleSteps
  BY DEF ReplaceSteps, SettleSteps
<1>3. procs[p].at \in ReplaceSteps => p = "locked" /\ procs[p].kind \in {"setup", "migrate"}
  BY <1>1 DEF Control, Procs, ReplaceSteps, SettleSteps
<1>4. procs[p].kind \in {"setup", "migrate"} => p = "locked"
  BY <1>1 DEF Control, Procs
<1>5. procs'[p].at \notin {"fleetWrite", "fleetRename"}
  BY DEF Moves, ReplaceSteps, SettleSteps
<1>6. S \cap ReplaceSteps = {} \/ procs[p].kind \in {"setup", "migrate"}
  BY <1>3 DEF ReplaceSteps, SettleSteps
<1>7. \/ S \cap SettleSteps = {} \/ procs[p].at \in SettleSteps
      \/ procs[p].kind \in LegacyKinds
  BY <1>3 DEF LegacyKinds
<1>8. Control'
  BY <1>1, <1>2, <1>3, <1>4, <1>5, <1>6, <1>7, ControlMoves
<1> QED BY <1>2, <1>8, LoudStep DEF Moves

(* A step that ends a legacy routine. *)
LEMMA LegacyEnd ==
    ASSUME IInv, NEW p \in Procs, Step(p), Ends(p),
           procs[p].at \in ReplaceSteps \cup SettleSteps,
           p = "preflight" => lrow' = lrow,
           dir'.pending = dir.pending, LegacyKeyKept'
    PROVE  IInv'
<1>1. TypeOK /\ Control /\ procs[p].at # "idle"
  BY DEF IInv, ReplaceSteps, SettleSteps
<1>2. Control' /\ Facts(p)'
  BY <1>1, ControlEnds, EndFacts
<1> QED BY <1>2, LoudStep DEF Ends

(* A file operation on the legacy keys that leaves the pair's key in place. *)
LEMMA MutateKept ==
    ASSUME TypeOK, LegacyKeyKept, NEW d \in Dirs, Mutate(d), lrow' = lrow,
           lrow # NoKey => lrow \in {d.cur, d.prev}
    PROVE  LegacyKeyKept' /\ dir' = d
BY SMTT(20) DEF Mutate, LegacyKeyKept

-----------------------------------------------------------------------------
(* The settlement, by the locked command or a preflight. *)
LEMMA SettleStep ==
    ASSUME IInv, NEW p \in Procs, Step(p), procs[p].at \in SettleSteps
    PROVE  IInv'
<1> USE DEF At
<1>0. /\ TypeOK /\ ProcsOK /\ dir \in Dirs /\ Facts(p) /\ LegacyKeyKept
      /\ lrow \in {NoKey, procs[p].row}
  BY DEF IInv, TypeOK, ProcsOK, Facts
<1>1. \A failed, disturbed : LeaveWith(p, failed, disturbed) => Ends(p)
  BY <1>0, LeaveEnds
<1>2. ASSUME UNCHANGED rows
      PROVE  lrow' = lrow
  BY <1>2 DEF rows
<1>3. ASSUME Sync \/ UNCHANGED files, UNCHANGED rows
      PROVE  LegacyKeyKept' /\ dir' = dir /\ lrow' = lrow
  BY <1>0, <1>3, SyncQuiet, QuietKept DEF Quiet
<1>4. ASSUME Sync \/ UNCHANGED files, UNCHANGED rows, Settled(p)
      PROVE  IInv'
  <2>1. CASE procs[p].kind \in {"setup", "migrate"}
    <3>1. Moves(p, {"setAside"})
      BY <1>0, <1>4, <2>1, GotoMoves DEF Settled
    <3>2. Facts(p)'
      <4>1. {"setAside"} \cap Relying = {}
        BY DEF Relying, SettleSteps, OnPrevious
      <4> QED BY <3>1, <4>1, PlainFacts
    <3>3. {"setAside"} \subseteq ReplaceSteps
      BY DEF ReplaceSteps
    <3> QED BY <1>3, <1>4, <2>1, <3>1, <3>2, <3>3, LegacyMove
  <2>2. CASE procs[p].kind \notin {"setup", "migrate"}
    BY Zenon, <1>1, <1>3, <1>4, <2>2, LegacyEnd DEF Settled, Return
  <2> QED BY <2>1, <2>2
<1>5. CASE Settle(p)
  <2>1. LegacyKeyKept' /\ dir' = dir /\ lrow' = lrow
    BY <1>3, <1>5 DEF Settle
  <2>2. CASE Settled(p)
    BY <1>4, <1>5, <2>2 DEF Settle
  <2>3. CASE Refuse(p)
    BY Zenon, <1>1, <2>1, <2>3, LegacyEnd DEF Refuse
  <2>4. CASE dir.cur = procs[p].row /\ Goto(p, "settleCommit")
    <3>1. Moves(p, {"settleCommit"}) /\ {"settleCommit"} \subseteq SettleSteps
      BY <1>0, <2>4, GotoMoves DEF SettleSteps
    <3>2. Facts(p)'
      BY <1>0, <2>1, <2>4, <3>1 DEF Facts, Moves, SettleSteps, OnPrevious
    <3> QED BY <2>1, <3>1, <3>2, LegacyMove
  <2>5. CASE /\ dir.prev = procs[p].row
             /\ Goto(p, IF dir.cur = NoKey THEN "settleRestore" ELSE "settleDelete")
    <3>1. /\ Moves(p, {"settleRestore"}) \/ Moves(p, {"settleDelete"})
          /\ {"settleRestore"} \subseteq SettleSteps /\ {"settleDelete"} \subseteq SettleSteps
      BY SMTT(20), <1>0, <2>5, GotoMoves DEF SettleSteps
    <3>2. Facts(p)'
      BY <1>0, <2>1, <2>5, <3>1 DEF Facts, Moves, SettleSteps, OnPrevious
    <3> QED BY <2>1, <3>1, <3>2, LegacyMove
  <2> QED BY <1>5, <2>2, <2>3, <2>4, <2>5 DEF Settle
<1>6. CASE SettleCommit(p)
  <2>1. CASE dir.prev = NoKey
    BY Zenon, <1>1, <1>3, <1>6, <2>1, LegacyEnd DEF SettleCommit, Unlink, Refuse
  <2>2. CASE dir.prev # NoKey
    <3>1. [dir EXCEPT !.prev = NoKey] \in Dirs /\ lrow \in {NoKey, dir.cur}
      BY <1>0, <1>6 DEF Dirs, Facts, SettleCommit
    <3>2. Mutate([dir EXCEPT !.prev = NoKey]) /\ Goto(p, "settleSync") /\ lrow' = lrow
      BY <1>2, <1>6, <2>2 DEF SettleCommit, Unlink
    <3>3. LegacyKeyKept' /\ dir'.pending = dir.pending
      BY <1>0, <3>1, <3>2, MutateKept DEF Dirs
    <3>4. Moves(p, {"settleSync"}) /\ {"settleSync"} \subseteq SettleSteps
      BY <1>0, <3>2, GotoMoves DEF SettleSteps
    <3>5. Facts(p)'
      BY <1>0, <3>2, <3>4 DEF Facts, Moves, SettleSteps, OnPrevious
    <3> QED BY <3>2, <3>3, <3>4, <3>5, LegacyMove
  <2> QED BY <2>1, <2>2
<1>7. CASE SettleDelete(p)
  <2>1. CASE dir.cur = NoKey
    BY Zenon, <1>1, <1>3, <1>7, <2>1, LegacyEnd DEF SettleDelete, Unlink, Refuse
  <2>2. CASE dir.cur # NoKey
    <3>1. [dir EXCEPT !.cur = NoKey] \in Dirs /\ lrow \in {NoKey, dir.prev}
      BY <1>0, <1>7 DEF Dirs, Facts, SettleDelete, OnPrevious
    <3>2. Mutate([dir EXCEPT !.cur = NoKey]) /\ Goto(p, "settleRestore") /\ lrow' = lrow
      BY <1>2, <1>7, <2>2 DEF SettleDelete, Unlink
    <3>3. LegacyKeyKept' /\ dir'.pending = dir.pending /\ dir'.prev = dir.prev
      BY <1>0, <3>1, <3>2, MutateKept DEF Dirs
    <3>4. Moves(p, {"settleRestore"}) /\ {"settleRestore"} \subseteq SettleSteps
      BY <1>0, <3>2, GotoMoves DEF SettleSteps
    <3>5. Facts(p)'
      BY <1>0, <3>1, <3>2, <3>3, <3>4 DEF Facts, Moves, SettleSteps, OnPrevious
    <3> QED BY <3>2, <3>3, <3>4, <3>5, LegacyMove
  <2> QED BY <2>1, <2>2
<1>8. CASE SettleRestore(p)
  <2>1. CASE dir.prev = NoKey
    BY Zenon, <1>1, <1>3, <1>8, <2>1, LegacyEnd DEF SettleRestore, Refuse
  <2>2. CASE dir.prev # NoKey
    <3>1. /\ [dir EXCEPT !.cur = dir.prev, !.prev = NoKey] \in Dirs
          /\ lrow \in {NoKey, dir.prev}
      BY Zenon, <1>0, <1>8 DEF Dirs, Facts, SettleRestore, OnPrevious
    <3>2. /\ Mutate([dir EXCEPT !.cur = dir.prev, !.prev = NoKey])
          /\ Goto(p, "settleSync") /\ lrow' = lrow
      BY <1>2, <1>8, <2>2 DEF SettleRestore
    <3>3. LegacyKeyKept' /\ dir'.pending = dir.pending
      BY Zenon, <1>0, <3>1, <3>2, MutateKept DEF Dirs
    <3>4. Moves(p, {"settleSync"}) /\ {"settleSync"} \subseteq SettleSteps
      BY <1>0, <3>2, GotoMoves DEF SettleSteps
    <3>5. Facts(p)'
      BY <1>0, <3>2, <3>4 DEF Facts, Moves, SettleSteps, OnPrevious
    <3> QED BY <3>2, <3>3, <3>4, <3>5, LegacyMove
  <2> QED BY <2>1, <2>2
<1>9. CASE SettleSync(p)
  BY <1>4, <1>9 DEF SettleSync
<1>10. CASE Fails(p)
  BY Zenon, <1>1, <1>3, <1>10, LegacyEnd DEF Fails
<1> QED
  BY Zenon, <1>5, <1>6, <1>7, <1>8, <1>9, <1>10
     DEF Step, SettleSteps, Recover, SetAside, SetAsideSync, Publish, PublishFails, PublishSync, Store, Rollback, RestorePrevious, RestoreSync, Commit, CommitSync, PersistFleet, MigrateFleet, MarkSync, FleetKey, FleetWrite, FleetRename, FleetKeyFails, FleetSync, StoreFleet, Unmark, UnmarkSync, DropFleet, DropFleetKey, DropPending, DropMarker, DropFleetSync, DropLegacy, DropCurrent, DropPrevious, DropLegacySync

-----------------------------------------------------------------------------
(* The replacement of the legacy key. *)
LEMMA ReplaceStep ==
    ASSUME IInv, NEW p \in Procs, Step(p), procs[p].at \in ReplaceSteps
    PROVE  IInv'
<1> USE DEF At
<1>0. /\ TypeOK /\ ProcsOK /\ dir \in Dirs /\ Facts(p) /\ LegacyKeyKept
      /\ p = "locked" /\ procs[p].key \in Keys \cup {NoKey}
  BY DEF IInv, TypeOK, ProcsOK, Control, Procs, SettleSteps, ReplaceSteps, Processes
<1>1. \A failed, disturbed : LeaveWith(p, failed, disturbed) => Ends(p)
  BY <1>0, LeaveEnds
<1>2. ASSUME UNCHANGED rows
      PROVE  lrow' = lrow
  BY <1>2 DEF rows
<1>3. ASSUME Sync \/ UNCHANGED files, UNCHANGED rows
      PROVE  LegacyKeyKept' /\ dir' = dir /\ lrow' = lrow
  BY <1>0, <1>3, SyncQuiet, QuietKept DEF Quiet
<1>4. ASSUME NEW step \in ReplaceSteps \cup SettleSteps, Moves(p, {step}),
             dir'.pending = dir.pending, LegacyKeyKept', Facts(p)'
      PROVE  IInv'
  BY <1>0, <1>4, LegacyMove
<1>5. ASSUME Ends(p), dir'.pending = dir.pending, LegacyKeyKept'
      PROVE  IInv'
  BY <1>0, <1>5, LegacyEnd
<1>6. ASSUME UNCHANGED rows \/ UNCHANGED lrow, NEW d \in Dirs, Mutate(d),
             d.pending = dir.pending, lrow # NoKey => lrow \in {d.cur, d.prev}
      PROVE  LegacyKeyKept' /\ dir' = d /\ dir'.pending = dir.pending /\ lrow' = lrow
  BY <1>0, <1>6, MutateKept DEF rows
<1>7. lrow # NoKey => lrow \in {dir.cur, dir.prev}
  BY <1>0 DEF TypeOK, LegacyKeyKept
<1>8. procs[p].at \in OnPrevious => lrow \in {NoKey, dir.prev}
  BY <1>0 DEF Facts
<1>9. /\ \A x \in Keys \cup {NoKey} :
            /\ [dir EXCEPT !.cur = x] \in Dirs
            /\ [dir EXCEPT !.cur = x].cur = x
            /\ [dir EXCEPT !.cur = x].prev = dir.prev
            /\ [dir EXCEPT !.cur = x].pending = dir.pending
      /\ [dir EXCEPT !.prev = NoKey] \in Dirs
      /\ [dir EXCEPT !.prev = NoKey].cur = dir.cur
      /\ [dir EXCEPT !.prev = NoKey].pending = dir.pending
  BY <1>0 DEF Dirs
<1>10. /\ [dir EXCEPT !.cur = dir.prev, !.prev = NoKey] \in Dirs
       /\ [dir EXCEPT !.cur = dir.prev, !.prev = NoKey].cur = dir.prev
       /\ [dir EXCEPT !.cur = dir.prev, !.prev = NoKey].pending = dir.pending
       /\ [dir EXCEPT !.prev = dir.cur, !.cur = NoKey] \in Dirs
       /\ [dir EXCEPT !.prev = dir.cur, !.cur = NoKey].prev = dir.cur
       /\ [dir EXCEPT !.prev = dir.cur, !.cur = NoKey].pending = dir.pending
  BY Zenon, <1>0 DEF Dirs
<1>11. CASE Recover(p)
  <2>1. LegacyKeyKept' /\ dir' = dir /\ lrow' = lrow
    BY <1>3, <1>11 DEF Recover
  <2>2. CASE Goto(p, "setAside")
    <3>1. Moves(p, {"setAside"}) /\ "setAside" \in ReplaceSteps
      BY <1>0, <2>2, GotoMoves DEF ReplaceSteps
    <3>2. Facts(p)'
      BY <3>1 DEF Facts, Moves, SettleSteps, OnPrevious
    <3> QED BY <1>4, <2>1, <3>1, <3>2
  <2>3. CASE Refuse(p)
    BY Zenon, <1>1, <1>5, <2>1, <2>3 DEF Refuse
  <2>4. CASE procs' = [procs EXCEPT ![p].at = "settle", ![p].row = lrow]
    <3>1. /\ procs'[p].at = "settle" /\ procs'[p].row = lrow
          /\ procs'[p].kind = procs[p].kind /\ procs'[p].then = procs[p].then
          /\ \A q \in Procs : q # p => procs'[q] = procs[q]
      BY <1>0, <2>4 DEF ProcsOK, Processes
    <3>2. Facts(p)'
      BY <2>1, <3>1 DEF Facts, SettleSteps, OnPrevious
    <3>3. Control'
      BY <1>0, <2>1, <3>1 DEF IInv, Control, Procs, LegacyKinds, SettleSteps, ReplaceSteps
    <3>4. Quiet
      BY <1>0, <1>11, SyncQuiet DEF Recover
    <3> QED BY <3>1, <3>2, <3>3, <3>4, QuietStep
  <2> QED BY <1>11, <2>2, <2>3, <2>4 DEF Recover
<1>12. CASE SetAside(p)
  <2>1. CASE dir.prev # NoKey
    BY Zenon, <1>1, <1>3, <1>5, <1>12, <2>1 DEF SetAside, Refuse
  <2>2. CASE dir.prev = NoKey /\ dir.cur = NoKey
    <3>1. /\ Moves(p, {"publish"}) /\ "publish" \in ReplaceSteps
          /\ LegacyKeyKept' /\ dir' = dir /\ lrow' = lrow
      BY Zenon, <1>0, <1>3, <1>12, <2>2, GotoNotingMoves DEF SetAside, ReplaceSteps
    <3>2. Facts(p)'
      BY <1>7, <2>2, <3>1 DEF Facts, Moves, SettleSteps, OnPrevious
    <3> QED BY <1>4, <3>1, <3>2
  <2>3. CASE dir.prev = NoKey /\ dir.cur # NoKey
    <3>1. /\ Mutate([dir EXCEPT !.prev = dir.cur, !.cur = NoKey])
          /\ GotoNoting(p, "setAsideSync", TRUE) /\ UNCHANGED rows
      BY Zenon, <1>12, <2>3 DEF SetAside
    <3>2. /\ Moves(p, {"setAsideSync"}) /\ "setAsideSync" \in ReplaceSteps
      BY Zenon, <1>0, <3>1, GotoNotingMoves DEF ReplaceSteps
    <3>3. lrow \in {NoKey, dir.cur}
      BY <1>7, <2>3
    <3>4. /\ LegacyKeyKept' /\ dir'.pending = dir.pending /\ lrow' = lrow
          /\ dir'.prev = dir.cur
      BY Zenon, <1>6, <1>10, <3>1, <3>3
    <3>5. Facts(p)'
      BY <3>2, <3>3, <3>4 DEF Facts, Moves, SettleSteps, OnPrevious
    <3> QED BY <1>4, <3>2, <3>4, <3>5
  <2> QED BY <2>1, <2>2, <2>3
<1>13. CASE SetAsideSync(p)
  <2>1. /\ Moves(p, {"publish"}) /\ "publish" \in ReplaceSteps
        /\ LegacyKeyKept' /\ dir' = dir /\ lrow' = lrow
    BY <1>0, <1>3, <1>13, GotoMoves DEF SetAsideSync, ReplaceSteps
  <2>2. Facts(p)'
    BY <1>8, <1>13, <2>1 DEF SetAsideSync, Facts, Moves, SettleSteps, OnPrevious
  <2> QED BY <1>4, <2>1, <2>2
<1>14. CASE Publish(p)
  <2>1. lrow \in {NoKey, dir.prev}
    BY <1>8, <1>14 DEF Publish, OnPrevious
  <2>2. /\ Moves(p, {"publishSync"}) /\ "publishSync" \in ReplaceSteps
        /\ Mutate([dir EXCEPT !.cur = procs[p].key]) /\ UNCHANGED rows
    BY <1>0, <1>14, GotoMoves DEF Publish, ReplaceSteps
  <2>3. /\ LegacyKeyKept' /\ dir'.pending = dir.pending /\ lrow' = lrow
        /\ dir'.cur = procs[p].key /\ dir'.prev = dir.prev
    BY ZenonT(60), <1>0, <1>6, <1>9, <2>1, <2>2
  <2>4. Facts(p)'
    BY <2>1, <2>2, <2>3 DEF Facts, Moves, SettleSteps, OnPrevious
  <2> QED BY <1>4, <2>2, <2>3, <2>4
<1>15. CASE PublishFails(p)
  <2>1. lrow \in {NoKey, dir.prev} /\ Ends(p) /\ UNCHANGED rows
    BY Zenon, <1>1, <1>8, <1>15 DEF PublishFails, OnPrevious
  <2>2. CASE Mutate([dir EXCEPT !.cur = dir.prev, !.prev = NoKey])
    BY Zenon, <1>5, <1>6, <1>10, <2>1, <2>2
  <2>3. CASE dir' = [dir EXCEPT !.cur = dir.prev, !.prev = NoKey] /\ disk' = {dir'}
    <3>1. LegacyKeyKept' /\ dir'.pending = dir.pending
      BY <1>2, <1>10, <2>1, <2>3 DEF LegacyKeyKept
    <3> QED BY <1>5, <2>1, <3>1
  <2>4. CASE UNCHANGED files
    BY <1>3, <1>5, <2>1, <2>4
  <2> QED BY <1>15, <2>2, <2>3, <2>4 DEF PublishFails
<1>16. CASE PublishSync(p)
  <2>1. /\ Moves(p, {"store"}) /\ "store" \in ReplaceSteps
        /\ LegacyKeyKept' /\ dir' = dir /\ lrow' = lrow /\ disk' = {dir}
    BY <1>0, <1>3, <1>16, GotoMoves DEF PublishSync, ReplaceSteps, Sync
  <2>2. dir.cur = procs[p].key /\ lrow \in {NoKey, dir.prev}
    BY <1>0, <1>8, <1>16 DEF PublishSync, Facts, OnPrevious
  <2>3. Facts(p)'
    BY <2>1, <2>2 DEF Facts, Moves, SettleSteps, OnPrevious
  <2> QED BY <1>4, <2>1, <2>3
<1>17. CASE Store(p)
  <2>1. dir' = dir /\ disk' = disk
    BY <1>17 DEF Store, files
  <2>2. lrow \in {NoKey, dir.prev} /\ \A d \in disk : d.cur = procs[p].key
    BY <1>0, <1>8, <1>17 DEF Store, Facts, OnPrevious
  <2>3. CASE lrow' = procs[p].key /\ Goto(p, "commit")
    <3>1. Moves(p, {"commit"}) /\ "commit" \in ReplaceSteps
      BY <1>0, <2>3, GotoMoves DEF ReplaceSteps
    <3>2. LegacyKeyKept'
      BY SMTT(20), <2>1, <2>2, <2>3 DEF LegacyKeyKept
    <3>3. Facts(p)'
      BY <1>0, <2>1, <2>2, <2>3, <3>1 DEF TypeOK, Facts, Moves, SettleSteps, OnPrevious
    <3> QED BY <1>4, <2>1, <3>1, <3>2, <3>3
  <2>4. CASE lrow' = lrow /\ Goto(p, "rollback")
    <3>1. Moves(p, {"rollback"}) /\ "rollback" \in ReplaceSteps
      BY <1>0, <2>4, GotoMoves DEF ReplaceSteps
    <3>2. LegacyKeyKept'
      BY <1>0, <2>1, <2>4 DEF LegacyKeyKept
    <3>3. Facts(p)'
      BY <2>1, <2>2, <2>4, <3>1 DEF Facts, Moves, SettleSteps, OnPrevious
    <3> QED BY <1>4, <2>1, <3>1, <3>2, <3>3
  <2> QED BY <1>17, <2>3, <2>4 DEF Store
<1>18. CASE Rollback(p)
  <2>1. lrow \in {NoKey, dir.prev}
    BY <1>8, <1>18 DEF Rollback, OnPrevious
  <2>2. /\ Moves(p, {"restore"}) \/ Moves(p, {"restoreSync"})
        /\ {"restore", "restoreSync"} \subseteq ReplaceSteps
        /\ Mutate([dir EXCEPT !.cur = NoKey]) /\ UNCHANGED rows
    BY <1>0, <1>18, GotoMoves DEF Rollback, ReplaceSteps
  <2>3. LegacyKeyKept' /\ dir'.pending = dir.pending /\ lrow' = lrow /\ dir'.prev = dir.prev
    <3>1. /\ [dir EXCEPT !.cur = NoKey] \in Dirs
          /\ [dir EXCEPT !.cur = NoKey].prev = dir.prev
          /\ [dir EXCEPT !.cur = NoKey].pending = dir.pending
      BY <1>9
    <3> QED BY Zenon, <1>6, <2>1, <2>2, <3>1
  <2>4. Facts(p)'
    BY <2>1, <2>2, <2>3 DEF Facts, Moves, SettleSteps, OnPrevious
  <2> QED BY <1>4, <2>2, <2>3, <2>4
<1>19. CASE RestorePrevious(p)
  <2>1. lrow \in {NoKey, dir.prev}
    BY <1>8, <1>19 DEF RestorePrevious, OnPrevious
  <2>2. /\ Moves(p, {"restoreSync"}) /\ "restoreSync" \in ReplaceSteps
        /\ Mutate([dir EXCEPT !.cur = dir.prev, !.prev = NoKey]) /\ UNCHANGED rows
    BY <1>0, <1>19, GotoMoves DEF RestorePrevious, ReplaceSteps
  <2>3. LegacyKeyKept' /\ dir'.pending = dir.pending
    BY Zenon, <1>6, <1>10, <2>1, <2>2
  <2>4. Facts(p)'
    BY <2>2 DEF Facts, Moves, SettleSteps, OnPrevious
  <2> QED BY <1>4, <2>2, <2>3, <2>4
<1>20. CASE RestoreSync(p)
  BY Zenon, <1>1, <1>3, <1>5, <1>20 DEF RestoreSync, Refuse
<1>21. CASE Commit(p)
  <2>1. CASE ~procs[p].had \/ dir.prev = NoKey
    BY Zenon, <1>1, <1>3, <1>5, <1>21, <2>1 DEF Commit, Unlink, Return, Refuse
  <2>2. CASE procs[p].had /\ dir.prev # NoKey
    <3>1. /\ Moves(p, {"commitSync"}) /\ "commitSync" \in ReplaceSteps
          /\ Mutate([dir EXCEPT !.prev = NoKey]) /\ UNCHANGED rows
      BY <1>0, <1>21, <2>2, GotoMoves DEF Commit, Unlink, ReplaceSteps
    <3>2. lrow = dir.cur
      BY <1>0, <1>21 DEF Commit, Facts
    <3>3. LegacyKeyKept' /\ dir'.pending = dir.pending
      BY Zenon, <1>6, <1>9, <3>1, <3>2
    <3>4. Facts(p)'
      BY <3>1 DEF Facts, Moves, SettleSteps, OnPrevious
    <3> QED BY <1>4, <3>1, <3>3, <3>4
  <2> QED BY <2>1, <2>2
<1>22. CASE CommitSync(p)
  BY Zenon, <1>1, <1>3, <1>5, <1>22 DEF CommitSync, Return
<1>23. CASE Fails(p)
  BY Zenon, <1>1, <1>3, <1>5, <1>23 DEF Fails
<1> QED
  BY Zenon, <1>11, <1>12, <1>13, <1>14, <1>15, <1>16, <1>17, <1>18, <1>19, <1>20, <1>21, <1>22,
     <1>23
     DEF Step, ReplaceSteps, Settle, SettleCommit, SettleDelete, SettleRestore, SettleSync, PersistFleet, MigrateFleet, MarkSync, FleetKey, FleetWrite, FleetRename, FleetKeyFails, FleetSync, StoreFleet, Unmark, UnmarkSync, DropFleet, DropFleetKey, DropPending, DropMarker, DropFleetSync, DropLegacy, DropCurrent, DropPrevious, DropLegacySync

-----------------------------------------------------------------------------
(* The removal of the legacy row and files: the row is gone first. *)
LEMMA DropLegacyStep ==
    ASSUME IInv, NEW p \in Procs, Step(p),
           procs[p].at \in {"dropLegacy", "dropCurrent", "dropPrevious", "dropLegacySync"}
    PROVE  IInv'
<1> USE DEF At
<1>0. /\ TypeOK /\ ProcsOK /\ dir \in Dirs /\ Control /\ Facts(p)
      /\ p = "locked" /\ procs[p].at # "idle"
  BY DEF IInv, TypeOK, ProcsOK, Control, Procs, SettleSteps
<1>1. \A failed, disturbed : LeaveWith(p, failed, disturbed) => Ends(p)
  BY <1>0, LeaveEnds
<1>2. ASSUME Quiet, Ends(p)
      PROVE  IInv'
  BY <1>0, <1>2, QuietEnd
<1>3. ASSUME NEW step \in {"dropCurrent", "dropPrevious", "dropLegacySync"},
             Moves(p, {step}), lrow' = NoKey
      PROVE  IInv'
  <2>1. Control'
    <3>1. {step} \cap ReplaceSteps = {} /\ {step} \cap SettleSteps = {}
      BY <1>3 DEF ReplaceSteps, SettleSteps
    <3>2. procs'[p].at \notin {"fleetWrite", "fleetRename"}
      BY <1>3 DEF Moves
    <3> QED BY <1>0, <1>3, <3>1, <3>2, ControlMoves
  <2>2. LegacyKeyKept'
    BY <1>3 DEF LegacyKeyKept
  <2>3. Facts(p)'
    BY <1>3 DEF Facts, Moves, SettleSteps, OnPrevious
  <2>4. procs'["preflight"] = procs["preflight"]
    BY <1>0, <1>3 DEF Moves, Procs
  <2>5. Facts("preflight")'
    BY <1>0, <1>3, <2>4, ClearedFacts
  <2> QED BY <1>0, <2>1, <2>2, <2>3, <2>5, Assemble DEF Procs
<1>4. CASE DropLegacy(p)
  BY Zenon, <1>0, <1>3, <1>4, GotoNotingMoves DEF DropLegacy
<1>5. CASE DropCurrent(p)
  <2>1. lrow' = NoKey
    BY <1>0, <1>5 DEF DropCurrent, Remove, rows, Facts
  <2>2. Moves(p, {"dropPrevious"}) \/ Moves(p, {"dropLegacySync"})
    BY Zenon, <1>0, <1>5, GotoMoves, GotoNotingMoves DEF DropCurrent, Remove
  <2> QED BY <1>3, <2>1, <2>2
<1>6. CASE DropPrevious(p)
  <2>1. lrow' = NoKey
    BY <1>0, <1>6 DEF DropPrevious, rows, Facts
  <2>2. CASE dir.prev = NoKey
    BY Zenon, <1>0, <1>1, <1>2, <1>6, <2>2, SyncQuiet DEF DropPrevious, Refuse
  <2>3. CASE dir.prev # NoKey
    BY Zenon, <1>0, <1>3, <1>6, <2>1, <2>3, GotoNotingMoves DEF DropPrevious
  <2> QED BY <2>2, <2>3
<1>7. CASE DropLegacySync(p)
  BY Zenon, <1>0, <1>1, <1>2, <1>7, SyncQuiet DEF DropLegacySync, DropSync, Return
<1>8. CASE Fails(p)
  BY Zenon, <1>0, <1>1, <1>2, <1>8, SyncQuiet DEF Fails
<1> QED
  BY Zenon, <1>4, <1>5, <1>6, <1>7, <1>8 DEF Step, Settle, SettleCommit, SettleDelete,
     SettleRestore, SettleSync, Recover, SetAside, SetAsideSync, Publish, PublishFails, PublishSync,
     Store, Rollback, RestorePrevious, RestoreSync, Commit, CommitSync, PersistFleet, MigrateFleet,
     MarkSync, FleetKey, FleetWrite, FleetRename, FleetKeyFails, FleetSync, StoreFleet, Unmark,
     UnmarkSync, DropFleet, DropFleetKey, DropPending, DropMarker, DropFleetSync

(* Every step of a process. *)
LEMMA ProcessStep ==
    ASSUME IInv, NEW p \in Procs, Step(p)
    PROVE  IInv'
<1>1. procs[p].at \in Steps
  BY DEF IInv, TypeOK, Processes
<1>2. procs[p].at # "idle"
  BY Zenon DEF Step, At, Faultless, Settle, SettleCommit, SettleDelete, SettleRestore, SettleSync,
     Recover, SetAside, SetAsideSync, Publish, PublishFails, PublishSync, Store, Rollback,
     RestorePrevious, RestoreSync, Commit, CommitSync, PersistFleet, MigrateFleet, MarkSync,
     FleetKey, FleetWrite, FleetRename, FleetKeyFails, FleetSync, StoreFleet, Unmark, UnmarkSync,
     DropFleet, DropFleetKey, DropPending, DropMarker, DropFleetSync, DropLegacy, DropCurrent,
     DropPrevious, DropLegacySync, Fails
<1> QED
  BY <1>1, <1>2, SettleStep, ReplaceStep, FleetStep, DropLegacyStep
     DEF Steps, DropSteps

-----------------------------------------------------------------------------
(* A command begins: beside a preflight only one that leaves the legacy key *)
(* alone.                                                                   *)
LEMMA CommandStep ==
    ASSUME IInv, Beside \cap LegacyKinds = {}, NEW kind \in Kinds, Command(kind)
    PROVE  IInv'
<1> USE DEF At
<1>1. PICK k \in KeysFor(kind) :
         procs' = [procs EXCEPT !["locked"] =
             [Idle EXCEPT !.kind = kind, !.at = FirstStep(kind), !.then = Follows(kind),
                          !.key = k, !.row = IF kind = "serve" THEN lrow ELSE NoKey,
                          !.disturbed = procs["preflight"].at # "idle"]]
  BY Zenon DEF Command
<1>2. TypeOK /\ ProcsOK /\ Control /\ LegacyKeyKept /\ Facts("preflight")
  BY DEF IInv, TypeOK, ProcsOK, Procs
<1>3. /\ dir' = dir /\ disk' = disk /\ lrow' = lrow /\ frow' = frow
      /\ last' = [last EXCEPT !.kind = "none", !.ok = FALSE, !.disturbed = FALSE, !.key = NoKey]
  BY DEF Command, files, rows
<1>4. k \in Keys \cup {NoKey}
  BY <1>1 DEF KeysFor, FreshKeys, Kinds
<1>5. /\ FirstStep(kind) \in {"recover", "persistFleet", "migrateFleet", "settle", "dropFleet"}
      /\ FirstStep(kind) = "recover" => kind \in {"setup", "migrate"}
      /\ FirstStep(kind) = "settle" => kind = "serve"
      /\ Follows(kind) \in {"idle", "dropFleet", "dropLegacy"}
  BY DEF FirstStep, Follows, Kinds
<1>6. FirstStep(kind) \in Steps
  BY <1>5 DEF Steps, ReplaceSteps, SettleSteps, PersistSteps, DropSteps
<1> DEFINE new == [Idle EXCEPT !.kind = kind, !.at = FirstStep(kind), !.then = Follows(kind),
                               !.key = k, !.row = IF kind = "serve" THEN lrow ELSE NoKey,
                               !.disturbed = procs["preflight"].at # "idle"]
<1>7. new \in Processes
  <2>1. /\ (procs["preflight"].at # "idle") \in BOOLEAN
        /\ (IF kind = "serve" THEN lrow ELSE NoKey) \in Keys \cup {NoKey}
    BY <1>2, Zenon DEF TypeOK
  <2> QED BY Zenon, <1>4, <1>5, <1>6, <2>1 DEF Processes, Idle
<1>8. /\ procs'["locked"] = new /\ procs'["preflight"] = procs["preflight"]
      /\ procs' \in [Procs -> Processes]
  BY <1>1, <1>2, <1>7 DEF ProcsOK, Procs
<1>9. /\ new.kind = kind /\ new.at = FirstStep(kind) /\ new.then = Follows(kind)
      /\ kind = "serve" => new.row = lrow
  BY DEF Idle
<1> HIDE DEF new
<1>10. TypeOK'
  <2>1. last' \in [kind : Kinds \cup {"none"}, ok : BOOLEAN, disturbed : BOOLEAN,
                   key : Keys \cup {NoKey}]
    BY Zenon, <1>2, <1>3 DEF TypeOK
  <2> QED BY <1>2, <1>3, <1>8, <2>1 DEF TypeOK
<1>11. Control'
  <2>1. procs["preflight"].at = "idle" \/ kind \notin LegacyKinds
    BY DEF Command
  <2>2. kind # "preflight"
    BY DEF Kinds
  <2> QED
    BY <1>2, <1>3, <1>5, <1>8, <1>9, <2>1, <2>2
       DEF Control, ReplaceSteps, SettleSteps, LegacyKinds
<1>12. LegacyKeyKept'
  BY <1>2, <1>3 DEF LegacyKeyKept
<1>13. Facts("locked")'
  BY <1>3, <1>5, <1>8, <1>9 DEF Facts, SettleSteps, OnPrevious
<1>14. Facts("preflight")'
  BY <1>2, <1>3, <1>8 DEF Facts
<1> QED BY <1>10, <1>11, <1>12, <1>13, <1>14 DEF IInv, Procs

(* A preflight begins. *)
LEMMA PreflightStep ==
    ASSUME IInv, Beside \cap LegacyKinds = {}, PreflightBegins
    PROVE  IInv'
<1> USE DEF At
<1>1. TypeOK /\ ProcsOK /\ Control /\ LegacyKeyKept /\ Facts("locked")
  BY DEF IInv, TypeOK, ProcsOK, Procs
<1>2. /\ dir' = dir /\ disk' = disk /\ lrow' = lrow /\ frow' = frow /\ last' = last
      /\ procs' = [procs EXCEPT
             !["preflight"] = [Idle EXCEPT !.kind = "preflight", !.at = "settle", !.row = lrow],
             !["locked"].disturbed = ~At("locked", "idle")]
  BY DEF PreflightBegins, files, rows
<1> DEFINE new == [Idle EXCEPT !.kind = "preflight", !.at = "settle", !.row = lrow]
<1>3. new \in Processes
  BY Zenon, <1>1 DEF Processes, Idle, TypeOK, Steps, SettleSteps
<1> DEFINE old == [procs["locked"] EXCEPT !.disturbed = ~At("locked", "idle")]
<1>3a. /\ old \in Processes
       /\ old.at = procs["locked"].at /\ old.kind = procs["locked"].kind
       /\ old.key = procs["locked"].key /\ old.row = procs["locked"].row
  <2>1. (~At("locked", "idle")) \in BOOLEAN
    BY Zenon
  <2>2. procs["locked"] \in Processes
    BY <1>1 DEF ProcsOK, Procs
  <2> QED BY Zenon, <2>1, <2>2 DEF Processes
<1>4. /\ procs'["preflight"] = new /\ procs'["locked"] = old
      /\ procs' \in [Procs -> Processes]
  <2>1. procs' = [procs EXCEPT !["preflight"] = new, !["locked"] = old]
    BY <1>1, <1>2 DEF ProcsOK, Procs
  <2> HIDE DEF new, old
  <2> QED BY <1>1, <1>3, <1>3a, <2>1 DEF ProcsOK, Procs
<1>5. new.kind = "preflight" /\ new.at = "settle" /\ new.then = "idle" /\ new.row = lrow
  BY DEF Idle
<1> HIDE DEF new, old
<1>6. TypeOK'
  BY <1>1, <1>2, <1>4 DEF TypeOK
<1>7. Control'
  <2>1. procs["locked"].at = "idle" \/ procs["locked"].kind \notin LegacyKinds
    BY DEF PreflightBegins
  <2> QED BY <1>1, <1>2, <1>3a, <1>4, <1>5, <2>1 DEF Control, SettleSteps
<1>8. LegacyKeyKept'
  BY <1>1, <1>2 DEF LegacyKeyKept
<1>9. Facts("locked")'
  BY <1>1, <1>2, <1>3a, <1>4 DEF Facts
<1>10. Facts("preflight")'
  BY Zenon, <1>2, <1>4, <1>5 DEF Facts, SettleSteps, OnPrevious
<1> QED BY <1>6, <1>7, <1>8, <1>9, <1>10 DEF IInv, Procs

(* Both processes die, and a directory that may be on disk is left. *)
LEMMA DieStep ==
    ASSUME IInv, Die, dir' \in disk', disk' \subseteq disk
    PROVE  IInv'
<1>1. TypeOK /\ LegacyKeyKept
  BY DEF IInv
<1>2. \A p \in Procs : procs'[p] = Idle
  BY DEF Die
<1>3. TypeOK'
  <2>1. procs' \in [Procs -> Processes]
    BY IdleType DEF Die
  <2>2. last' \in [kind : Kinds \cup {"none"}, ok : BOOLEAN, disturbed : BOOLEAN,
                   key : Keys \cup {NoKey}]
    BY <1>1 DEF Die, TypeOK
  <2> QED BY <1>1, <2>1, <2>2 DEF Die, TypeOK, rows
<1>4. Control'
  BY <1>2 DEF Control, Procs, Idle, ReplaceSteps, SettleSteps
<1>5. LegacyKeyKept'
  BY <1>1 DEF LegacyKeyKept, Die, rows
<1>6. \A p \in Procs : Facts(p)'
  BY <1>2 DEF Facts, Idle, SettleSteps, OnPrevious
<1> QED BY <1>3, <1>4, <1>5, <1>6 DEF IInv

(* The system writes the directory back, or nothing happens. *)
LEMMA WriteBackStep ==
    ASSUME IInv, Sync \/ UNCHANGED files, UNCHANGED <<lrow, frow, procs, last>>
    PROVE  IInv'
<1>1. TypeOK /\ Control /\ LegacyKeyKept /\ UNCHANGED rows
  BY DEF IInv, rows
<1>2. Quiet /\ dir' = dir
  BY <1>1, SyncQuiet
<1>3. LegacyKeyKept'
  BY <1>1, <1>2, QuietKept
<1>4. \A p \in Procs : Facts(p)'
  BY <1>2, QuietFacts DEF IInv
<1>5. TypeOK'
  BY <1>1, <1>2 DEF TypeOK, Sync, files
<1>6. Control'
  BY <1>1, <1>2 DEF Control
<1> QED BY <1>3, <1>4, <1>5, <1>6 DEF IInv

-----------------------------------------------------------------------------
(* The state before the first setup. *)
LEMMA InitIInv ==
    ASSUME Init
    PROVE  IInv
<1>1. \A p \in Procs : procs[p] = Idle
  BY DEF Init
<1>2. EmptyDir \in Dirs
  BY DEF EmptyDir, Dirs
<1>3. TypeOK
  BY <1>2, IdleType DEF Init, TypeOK
<1>4. Control
  BY SMTT(20), <1>1 DEF Control, Procs, Idle, ReplaceSteps, SettleSteps
<1>5. LegacyKeyKept
  BY DEF Init, LegacyKeyKept
<1>6. \A p \in Procs : Facts(p)
  BY <1>1 DEF Facts, Idle, SettleSteps, OnPrevious
<1> QED BY <1>3, <1>4, <1>5, <1>6 DEF IInv

(* The invariant is inductive. *)
LEMMA NextIInv ==
    ASSUME IInv, Beside \cap LegacyKinds = {}, [Next]_vars
    PROVE  IInv'
<1>1. ASSUME NEW kind \in Kinds, Command(kind)
      PROVE  IInv'
  BY <1>1, CommandStep
<1>2. CASE PreflightBegins
  BY <1>2, PreflightStep
<1>3. ASSUME NEW p \in Procs, Step(p)
      PROVE  IInv'
  BY <1>3, ProcessStep
<1>4. CASE Killed
  BY <1>4, DieStep DEF Killed, files, IInv, TypeOK
<1>5. CASE PowerLoss
  BY <1>5, DieStep DEF PowerLoss
<1>6. CASE WriteBack
  BY <1>6, WriteBackStep DEF WriteBack, rows
<1>7. CASE UNCHANGED vars
  BY <1>7, WriteBackStep DEF vars, files
<1> QED BY <1>1, <1>2, <1>3, <1>4, <1>5, <1>6, <1>7 DEF Next

(* Every reachable state is well-formed: the files of the secrets           *)
(* directory, the rows, and the commands that change them                   *)
(* (replace_key_and_tokens, persist_fleet_setup_credentials, the removals). *)
THEOREM CustodyTypeCorrect ==
    ASSUME Beside \cap LegacyKinds = {}
    PROVE  Spec => []TypeOK
<1>1. Init => IInv
  BY InitIInv
<1>2. IInv /\ [Next]_vars => IInv'
  BY NextIInv
<1>3. IInv => TypeOK
  BY DEF IInv
<1> QED BY <1>1, <1>2, <1>3, PTL DEF Spec

(* For every set of keys, however many directories a power loss may leave:  *)
(* when no preflight runs beside a command that replaces or settles the     *)
(* legacy key, the key of the stored pair is in the current or the previous *)
(* file in every directory a crash may leave (replace_key_and_tokens,       *)
(* load_key_for_tokens_with).                                               *)
THEOREM StoredPairKeepsItsKey ==
    ASSUME Beside \cap LegacyKinds = {}
    PROVE  Spec => []LegacyKeyKept
<1>1. Init => IInv
  BY InitIInv
<1>2. IInv /\ [Next]_vars => IInv'
  BY NextIInv
<1>3. IInv => LegacyKeyKept
  BY DEF IInv
<1> QED BY <1>1, <1>2, <1>3, PTL DEF Spec
=============================================================================
