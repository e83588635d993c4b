---------------------------- MODULE TerrainTiles ----------------------------
(***************************************************************************)
(* The cache of terrain tiles (src/geo/terrain_cache.rs).  Hub processes   *)
(* with data directories of their own share one cache directory: each has  *)
(* its own record of the digests it downloaded, and temporary entries are  *)
(* owned by advisory locks alone.  Every call on the file system is a step *)
(* of its own, since the other process runs between any two of them.       *)
(*                                                                         *)
(* The archive and the decompressed tile are one staged entry here; a      *)
(* file's content is the provider it came from, and stands for its digest. *)
(* Names of temporary entries are the same for both processes, as they are *)
(* when both have the same process id in containers of their own.          *)
(***************************************************************************)
EXTENDS Integers, Sequences, FiniteSets, SequencesExt, FiniteSetsExt

CONSTANTS Hubs, Tiles,
          TempNames,   \* attempts 1..TempNames of create_private_temp
          Providers,   \* "aws" and "esa"
          CacheLimit,  \* max_cache_bytes, in entries
          MaxLookups, MaxCrashes

VARIABLES dir,      \* entry -> inode
          content,  \* inode -> what was written
          lock,     \* inode -> the process that holds its lock, or NoHub
          order,    \* the tiles in the directory, oldest first
          hub,      \* process -> where it is
          records,  \* process -> terrain_tile_digests of its store
          permitted,\* process -> its run may still write
          answered, \* process -> the last answer of a lookup
          asks, crashes

tileVars == <<dir, content, lock, order, hub, records, permitted, answered, asks, crashes>>

NoHub == 0
NoInode == 0
TileFiles == {<<"tile", t>> : t \in Tiles}
Off == [at |-> "off", tile |-> 0, name |-> 0, fd |-> NoInode, source |-> "", again |-> FALSE]
InUse == {dir[n] : n \in DOMAIN dir} \cup {hub[h].fd : h \in Hubs}
Inodes == 1..(2 * Cardinality(Hubs) + TempNames + Cardinality(Tiles))
Fresh == CHOOSE i \in Inodes \ InUse : TRUE

Without(d, n) == [m \in DOMAIN d \ {n} |-> d[m]]
With(d, n, i) == [m \in DOMAIN d \cup {n} |-> IF m = n THEN i ELSE d[m]]
Unlock(h) == [i \in Inodes |-> IF lock[i] = h THEN NoHub ELSE lock[i]]
Go(h, state) == hub' = [hub EXCEPT ![h] = state]
Aside == UNCHANGED <<records, permitted, answered, asks, crashes>>

(***************************************************************************)
(* TerrainCache::new_with_guard: every temporary entry whose lock can be   *)
(* taken is abandoned, and is removed if its name still leads to it.       *)
(***************************************************************************)
NextCandidate(h) ==
  IF hub[h].name < TempNames THEN [hub[h] EXCEPT !.at = "reclaim", !.name = @ + 1, !.fd = NoInode]
  ELSE [Off EXCEPT !.at = "idle"]

OpenCandidate(h) ==
  /\ hub[h].at = "reclaim"
  /\ LET n == <<"tmp", hub[h].name>>
     IN  Go(h, IF n \in DOMAIN dir THEN [hub[h] EXCEPT !.at = "candidate", !.fd = dir[n]] ELSE NextCandidate(h))
  /\ UNCHANGED <<dir, content, lock, order>> /\ Aside

LockCandidate(h) ==
  /\ hub[h].at = "candidate"
  /\ IF lock[hub[h].fd] = NoHub
     THEN lock' = [lock EXCEPT ![hub[h].fd] = h] /\ Go(h, [hub[h] EXCEPT !.at = "locked"])
     ELSE Go(h, NextCandidate(h)) /\ UNCHANGED lock
  /\ UNCHANGED <<dir, content, order>> /\ Aside

\* PrivateDirectory::is_entry: the name leads to this very file.
StillEntry(n, i) == n \in DOMAIN dir /\ dir[n] = i

CheckCandidate(h) ==
  /\ hub[h].at = "locked"
  /\ IF StillEntry(<<"tmp", hub[h].name>>, hub[h].fd) /\ permitted[h]
     THEN Go(h, [hub[h] EXCEPT !.at = "abandoned"]) /\ UNCHANGED lock
     ELSE Go(h, IF permitted[h] THEN NextCandidate(h) ELSE Off) /\ lock' = Unlock(h)
  /\ UNCHANGED <<dir, content, order>> /\ Aside

RemoveCandidate(h) ==
  /\ hub[h].at = "abandoned"
  /\ dir' = Without(dir, <<"tmp", hub[h].name>>) /\ lock' = Unlock(h) /\ Go(h, NextCandidate(h))
  /\ UNCHANGED <<content, order>> /\ Aside

(***************************************************************************)
(* A lookup: admit the tile in place, or fetch it.                         *)
(***************************************************************************)
Lookup(h, t) ==
  /\ hub[h].at = "idle" /\ permitted[h] /\ asks < MaxLookups
  /\ asks' = asks + 1 /\ Go(h, [Off EXCEPT !.at = "admit", !.tile = t])
  /\ UNCHANGED <<dir, content, lock, order, records, permitted, answered, crashes>>

\* Mutant: a tile without a record is taken as it is.
AdmitUnrecorded(h) ==
  LET f == <<"tile", hub[h].tile>>
      missing == IF hub[h].again THEN [Off EXCEPT !.at = "idle"] ELSE [hub[h] EXCEPT !.at = "room"]
  IN  /\ hub[h].at = "admit"
      /\ Go(h, CASE f \notin DOMAIN dir -> missing
                 [] f \in DOMAIN dir /\ records[h][hub[h].tile] \in {"", content[dir[f]]} -> [hub[h] EXCEPT !.at = "sample", !.fd = dir[f]]
                 [] f \in DOMAIN dir /\ records[h][hub[h].tile] \notin {"", content[dir[f]]} -> [hub[h] EXCEPT !.at = "discard"])
      /\ UNCHANGED <<dir, content, lock, order>> /\ Aside

\* The tile is opened and hashed through its descriptor; one that is missing is fetched, one that is
\* unproven is discarded first.
Admit(h) ==
  LET f == <<"tile", hub[h].tile>>
      missing == IF hub[h].again THEN [Off EXCEPT !.at = "idle"] ELSE [hub[h] EXCEPT !.at = "room"]
  IN  /\ hub[h].at = "admit"
      /\ Go(h, CASE f \notin DOMAIN dir -> missing
                 [] f \in DOMAIN dir /\ content[dir[f]] = records[h][hub[h].tile] -> [hub[h] EXCEPT !.at = "sample", !.fd = dir[f]]
                 [] f \in DOMAIN dir /\ content[dir[f]] # records[h][hub[h].tile] -> [hub[h] EXCEPT !.at = "discard"])
      /\ UNCHANGED <<dir, content, lock, order>> /\ Aside

DiscardTile(h) ==
  /\ hub[h].at = "discard"
  /\ IF permitted[h]
     THEN /\ dir' = Without(dir, <<"tile", hub[h].tile>>) /\ order' = Remove(order, hub[h].tile)
          /\ Go(h, IF hub[h].again THEN [Off EXCEPT !.at = "idle"] ELSE [hub[h] EXCEPT !.at = "room"])
     ELSE Go(h, [Off EXCEPT !.at = "idle"]) /\ UNCHANGED <<dir, order>>
  /\ UNCHANGED <<content, lock>> /\ Aside

Sample(h) ==
  /\ hub[h].at = "sample"
  /\ answered' = [answered EXCEPT ![h] = <<[tile |-> hub[h].tile, content |-> content[hub[h].fd]]>>]
  /\ Go(h, [Off EXCEPT !.at = "idle"])
  /\ UNCHANGED <<dir, content, lock, order, records, permitted, asks, crashes>>

\* Whatever is in the directory counts; the oldest tiles go until one more entry fits.
EnforceCacheQuota(h) ==
  LET over == Cardinality(DOMAIN dir) + 1 - CacheLimit
      gone == ToSet(SubSeq(order, 1, Min({Len(order), Max({0, over})})))
  IN  /\ hub[h].at = "room"
      /\ IF permitted[h]
         THEN /\ dir' = [n \in DOMAIN dir \ {<<"tile", t>> : t \in gone} |-> dir[n]]
              /\ order' = SelectSeq(order, LAMBDA t : t \notin gone)
              /\ Go(h, IF over > Len(order) THEN [Off EXCEPT !.at = "idle"] ELSE [hub[h] EXCEPT !.at = "create", !.name = 1])
         ELSE Go(h, [Off EXCEPT !.at = "idle"]) /\ UNCHANGED <<dir, order>>
      /\ UNCHANGED <<content, lock>> /\ Aside

(***************************************************************************)
(* create_private_temp: a fresh name, locked at once, and used only if it  *)
(* still leads to the locked file.                                         *)
(***************************************************************************)
NextName(h) ==
  IF hub[h].name < TempNames THEN [hub[h] EXCEPT !.at = "create", !.name = @ + 1, !.fd = NoInode] ELSE [Off EXCEPT !.at = "idle"]

CreateExclusive(h) ==
  /\ hub[h].at = "create"
  /\ LET n == <<"tmp", hub[h].name>>
     IN  IF n \in DOMAIN dir
         THEN Go(h, NextName(h)) /\ UNCHANGED <<dir, content, lock>>
         ELSE \E i \in {Fresh} :
                /\ dir' = With(dir, n, i) /\ content' = [content EXCEPT ![i] = "partial"]
                /\ lock' = [lock EXCEPT ![i] = NoHub]
                /\ Go(h, [hub[h] EXCEPT !.at = "created", !.fd = i])
  /\ UNCHANGED order /\ Aside

LockEntry(h) ==
  /\ hub[h].at = "created"
  /\ IF lock[hub[h].fd] = NoHub
     THEN lock' = [lock EXCEPT ![hub[h].fd] = h] /\ Go(h, [hub[h] EXCEPT !.at = "mine"])
     ELSE Go(h, NextName(h)) /\ UNCHANGED lock
  /\ UNCHANGED <<dir, content, order>> /\ Aside

\* Mutant: the new entry is used without comparing its name with the locked file.
CheckEntryAssumed(h) ==
  /\ hub[h].at = "mine"
  /\ Go(h, [hub[h] EXCEPT !.at = "fetch"])
  /\ UNCHANGED <<dir, content, lock, order>> /\ Aside

CheckEntry(h) ==
  /\ hub[h].at = "mine"
  /\ IF StillEntry(<<"tmp", hub[h].name>>, hub[h].fd)
     THEN Go(h, [hub[h] EXCEPT !.at = "fetch"]) /\ UNCHANGED lock
     ELSE Go(h, NextName(h)) /\ lock' = Unlock(h)
  /\ UNCHANGED <<dir, content, order>> /\ Aside

\* The body arrives from one of the providers, or the download ends some other way.
Download(h, source) ==
  /\ hub[h].at = "fetch" /\ permitted[h]
  /\ content' = [content EXCEPT ![hub[h].fd] = source]
  /\ Go(h, [hub[h] EXCEPT !.at = "record", !.source = source])
  /\ UNCHANGED <<dir, lock, order>> /\ Aside

\* TemporaryEntry::drop: the entry is removed while the guard allows it, and let go in any case.
DropEntry(h) ==
  /\ hub[h].at = "fetch"
  /\ dir' = IF permitted[h] THEN Without(dir, <<"tmp", hub[h].name>>) ELSE dir
  /\ lock' = Unlock(h) /\ Go(h, [Off EXCEPT !.at = "idle"])
  /\ UNCHANGED <<content, order>> /\ Aside

\* commit_tile: the digest first, then the rename.
RecordDigest(h) ==
  /\ hub[h].at = "record"
  /\ records' = [records EXCEPT ![h][hub[h].tile] = hub[h].source]
  /\ Go(h, [hub[h] EXCEPT !.at = "rename"])
  /\ UNCHANGED <<dir, content, lock, order, permitted, answered, asks, crashes>>

RenameTile(h) ==
  /\ hub[h].at = "rename"
  /\ LET n == <<"tmp", hub[h].name>>
     IN  IF n \in DOMAIN dir
         THEN /\ dir' = With(Without(dir, n), <<"tile", hub[h].tile>>, dir[n])
              /\ order' = Append(Remove(order, hub[h].tile), hub[h].tile)
              /\ Go(h, [Off EXCEPT !.at = "admit", !.tile = hub[h].tile, !.again = TRUE])
         ELSE Go(h, [Off EXCEPT !.at = "idle"]) /\ UNCHANGED <<dir, order>>
  /\ lock' = Unlock(h)
  /\ UNCHANGED content /\ Aside

(***************************************************************************)
(* The processes.                                                          *)
(***************************************************************************)
StartCache(h) ==
  /\ hub[h].at = "off"
  /\ Go(h, [Off EXCEPT !.at = "reclaim", !.name = 1]) /\ permitted' = [permitted EXCEPT ![h] = TRUE]
  /\ UNCHANGED <<dir, content, lock, order, records, answered, asks, crashes>>

\* The process dies, or is told to stop: the kernel lets its locks go.
EndProcess(h) ==
  /\ hub[h].at # "off" /\ crashes < MaxCrashes /\ crashes' = crashes + 1
  /\ Go(h, Off) /\ lock' = Unlock(h)
  /\ UNCHANGED <<dir, content, order, records, permitted, answered, asks>>

RevokeWrites(h) ==
  /\ hub[h].at # "off" /\ permitted[h] /\ crashes < MaxCrashes
  /\ permitted' = [permitted EXCEPT ![h] = FALSE]
  /\ UNCHANGED <<dir, content, lock, order, hub, records, answered, asks, crashes>>

TileInit ==
  /\ dir = <<>> /\ content = [i \in Inodes |-> ""] /\ lock = [i \in Inodes |-> NoHub] /\ order = <<>>
  /\ hub = [h \in Hubs |-> Off] /\ records = [h \in Hubs |-> [t \in Tiles |-> ""]]
  /\ permitted = [h \in Hubs |-> TRUE] /\ answered = [h \in Hubs |-> <<>>] /\ asks = 0 /\ crashes = 0

TileNext ==
  \E h \in Hubs :
    \/ StartCache(h) \/ EndProcess(h) \/ RevokeWrites(h)
    \/ OpenCandidate(h) \/ LockCandidate(h) \/ CheckCandidate(h) \/ RemoveCandidate(h)
    \/ \E t \in Tiles : Lookup(h, t)
    \/ Admit(h) \/ DiscardTile(h) \/ Sample(h) \/ EnforceCacheQuota(h)
    \/ CreateExclusive(h) \/ LockEntry(h) \/ CheckEntry(h) \/ DropEntry(h)
    \/ \E source \in Providers : Download(h, source)
    \/ RecordDigest(h) \/ RenameTile(h)

TileSpec == TileInit /\ [][TileNext]_tileVars

(***************************************************************************)
(* Properties                                                              *)
(***************************************************************************)
\* While a process writes to a temporary entry, records its digest and renames it, the entry's name leads
\* to the file it holds: no reclaim of another process takes it, whichever of creating, locking, listing,
\* checking and removing came between (create_private_temp, reclaim_abandoned_temporary_files).
LiveEntryKept ==
  \A h \in Hubs : hub[h].at \in {"fetch", "record", "rename"} =>
    <<"tmp", hub[h].name>> \in DOMAIN dir /\ dir[<<"tmp", hub[h].name>>] = hub[h].fd

\* No half-written file is ever under a tile's name, and an elevation was read from bytes this process
\* itself downloaded and recorded, although the other one replaces and discards tiles of the same name
\* (commit_tile, admit).
OnlyProvenIsSampled ==
  /\ \A f \in DOMAIN dir \cap TileFiles : content[dir[f]] \in Providers
  /\ \A h \in Hubs : hub[h].at = "sample" => content[hub[h].fd] = records[h][hub[h].tile]

\* The cache neither loses a live entry nor samples an entry that was not proven.
CacheIsProven == LiveEntryKept /\ OnlyProvenIsSampled
=============================================================================
