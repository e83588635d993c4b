------------------------------ MODULE LiveSync ------------------------------
(***************************************************************************)
(* Publication of one vehicle's history: the sync journal, the export      *)
(* outbox, the lineage (an immutable base followed by typed deltas), its   *)
(* packs on disk, the compaction of the collector's own suffix, and the    *)
(* retired lineages a client may still be downloading.                     *)
(*   src/storage/db/{publication,live_sync,lineage_verification,           *)
(*   projection_helpers,transaction_helpers,import_finalization}.rs,       *)
(*   src/collection/collector/{owner_supervision,projection}.rs            *)
(*                                                                         *)
(*   mat      the materialised row of every id: a version, or Gone         *)
(*   imported the rows of the last import projection, by version           *)
(*   journal  sync_mutations: <<row, version>> in revision order           *)
(*   pub      revisions 1..pub are published = 1                           *)
(*   leased   revisions pub+1..leased carry a claim lease                  *)
(*   outbox   the vehicle's export_outbox row                              *)
(*   lin      sync_bases, sync_deltas, sync_heads: base and deltas         *)
(*   packs    the pack files under packs/sha256                            *)
(*   retired  sync_retired_lineages with the age of each                   *)
(*   turn     the workflow that holds the publication gate                 *)
(*   mixed    (history) rows an import rewrote after live collection wrote *)
(*            them                                                         *)
(*   ops, faults  imports and repairs, faults: spent of MaxEvents          *)
(*                                                                         *)
(* Every workflow that publishes holds the publication gate (an flock the  *)
(* kernel releases when the process dies), so one turn runs at a time; the *)
(* collector's row writes, the clocks and a crash interleave with each of  *)
(* its steps.                                                              *)
(***************************************************************************)
EXTENDS Naturals, Sequences, FiniteSets, FiniteSetsExt

CONSTANTS Rows,        \* row ids
          MaxWrites,   \* row writes in a behaviour
          ClaimLimit,  \* SYNC_CLAIM_MUTATION_LIMIT
          MaxChunks,   \* ProtocolLimits::max_chunks
          Headroom,    \* the slots kept free before compaction starts
          Retention,   \* RETIRED_LINEAGE_PACK_RETENTION_MS, in ticks
          Grace,       \* RETIRED_LINEAGE_PACK_DELETE_GRACE_MS, in ticks
          MaxEvents,   \* imports, repairs, crashes, failed writes, deferrals
          Drops        \* whether the source may drop an imported row

VARIABLES mat, imported, journal, pub, leased, outbox, lin, packs, retired,
          turn, mixed, ops, faults

lvars == <<mat, imported, journal, pub, leased, outbox, lin, packs, retired,
           turn, mixed, ops, faults>>

Gone == 0
NoLineage == [by |-> "none", base |-> <<>>, pack |-> 0, deltas |-> <<>>]
NoTurn == [kind |-> "none", pc |-> "none", rev |-> 0, upto |-> 0, pack |-> 0,
           content |-> <<>>, spans |-> 0, cut |-> {}]
NoRow == [there |-> FALSE, rev |-> 0, lease |-> FALSE, due |-> FALSE]

-----------------------------------------------------------------------------
(* Reading the lineage *)

HasBase == lin.by # "none"

PackCount(l) == IF l.by = "none" THEN 0 ELSE 1 + Len(l.deltas)

\* The manifest of a lineage: its packs in order.
ChainOf(l) ==
  IF l.by = "none" THEN <<>>
  ELSE <<l.pack>> \o [i \in DOMAIN l.deltas |-> l.deltas[i].pack]

Packs(l) == {ChainOf(l)[i] : i \in DOMAIN ChainOf(l)}

\* What a client holds that applies the base and then every delta in order.
View(l) ==
  [r \in Rows |->
     LET at == {i \in DOMAIN l.deltas : r \in DOMAIN l.deltas[i].content}
     IN  IF at # {} THEN l.deltas[Max(at)].content[r]
         ELSE IF r \in DOMAIN l.base THEN l.base[r] ELSE Gone]

Deletable(x) == x.age >= Retention + Grace

\* referenced_pack_rows_at: a retired pack stays referenced through the
\* physical-delete grace that follows its expiry.
Referenced(gone) == Packs(lin) \cup UNION {x.own : x \in retired \ gone}

\* A content digest nothing on disk or in the catalogue has.
FreshPack ==
  Min((1..Cardinality(packs) + Cardinality(Referenced({})) + 1)
        \ (packs \cup Referenced({})))

HasUnpublished == pub < Len(journal)

-----------------------------------------------------------------------------
(* Writers: a row change, its journal entry and the outbox mark are one    *)
(* transaction.                                                            *)

\* Faulty variant: a live lease hides the newer revision.
MarkDirtyUnlessLeased(o) ==
  IF o.there /\ o.lease THEN o
  ELSE [there |-> TRUE, rev |-> o.rev + 1, lease |-> FALSE, due |-> TRUE]

MarkDirty(o) ==
  IF ~o.there
  THEN [there |-> TRUE, rev |-> 1, lease |-> FALSE, due |-> TRUE]
  ELSE [o EXCEPT !.rev = @ + 1, !.due = IF o.lease THEN @ ELSE TRUE]

RecordMutation(r, v) == journal' = Append(journal, <<r, v>>)

\* The row, its journal entry and the outbox mark.
WriteRow(r) ==
  LET v == Len(journal) + ops + 1
  IN  /\ Len(journal) < MaxWrites
      /\ mat' = [mat EXCEPT ![r] = v]
      /\ RecordMutation(r, v)
      /\ outbox' = MarkDirty(outbox)
      /\ UNCHANGED <<imported, pub, leased, lin, packs, retired, turn, mixed,
                     ops, faults>>

\* A session of the collector's own becomes a row.
CollectRow(r) == mat[r] = Gone /\ WriteRow(r)

\* A geofence was saved or deleted: drives and charges, imported ones too, get
\* their locations anew.
RelabelRow(r) == mat[r] # Gone /\ WriteRow(r)

-----------------------------------------------------------------------------
(* The gate, the outbox and the mutation claims *)

\* try_acquire_publication_gate: an flock on the publication lock file.
GateFree == turn.kind = "none"

ClaimableOutbox == outbox.there /\ outbox.due /\ ~outbox.lease

\* Faulty variant: the row is deleted whatever revision it has reached.
CompletedAnyRevision(o, rev) == NoRow

\* complete_export_outbox: deleted when it still has the claimed revision,
\* otherwise the newer revision is freed.
Completed(o, rev) ==
  IF o.rev = rev THEN NoRow ELSE [o EXCEPT !.lease = FALSE, !.due = TRUE]

\* fail_export_outbox: back-off for the claimed revision; a newer one is freed.
Failed(o, rev) ==
  IF o.rev = rev THEN [o EXCEPT !.lease = FALSE, !.due = FALSE]
  ELSE [o EXCEPT !.lease = FALSE, !.due = TRUE]

\* release_export_outbox.
Released(o) == [o EXCEPT !.lease = FALSE]

\* claim_sync_mutations: nothing while the first unpublished mutation is
\* leased, else the unpublished prefix up to the limit.
ClaimableTo ==
  IF leased > pub \/ ~HasUnpublished THEN pub
  ELSE Min({Len(journal), pub + ClaimLimit})

Rest(at) == [turn EXCEPT !.pc = at]

-----------------------------------------------------------------------------
(* A replay turn: replay_export_outbox_blocking *)

ReplayClaim ==
  /\ GateFree /\ ClaimableOutbox
  /\ outbox' = [outbox EXCEPT !.lease = TRUE]
  /\ turn' = [NoTurn EXCEPT !.kind = "replay", !.rev = outbox.rev,
                            !.pc = IF HasBase THEN "sync" ELSE "snapshot"]
  /\ UNCHANGED <<mat, imported, journal, pub, leased, lin, packs, retired,
                 mixed, ops, faults>>

\* limits.max_chunks less its headroom.
CompactionRequired == PackCount(lin) + 1 > MaxChunks - Headroom

\* Active streams defer the turn that would have to compact.
ReplayDefer ==
  /\ turn.kind = "replay" /\ turn.pc = "sync" /\ CompactionRequired
  /\ ops + faults < MaxEvents /\ faults' = faults + 1
  /\ outbox' = Released(outbox)
  /\ turn' = NoTurn
  /\ UNCHANGED <<mat, imported, journal, pub, leased, lin, packs, retired,
                 mixed, ops>>

ReplaySync ==
  /\ turn.kind = "replay" /\ turn.pc = "sync"
  /\ leased' = IF ClaimableTo > pub THEN ClaimableTo ELSE leased
  /\ turn' = IF ClaimableTo > pub
             THEN [turn EXCEPT !.pc = "compact", !.upto = ClaimableTo]
             ELSE Rest("settle")
  /\ UNCHANGED <<mat, imported, journal, pub, outbox, lin, packs, retired,
                 mixed, ops, faults>>

\* The collector-less drain: any queued vehicle with a base and unpublished
\* work gets a turn; the outbox row is neither claimed nor completed.
DrainTurn ==
  /\ GateFree /\ outbox.there /\ HasBase /\ ClaimableTo > pub
  /\ leased' = ClaimableTo
  /\ turn' = [NoTurn EXCEPT !.kind = "drain", !.pc = "compact",
                            !.upto = ClaimableTo]
  /\ UNCHANGED <<mat, imported, journal, pub, outbox, lin, packs, retired,
                 mixed, ops, faults>>

\* Whether unpublished mutations remain is read first, the row is settled by
\* a later statement.
ReplaySettle ==
  /\ turn.kind = "replay" /\ turn.pc = "settle"
  /\ turn' = Rest(IF HasUnpublished THEN "release" ELSE "complete")
  /\ UNCHANGED <<mat, imported, journal, pub, leased, outbox, lin, packs,
                 retired, mixed, ops, faults>>

ReplayEnd ==
  /\ turn.kind = "replay" /\ turn.pc \in {"release", "complete", "fail"}
  /\ outbox' = CASE turn.pc = "release"  -> Released(outbox)
                 [] turn.pc = "complete" -> Completed(outbox, turn.rev)
                 [] turn.pc = "fail"     -> Failed(outbox, turn.rev)
  /\ turn' = NoTurn
  /\ UNCHANGED <<mat, imported, journal, pub, leased, lin, packs, retired,
                 mixed, ops, faults>>

\* A failed publication first frees its mutations, then (in a replay) fails
\* the row.
ReleaseSync ==
  /\ turn.pc = "unsync"
  /\ leased' = pub
  /\ turn' = IF turn.kind = "replay" THEN Rest("fail") ELSE NoTurn
  /\ UNCHANGED <<mat, imported, journal, pub, outbox, lin, packs, retired,
                 mixed, ops, faults>>

-----------------------------------------------------------------------------
(* Compaction of the collector's own suffix *)

\* How many deltas at the head the collector owns.
LiveSuffix ==
  LET foreign == {i \in DOMAIN lin.deltas : ~lin.deltas[i].live}
  IN  Len(lin.deltas) - (IF foreign = {} THEN 0 ELSE Max(foreign))

\* plan_live_delta_compaction: at least two live spans, or no plan.
CompactionPlan == IF LiveSuffix < 2 THEN 0 ELSE LiveSuffix

\* projection_delta_for_compaction: the newest journal payload of each row.
CompactedContent(k) ==
  LET n    == Len(lin.deltas)
      revs == (lin.deltas[n - k + 1].from)..(lin.deltas[n].to)
  IN  [r \in {journal[i][1] : i \in revs} |->
         journal[Max({i \in revs : journal[i][1] = r})][2]]

Compact ==
  /\ turn.pc = "compact"
  /\ \/ /\ \/ ~CompactionRequired
           \/ CompactionPlan = 0 /\ PackCount(lin) + 1 <= MaxChunks
        /\ turn' = Rest("build")
        /\ UNCHANGED packs
     \/ /\ CompactionRequired /\ CompactionPlan = 0
        /\ PackCount(lin) + 1 > MaxChunks
        /\ turn' = Rest("unsync")
        /\ UNCHANGED packs
     \/ /\ CompactionRequired /\ CompactionPlan > 0
        /\ packs' = packs \cup {FreshPack}
        /\ turn' = [turn EXCEPT !.pc = "compacted", !.pack = FreshPack,
                                !.spans = CompactionPlan,
                                !.content = CompactedContent(CompactionPlan)]
  /\ UNCHANGED <<mat, imported, journal, pub, leased, outbox, lin, retired,
                 mixed, ops, faults>>

\* A compacted pack over the row or byte limits is left out while a slot
\* remains.
CompactTooLarge ==
  /\ turn.pc = "compact" /\ CompactionRequired /\ CompactionPlan > 0
  /\ ops + faults < MaxEvents /\ faults' = faults + 1
  /\ turn' = Rest(IF PackCount(lin) + 1 <= MaxChunks THEN "build"
                                                     ELSE "unsync")
  /\ UNCHANGED <<mat, imported, journal, pub, leased, outbox, lin, packs,
                 retired, mixed, ops>>

\* The head before the compaction stays downloadable until it expires; the
\* retirements whose delete grace is over are forgotten.
RetireSuffix(k) ==
  LET n == Len(lin.deltas)
  IN  {x \in retired : ~Deletable(x)}
         \cup {[man |-> ChainOf(lin), age |-> 0,
                own |-> {lin.deltas[i].pack : i \in (n - k + 1)..n}]}

\* commit_live_delta_compaction: one delta replaces the planned suffix.
CommitCompaction ==
  /\ turn.pc = "compacted"
  /\ LET n == Len(lin.deltas)
         k == turn.spans
     IN  lin' = [lin EXCEPT !.deltas =
                   Append(SubSeq(lin.deltas, 1, n - k),
                          [pack |-> turn.pack, content |-> turn.content,
                           live |-> TRUE, from |-> lin.deltas[n - k + 1].from,
                           to |-> lin.deltas[n].to])]
  /\ retired' = RetireSuffix(turn.spans)
  /\ turn' = [turn EXCEPT !.pc = "build", !.pack = 0, !.content = <<>>,
                          !.spans = 0]
  /\ UNCHANGED <<mat, imported, journal, pub, leased, outbox, packs, mixed,
                 ops, faults>>

-----------------------------------------------------------------------------
(* The delta of a claim *)

ClaimedRows == {journal[i][1] : i \in (pub + 1)..turn.upto}

\* projection_delta_for_mutations: the CURRENT materialised row of every
\* claimed id.
DeltaContent == [r \in ClaimedRows |-> mat[r]]

\* load_projection_json refuses an upsert whose row is no longer there.
BuildDelta ==
  /\ turn.pc = "build"
  /\ IF \E r \in ClaimedRows : mat[r] = Gone
     THEN turn' = Rest("unsync") /\ UNCHANGED packs
     ELSE /\ packs' = packs \cup {FreshPack}
          /\ turn' = [turn EXCEPT !.pc = "commit", !.pack = FreshPack,
                                  !.content = DeltaContent]
  /\ UNCHANGED <<mat, imported, journal, pub, leased, outbox, lin, retired,
                 mixed, ops, faults>>

\* commit_v2_delta_claim: exactly the claimed revisions become published.
PublishedTo == turn.upto

AppendDelta ==
  /\ lin' = [lin EXCEPT !.deltas =
               Append(@, [pack |-> turn.pack, content |-> turn.content,
                          live |-> TRUE, from |-> pub + 1,
                          to |-> turn.upto])]
  /\ pub' = PublishedTo
  /\ leased' = PublishedTo

CommitDelta ==
  /\ turn.pc = "commit"
  /\ IF PackCount(lin) + 1 > MaxChunks
     THEN /\ turn' = Rest("unsync")
          /\ UNCHANGED <<lin, pub, leased>>
     ELSE /\ AppendDelta
          /\ turn' = IF turn.kind = "replay"
                     THEN [turn EXCEPT !.pc = "settle", !.pack = 0,
                                       !.content = <<>>, !.upto = 0]
                     ELSE NoTurn
  /\ UNCHANGED <<mat, imported, journal, outbox, packs, retired, mixed, ops,
                 faults>>

\* The commit is reported as failed; it may have been applied all the same.
CommitDeltaAmbiguous ==
  /\ turn.pc = "commit" /\ PackCount(lin) + 1 <= MaxChunks
  /\ ops + faults < MaxEvents /\ faults' = faults + 1
  /\ AppendDelta \/ UNCHANGED <<lin, pub, leased>>
  /\ turn' = [turn EXCEPT !.pc = "unsync", !.pack = 0, !.content = <<>>,
                          !.upto = 0]
  /\ UNCHANGED <<mat, imported, journal, outbox, packs, retired, mixed, ops>>

-----------------------------------------------------------------------------
(* The first base: publish_resolved_vehicle *)

SnapshotBase ==
  /\ turn.kind = "replay" /\ turn.pc = "snapshot"
  /\ packs' = packs \cup {FreshPack}
  /\ turn' = [turn EXCEPT !.pc = "base", !.pack = FreshPack, !.content = mat]
  /\ UNCHANGED <<mat, imported, journal, pub, leased, outbox, lin, retired,
                 mixed, ops, faults>>

\* The vehicle has no usable source key, or this collector does not list it.
SnapshotFails ==
  /\ turn.kind = "replay" /\ turn.pc = "snapshot"
  /\ ops + faults < MaxEvents /\ faults' = faults + 1
  /\ turn' = Rest("fail")
  /\ UNCHANGED <<mat, imported, journal, pub, leased, outbox, lin, packs,
                 retired, mixed, ops>>

\* The journal is left as it is: the base does not say which of its rows a
\* mutation recorded meanwhile produced.
PublishBase ==
  /\ turn.kind = "replay" /\ turn.pc = "base"
  /\ lin' = [by |-> "live", base |-> turn.content, pack |-> turn.pack,
             deltas |-> <<>>]
  /\ turn' = [turn EXCEPT !.pc = "complete", !.pack = 0, !.content = <<>>]
  /\ UNCHANGED <<mat, imported, journal, pub, leased, outbox, packs, retired,
                 mixed, ops, faults>>

-----------------------------------------------------------------------------
(* An import: direct capture, packs, one transaction *)

\* The rows of a new import projection: kept or changed ones, new ones, and
\* (when the source drops some) fewer than before.
Projections ==
  {p \in [Rows -> {Gone, Len(journal) + ops + 1} \cup {imported[r] : r \in Rows}] :
     \A r \in Rows : /\ p[r] \in {imported[r], Len(journal) + ops + 1, Gone}
                     /\ ~Drops /\ imported[r] # Gone => p[r] # Gone}

\* direct_delta_capacity_exhausted: a new base only when the batches of the
\* change (one, or as many as a whole chain) do not fit.
Replaces == HasBase /\ PackCount(lin) + turn.spans > MaxChunks

\* An import extends the lineage of its own source only.
ImportCapture ==
  /\ GateFree /\ ops + faults < MaxEvents
  /\ lin.by \in {"none", "import"}
  /\ \E p \in Projections, batches \in {1, MaxChunks} :
       /\ p # imported
       /\ turn' = [NoTurn EXCEPT !.kind = "import", !.pc = "import",
                                 !.pack = FreshPack, !.content = p,
                                 !.spans = IF HasBase THEN batches ELSE 1]
  /\ packs' = packs \cup {FreshPack}
  /\ ops' = ops + 1
  /\ UNCHANGED <<mat, imported, journal, pub, leased, outbox, lin, retired,
                 mixed, faults>>

\* reconcile_imported_materialisation: a row live collection created is never
\* taken over.
Collides ==
  \E r \in Rows : turn.content[r] # Gone /\ imported[r] = Gone /\ mat[r] # Gone

\* Every row of the projection is written again, the dropped ones go.
Reconciled ==
  [r \in Rows |-> IF turn.content[r] # Gone THEN turn.content[r]
                  ELSE IF imported[r] # Gone THEN Gone ELSE mat[r]]

\* Faulty variant: the base's pack is left out of the retirement.
RetireDeltasOnly ==
  retired \cup {[man |-> ChainOf(lin), own |-> Packs(lin) \ {lin.pack}, age |-> 0]}

\* retire_import_lineage_in_transaction keeps the whole lineage.
RetireImportLineage ==
  retired \cup {[man |-> ChainOf(lin), own |-> Packs(lin), age |-> 0]}

ImportCommit ==
  /\ turn.kind = "import" /\ turn.pc = "import"
  /\ ~Collides
  /\ Replaces => \A i \in DOMAIN lin.deltas : ~lin.deltas[i].live
  /\ IF HasBase /\ ~Replaces
     THEN /\ lin' = [lin EXCEPT !.deltas =
                       Append(@, [pack |-> turn.pack, live |-> FALSE,
                                  from |-> 0, to |-> 0,
                                  content |-> [r \in {q \in Rows : turn.content[q] # imported[q]}
                                                 |-> turn.content[r]]])]
          /\ UNCHANGED retired
     ELSE /\ lin' = [by |-> "import", base |-> turn.content,
                     pack |-> turn.pack, deltas |-> <<>>]
          /\ retired' = IF HasBase THEN RetireImportLineage ELSE retired
  /\ mat' = Reconciled
  /\ imported' = turn.content
  /\ mixed' = mixed \cup {r \in Rows : /\ turn.content[r] # Gone \/ imported[r] # Gone
                                       /\ \E i \in DOMAIN journal : journal[i][1] = r}
  /\ outbox' \in {outbox, MarkDirty(outbox)}
  /\ turn' = NoTurn
  /\ UNCHANGED <<journal, pub, leased, packs, ops, faults>>

\* A refused or failed import discards the packs nothing refers to.
ImportFails ==
  /\ turn.kind = "import"
  /\ packs' = packs \ ({turn.pack} \ Referenced({}))
  /\ turn' = NoTurn
  /\ UNCHANGED <<mat, imported, journal, pub, leased, outbox, lin, retired,
                 mixed, ops, faults>>

-----------------------------------------------------------------------------
(* Repair, crashes and clocks *)

\* repair: files first; the cut-off is the time the repair started.
RepairFiles ==
  /\ GateFree /\ ops + faults < MaxEvents
  /\ Referenced({x \in retired : Deletable(x)}) \subseteq packs
  /\ LET cut == {x \in retired : Deletable(x)}
     IN  /\ packs' = packs \cap Referenced(cut)
         /\ turn' = [NoTurn EXCEPT !.kind = "repair", !.pc = "rows", !.cut = cut]
  /\ ops' = ops + 1
  /\ UNCHANGED <<mat, imported, journal, pub, leased, outbox, lin, retired,
                 mixed, faults>>

RepairedRows == retired \ turn.cut

RepairRows ==
  /\ turn.kind = "repair"
  /\ retired' = RepairedRows
  /\ turn' = NoTurn
  /\ UNCHANGED <<mat, imported, journal, pub, leased, outbox, lin, packs,
                 mixed, ops, faults>>

\* The process dies, or the run's write guard refuses the next write: the
\* claims and the files stay as they are.
Abandon ==
  /\ ~GateFree
  /\ ops + faults < MaxEvents /\ faults' = faults + 1
  /\ turn' = NoTurn
  /\ UNCHANGED <<mat, imported, journal, pub, leased, outbox, lin, packs,
                 retired, mixed, ops>>

\* A minute after a dead turn its leases run out.
SyncLeaseExpires ==
  /\ leased > pub /\ turn.upto = 0
  /\ leased' = pub
  /\ UNCHANGED <<mat, imported, journal, pub, outbox, lin, packs, retired,
                 turn, mixed, ops, faults>>

OutboxLeaseExpires ==
  /\ outbox.lease /\ turn.kind # "replay"
  /\ outbox' = Released(outbox)
  /\ UNCHANGED <<mat, imported, journal, pub, leased, lin, packs, retired,
                 turn, mixed, ops, faults>>

BackoffEnds ==
  /\ outbox.there /\ ~outbox.due
  /\ outbox' = [outbox EXCEPT !.due = TRUE]
  /\ UNCHANGED <<mat, imported, journal, pub, leased, lin, packs, retired,
                 turn, mixed, ops, faults>>

Older(x) == [x EXCEPT !.age = Min({@ + 1, Retention + Grace})]

Tick ==
  /\ \E x \in retired : Older(x) # x
  /\ retired' = {Older(x) : x \in retired}
  /\ turn' = [turn EXCEPT !.cut = {Older(x) : x \in @}]
  /\ UNCHANGED <<mat, imported, journal, pub, leased, outbox, lin, packs,
                 mixed, ops, faults>>

-----------------------------------------------------------------------------
LInit ==
  /\ mat = [r \in Rows |-> Gone]
  /\ imported = [r \in Rows |-> Gone]
  /\ journal = <<>> /\ pub = 0 /\ leased = 0
  /\ outbox = NoRow
  /\ lin = NoLineage
  /\ packs = {} /\ retired = {}
  /\ turn = NoTurn
  /\ mixed = {} /\ ops = 0 /\ faults = 0

TurnStep ==
  \/ ReplaySync \/ ReplaySettle \/ ReplayEnd \/ ReleaseSync
  \/ Compact \/ CommitCompaction \/ BuildDelta \/ CommitDelta
  \/ SnapshotBase \/ PublishBase
  \/ ImportCommit \/ ImportFails \/ RepairRows

LNext ==
  \/ \E r \in Rows : CollectRow(r) \/ RelabelRow(r)
  \/ ReplayClaim \/ DrainTurn \/ TurnStep
  \/ ReplayDefer \/ CompactTooLarge \/ CommitDeltaAmbiguous \/ SnapshotFails
  \/ ImportCapture \/ RepairFiles
  \/ Abandon \/ SyncLeaseExpires \/ OutboxLeaseExpires \/ BackoffEnds \/ Tick

LSpec == LInit /\ [][LNext]_lvars

-----------------------------------------------------------------------------
LTypeOK ==
  /\ mat \in [Rows -> Nat] /\ imported \in [Rows -> Nat]
  /\ \A i \in DOMAIN journal : journal[i][1] \in Rows /\ journal[i][2] \in Nat
  /\ pub \in 0..Len(journal) /\ leased \in pub..Len(journal)
  /\ outbox \in [there : BOOLEAN, rev : Nat, lease : BOOLEAN, due : BOOLEAN]
  /\ lin.by \in {"none", "live", "import"}
  /\ \A i \in DOMAIN lin.deltas :
       LET d == lin.deltas[i]
       IN  /\ d.pack \in Nat /\ d.live \in BOOLEAN /\ d.to \in 0..pub
           /\ DOMAIN d.content \subseteq Rows
  /\ \A x \in retired : x.own \subseteq {x.man[i] : i \in DOMAIN x.man}

\* What the clients of the lineage are promised, see Lineage.
Shelf == INSTANCE Lineage
  WITH chain <- ChainOf(lin), kept <- retired, disk <- packs, doomed <- turn.cut,
       PackIds <- 1..(MaxWrites + MaxChunks),
       KeepFor <- Retention, DeleteLag <- Grace

\* Publication implements the promise: every step of a replay, a drain, a
\* compaction, an import or a repair, and every crash between two of them, is a
\* step of Lineage, so a manifest a client was given stays downloadable until
\* the retention is over (commit_live_delta_compaction, retire_import_lineage,
\* repair_at).
ImplementsLineage == Shelf!KSpec

\* No work is stranded: when the vehicle has no outbox row, a client that
\* applies the lineage holds every materialised row (replay completes the row
\* only when nothing is left; the drain and the replay both start from it).
\* Rows an import rewrote under live collection's journal are apart.
QuietMeansConverged ==
  ~outbox.there /\ HasBase =>
     \A r \in Rows \ mixed : View(lin)[r] = mat[r]

\* No delta fits any more and the collector's suffix cannot be compacted:
\* imports and live deltas alternated until the chain was full.
ChainIsFull == PackCount(lin) + 1 > MaxChunks /\ CompactionPlan = 0

\* What is materialised reaches the client in the end: once the writers are
\* quiet the lineage says of every row what the row is (replay keeps the outbox
\* row scheduled until every mutation is published).
EventuallyConverged ==
  <>[](\A r \in Rows \ mixed : View(lin)[r] = mat[r])

\* The same, while the chain has room.
ConvergedOrFull ==
  <>[](ChainIsFull \/ \A r \in Rows \ mixed : View(lin)[r] = mat[r])

=============================================================================
