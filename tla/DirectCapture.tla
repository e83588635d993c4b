---------------------------- MODULE DirectCapture ----------------------------
(***************************************************************************)
(* One TeslaMate car read through an exported PostgreSQL snapshot and      *)
(* published as a full base or as sparse deltas of the last import         *)
(* (src/import/teslamate/direct.rs, fragments.rs, projection_state/*.rs    *)
(* and the delta writer of importer.rs).                                   *)
(*                                                                         *)
(* Rows are numbered in the spool's order (entity, then id); the value of  *)
(* a row is what its digest tells apart. A fragment is a set of rows that  *)
(* carries, beside the car, every parent its rows need. Byte limits have   *)
(* the shape of the row limits and are left out.                           *)
(*                                                                         *)
(* gsrc is the source now and gsnap the snapshot the lease exported; gprior*)
(* the digests of the last import; gview what a client has that applied    *)
(* every published pack, gpacks how many they are and gfinger the last     *)
(* fingerprint; gmax the row target of the attempt, gfrags its fragments   *)
(* and gcap its spool; gafter the cursor of the page read next; gbatches   *)
(* the delta batches; gstep where the import is; gmoves counts the changes *)
(* of the source.                                                          *)
(***************************************************************************)
EXTENDS Naturals, Sequences, FiniteSets, SequencesExt

CONSTANTS SampleCounts, FirstTarget, LastTarget, ChunkLimit, BatchRows, PageRows, MaxMoves

VARIABLES gsrc, gsnap, gprior, gview, gpacks, gfinger, gmax, gfrags, gcap, gafter,
          gbatches, gstep, gmoves

gvars == <<gsrc, gsnap, gprior, gview, gpacks, gfinger, gmax, gfrags, gcap, gafter,
           gbatches, gstep, gmoves>>

CarRow == 1
DriveRow == 2
PositionRow(i) == 2 + i
ChargeRow == 5
SampleRow(i) == 5 + i
StateRow == 8
UpdateRow == 9
NoCharge == 9
NoRows == [r \in {} |-> {}]
InRowOrder(rows) == SelectSeq([i \in 1..UpdateRow |-> i], LAMBDA r : r \in rows)

\* The drive is absent, open, or completed with one of two values; a position
\* is absent, alone or on the drive; the charge is absent (NoCharge) or has samples;
\* the update is open or done.
SourceRows ==
  {s \in [drive : {"none", "open", "one", "two"}, first : {"none", "alone", "on"},
          second : {"none", "on"}, samples : SampleCounts, update : {"open", "done"}] :
     s.drive = "none" => s.first # "on" /\ s.second # "on"}

-----------------------------------------------------------------------------
(* The projection *)

\* project_drive: an open drive is left for the next import.
ProjectDrive(s) == IF s.drive \in {"one", "two"} THEN {DriveRow} ELSE {}

\* write_positions: a position without a drive stands alone; one of a drive that
\* was not projected is skipped.
ProjectPositions(s) ==
  {PositionRow(i) : i \in {j \in 1..2 :
     LET p == IF j = 1 THEN s.first ELSE s.second
     IN p = "alone" \/ (p = "on" /\ ProjectDrive(s) # {})}}

ProjectCharge(s) == IF s.samples = NoCharge THEN {} ELSE {ChargeRow}
ProjectSamples(s) == IF s.samples = NoCharge THEN {} ELSE {SampleRow(i) : i \in 1..s.samples}

\* project_update: an update without an end is left for the next import.
ProjectUpdate(s) == IF s.update = "done" THEN {UpdateRow} ELSE {}

ProjectedRows(s) ==
  {CarRow, StateRow} \cup ProjectDrive(s) \cup ProjectPositions(s) \cup ProjectCharge(s)
    \cup ProjectSamples(s) \cup ProjectUpdate(s)

\* First pass of write_charges: the facts of all samples of the process.
ChargeFacts(s) == 1..s.samples

\* The value of a row: the car carries the firmware of the latest update, the
\* charge the facts of its samples, a position its drive.
ValueOf(s, r) ==
  CASE r = CarRow -> {s.update = "done"}
    [] r = DriveRow -> {s.drive}
    [] r = PositionRow(1) -> {s.first}
    [] r = ChargeRow -> ChargeFacts(s)
    [] OTHER -> {}

Projection(s) == [r \in ProjectedRows(s) |-> ValueOf(s, r)]

\* DirectProjectionFingerprint: every projected fact, bound to the raw drives.
Fingerprint(s) == <<Projection(s), s.drive>>

\* read_direct_source_counts: raw rows, projected or not.
CountOf(s) ==
  2 + (IF s.drive = "none" THEN 0 ELSE 1) + (IF s.first = "none" THEN 0 ELSE 1)
    + (IF s.second = "none" THEN 0 ELSE 1) + (IF s.samples = NoCharge THEN 0 ELSE 1 + s.samples)
    + 1

-----------------------------------------------------------------------------
(* Fragments *)

\* The rows of a lane in order, each with the parent its fragment must hold.
LaneOf(rows, Parent(_)) ==
  LET order == InRowOrder(rows)
  IN [i \in DOMAIN order |-> [row |-> order[i], parent |-> Parent(order[i])]]

DriveLane(s) == LaneOf(ProjectDrive(s), LAMBDA r : r)

PositionLane(s) ==
  LaneOf(ProjectPositions(s),
         LAMBDA r : IF r = PositionRow(1) /\ s.first = "alone" THEN r ELSE DriveRow)

EmptyChargeLane(s) == LaneOf(IF s.samples = 0 THEN {ChargeRow} ELSE {}, LAMBDA r : r)

SampleLane(s) == LaneOf(ProjectSamples(s), LAMBDA r : ChargeRow)

UpdateLane(s) == LaneOf(ProjectUpdate(s), LAMBDA r : r)

\* prepare_with_parent: after a flush the parent is repeated beside the child.
AfterFlush(e) == {e.row, e.parent}

\* prepare_sized: the fragment is flushed when the car, its rows and the new
\* ones exceed the target.
PlaceRow(a, e) ==
  LET more == {e.row, e.parent} \ a.acc
  IN IF 1 + Cardinality(a.acc \cup more) > a.target /\ a.acc # {}
     THEN [a EXCEPT !.done = Append(@, a.acc), !.acc = AfterFlush(e)]
     ELSE [a EXCEPT !.acc = @ \cup more]

\* One lane has its own accumulator, flushed at its end.
CutLane(lane, target) ==
  LET a == FoldLeft(PlaceRow, [acc |-> {}, done |-> <<>>, target |-> target], lane)
  IN IF a.acc = {} THEN a.done ELSE Append(a.done, a.acc)

\* write_from_session: the lanes in order; a car alone still makes a fragment.
Fragments(s, target) ==
  LET cut == CutLane(DriveLane(s), target) \o CutLane(PositionLane(s), target)
               \o CutLane(EmptyChargeLane(s), target) \o CutLane(SampleLane(s), target)
               \o CutLane(UpdateLane(s), target)
  IN IF cut = <<>> THEN <<{}>> ELSE cut

-----------------------------------------------------------------------------
(* The projection-state spool *)

NewSpool(limit) == [rows |-> NoRows, changed |-> {}, used |-> 0, limit |-> limit, failed |-> FALSE]

\* insert_current, existing_change: an exact repeat consumes nothing.
Counted(sp, r) == IF r \in DOMAIN sp.rows THEN 0 ELSE 1

\* record_if_changed and insert_current_and_changed: a repeat with another
\* digest is a conflict; a payload is kept when the last import differs.
RecordRow(sp, r) ==
  LET value == ValueOf(gsnap, r)
      conflict == r \in DOMAIN sp.rows /\ sp.rows[r] # value
      differs == ~(r \in DOMAIN gprior /\ gprior[r] = value)
  IN IF sp.failed \/ conflict \/ sp.used + Counted(sp, r) > sp.limit THEN [sp EXCEPT !.failed = TRUE]
     ELSE [sp EXCEPT !.rows = [x \in DOMAIN @ \cup {r} |-> IF x = r THEN value ELSE @[x]],
                     !.used = @ + Counted(sp, r),
                     !.changed = IF differs THEN @ \cup {r} ELSE @]

\* capture_written_snapshot: the states with the first fragment, then the rows
\* of each fragment with its car.
RecordFragments(frags, limit) ==
  LET rowsOf(f) == <<CarRow>> \o InRowOrder(f)
      all == <<StateRow>> \o FlattenSeq([i \in DOMAIN frags |-> rowsOf(frags[i])])
  IN FoldLeft(RecordRow, NewSpool(limit), all)

-----------------------------------------------------------------------------
(* The import *)

GIdle ==
  /\ gstep' = "idle" /\ gfrags' = <<>> /\ gcap' = NewSpool(0) /\ gafter' = 0 /\ gbatches' = <<>>

\* TeslaMate keeps writing.
MoveSource ==
  /\ gmoves < MaxMoves /\ gstep \in {"idle", "attempt"} /\ gmoves' = gmoves + 1
  /\ gsrc' \in SourceRows \ {gsrc}
  /\ UNCHANGED <<gsnap, gprior, gview, gpacks, gfinger, gmax, gfrags, gcap, gafter, gbatches, gstep>>

\* open_exported_snapshot_lease: counts, lanes and retries read one snapshot.
OpenLease ==
  /\ gstep = "idle"
  /\ gsnap' = gsrc /\ gmax' = FirstTarget /\ gstep' = "attempt"
  /\ UNCHANGED <<gsrc, gprior, gview, gpacks, gfinger, gfrags, gcap, gafter, gbatches, gmoves>>

\* next_fragment_limits, with a fresh spool for the next attempt.
NextTarget(t) == IF 2 * t > LastTarget THEN LastTarget ELSE 2 * t

\* write_direct_full_snapshot_once, retried with a doubled target while the
\* fragments are too many.
AttemptCapture ==
  /\ gstep = "attempt"
  /\ LET frags == Fragments(gsnap, gmax)
     IN IF Len(frags) > ChunkLimit
        THEN IF NextTarget(gmax) = gmax
             THEN GIdle /\ UNCHANGED gmax
             ELSE gmax' = NextTarget(gmax) /\ UNCHANGED <<gstep, gfrags, gcap, gafter, gbatches>>
        ELSE /\ gfrags' = frags /\ gcap' = RecordFragments(frags, CountOf(gsnap))
             /\ gstep' = IF gcap'.failed THEN "refused" ELSE "captured"
             /\ UNCHANGED <<gmax, gafter, gbatches>>
  /\ UNCHANGED <<gsrc, gsnap, gprior, gview, gpacks, gfinger, gmoves>>

\* promote_unchanged_direct_import: the fingerprint of the last import.
SkipUnchanged ==
  /\ gstep = "captured" /\ gpacks > 0 /\ gfinger = Fingerprint(gsnap)
  /\ GIdle
  /\ UNCHANGED <<gsrc, gsnap, gprior, gview, gpacks, gfinger, gmax, gmoves>>

Sealed == gstep = "captured" /\ ~(gpacks > 0 /\ gfinger = Fingerprint(gsnap))

\* tombstone_page: rows of the last import that are not current; never the car.
Tombstones == DOMAIN gprior \ (DOMAIN gcap.rows \cup {CarRow})

\* direct_delta_rows_from_capture without its visitor: how many batches.
BatchCount ==
  LET n == Cardinality(gcap.changed) + Cardinality(Tombstones)
  IN IF n = 0 THEN 1 ELSE (n + BatchRows - 1) \div BatchRows

\* The first base, or a new base when the batches exceed what is left of the
\* lineage (direct_delta_capacity_exhausted).
PublishFullBase ==
  /\ Sealed /\ (gpacks = 0 \/ gpacks + BatchCount > ChunkLimit)
  /\ gview' = [r \in {CarRow, StateRow} \cup UNION {gfrags[i] : i \in DOMAIN gfrags}
                 |-> ValueOf(gsnap, r)]
  /\ gpacks' = Len(gfrags) /\ gprior' = gcap.rows /\ gfinger' = Fingerprint(gsnap)
  /\ GIdle
  /\ UNCHANGED <<gsrc, gsnap, gmax, gmoves>>

StartDelta ==
  /\ Sealed /\ gpacks > 0 /\ gpacks + BatchCount <= ChunkLimit
  /\ gstep' = "changed" /\ gfrags' = <<>> /\ gafter' = 0
  /\ UNCHANGED <<gsrc, gsnap, gprior, gview, gpacks, gfinger, gmax, gcap, gbatches, gmoves>>

\* The rows a page of a table holds after the cursor, in order.
PageAfter(rows, after) ==
  LET later == InRowOrder({r \in rows : r > after})
  IN SubSeq(later, 1, IF Len(later) > PageRows THEN PageRows ELSE Len(later))

MoreAfter(rows, after) == Cardinality({r \in rows : r > after}) > PageRows

\* next_would_exceed, emit_direct_delta_batch: a full batch is closed before
\* the next row.
Batched(batches, entry) ==
  IF batches # <<>> /\ Len(batches[Len(batches)]) < BatchRows
  THEN [batches EXCEPT ![Len(batches)] = Append(@, entry)]
  ELSE Append(batches, <<entry>>)

\* Faulty variant: the next page starts one row further.
CursorSkipping(page) == page[Len(page)] + 1

\* The cursor is the last row of the page.
CursorOf(page) == page[Len(page)]

ChangedPage ==
  /\ gstep = "changed"
  /\ LET page == PageAfter(gcap.changed, gafter)
     IN /\ gbatches' = FoldLeft(LAMBDA b, r : Batched(b, <<"put", r>>), gbatches, page)
        /\ IF MoreAfter(gcap.changed, gafter)
           THEN gafter' = CursorOf(page) /\ UNCHANGED gstep
           ELSE gafter' = 0 /\ gstep' = "tombstones"
  /\ UNCHANGED <<gsrc, gsnap, gprior, gview, gpacks, gfinger, gmax, gfrags, gcap, gmoves>>

\* A page of the last import's rows; one without a tombstone still moves on.
TombstonePage ==
  /\ gstep = "tombstones"
  /\ LET page == PageAfter(DOMAIN gprior, gafter)
         gone == SelectSeq(page, LAMBDA r : r \in Tombstones)
         out == FoldLeft(LAMBDA b, r : Batched(b, <<"drop", r>>), gbatches, gone)
     IN IF MoreAfter(DOMAIN gprior, gafter)
        THEN gbatches' = out /\ gafter' = CursorOf(page) /\ UNCHANGED gstep
        ELSE /\ gbatches' = IF out = <<>> THEN <<<<<<"put", CarRow>>>>>> ELSE out
             /\ gafter' = 0 /\ gstep' = "finalize"
  /\ UNCHANGED <<gsrc, gsnap, gprior, gview, gpacks, gfinger, gmax, gfrags, gcap, gmoves>>

\* A client applies the rows of a delta pack in order.
ApplyRow(view, entry) ==
  IF entry[1] = "drop" THEN [r \in DOMAIN view \ {entry[2]} |-> view[r]]
  ELSE [r \in DOMAIN view \cup {entry[2]} |->
          IF r = entry[2] THEN ValueOf(gsnap, r) ELSE view[r]]

\* finalize_import_generation_delta_successors...: one transaction.
PublishDeltas ==
  /\ gstep = "finalize"
  /\ gview' = FoldLeft(ApplyRow, gview, FlattenSeq(gbatches))
  /\ gpacks' = gpacks + Len(gbatches) /\ gprior' = gcap.rows /\ gfinger' = Fingerprint(gsnap)
  /\ GIdle
  /\ UNCHANGED <<gsrc, gsnap, gmax, gmoves>>

\* Any error or a crash drops the attempt, its spool and its packs.
InterruptCapture ==
  /\ gstep # "idle"
  /\ GIdle
  /\ UNCHANGED <<gsrc, gsnap, gprior, gview, gpacks, gfinger, gmax, gmoves>>

-----------------------------------------------------------------------------
GStart ==
  /\ gsnap = gsrc
  /\ gprior = NoRows /\ gview = NoRows /\ gpacks = 0 /\ gfinger = <<>>
  /\ gmax = FirstTarget /\ gfrags = <<>> /\ gcap = NewSpool(0) /\ gafter = 0
  /\ gbatches = <<>> /\ gstep = "idle" /\ gmoves = 0

GInit == gsrc \in SourceRows /\ GStart

GNext ==
  \/ MoveSource \/ OpenLease \/ AttemptCapture \/ SkipUnchanged \/ PublishFullBase
  \/ StartDelta \/ ChangedPage \/ TombstonePage \/ PublishDeltas \/ InterruptCapture

-----------------------------------------------------------------------------
\* What clients hold is always one import of one source snapshot, and the spool
\* kept for the next import says the same: the fingerprint names a source state
\* whose projection equals both. Holds over bases, replaced bases and delta
\* batches, whatever the fragment target, the page and the batch size.
DeltasAreExact ==
  gpacks > 0 => gview = gfinger[1] /\ gprior = gfinger[1]

\* A source that can be projected is never refused by its own spool: the row
\* limit computed from the counts admits every fragment with its repeated
\* parents, and a repeated parent always has the same digest.
SpoolAdmitsSource == gstep # "refused"

\* A capture is exact in its changes and in what it admits.
CaptureIsExact == DeltasAreExact /\ SpoolAdmitsSource
=============================================================================
